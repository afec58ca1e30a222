------------------------- MODULE ServiceSafety_proofs -------------------------
(***************************************************************************)
(* What the services around the payments keep, however many requests run   *)
(* at once: the cache of invoices, the address of a payment request, the   *)
(* notices to merchants, the default logo, the reactions to comments.      *)
(* Each part finds the invariant its property is a consequence of and      *)
(* shows that every action keeps it.                                       *)
(***************************************************************************)
EXTENDS PaymentJudgement, InvoiceCache, PaymentRequests, Notices, Logos,
        InvoiceComments, FiniteSetTheorems, TLAPS

(* Two facts about small sets.                                             *)
LEMMA AtMostOneElement ==
  ASSUME NEW S, \A a, b \in S : a = b
  PROVE  IsFiniteSet(S) /\ Cardinality(S) \in Nat /\ Cardinality(S) <= 1
  <1>1. CASE S = {}
    BY <1>1, FS_EmptySet
  <1>2. CASE S # {}
    <2>1. PICK a \in S : TRUE
      BY <1>2
    <2>2. S = {a}
      BY <2>1
    <2> QED BY SMTT(30), <2>2, FS_Singleton
  <1> QED BY <1>1, <1>2

LEMMA OneElementCounts ==
  ASSUME NEW S, \A a, b \in S : a = b, S # {}
  PROVE  Cardinality(S) = 1
  <1>1. PICK a \in S : TRUE
    OBVIOUS
  <1>2. S = {a}
    BY <1>1
  <1> QED BY <1>2, FS_Singleton
-------------------------------------------------------------------------------
(***************************************************************************)
(* The cache of invoices.                                                  *)
(***************************************************************************)

(* A reader's copy is at most as much out of date as the reading is old,   *)
(* and what it leaves in Redis lags behind by no more than that.           *)
CopiesAge ==
  /\ \A k \in Keys : copy[k].content.since <= copy[k].age + FillBound
  /\ \A r \in Readers : reader[r].content.since <= reader[r].age

CacheInv == CacheTypeOK /\ CopiesAge

LEMMA CacheConstants ==
  /\ Lifetime \in Nat /\ Lifetime > 0 /\ FillBound \in Nat /\ FillBound > 0
  /\ MaxCacheFaults \in Nat
  BY CacheAssumption

LEMMA FreshContents == Fresh \in Contents /\ Fresh.since = -1
  BY CacheConstants DEF Fresh, Contents, Current

LEMMA NotReadingReader ==
  NotReading \in [phase: {"idle", "missed", "filling"}, key: Keys,
                  age: 0..FillBound, content: Contents]
  BY FreshContents, CacheConstants DEF NotReading, Keys

LEMMA NoCopyTyped == NoCopy \in [age: 0..Lifetime, content: Contents]
  BY FreshContents, CacheConstants DEF NoCopy, Absent

(* A write makes what was current out of date, from this moment on.        *)
LEMMA OutdatedContents ==
  ASSUME NEW c \in Contents, NEW cause \in {"kept", "cached", "inFlight"},
         NEW a \in Nat, c.since <= a
  PROVE  Outdated(c, cause) \in Contents /\ Outdated(c, cause).since <= a
  <1>1. CASE c.since = Current
    <2>1. Outdated(c, cause) = [since |-> 0, cause |-> cause]
      BY <1>1 DEF Outdated
    <2>2. 0 \in Current..(Lifetime + FillBound)
      BY CacheConstants DEF Current
    <2> QED BY <2>1, <2>2 DEF Contents
  <1>2. CASE c.since # Current
    BY <1>2 DEF Outdated
  <1> QED BY <1>1, <1>2

LEMMA CacheReads ==
  ASSUME CacheInv,
         \/ \E k \in Keys : getFromCache(k)
         \/ \E r \in Readers, k \in Keys : CacheMiss(r, k) \/ ReadRow(r, k)
         \/ \E r \in Readers : ReadEnds(r)
  PROVE  CacheInv'
  <1>1. CASE \E k \in Keys : getFromCache(k)
    BY <1>1 DEF getFromCache, AgeAfterHit, CacheInv, CacheTypeOK, CopiesAge
  <1>2. ASSUME NEW r \in Readers, NEW k \in Keys, CacheMiss(r, k)
        PROVE  CacheInv'
    <2> DEFINE read == [NotReading EXCEPT !.phase = "missed", !.key = k]
    <2>1. reader' = [reader EXCEPT ![r] = read] /\ UNCHANGED <<copy, deleting, cacheFaults>>
      BY <1>2 DEF CacheMiss
    <2>2. /\ read \in [phase: {"idle", "missed", "filling"}, key: Keys,
                       age: 0..FillBound, content: Contents]
          /\ read.content.since = -1 /\ read.age = 0
      BY NotReadingReader, FreshContents DEF NotReading
    <2> HIDE DEF read
    <2> QED BY <2>1, <2>2 DEF CacheInv, CacheTypeOK, CopiesAge
  <1>3. ASSUME NEW r \in Readers, NEW k \in Keys, ReadRow(r, k)
        PROVE  CacheInv'
    <2> DEFINE read == [NotReading EXCEPT !.phase = "filling", !.key = k]
    <2>1. reader' = [reader EXCEPT ![r] = read] /\ UNCHANGED <<copy, deleting, cacheFaults>>
      BY <1>3 DEF ReadRow
    <2>2. /\ read \in [phase: {"idle", "missed", "filling"}, key: Keys,
                       age: 0..FillBound, content: Contents]
          /\ read.content.since = -1 /\ read.age = 0
      BY NotReadingReader, FreshContents DEF NotReading
    <2> HIDE DEF read
    <2> QED BY <2>1, <2>2 DEF CacheInv, CacheTypeOK, CopiesAge
  <1>4. ASSUME NEW r \in Readers, ReadEnds(r)
        PROVE  CacheInv'
    <2>1. NotReading.content.since = -1 /\ NotReading.age = 0
      BY FreshContents DEF NotReading
    <2> QED BY <1>4, <2>1, NotReadingReader DEF ReadEnds, CacheInv, CacheTypeOK, CopiesAge
  <1> QED BY <1>1, <1>2, <1>3, <1>4

LEMMA CacheFills ==
  ASSUME CacheInv, NEW r \in Readers, cacheInvoice(r)
  PROVE  CacheInv'
  <1> DEFINE filled == [age |-> 0, content |-> reader[r].content]
  <1>1. /\ copy' = [copy EXCEPT ![reader[r].key] = filled]
        /\ reader' = [reader EXCEPT ![r] = NotReading]
        /\ UNCHANGED <<deleting, cacheFaults>>
    BY DEF cacheInvoice
  <1>2. filled \in [age: 0..Lifetime, content: Contents]
    BY CacheConstants DEF CacheInv, CacheTypeOK
  <1>3. filled.content.since <= FillBound /\ filled.age = 0
    BY CacheConstants DEF CacheInv, CacheTypeOK, CopiesAge, Contents, Current
  <1>4. NotReading.content.since = -1 /\ NotReading.age = 0
    BY FreshContents DEF NotReading
  <1> HIDE DEF filled
  <1>5. CacheTypeOK'
    BY <1>1, <1>2, NotReadingReader DEF CacheInv, CacheTypeOK
  <1>6. \A k \in Keys : copy'[k].content.since <= copy'[k].age + FillBound
    BY <1>1, <1>3, CacheConstants DEF CacheInv, CacheTypeOK, CopiesAge
  <1>7. \A q \in Readers : reader'[q].content.since <= reader'[q].age
    BY <1>1, <1>4 DEF CacheInv, CacheTypeOK, CopiesAge
  <1> QED BY <1>5, <1>6, <1>7 DEF CacheInv, CopiesAge

(* What a commit does to every copy and reader.                            *)
LEMMA CacheWrites ==
  ASSUME CacheInv, NEW deletedKeys, OutdateCopies(deletedKeys), OutdateReaders,
         deleting' \subseteq Writers, cacheFaults' \in 0..MaxCacheFaults
  PROVE  CacheInv'
  <1>1. ASSUME NEW k \in Keys
        PROVE  /\ copy'[k] \in [age: 0..Lifetime, content: Contents]
               /\ copy'[k].content.since <= copy'[k].age + FillBound
    <2> DEFINE cause == IF k \in deletedKeys THEN "cached" ELSE "kept"
    <2>1. /\ copy[k] \in [age: 0..Lifetime, content: Contents]
          /\ copy[k].content.since <= copy[k].age + FillBound
      BY DEF CacheInv, CacheTypeOK, CopiesAge
    <2>2. copy'[k] = IF copy[k].age = Absent THEN copy[k]
                     ELSE [copy[k] EXCEPT !.content = Outdated(copy[k].content, cause)]
      BY DEF OutdateCopies
    <2>3. cause \in {"kept", "cached", "inFlight"}
      OBVIOUS
    <2> HIDE DEF cause
    <2>4. /\ Outdated(copy[k].content, cause) \in Contents
          /\ Outdated(copy[k].content, cause).since <= copy[k].age + FillBound
      BY <2>1, <2>3, OutdatedContents, CacheConstants
    <2> QED BY <2>1, <2>2, <2>4
  <1>2. ASSUME NEW r \in Readers
        PROVE  /\ reader'[r] \in [phase: {"idle", "missed", "filling"}, key: Keys,
                                  age: 0..FillBound, content: Contents]
               /\ reader'[r].content.since <= reader'[r].age
    <2>1. /\ reader[r] \in [phase: {"idle", "missed", "filling"}, key: Keys,
                            age: 0..FillBound, content: Contents]
          /\ reader[r].content.since <= reader[r].age
      BY DEF CacheInv, CacheTypeOK, CopiesAge
    <2>2. reader'[r] = IF reader[r].phase = "filling"
                       THEN [reader[r] EXCEPT !.content =
                               Outdated(reader[r].content, "inFlight")]
                       ELSE reader[r]
      BY DEF OutdateReaders
    <2>3. /\ Outdated(reader[r].content, "inFlight") \in Contents
          /\ Outdated(reader[r].content, "inFlight").since <= reader[r].age
      BY <2>1, OutdatedContents, CacheConstants
    <2> QED BY <2>1, <2>2, <2>3
  <1>3. copy' = [k \in Keys |-> copy'[k]]
    BY DEF OutdateCopies
  <1>4. reader' = [r \in Readers |-> reader'[r]]
    BY DEF OutdateReaders
  <1> HIDE DEF OutdateCopies, OutdateReaders
  <1>5. copy' \in [Keys -> [age: 0..Lifetime, content: Contents]]
    BY <1>1, <1>3
  <1>6. reader' \in [Readers -> [phase: {"idle", "missed", "filling"}, key: Keys,
                                 age: 0..FillBound, content: Contents]]
    BY <1>2, <1>4
  <1> QED BY <1>1, <1>2, <1>5, <1>6 DEF CacheInv, CacheTypeOK, CopiesAge

LEMMA CacheDeletes ==
  ASSUME CacheInv, NEW w \in Writers, DeleteFromRedisCache(w) \/ DeleteFails(w)
  PROVE  CacheInv'
  <1>1. CASE DeleteFromRedisCache(w)
    <2>1. NoCopy.age = Lifetime /\ NoCopy.content.since = -1
      BY FreshContents DEF NoCopy, Absent
    <2> QED BY <1>1, <2>1, NoCopyTyped, CacheConstants
            DEF DeleteFromRedisCache, CacheInv, CacheTypeOK, CopiesAge
  <1>2. CASE DeleteFails(w)
    BY <1>2, CacheConstants DEF DeleteFails, CacheInv, CacheTypeOK, CopiesAge
  <1> QED BY <1>1, <1>2

LEMMA CacheAges ==
  ASSUME CacheInv, CacheTick
  PROVE  CacheInv'
  <1>1. ASSUME NEW k \in Keys
        PROVE  /\ copy'[k] \in [age: 0..Lifetime, content: Contents]
               /\ copy'[k].content.since <= copy'[k].age + FillBound
    <2>1. /\ copy[k] \in [age: 0..Lifetime, content: Contents]
          /\ copy[k].content.since <= copy[k].age + FillBound
      BY DEF CacheInv, CacheTypeOK, CopiesAge
    <2>2. copy'[k] = IF copy[k].age + 1 >= Lifetime THEN NoCopy
                     ELSE [age |-> copy[k].age + 1, content |-> Older(copy[k].content)]
      BY DEF CacheTick
    <2>3. NoCopy.age = Lifetime /\ NoCopy.content.since = -1
      BY FreshContents DEF NoCopy, Absent
    <2>4. ASSUME copy[k].age + 1 < Lifetime
          PROVE  /\ Older(copy[k].content) \in Contents
                 /\ Older(copy[k].content).since <= copy[k].age + 1 + FillBound
      BY <2>1, <2>4, CacheConstants DEF Older, Contents, Current
    <2> QED BY <2>1, <2>2, <2>3, <2>4, NoCopyTyped, CacheConstants
  <1>2. ASSUME NEW r \in Readers
        PROVE  /\ reader'[r] \in [phase: {"idle", "missed", "filling"}, key: Keys,
                                  age: 0..FillBound, content: Contents]
               /\ reader'[r].content.since <= reader'[r].age
    <2>1. /\ reader[r] \in [phase: {"idle", "missed", "filling"}, key: Keys,
                            age: 0..FillBound, content: Contents]
          /\ reader[r].content.since <= reader[r].age
      BY DEF CacheInv, CacheTypeOK, CopiesAge
    <2>2. /\ reader[r].phase = "filling" => reader[r].age < FillBound
          /\ reader'[r] = IF reader[r].phase = "filling"
                          THEN [reader[r] EXCEPT !.age = reader[r].age + 1,
                                                 !.content = Older(reader[r].content)]
                          ELSE reader[r]
      BY DEF CacheTick
    <2>3. ASSUME reader[r].age < FillBound
          PROVE  /\ Older(reader[r].content) \in Contents
                 /\ Older(reader[r].content).since <= reader[r].age + 1
                 /\ reader[r].age + 1 \in 0..FillBound
      BY <2>1, <2>3, CacheConstants DEF Older, Contents, Current
    <2>4. CASE reader[r].phase = "filling"
      <3> DEFINE older == Older(reader[r].content)
      <3>1. reader'[r] = [phase |-> "filling", key |-> reader[r].key,
                          age |-> reader[r].age + 1, content |-> older]
        BY <2>1, <2>2, <2>4
      <3>2. /\ older \in Contents /\ older.since <= reader[r].age + 1
            /\ reader[r].age + 1 \in 0..FillBound /\ reader[r].key \in Keys
        BY <2>1, <2>2, <2>3, <2>4
      <3> HIDE DEF older
      <3> QED BY <3>1, <3>2
    <2>5. CASE reader[r].phase # "filling"
      BY <2>1, <2>2, <2>5
    <2> QED BY <2>4, <2>5
  <1>3. /\ copy' = [k \in Keys |-> copy'[k]]
        /\ reader' = [r \in Readers |-> reader'[r]]
        /\ deleting' = deleting /\ cacheFaults' = cacheFaults
    BY DEF CacheTick
  <1>4. copy' \in [Keys -> [age: 0..Lifetime, content: Contents]]
    BY <1>1, <1>3
  <1>5. reader' \in [Readers -> [phase: {"idle", "missed", "filling"}, key: Keys,
                                 age: 0..FillBound, content: Contents]]
    BY <1>2, <1>3
  <1> QED BY <1>1, <1>2, <1>3, <1>4, <1>5 DEF CacheInv, CacheTypeOK, CopiesAge

LEMMA CacheBegins == CacheInit => CacheInv
  <1>1. ASSUME CacheInit PROVE CacheTypeOK
    BY <1>1, NoCopyTyped, NotReadingReader, CacheConstants DEF CacheInit, CacheTypeOK
  <1>2. ASSUME CacheInit PROVE CopiesAge
    <2>1. /\ NoCopy.content.since = -1 /\ NoCopy.age = Lifetime
          /\ NotReading.content.since = -1 /\ NotReading.age = 0
      BY FreshContents DEF NoCopy, NotReading, Absent
    <2> QED BY <1>2, <2>1, CacheConstants DEF CacheInit, CopiesAge
  <1> QED BY <1>1, <1>2 DEF CacheInv

LEMMA CacheInvKept == CacheInv /\ [CacheNext]_cacheVars => CacheInv'
  <1> SUFFICES ASSUME CacheInv, [CacheNext]_cacheVars PROVE CacheInv'
    OBVIOUS
  <1>1. CASE UNCHANGED cacheVars
    BY <1>1 DEF cacheVars, CacheInv, CacheTypeOK, CopiesAge
  <1>2. ASSUME NEW w \in Writers, CommitWrite(w) \/ CommitSilently(w)
        PROVE  CacheInv'
    <2>1. CASE CommitWrite(w)
      BY <1>2, <2>1, CacheWrites DEF CommitWrite, CacheInv, CacheTypeOK
    <2>2. CASE CommitSilently(w)
      BY <1>2, <2>2, CacheWrites DEF CommitSilently, CacheInv, CacheTypeOK
    <2> QED BY <1>2, <2>1, <2>2
  <1>3. ASSUME NEW r \in Readers, getInvoiceById(r) \/ getInvoiceSearch(r)
        PROVE  CacheInv'
    BY <1>3, CacheReads DEF getInvoiceById, getInvoiceSearch, Keys
  <1>4. CASE CacheTick
    BY <1>4, CacheAges
  <1> QED BY <1>1, <1>2, <1>3, <1>4, CacheReads, CacheFills, CacheDeletes DEF CacheNext

(* The cache of internal/invoice: what a reader is served changed no       *)
(* longer ago than 90 seconds and the time a fill may take, whichever      *)
(* writers delete the key and however the readers' fills are delayed.      *)
THEOREM CacheServesWithinLifetime == CacheSpec => []ServedWithinLifetime
  <1>1. CacheInv => ServedWithinLifetime
    BY CacheConstants
    DEF CacheInv, CacheTypeOK, CopiesAge, ServedWithinLifetime, Contents, Current, Absent
  <1> QED BY <1>1, CacheBegins, CacheInvKept, PTL DEF CacheSpec

(* A copy can only be said to have been in the cache when a write that     *)
(* deletes the key committed if it was: no reader carries one.             *)
NoneCarried == \A r \in Readers : reader[r].content.cause # "cached"

DeletionInv == CacheInv /\ NoneCarried /\ DeletedAfterWrite

LEMMA ChangedNothing ==
  /\ NoCopy.content.cause = "none" /\ NotReading.content.cause = "none"
  /\ \A c \in Contents : Older(c).cause = c.cause
  /\ \A c \in Contents : \A cause : Outdated(c, cause).cause \in {c.cause, cause}
  BY DEF NoCopy, NotReading, Fresh, Older, Outdated, Contents

(* Who overtook the deletion is a reader, and its copy says so.            *)
LEMMA NoneCarriedKept ==
  ASSUME CacheInv, NoneCarried, [CacheNext]_cacheVars
  PROVE  NoneCarried'
  <1> SUFFICES ASSUME NEW r \in Readers
               PROVE  reader'[r].content.cause # "cached"
    BY DEF NoneCarried
  <1>0. /\ reader \in [Readers -> [phase: {"idle", "missed", "filling"}, key: Keys,
                                   age: 0..FillBound, content: Contents]]
        /\ reader[r].content.cause # "cached"
    BY DEF CacheInv, CacheTypeOK, NoneCarried
  <1>1. reader[r].content \in Contents
    BY <1>0
  <1>2. ASSUME NEW q \in Readers,
               \/ \E k \in Keys : CacheMiss(q, k) \/ ReadRow(q, k)
               \/ cacheInvoice(q) \/ ReadEnds(q)
        PROVE  reader'[r].content.cause # "cached"
    <2>1. ASSUME NEW k \in Keys, CacheMiss(q, k) \/ ReadRow(q, k)
          PROVE  reader'[r].content.cause # "cached"
      BY ZenonT(60), <1>0, <2>1, ChangedNothing DEF CacheMiss, ReadRow, NotReading
    <2>2. CASE cacheInvoice(q) \/ ReadEnds(q)
      BY <1>0, <2>2, ChangedNothing DEF cacheInvoice, ReadEnds
    <2> QED BY <1>2, <2>1, <2>2
  <1>3. CASE OutdateReaders
    BY <1>0, <1>1, <1>3, ChangedNothing DEF OutdateReaders
  <1>4. CASE CacheTick
    BY ZenonT(60), <1>0, <1>1, <1>4, ChangedNothing DEF CacheTick
  <1>5. CASE UNCHANGED reader
    BY <1>0, <1>5
  <1>6. ASSUME NEW q \in Readers, getInvoiceById(q) \/ getInvoiceSearch(q)
        PROVE  \E k \in Keys : ReadRow(q, k)
    BY <1>6 DEF getInvoiceById, getInvoiceSearch, Keys
  <1> QED BY <1>2, <1>3, <1>4, <1>5, <1>6
          DEF CacheNext, getFromCache, CommitWrite, CommitSilently,
              DeleteFromRedisCache, DeleteFails, cacheVars

LEMMA DeletionStep ==
  ASSUME CacheInv, NoneCarried, DeletedAfterWrite, [CacheNext]_cacheVars
  PROVE  DeletedAfterWrite'
  <1> SUFFICES ASSUME copy'[OwnerKey].content.cause = "cached"
               PROVE  deleting' # {} \/ cacheFaults' > 0
    BY DEF DeletedAfterWrite
  <1>0. /\ copy \in [Keys -> [age: 0..Lifetime, content: Contents]]
        /\ OwnerKey \in Keys /\ cacheFaults \in Nat
        /\ copy[OwnerKey].content.cause = "cached" => deleting # {} \/ cacheFaults > 0
    BY CacheConstants DEF CacheInv, CacheTypeOK, DeletedAfterWrite, Keys
  <1>1. copy[OwnerKey].content \in Contents
    BY <1>0
  <1>2. CASE \E k \in Keys : getFromCache(k)
    BY <1>0, <1>2 DEF getFromCache
  <1>3. ASSUME NEW r \in Readers, cacheInvoice(r)
        PROVE  deleting' # {} \/ cacheFaults' > 0
    BY <1>0, <1>3 DEF cacheInvoice, NoneCarried
  <1>4. ASSUME NEW w \in Writers, CommitWrite(w)
        PROVE  deleting' # {} \/ cacheFaults' > 0
    BY <1>4 DEF CommitWrite
  <1>5. ASSUME NEW w \in Writers, CommitSilently(w)
        PROVE  deleting' # {} \/ cacheFaults' > 0
    <2>1. copy'[OwnerKey].content
            \in {copy[OwnerKey].content, Outdated(copy[OwnerKey].content, "kept")}
      BY <1>0, <1>5 DEF CommitSilently, OutdateCopies
    <2> QED BY <1>0, <1>1, <1>5, <2>1, ChangedNothing DEF CommitSilently
  <1>6. ASSUME NEW w \in Writers, DeleteFromRedisCache(w)
        PROVE  deleting' # {} \/ cacheFaults' > 0
    BY <1>0, <1>6, ChangedNothing DEF DeleteFromRedisCache, DeletedKey
  <1>7. ASSUME NEW w \in Writers, DeleteFails(w)
        PROVE  deleting' # {} \/ cacheFaults' > 0
    BY <1>0, <1>7 DEF DeleteFails
  <1>8. CASE CacheTick
    <2>1. copy'[OwnerKey].content.cause
            \in {"none", copy[OwnerKey].content.cause}
      BY <1>0, <1>1, <1>8, ChangedNothing DEF CacheTick
    <2> QED BY <1>0, <1>8, <2>1 DEF CacheTick
  <1>9. CASE UNCHANGED <<copy, deleting, cacheFaults>>
    BY <1>0, <1>9
  <1> QED BY <1>2, <1>3, <1>4, <1>5, <1>6, <1>7, <1>8, <1>9
          DEF CacheNext, CacheMiss, getInvoiceById, getInvoiceSearch, ReadRow, ReadEnds,
              cacheVars

(* The owner's view that was in the cache when a write committed is gone   *)
(* once the writer's deletion is done, unless an error kept it: what is    *)
(* old after that was brought by a reader or left by a silent writer.      *)
THEOREM CopyDeletedAfterWrite == CacheSpec => []DeletedAfterWrite
  <1>1. CacheInit => DeletionInv
    BY CacheBegins, ChangedNothing
    DEF CacheInit, DeletionInv, NoneCarried, DeletedAfterWrite, Keys
  <1>2. DeletionInv /\ [CacheNext]_cacheVars => DeletionInv'
    BY CacheInvKept, NoneCarriedKept, DeletionStep DEF DeletionInv
  <1>3. DeletionInv => DeletedAfterWrite
    BY DEF DeletionInv
  <1> QED BY <1>1, <1>2, <1>3, PTL DEF CacheSpec
-------------------------------------------------------------------------------
(***************************************************************************)
(* Wallets and payment requests.                                           *)
(***************************************************************************)
Addresses == Creators \cup {NoAddress}
CreatorPhases == {"idle", "counted", "inserted", "created", "refused"}
SentStatuses == {"draft", "sent", "viewed", "overdue", "expired"}
WalletRows == [address: Creators, tag: Nat, is_primary: BOOLEAN]

RequestsShape ==
  /\ wallets \subseteq WalletRows
  /\ creator \in [Creators -> [phase: CreatorPhases, count: Nat]]
  /\ sent \in [status: SentStatuses, recipient: Addresses]
  /\ shown \subseteq Creators

(* The first wallet is the only one: whoever counted found none, and the   *)
(* index lets one of them insert at a time.                                *)
FirstWalletOnly ==
  /\ \A v, w \in wallets : v = w
  /\ \A w \in wallets : w.tag = 1 /\ w.is_primary
  /\ \A c \in Creators :
       creator[c].phase \in {"counted", "inserted"} => creator[c].count = 0
  /\ \A c \in Creators : creator[c].phase = "inserted" => wallets = {}
  /\ \A c, d \in Creators :
       creator[c].phase = "inserted" /\ creator[d].phase = "inserted" => c = d

(* An address an invoice has, or a payer saw, is that of the wallet.       *)
AddressIsWallet ==
  /\ sent.recipient # NoAddress => sent.recipient \in PrimaryWallets
  /\ shown \subseteq PrimaryWallets

RequestsInv == RequestsShape /\ FirstWalletOnly /\ AddressIsWallet

LEMMA PrimaryIsWallet ==
  ASSUME RequestsInv
  PROVE  /\ PrimaryWallets = {w.address : w \in wallets}
         /\ PrimaryWallets \subseteq Creators
         /\ \A a, b \in PrimaryWallets : a = b
  BY DEF RequestsInv, RequestsShape, FirstWalletOnly, PrimaryWallets, WalletRows

LEMMA RecipientsAre ==
  ASSUME RequestsInv, NEW r \in Recipients
  PROVE  /\ r \in Addresses
         /\ r # NoAddress => r \in PrimaryWallets
  BY PrimaryIsWallet, RequestsAssumption
  DEF Recipients, RequestsInv, RequestsShape, AddressIsWallet, Addresses

LEMMA WalletCount ==
  ASSUME RequestsInv
  PROVE  /\ Cardinality(wallets) \in Nat /\ Cardinality(wallets) <= 1
         /\ Cardinality(wallets) < 1 => wallets = {}
  <1>1. \A v, w \in wallets : v = w
    BY DEF RequestsInv, FirstWalletOnly
  <1>2. Cardinality(wallets) \in Nat /\ Cardinality(wallets) <= 1
    BY <1>1, AtMostOneElement
  <1>3. wallets # {} => Cardinality(wallets) = 1
    BY <1>1, OneElementCounts
  <1> QED BY <1>2, <1>3

(* A creation up to its commit leaves everything else alone.               *)
LEMMA CreationSteps ==
  ASSUME RequestsInv, NEW c \in Creators,
         CountWallets(c) \/ CreateWallet(c) \/ CreationFails(c)
  PROVE  RequestsInv'
  <1>1. wallets' = wallets /\ sent' = sent /\ shown' = shown
    BY DEF CountWallets, CreateWallet, CreationFails
  <1>2. AddressIsWallet'
    BY <1>1 DEF RequestsInv, AddressIsWallet, PrimaryWallets
  <1>3. CASE CountWallets(c)
    <2>1. CASE Cardinality(wallets) >= 1
      <3>1. creator' = [creator EXCEPT ![c].phase = "refused"]
        BY <1>3, <2>1 DEF CountWallets
      <3>2. RequestsShape'
        BY <1>1, <3>1 DEF RequestsInv, RequestsShape, CreatorPhases
      <3>3. FirstWalletOnly'
        BY <1>1, <3>1 DEF RequestsInv, RequestsShape, FirstWalletOnly
      <3> QED BY <1>2, <3>2, <3>3 DEF RequestsInv
    <2>2. CASE ~ (Cardinality(wallets) >= 1)
      <3>1. Cardinality(wallets) = 0
        BY <2>2, WalletCount
      <3>2. creator' = [creator EXCEPT ![c] = [phase |-> "counted", count |-> 0]]
        BY <1>3, <2>2, <3>1 DEF CountWallets
      <3>3. RequestsShape'
        BY <1>1, <3>2 DEF RequestsInv, RequestsShape, CreatorPhases
      <3>4. FirstWalletOnly'
        BY <1>1, <3>2 DEF RequestsInv, RequestsShape, FirstWalletOnly
      <3> QED BY <1>2, <3>3, <3>4 DEF RequestsInv
    <2> QED BY <2>1, <2>2
  <1>4. CASE CreateWallet(c)
    <2>1. creator[c].phase = "counted" /\ creator[c].count = 0
      BY <1>4 DEF CreateWallet, RequestsInv, FirstWalletOnly
    <2>2. CASE TagConflicts(creator[c].count + 1) = {}
               /\ creator' = [creator EXCEPT ![c].phase = "inserted"]
      <3>1. \A w \in wallets : w.tag = 1
        BY DEF RequestsInv, FirstWalletOnly
      <3>2. wallets = {} /\ \A d \in Creators : creator[d].phase # "inserted"
        BY <2>1, <2>2, <3>1 DEF TagConflicts, RequestsInv, FirstWalletOnly
      <3>3. RequestsShape'
        BY <1>1, <2>2 DEF RequestsInv, RequestsShape, CreatorPhases
      <3>4. FirstWalletOnly'
        BY <1>1, <2>1, <2>2, <3>2 DEF RequestsInv, RequestsShape, FirstWalletOnly
      <3> QED BY <1>2, <3>3, <3>4 DEF RequestsInv
    <2>3. CASE creator' = [creator EXCEPT ![c].phase = "refused"]
      <3>1. RequestsShape'
        BY <1>1, <2>3 DEF RequestsInv, RequestsShape, CreatorPhases
      <3>2. FirstWalletOnly'
        BY <1>1, <2>3 DEF RequestsInv, RequestsShape, FirstWalletOnly
      <3> QED BY <1>2, <3>1, <3>2 DEF RequestsInv
    <2> QED BY <1>4, <2>2, <2>3 DEF CreateWallet
  <1>5. CASE CreationFails(c)
    <2>1. creator' = [creator EXCEPT ![c].phase = "refused"]
      BY <1>5 DEF CreationFails
    <2>2. RequestsShape'
      BY <1>1, <2>1 DEF RequestsInv, RequestsShape, CreatorPhases
    <2>3. FirstWalletOnly'
      BY <1>1, <2>1 DEF RequestsInv, RequestsShape, FirstWalletOnly
    <2> QED BY <1>2, <2>2, <2>3 DEF RequestsInv
  <1> QED BY <1>3, <1>4, <1>5

LEMMA WalletCommits ==
  ASSUME RequestsInv, NEW c \in Creators, CommitWallet(c)
  PROVE  RequestsInv'
  <1> DEFINE row == [address |-> c, tag |-> creator[c].count + 1,
                     is_primary |-> creator[c].count = 0]
  <1>1. /\ wallets = {} /\ creator[c].count = 0
        /\ \A d \in Creators : creator[d].phase = "inserted" => d = c
    BY DEF CommitWallet, RequestsInv, FirstWalletOnly
  <1>2. row \in WalletRows /\ row.tag = 1 /\ row.is_primary
    <2>1. creator[c].count + 1 = 1
      BY <1>1
    <2>2. (creator[c].count = 0) = TRUE
      BY <1>1
    <2>3. row = [address |-> c, tag |-> 1, is_primary |-> TRUE]
      BY <2>1, <2>2
    <2> QED BY <2>3 DEF WalletRows
  <1>3. /\ wallets' = wallets \cup {row}
        /\ creator' = [creator EXCEPT ![c].phase = "created"]
        /\ sent' = sent /\ shown' = shown
    BY DEF CommitWallet
  <1> HIDE DEF row
  <1>4. RequestsShape'
    BY <1>2, <1>3 DEF RequestsInv, RequestsShape, CreatorPhases
  <1>5. FirstWalletOnly'
    BY <1>1, <1>2, <1>3 DEF RequestsInv, RequestsShape, FirstWalletOnly
  <1>6. sent.recipient = NoAddress /\ shown = {}
    BY <1>1 DEF RequestsInv, AddressIsWallet, PrimaryWallets
  <1>7. AddressIsWallet'
    BY <1>3, <1>6 DEF AddressIsWallet
  <1> QED BY <1>4, <1>5, <1>7 DEF RequestsInv

(* The invoice gets a recipient, if at all, from the wallet.               *)
LEMMA InvoiceSteps ==
  ASSUME RequestsInv, wallets' = wallets, creator' = creator, shown' = shown,
         sent' \in [status: SentStatuses, recipient: Addresses],
         sent'.recipient = sent.recipient \/ sent'.recipient \in PrimaryWallets \cup {NoAddress}
  PROVE  RequestsInv'
  BY DEF RequestsInv, RequestsShape, FirstWalletOnly, AddressIsWallet, PrimaryWallets

LEMMA ShowSteps ==
  ASSUME RequestsInv, wallets' = wallets, creator' = creator, sent' = sent,
         NEW address \in Recipients, shown' = shown \cup ({address} \ {NoAddress})
  PROVE  RequestsInv'
  <1>1. {address} \ {NoAddress} \subseteq PrimaryWallets
    BY RecipientsAre
  <1>2. PrimaryWallets \subseteq Creators /\ PrimaryWallets' = PrimaryWallets
    BY PrimaryIsWallet DEF PrimaryWallets
  <1> QED BY <1>1, <1>2
          DEF RequestsInv, RequestsShape, FirstWalletOnly, AddressIsWallet

LEMMA RequestsInvKept ==
  ASSUME RequestsInv, [RequestsNext]_requestsVars
  PROVE  RequestsInv'
  <1>1. CASE UNCHANGED requestsVars
    BY <1>1, InvoiceSteps DEF requestsVars, RequestsInv, RequestsShape
  <1>2. CASE SendInvoice
    <2>1. CASE UNCHANGED sent
      BY <1>2, <2>1, InvoiceSteps DEF SendInvoice, RequestsInv, RequestsShape
    <2>2. CASE \E r \in Recipients : sent' = [status |-> "sent", recipient |-> r]
      <3>1. PICK r \in Recipients : sent' = [status |-> "sent", recipient |-> r]
        BY <2>2
      <3>2. /\ r \in Addresses /\ "sent" \in SentStatuses
            /\ r \in PrimaryWallets \cup {NoAddress}
        BY RecipientsAre DEF SentStatuses
      <3>3. /\ sent' \in [status: SentStatuses, recipient: Addresses]
            /\ sent'.recipient \in PrimaryWallets \cup {NoAddress}
        BY <3>1, <3>2
      <3>4. UNCHANGED <<wallets, creator, shown>>
        BY <1>2 DEF SendInvoice
      <3> QED BY <3>3, <3>4, InvoiceSteps
    <2> QED BY <1>2, <2>1, <2>2 DEF SendInvoice
  <1>3. CASE InvoiceMoves
    <2>1. PICK moved \in SentStatuses : sent' = [sent EXCEPT !.status = moved]
      BY <1>3 DEF InvoiceMoves, SentStatuses
    <2>2. /\ sent' \in [status: SentStatuses, recipient: Addresses]
          /\ sent'.recipient = sent.recipient
      BY <2>1 DEF RequestsInv, RequestsShape
    <2>3. UNCHANGED <<wallets, creator, shown>>
      BY <1>3 DEF InvoiceMoves
    <2> QED BY <2>2, <2>3, InvoiceSteps
  <1>4. ASSUME NEW p \in Payers, EnsurePaymentRequest(p)
        PROVE  RequestsInv'
    <2>1. CASE UNCHANGED sent
      BY <1>4, <2>1, InvoiceSteps DEF EnsurePaymentRequest, RequestsInv, RequestsShape
    <2>2. CASE \E a \in PrimaryWallets : sent' = [sent EXCEPT !.recipient = a]
      BY <1>4, <2>2, InvoiceSteps, PrimaryIsWallet
      DEF EnsurePaymentRequest, RequestsInv, RequestsShape, Addresses
    <2> QED BY <1>4, <2>1, <2>2 DEF EnsurePaymentRequest
  <1>5. ASSUME NEW p \in Payers, paymentRequest(p) \/ ShowUnpayable(p)
        PROVE  RequestsInv'
    <2>1. CASE UNCHANGED shown
      BY <1>5, <2>1, InvoiceSteps DEF paymentRequest, ShowUnpayable, RequestsInv, RequestsShape
    <2>2. CASE \E a \in Recipients : shown' = shown \cup ({a} \ {NoAddress})
      BY <1>5, <2>2, ShowSteps DEF paymentRequest, ShowUnpayable
    <2> QED BY <1>5, <2>1, <2>2 DEF paymentRequest, ShowUnpayable
  <1>6. ASSUME NEW p \in Payers,
               GetPublicRequest(p) \/ GetInvoicePayments(p) \/ RequestFaults(p)
        PROVE  RequestsInv'
    BY <1>6, InvoiceSteps
    DEF GetPublicRequest, GetInvoicePayments, RequestFaults, RequestsInv, RequestsShape
  <1>7. CASE LookForWallet
    BY <1>7, InvoiceSteps DEF LookForWallet, RequestsInv, RequestsShape
  <1> QED BY <1>1, <1>2, <1>3, <1>4, <1>5, <1>6, <1>7, CreationSteps, WalletCommits
          DEF RequestsNext

LEMMA RequestsSafe == RequestsSpec => []RequestsInv
  <1>1. RequestsInit => RequestsInv
    <2>1. ASSUME RequestsInit PROVE RequestsShape
      <3>1. NotCreating \in [phase: CreatorPhases, count: Nat]
        BY DEF NotCreating, CreatorPhases
      <3>2. [status |-> "draft", recipient |-> NoAddress]
              \in [status: SentStatuses, recipient: Addresses]
        BY DEF Addresses, SentStatuses
      <3> QED BY <2>1, <3>1, <3>2 DEF RequestsInit, RequestsShape
    <2>2. ASSUME RequestsInit PROVE FirstWalletOnly /\ AddressIsWallet
      BY <2>2 DEF RequestsInit, FirstWalletOnly, AddressIsWallet, NotCreating
    <2> QED BY <2>1, <2>2 DEF RequestsInv
  <1> QED BY <1>1, RequestsInvKept, PTL DEF RequestsSpec

(* CreateWallet: requests that run at once leave a user with one wallet.   *)
THEOREM UserHasOneWallet == RequestsSpec => []OneWalletPerUser
  <1>1. RequestsInv => OneWalletPerUser
    BY WalletCount DEF OneWalletPerUser
  <1> QED BY <1>1, RequestsSafe, PTL

(* EnsurePaymentRequest and paymentRequest: any number of payers and the   *)
(* merchant agree on the address, and the payment is judged against it.    *)
THEOREM ShownAddressIsJudged == RequestsSpec => []AddressShownIsJudged
  <1>1. RequestsInv => AddressShownIsJudged
    <2> SUFFICES ASSUME RequestsInv, NEW a \in shown PROVE Recipients = {a}
      BY DEF AddressShownIsJudged
    <2>1. a \in PrimaryWallets /\ PrimaryWallets # {}
      BY DEF RequestsInv, AddressIsWallet
    <2>2. PrimaryWallets = {a}
      BY <2>1, PrimaryIsWallet
    <2>3. sent.recipient # NoAddress => sent.recipient = a
      BY <2>2 DEF RequestsInv, AddressIsWallet
    <2> QED BY <2>1, <2>2, <2>3 DEF Recipients
  <1> QED BY <1>1, RequestsSafe, PTL
-------------------------------------------------------------------------------
(***************************************************************************)
(* Notices to merchants.                                                   *)
(***************************************************************************)
PaymentRows == [row: {"none", "detected", "settled"}, verdict: Verdicts, owned: BOOLEAN]
Goroutines == [of: Arrivals, by: Settlers, phase: {"started", "writing"}]

NoticesShape ==
  /\ arrived \in [Arrivals -> PaymentRows]
  /\ DOMAIN settler = Settlers
  /\ \A s \in Settlers :
       /\ settler[s] = [phase |-> settler[s].phase, of |-> settler[s].of]
       /\ settler[s].phase # "idle" => settler[s].of \in Arrivals
  /\ telling \subseteq Goroutines
  /\ told \in [Arrivals -> {0, 1}]

(* The lock of a payment is held by one, and on a payment not settled yet. *)
LockHeldOnce ==
  /\ \A s, t \in Settlers :
       settler[s].phase = "locked" /\ settler[t].phase = "locked"
         /\ settler[s].of = settler[t].of => s = t
  /\ \A s \in Settlers :
       settler[s].phase = "locked" => arrived[settler[s].of].row # "settled"

(* One goroutine comes of a settled payment, and it tells once.            *)
OneTells ==
  /\ \A g, h \in telling : g.of = h.of => g = h
  /\ \A g \in telling : /\ told[g.of] = 0 /\ arrived[g.of].row = "settled"
                        /\ Announced(arrived[g.of].verdict)
  /\ \A p \in Arrivals :
       told[p] > 0 => arrived[p].row = "settled" /\ Announced(arrived[p].verdict)

NoticesInv == NoticesShape /\ LockHeldOnce /\ OneTells

(* Steps that leave the goroutines, and what was settled, alone.           *)
LEMMA SettlingSteps ==
  ASSUME NoticesInv, NEW s \in Settlers,
         \/ \E p \in Arrivals : insertDetected(s, p) \/ RecoverDetected(s, p) \/ insertSettled(s, p)
         \/ LockPayment(s) \/ SettleFails(s)
  PROVE  NoticesInv'
  <1>1. telling' = telling /\ told' = told
    BY DEF insertDetected, RecoverDetected, insertSettled, LockPayment, SettleFails
  <1>2. ASSUME NEW p \in Arrivals, insertDetected(s, p)
        PROVE  NoticesInv'
    <2>1. /\ \/ arrived' = arrived
             \/ arrived[p].row = "none" /\ arrived' = [arrived EXCEPT ![p].row = "detected"]
          /\ settler' = [settler EXCEPT ![s] = [phase |-> "detected", of |-> p]]
      BY <1>2 DEF insertDetected
    <2>2. NoticesShape'
      BY <1>1, <2>1 DEF NoticesInv, NoticesShape, PaymentRows
    <2>3. LockHeldOnce'
      BY <2>1 DEF NoticesInv, NoticesShape, LockHeldOnce, PaymentRows
    <2>4. \A q \in Arrivals : /\ arrived'[q].verdict = arrived[q].verdict
                              /\ arrived[q].row = "settled" => arrived'[q].row = "settled"
      BY <2>1 DEF NoticesInv, NoticesShape, PaymentRows
    <2>5. OneTells'
      BY <1>1, <2>4 DEF NoticesInv, NoticesShape, OneTells, Announced, review, Goroutines
    <2> QED BY <2>2, <2>3, <2>5 DEF NoticesInv
  <1>3. ASSUME arrived' = arrived,
               NEW phase, NEW p, settler' = [settler EXCEPT ![s] = [phase |-> phase, of |-> p]],
               phase # "idle" => p \in Arrivals,
               phase = "locked" => arrived[p].row # "settled"
                                   /\ \A t \in Settlers \ {s} :
                                        ~ (settler[t].of = p /\ settler[t].phase = "locked")
        PROVE  NoticesInv'
    <2>1. NoticesShape'
      BY <1>1, <1>3 DEF NoticesInv, NoticesShape
    <2>2. LockHeldOnce'
      BY <1>3 DEF NoticesInv, NoticesShape, LockHeldOnce
    <2>3. OneTells'
      BY <1>1, <1>3 DEF NoticesInv, OneTells, Announced, review
    <2> QED BY <2>1, <2>2, <2>3 DEF NoticesInv
  <1>4. ASSUME NEW p \in Arrivals, RecoverDetected(s, p)
        PROVE  NoticesInv'
    BY <1>3, <1>4 DEF RecoverDetected
  <1>5. ASSUME NEW p \in Arrivals, insertSettled(s, p)
        PROVE  NoticesInv'
    BY <1>3, <1>5 DEF insertSettled, Locked
  <1>6. CASE LockPayment(s)
    <2> DEFINE p == settler[s].of
    <2>1. /\ settler' = [settler EXCEPT ![s].phase =
                           IF Unfinished(p) THEN "locked" ELSE "idle"]
          /\ p \in Arrivals /\ arrived' = arrived /\ ~ Locked(p)
      BY <1>6 DEF LockPayment, NoticesInv, NoticesShape
    <2>2. settler[s] = [phase |-> settler[s].phase, of |-> p]
      BY DEF NoticesInv, NoticesShape
    <2>3. CASE Unfinished(p)
      <3>1. settler' = [settler EXCEPT ![s] = [phase |-> "locked", of |-> p]]
        <4>1. settler' = [settler EXCEPT ![s] = [settler[s] EXCEPT !.phase = "locked"]]
          BY <2>1, <2>3
        <4>2. [settler[s] EXCEPT !.phase = "locked"] = [phase |-> "locked", of |-> p]
          BY <2>2
        <4> QED BY <4>1, <4>2
      <3>2. arrived[p].row # "settled"
        BY <2>3 DEF Unfinished
      <3> HIDE DEF p
      <3> QED BY <1>3, <2>1, <3>1, <3>2 DEF Locked
    <2>4. CASE ~ Unfinished(p)
      <3>1. settler' = [settler EXCEPT ![s] = [phase |-> "idle", of |-> p]]
        <4>1. settler' = [settler EXCEPT ![s] = [settler[s] EXCEPT !.phase = "idle"]]
          BY <2>1, <2>4
        <4>2. [settler[s] EXCEPT !.phase = "idle"] = [phase |-> "idle", of |-> p]
          BY <2>2
        <4> QED BY <4>1, <4>2
      <3> HIDE DEF p
      <3> QED BY <1>3, <2>1, <3>1
    <2> QED BY <2>3, <2>4
  <1>7. CASE SettleFails(s)
    BY <1>3, <1>7 DEF SettleFails, NotSettling
  <1> QED BY <1>2, <1>4, <1>5, <1>6, <1>7

LEMMA SettledStep ==
  ASSUME NoticesInv, NEW s \in Settlers, CommitSettled(s)
  PROVE  NoticesInv'
  <1> DEFINE p == settler[s].of
  <1>1. /\ p \in Arrivals /\ settler[s].phase = "locked" /\ arrived[p].row # "settled"
        /\ arrived' = [arrived EXCEPT ![p].row = "settled"]
        /\ settler' = [settler EXCEPT ![s] = NotSettling]
        /\ told' = told
    BY DEF CommitSettled, NoticesInv, NoticesShape, LockHeldOnce
  <1>2. \/ telling' = telling
        \/ /\ telling' = telling \cup {[of |-> p, by |-> s, phase |-> "started"]}
           /\ Announced(arrived[p].verdict)
    BY DEF CommitSettled, Tells
  <1>3. \A t \in Settlers \ {s} : settler[t].phase = "locked" => settler[t].of # p
    BY <1>1 DEF NoticesInv, LockHeldOnce
  <1>4. told[p] = 0 /\ \A g \in telling : g.of # p
    BY <1>1 DEF NoticesInv, NoticesShape, OneTells
  <1> HIDE DEF p
  <1>5. NoticesShape'
    <2>1. arrived' \in [Arrivals -> PaymentRows]
      BY <1>1 DEF NoticesInv, NoticesShape, PaymentRows
    <2>2. telling' \subseteq Goroutines
      BY <1>1, <1>2 DEF NoticesInv, NoticesShape, Goroutines
    <2> QED BY <1>1, <2>1, <2>2 DEF NoticesInv, NoticesShape, NotSettling
  <1>6. LockHeldOnce'
    BY <1>1, <1>3 DEF NoticesInv, NoticesShape, LockHeldOnce, NotSettling, PaymentRows
  <1>7. \A q \in Arrivals :
          /\ arrived'[q].verdict = arrived[q].verdict
          /\ arrived[q].row = "settled" => arrived'[q].row = "settled"
          /\ arrived'[p].row = "settled"
    BY <1>1 DEF NoticesInv, NoticesShape, PaymentRows
  <1>8. OneTells'
    <2>1. \A g, h \in telling' : g.of = h.of => g = h
      BY <1>2, <1>4 DEF NoticesInv, OneTells
    <2>2. \A g \in telling' : told'[g.of] = 0 /\ arrived'[g.of].row = "settled"
                              /\ Announced(arrived'[g.of].verdict)
      BY <1>1, <1>2, <1>4, <1>7
      DEF NoticesInv, NoticesShape, OneTells, Announced, review, Goroutines
    <2>3. \A q \in Arrivals :
            told'[q] > 0 => arrived'[q].row = "settled" /\ Announced(arrived'[q].verdict)
      BY <1>1, <1>7 DEF NoticesInv, OneTells, Announced, review
    <2> QED BY <2>1, <2>2, <2>3 DEF OneTells
  <1> QED BY <1>5, <1>6, <1>8 DEF NoticesInv

LEMMA TellingSteps ==
  ASSUME NoticesInv,
         \/ \E g \in telling : LooksUp(g) \/ CreateNewNotification(g) \/ TellingFails(g)
         \/ ServerCrash
  PROVE  NoticesInv'
  <1>1. ASSUME NEW g \in telling, LooksUp(g)
        PROVE  NoticesInv'
    <2>1. UNCHANGED <<arrived, settler, told>>
      BY <1>1 DEF LooksUp
    <2>2. [g EXCEPT !.phase = "writing"] \in Goroutines
          /\ [g EXCEPT !.phase = "writing"].of = g.of
      BY DEF NoticesInv, NoticesShape, Goroutines
    <2>3. telling' \subseteq (telling \ {g}) \cup {[g EXCEPT !.phase = "writing"]}
      BY <1>1 DEF LooksUp
    <2>4. NoticesShape' /\ LockHeldOnce'
      BY <2>1, <2>2, <2>3 DEF NoticesInv, NoticesShape, LockHeldOnce
    <2>5. \A h \in telling' : \E o \in telling : h.of = o.of /\ (h = o \/ o = g)
      BY <2>2, <2>3
    <2>6. \A h, o \in telling' : h.of = o.of => h = o
      BY <2>2, <2>3 DEF NoticesInv, OneTells
    <2>7. OneTells'
      BY <2>1, <2>5, <2>6 DEF NoticesInv, OneTells, Announced, review
    <2> QED BY <2>4, <2>7 DEF NoticesInv
  <1>2. ASSUME NEW g \in telling, CreateNewNotification(g)
        PROVE  NoticesInv'
    <2>1. /\ UNCHANGED <<arrived, settler>>
          /\ telling' = telling \ {g}
          /\ told' = [told EXCEPT ![g.of] = told[g.of] + 1]
      BY <1>2 DEF CreateNewNotification
    <2>2. g.of \in Arrivals /\ told[g.of] = 0 /\ arrived[g.of].row = "settled"
          /\ Announced(arrived[g.of].verdict)
      BY DEF NoticesInv, NoticesShape, OneTells, Goroutines
    <2>3. told' = [told EXCEPT ![g.of] = 1]
      BY <2>1, <2>2
    <2>4. NoticesShape' /\ LockHeldOnce'
      BY <2>1, <2>2, <2>3 DEF NoticesInv, NoticesShape, LockHeldOnce
    <2>5. \A h \in telling' : h.of # g.of
      BY <2>1 DEF NoticesInv, OneTells
    <2>6. \A h \in telling' : told'[h.of] = 0 /\ arrived'[h.of].row = "settled"
                              /\ Announced(arrived'[h.of].verdict)
      BY <2>1, <2>3, <2>5 DEF NoticesInv, NoticesShape, OneTells, Goroutines, Announced, review
    <2>7. \A q \in Arrivals :
            told'[q] > 0 => arrived'[q].row = "settled" /\ Announced(arrived'[q].verdict)
      BY <2>1, <2>2, <2>3 DEF NoticesInv, NoticesShape, OneTells, Announced, review
    <2>8. OneTells'
      BY <2>1, <2>6, <2>7 DEF NoticesInv, OneTells
    <2> QED BY <2>4, <2>8 DEF NoticesInv
  <1>3. ASSUME NEW g \in telling, TellingFails(g)
        PROVE  NoticesInv'
    BY <1>3 DEF TellingFails, NoticesInv, NoticesShape, LockHeldOnce, OneTells, Announced, review
  <1>4. CASE ServerCrash
    <2>1. /\ UNCHANGED <<arrived, told>> /\ telling' = {}
          /\ settler' = [t \in Settlers |-> NotSettling]
      BY <1>4 DEF ServerCrash
    <2>2. NoticesShape'
      BY <2>1 DEF NoticesInv, NoticesShape, NotSettling
    <2> QED BY <2>1, <2>2
            DEF NoticesInv, LockHeldOnce, OneTells, Announced, review, NotSettling
  <1> QED BY <1>1, <1>2, <1>3, <1>4

(* onPaid and onReview of finalize and insertSettled: pollers, recovery    *)
(* and requests settle at once, crash and start over, and the merchant is  *)
(* told once of what was settled, or not at all.                           *)
THEOREM MerchantToldOnce == NoticesSpec => []ToldOnce
  <1>1. NoticesInit => NoticesInv
    <2>1. ASSUME NoticesInit PROVE NoticesShape
      BY <2>1 DEF NoticesInit, NoticesShape, NotSettling, PaymentRows
    <2>2. ASSUME NoticesInit PROVE LockHeldOnce /\ OneTells
      BY <2>2 DEF NoticesInit, LockHeldOnce, OneTells, NotSettling
    <2> QED BY <2>1, <2>2 DEF NoticesInv
  <1>2. NoticesInv /\ [NoticesNext]_noticesVars => NoticesInv'
    <2> SUFFICES ASSUME NoticesInv, [NoticesNext]_noticesVars PROVE NoticesInv'
      OBVIOUS
    <2>1. CASE UNCHANGED <<arrived, settler, telling, told>>
      BY <2>1 DEF NoticesInv, NoticesShape, LockHeldOnce, OneTells, Announced, review
    <2>2. CASE UNCHANGED noticesVars
      BY <2>1, <2>2 DEF noticesVars
    <2>3. ASSUME NEW n \in notices,
                 DeleteNotificationByID(n)
                   \/ \E viewed \in BOOLEAN : UpdateNotificationViewStatus(n, viewed)
          PROVE  NoticesInv'
      BY <2>1, <2>3 DEF DeleteNotificationByID, UpdateNotificationViewStatus
    <2> QED BY <2>2, <2>3, SettlingSteps, SettledStep, TellingSteps
            DEF NoticesNext, SettlerStep, TellingStep
  <1>3. NoticesInv => ToldOnce
    <2> SUFFICES ASSUME NoticesInv, NEW p \in Arrivals
                 PROVE  /\ told[p] + Cardinality({g \in telling : g.of = p}) <= 1
                        /\ told[p] > 0 => arrived[p].row = "settled"
                                          /\ Announced(arrived[p].verdict)
      BY DEF ToldOnce
    <2> DEFINE G == {g \in telling : g.of = p}
    <2>1. told[p] \in {0, 1}
      BY DEF NoticesInv, NoticesShape
    <2>2. \A a, b \in G : a = b
      BY DEF NoticesInv, OneTells
    <2>3. G # {} => told[p] = 0
      BY DEF NoticesInv, OneTells
    <2> HIDE DEF G
    <2>4. Cardinality(G) \in Nat /\ Cardinality(G) <= 1
      BY <2>2, AtMostOneElement
    <2>5. told[p] = 1 => Cardinality(G) = 0
      BY <2>3, FS_EmptySet
    <2>6. told[p] + Cardinality(G) <= 1
      BY <2>1, <2>4, <2>5
    <2> QED BY <2>6 DEF G, NoticesInv, OneTells
  <1> QED BY <1>1, <1>2, <1>3, PTL DEF NoticesSpec
-------------------------------------------------------------------------------
(***************************************************************************)
(* The default logo.                                                       *)
(***************************************************************************)
UploadPhases == {"idle", "uploaded", "inserting", "inserted", "failed", "done"}

UploadRows == [phase: UploadPhases, default: BOOLEAN,
               sees: SUBSET Uploads, clears: SUBSET Uploads]

LogosShape ==
  /\ upload \in [Uploads -> UploadRows]
  /\ logos.default \subseteq logos.rows
  /\ latest \in Uploads \cup {NoLogo}

(* The file is there before the row, and as long as the row may still come.*)
FilesFirst ==
  /\ \A u \in Uploads :
       upload[u].phase \in {"uploaded", "inserting", "inserted", "done"} => u \in files
  /\ \A u \in logos.rows : u \in Uploads /\ upload[u].phase = "done"

(* Only an insert of a default logo takes the mark from others.            *)
OthersClearNothing ==
  \A u \in Uploads : ~ upload[u].default /\ upload[u].phase \in {"inserting", "inserted"} =>
    upload[u].sees = {} /\ (upload[u].phase = "inserted" => upload[u].clears = {})

(* One that is alone sees all the marks there are, and takes them.         *)
AloneClearsAll ==
  /\ logos.default = {latest} \ {NoLogo}
  /\ \A u, v \in Uploads : MakingDefault(u) /\ MakingDefault(v) => u = v
  /\ \A u \in Uploads : MakingDefault(u) =>
       /\ upload[u].sees = logos.default
       /\ upload[u].phase = "inserted" => upload[u].clears = logos.default

LogosInv ==
  /\ LogosShape /\ FilesFirst /\ OthersClearNothing
  /\ together \in BOOLEAN /\ (~ together => AloneClearsAll)

LEMMA UploadRowChanges ==
  ASSUME NEW row \in UploadRows, NEW ph \in UploadPhases, NEW d \in BOOLEAN,
         NEW s \in SUBSET Uploads
  PROVE  /\ [row EXCEPT !.phase = ph] \in UploadRows
         /\ [row EXCEPT !.phase = ph, !.default = d] \in UploadRows
         /\ [row EXCEPT !.phase = ph, !.sees = s] \in UploadRows
         /\ [row EXCEPT !.phase = ph, !.clears = s] \in UploadRows
  BY DEF UploadRows

LEMMA UploadPhaseNames ==
  /\ "idle" \in UploadPhases /\ "uploaded" \in UploadPhases
  /\ "inserting" \in UploadPhases /\ "inserted" \in UploadPhases
  /\ "failed" \in UploadPhases /\ "done" \in UploadPhases
  BY DEF UploadPhases

(* The file of an upload that is not stored yet.                           *)
LEMMA UploadSteps ==
  ASSUME LogosInv, NEW u \in Uploads, NEW default \in BOOLEAN, UploadFile(u, default)
  PROVE  LogosInv'
  <1>1. /\ upload' = [upload EXCEPT ![u].phase = "uploaded", ![u].default = default]
        /\ files' = files \cup {u} /\ upload[u].phase = "idle"
        /\ UNCHANGED <<logos, latest, together>>
    BY DEF UploadFile
  <1>2. LogosShape'
    <2>1. [upload[u] EXCEPT !.phase = "uploaded", !.default = default] \in UploadRows
      BY UploadRowChanges, UploadPhaseNames DEF LogosInv, LogosShape
    <2> QED BY <1>1, <2>1 DEF LogosInv, LogosShape
  <1>3. FilesFirst' /\ OthersClearNothing'
    BY <1>1 DEF LogosInv, LogosShape, FilesFirst, OthersClearNothing, UploadRows
  <1>4. \A v \in Uploads : MakingDefault(v)' => MakingDefault(v) /\ upload'[v] = upload[v]
    BY <1>1 DEF LogosInv, LogosShape, MakingDefault, UploadRows
  <1>5. ~ together => AloneClearsAll'
    BY <1>1, <1>4 DEF LogosInv, AloneClearsAll
  <1> QED BY <1>1, <1>2, <1>3, <1>5 DEF LogosInv

LEMMA InsertStarts ==
  ASSUME LogosInv, NEW u \in Uploads, StartInsert(u)
  PROVE  LogosInv'
  <1>1. /\ upload' = [upload EXCEPT ![u].phase = "inserting", ![u].sees = OtherDefaults(u)]
        /\ upload[u].phase = "uploaded" /\ UNCHANGED <<files, logos, latest>>
        /\ together' = (together \/ (upload[u].default
                                      /\ \E v \in Uploads \ {u} : MakingDefault(v)))
    BY DEF StartInsert
  <1>2. logos.default \ {u} = logos.default /\ logos.default \subseteq Uploads
    BY <1>1 DEF LogosInv, LogosShape, FilesFirst
  <1>3. OtherDefaults(u) = IF upload[u].default THEN logos.default ELSE {}
    BY <1>2 DEF OtherDefaults
  <1>4. LogosShape'
    <2>1. OtherDefaults(u) \in SUBSET Uploads
      BY <1>2 DEF OtherDefaults
    <2>2. [upload[u] EXCEPT !.phase = "inserting", !.sees = OtherDefaults(u)] \in UploadRows
      BY <2>1, UploadRowChanges, UploadPhaseNames DEF LogosInv, LogosShape
    <2>3. upload' = [upload EXCEPT ![u] =
                      [upload[u] EXCEPT !.phase = "inserting", !.sees = OtherDefaults(u)]]
      BY <1>1
    <2> QED BY <1>1, <2>2, <2>3 DEF LogosInv, LogosShape
  <1>5. FilesFirst' /\ OthersClearNothing'
    BY <1>1, <1>3 DEF LogosInv, LogosShape, FilesFirst, OthersClearNothing, UploadRows
  <1>6. together' \in BOOLEAN
    BY <1>1 DEF LogosInv
  <1>7. ASSUME ~ together' PROVE AloneClearsAll'
    <2>1. /\ ~ together /\ AloneClearsAll
          /\ upload[u].default => \A v \in Uploads \ {u} : ~ MakingDefault(v)
      BY <1>1, <1>7 DEF LogosInv
    <2>2. \A v \in Uploads \ {u} : (MakingDefault(v)' <=> MakingDefault(v))
                                   /\ upload'[v] = upload[v]
      BY <1>1 DEF LogosInv, LogosShape, MakingDefault, UploadRows
    <2>3. MakingDefault(u)' => /\ upload[u].default /\ upload'[u].phase = "inserting"
                               /\ upload'[u].sees = logos.default
      BY <1>1, <1>3 DEF LogosInv, LogosShape, MakingDefault, UploadRows
    <2>4. ASSUME NEW v \in Uploads, MakingDefault(v)'
          PROVE  /\ upload'[v].sees = logos.default
                 /\ upload'[v].phase = "inserted" => upload'[v].clears = logos.default
      <3>1. CASE v = u
        BY <2>3, <2>4, <3>1
      <3>2. CASE v # u
        BY <2>1, <2>2, <2>4, <3>2 DEF AloneClearsAll
      <3> QED BY <3>1, <3>2
    <2>5. ASSUME NEW v \in Uploads, NEW w \in Uploads, MakingDefault(v)', MakingDefault(w)'
          PROVE  v = w
      <3>1. CASE v = u \/ w = u
        BY <2>1, <2>2, <2>3, <2>5, <3>1
      <3>2. CASE v # u /\ w # u
        BY <2>1, <2>2, <2>5, <3>2 DEF AloneClearsAll
      <3> QED BY <3>1, <3>2
    <2>6. logos'.default = logos.default /\ logos'.default = {latest'} \ {NoLogo}
      BY <1>1, <2>1 DEF AloneClearsAll
    <2> QED BY <2>4, <2>5, <2>6 DEF AloneClearsAll
  <1> QED BY <1>4, <1>5, <1>6, <1>7 DEF LogosInv

LEMMA InsertTakesMarks ==
  ASSUME LogosInv, NEW u \in Uploads, AddLogoToDatabase(u)
  PROVE  LogosInv'
  <1> DEFINE taken == upload[u].sees \cap logos.default
  <1>1. /\ upload' = [upload EXCEPT ![u].phase = "inserted", ![u].clears = taken]
        /\ upload[u].phase = "inserting" /\ UNCHANGED <<files, logos, latest, together>>
    BY DEF AddLogoToDatabase
  <1>2. taken \subseteq Uploads /\ taken \subseteq upload[u].sees
    BY DEF LogosInv, LogosShape, UploadRows
  <1>3. ~ together /\ upload[u].default => taken = logos.default
    BY <1>1 DEF LogosInv, AloneClearsAll, MakingDefault
  <1> HIDE DEF taken
  <1>4. LogosShape'
    <2>1. [upload[u] EXCEPT !.phase = "inserted", !.clears = taken] \in UploadRows
      BY <1>2, UploadRowChanges, UploadPhaseNames DEF LogosInv, LogosShape
    <2> QED BY <1>1, <2>1 DEF LogosInv, LogosShape
  <1>5. FilesFirst' /\ OthersClearNothing'
    BY <1>1, <1>2 DEF LogosInv, LogosShape, FilesFirst, OthersClearNothing, UploadRows
  <1>6. ASSUME ~ together' PROVE AloneClearsAll'
    <2>1. \A v \in Uploads : /\ MakingDefault(v)' <=> MakingDefault(v)
                             /\ v # u => upload'[v] = upload[v]
      BY <1>1 DEF LogosInv, LogosShape, MakingDefault, UploadRows
    <2>2. upload'[u].sees = upload[u].sees /\ upload'[u].clears = taken
          /\ upload'[u].default = upload[u].default
      BY <1>1 DEF LogosInv, LogosShape, UploadRows
    <2>3. MakingDefault(u) => taken = logos.default
      BY <1>1, <1>3, <1>6 DEF MakingDefault
    <2>4. AloneClearsAll
      BY <1>1, <1>6 DEF LogosInv
    <2>5. ASSUME NEW v \in Uploads, MakingDefault(v)'
          PROVE  /\ upload'[v].sees = logos.default
                 /\ upload'[v].phase = "inserted" => upload'[v].clears = logos.default
      <3>1. CASE v = u
        BY <2>1, <2>2, <2>3, <2>4, <2>5, <3>1 DEF AloneClearsAll
      <3>2. CASE v # u
        BY <2>1, <2>4, <2>5, <3>2 DEF AloneClearsAll
      <3> QED BY <3>1, <3>2
    <2>6. \A v, w \in Uploads : MakingDefault(v)' /\ MakingDefault(w)' => v = w
      BY <2>1, <2>4 DEF AloneClearsAll
    <2>7. logos'.default = logos.default /\ latest' = latest
      BY <1>1
    <2>8. logos'.default = {latest'} \ {NoLogo}
      BY <2>4, <2>7 DEF AloneClearsAll
    <2> QED BY <2>5, <2>6, <2>7, <2>8 DEF AloneClearsAll
  <1> QED BY <1>1, <1>4, <1>5, <1>6 DEF LogosInv

(* An upload that fails has no row, and takes no mark.                     *)
LEMMA UploadFails ==
  ASSUME LogosInv, NEW u \in Uploads, InsertRefused(u) \/ RollBack(u)
  PROVE  LogosInv'
  <1>1. /\ upload' = [upload EXCEPT ![u].phase = "failed"]
        /\ files \ {u} \subseteq files' /\ upload[u].phase # "done"
        /\ UNCHANGED <<logos, latest, together>>
    BY DEF InsertRefused, RollBack
  <1>2. LogosShape'
    <2>1. [upload[u] EXCEPT !.phase = "failed"] \in UploadRows
      BY UploadRowChanges, UploadPhaseNames DEF LogosInv, LogosShape
    <2> QED BY <1>1, <2>1 DEF LogosInv, LogosShape
  <1>3. FilesFirst' /\ OthersClearNothing'
    BY <1>1 DEF LogosInv, LogosShape, FilesFirst, OthersClearNothing, UploadRows
  <1>4. \A v \in Uploads : MakingDefault(v)' => MakingDefault(v) /\ upload'[v] = upload[v]
    BY <1>1 DEF LogosInv, LogosShape, MakingDefault, UploadRows
  <1>5. ~ together => AloneClearsAll'
    BY <1>1, <1>4 DEF LogosInv, AloneClearsAll
  <1> QED BY <1>1, <1>2, <1>3, <1>5 DEF LogosInv

LEMMA LogoCommits ==
  ASSUME LogosInv, NEW u \in Uploads, CommitLogo(u)
  PROVE  LogosInv'
  <1> DEFINE marked == (logos.default \ upload[u].clears)
                         \cup (IF upload[u].default THEN {u} ELSE {})
  <1>1. /\ upload' = [upload EXCEPT ![u].phase = "done"] /\ upload[u].phase = "inserted"
        /\ logos' = [rows |-> logos.rows \cup {u}, default |-> marked]
        /\ latest' = IF upload[u].default THEN u ELSE latest
        /\ UNCHANGED <<files, together>>
    BY DEF CommitLogo
  <1>2. logos'.rows = logos.rows \cup {u} /\ logos'.default = marked
    BY <1>1
  <1>3. marked \subseteq logos.rows \cup {u}
    BY DEF LogosInv, LogosShape
  <1>4. LogosShape'
    <2>1. [upload[u] EXCEPT !.phase = "done"] \in UploadRows
      BY UploadRowChanges, UploadPhaseNames DEF LogosInv, LogosShape
    <2>2. upload' \in [Uploads -> UploadRows]
      BY <1>1, <2>1 DEF LogosInv, LogosShape
    <2>3. latest' \in Uploads \cup {NoLogo}
      BY <1>1 DEF LogosInv, LogosShape
    <2> QED BY <1>2, <1>3, <2>2, <2>3 DEF LogosShape
  <1>5. FilesFirst'
    BY <1>1, <1>2 DEF LogosInv, LogosShape, FilesFirst, UploadRows
  <1>6. OthersClearNothing'
    BY <1>1 DEF LogosInv, LogosShape, OthersClearNothing, UploadRows
  <1>7. ASSUME ~ together' PROVE AloneClearsAll'
    <2>1. AloneClearsAll
      BY <1>1, <1>7 DEF LogosInv
    <2>2. \A v \in Uploads : MakingDefault(v)' =>
                               MakingDefault(v) /\ v # u /\ upload'[v] = upload[v]
      BY <1>1 DEF LogosInv, LogosShape, MakingDefault, UploadRows
    <2>3. CASE upload[u].default
      <3>1. MakingDefault(u)
        BY <1>1, <2>3 DEF MakingDefault
      <3>2. upload[u].clears = logos.default
        BY <1>1, <2>1, <3>1 DEF AloneClearsAll
      <3>3. marked = {u} /\ latest' = u /\ u # NoLogo
        BY <1>1, <2>3, <3>2, LogosAssumption
      <3>4. \A v \in Uploads : ~ MakingDefault(v)'
        BY <2>1, <2>2, <3>1 DEF AloneClearsAll
      <3>5. logos'.default = {latest'} \ {NoLogo}
        BY <1>2, <3>3
      <3> HIDE DEF marked
      <3> QED BY <3>4, <3>5 DEF AloneClearsAll
    <2>4. CASE ~ upload[u].default
      <3>1. upload[u].clears = {}
        BY <1>1, <2>4 DEF LogosInv, OthersClearNothing
      <3>2. marked = logos.default /\ latest' = latest
        BY <1>1, <2>4, <3>1
      <3> HIDE DEF marked
      <3> QED BY <1>2, <2>1, <2>2, <3>2 DEF AloneClearsAll
    <2> QED BY <2>3, <2>4
  <1> QED BY <1>1, <1>4, <1>5, <1>6, <1>7 DEF LogosInv

(* UploadLogo and the trigger on logos: every row has its file, and the    *)
(* default logo is the one made so last, with any number of uploads that   *)
(* roll back, unless two of them made a default logo at the same time.     *)
THEOREM LatestLogoIsDefault == LogosSpec => []DefaultLogoIsLatest
  <1>1. LogosInit => LogosInv
    <2> SUFFICES ASSUME LogosInit PROVE LogosInv
      OBVIOUS
    <2>1. \A u \in Uploads : upload[u].phase = "idle" /\ ~ MakingDefault(u)
      BY DEF LogosInit, NotUploaded, MakingDefault
    <2>2. NotUploaded \in UploadRows
      BY DEF NotUploaded, UploadPhases, UploadRows
    <2>3. logos.rows = {} /\ logos.default = {} /\ latest = NoLogo /\ together = FALSE
      BY DEF LogosInit
    <2>4. LogosShape
      BY <2>2, <2>3 DEF LogosInit, LogosShape
    <2> QED BY <2>1, <2>3, <2>4
            DEF LogosInv, FilesFirst, OthersClearNothing, AloneClearsAll
  <1>2. LogosInv /\ [LogosNext]_logosVars => LogosInv'
    <2> SUFFICES ASSUME LogosInv, [LogosNext]_logosVars PROVE LogosInv'
      OBVIOUS
    <2>1. CASE UNCHANGED logosVars
      BY <2>1 DEF logosVars, LogosInv, LogosShape, FilesFirst, OthersClearNothing,
                  AloneClearsAll, MakingDefault
    <2>2. CASE LogosNext
      BY <2>2, UploadSteps, InsertStarts, InsertTakesMarks, UploadFails, LogoCommits
      DEF LogosNext
    <2> QED BY <2>1, <2>2
  <1>3. LogosInv => DefaultLogoIsLatest
    BY DEF LogosInv, FilesFirst, AloneClearsAll, DefaultLogoIsLatest, GetDefaultLogoByUserID
  <1> QED BY <1>1, <1>2, <1>3, PTL DEF LogosSpec
-------------------------------------------------------------------------------
(***************************************************************************)
(* Reactions to comments.                                                  *)
(***************************************************************************)
CommentsShape ==
  /\ DOMAIN comments = Numbers
  /\ \A c \in Numbers : comments[c].live \in BOOLEAN

CommentsInv == CommentsShape /\ ReactionsHaveComments

(* Steps that take no comment away, and add no reaction.                   *)
LEMMA QuietSteps ==
  ASSUME CommentsInv, comments' = comments, reactions' \subseteq reactions
  PROVE  CommentsInv'
  BY DEF CommentsInv, CommentsShape, ReactionsHaveComments, Live

LEMMA CommentInserted ==
  ASSUME CommentsInv, NEW r \in Clients, CreateCommentQuery(r)
  PROVE  CommentsInv'
  <1> DEFINE row == [live |-> TRUE, author |-> client[r].author,
                     parent |-> StoredParent(client[r].repliesTo)]
  <1>1. comments' = [comments EXCEPT ![client[r].comment] = row] /\ reactions' = reactions
    BY DEF CreateCommentQuery
  <1>2. row.live = TRUE
    OBVIOUS
  <1> HIDE DEF row
  <1>3. \A c \in Numbers : comments'[c].live = comments[c].live \/ comments'[c].live = TRUE
    BY <1>1, <1>2 DEF CommentsInv, CommentsShape
  <1>4. Live \subseteq Live'
    BY <1>3 DEF Live
  <1>5. CommentsShape'
    BY <1>1, <1>3 DEF CommentsInv, CommentsShape
  <1> QED BY <1>1, <1>4, <1>5 DEF CommentsInv, ReactionsHaveComments

LEMMA ThreadRemoved ==
  ASSUME CommentsInv, NEW gone, RemoveComments(gone)
  PROVE  CommentsInv'
  <1>1. /\ comments' = [c \in Numbers |-> IF c \in gone THEN NoComment ELSE comments[c]]
        /\ reactions' = {x \in reactions : x.comment \notin gone}
    BY DEF RemoveComments
  <1>2. NoComment.live = FALSE
    BY DEF NoComment
  <1>3. CommentsShape'
    BY <1>1, <1>2 DEF CommentsInv, CommentsShape
  <1> QED BY <1>1, <1>3 DEF CommentsInv, ReactionsHaveComments, Live

(* AddReaction and DeleteComment each look first and write later: the      *)
(* foreign key and its cascade leave no reaction behind.                   *)
THEOREM NoReactionLeftBehind == CommentsSpec => []ReactionsHaveComments
  <1>1. CommentsInit => CommentsInv
    <2>1. NoComment.live = FALSE
      BY DEF NoComment
    <2> QED BY <2>1 DEF CommentsInit, CommentsInv, CommentsShape, ReactionsHaveComments
  <1>2. CommentsInv /\ [CommentsNext]_commentsVars => CommentsInv'
    <2> SUFFICES ASSUME CommentsInv, [CommentsNext]_commentsVars PROVE CommentsInv'
      OBVIOUS
    <2>1. CASE UNCHANGED commentsVars
      BY <2>1, QuietSteps DEF commentsVars
    <2>2. ASSUME NEW r \in Clients, NEW p \in People, NEW c,
                 \/ CreateComment(r, p, c) \/ UpdateComment(r, p, c)
                 \/ DeleteComment(r, p, c) \/ AddReaction(r, p, c)
          PROVE  CommentsInv'
      BY <2>2, QuietSteps DEF CreateComment, UpdateComment, DeleteComment, AddReaction
    <2>3. ASSUME NEW r \in Clients, UpdateCommentQuery(r) \/ CallFails(r)
          PROVE  CommentsInv'
      BY <2>3, QuietSteps DEF UpdateCommentQuery, CallFails
    <2>4. ASSUME NEW r \in Clients, DeleteCommentQuery(r)
          PROVE  CommentsInv'
      BY <2>4, ThreadRemoved DEF DeleteCommentQuery
    <2>5. ASSUME NEW r \in Clients, InsertReaction(r)
          PROVE  CommentsInv'
      BY <2>5 DEF InsertReaction, CommentExists, CommentsInv, CommentsShape,
                  ReactionsHaveComments, Live
    <2>6. ASSUME NEW x \in reactions, RemoveReaction(x)
          PROVE  CommentsInv'
      BY <2>6, QuietSteps DEF RemoveReaction
    <2>7. ASSUME NEW p \in People, DeleteCommenter(p)
          PROVE  CommentsInv'
      BY <2>7, QuietSteps DEF DeleteCommenter
    <2>8. CASE InvoiceDeleted
      BY <2>8, ThreadRemoved DEF InvoiceDeleted
    <2> QED BY <2>1, <2>2, <2>3, <2>4, <2>5, <2>6, <2>7, <2>8, CommentInserted
            DEF CommentsNext, CallNext
  <1>3. CommentsInv => ReactionsHaveComments
    BY DEF CommentsInv
  <1> QED BY <1>1, <1>2, <1>3, PTL DEF CommentsSpec
-------------------------------------------------------------------------------
(***************************************************************************)
(* The answer to a payment request: the verdict and the checks are two     *)
(* computations, and agree for every payment and every invoice.            *)
(***************************************************************************)
Judgeable(p, inv) ==
  /\ p \in JudgedPayments
  /\ inv = NoInvoice \/ (inv \in JudgedInvoices /\ p.memo # NoMemo)

(* A found invoice: the six checks are the conditions evaluate goes        *)
(* through, and the total and the amount are compared as integers.         *)
LEMMA VerdictWithInvoice ==
  ASSUME NEW p \in JudgedPayments, NEW inv \in JudgedInvoices, p.memo # NoMemo,
         NEW expected
  PROVE  LET v == evaluate(p, inv, expected)
             c == computeChecks(p, inv, expected)
         IN /\ v.status = "verified" <=> \A n \in CheckNames : c[n] = "pass"
            /\ v.status # "verified" =>
                 v.code \in FailureCodes /\ c[CheckOf(v.code)] = "fail"
  <1> DEFINE v == evaluate(p, inv, expected)
             c == computeChecks(p, inv, expected)
  <1>1. inv # NoInvoice /\ p.stroops \in Int /\ inv.stroops \in Int
    BY JudgedAssumption
  <1>2. c = [success   |-> passFail(p.ok), reference |-> "pass",
             recipient |-> passFail(ToRecipient(p, inv)),
             asset     |-> passFail(p.asset = expected),
             amount    |-> passFail(inv.stroops > 0 /\ p.stroops = inv.stroops),
             invoice   |-> passFail(Payable(inv) /\ ~Late(p, inv))]
    BY <1>1 DEF computeChecks, AmountCheck, InvoiceCheck
  <1>3. (\A n \in CheckNames : c[n] = "pass") <=>
           /\ p.ok /\ ToRecipient(p, inv) /\ p.asset = expected
           /\ inv.stroops > 0 /\ p.stroops = inv.stroops
           /\ Payable(inv) /\ ~Late(p, inv)
    BY <1>2 DEF CheckNames, passFail
  <1>4. v.status = "verified" <=>
           /\ p.ok /\ ToRecipient(p, inv) /\ p.asset = expected
           /\ inv.stroops > 0 /\ p.stroops = inv.stroops
           /\ Payable(inv) /\ ~Late(p, inv)
    BY <1>1 DEF evaluate, Verdict, Payable, PayableStatuses
  <1>5. v.status # "verified" => v.code \in FailureCodes /\ c[CheckOf(v.code)] = "fail"
    BY <1>1, <1>2
    DEF evaluate, Verdict, CheckOf, FailureCodes, passFail, Payable, PayableStatuses
  <1> QED BY <1>3, <1>4, <1>5

(* No invoice: the payment is failed or unmatched, and the check the code  *)
(* names fails; the checks about an invoice are skipped.                   *)
LEMMA VerdictWithoutInvoice ==
  ASSUME NEW p, NEW expected
  PROVE  LET v == evaluate(p, NoInvoice, expected)
             c == computeChecks(p, NoInvoice, expected)
         IN /\ v.status # "verified"
            /\ c["invoice"] = "skip"
            /\ v.code \in FailureCodes /\ c[CheckOf(v.code)] = "fail"
  BY DEF evaluate, computeChecks, Verdict, CheckOf, FailureCodes, passFail

JudgementInv ==
  /\ Judgeable(payment, found)
  /\ done => /\ verdict = evaluate(payment, found, JudgedAsset)
             /\ checks = computeChecks(payment, found, JudgedAsset)

(* The judgement establishes the agreement of verdict and checks.          *)
LEMMA JudgementAgrees ==
  ASSUME JudgementInv
  PROVE  VerifiedIffChecksPass /\ CodeNamesFailedCheck
  <1>1. CASE found = NoInvoice
    <2>1. done => verdict.status # "verified" /\ checks["invoice"] = "skip"
      BY <1>1, VerdictWithoutInvoice DEF JudgementInv
    <2>2. done => /\ verdict.code \in FailureCodes
                  /\ checks[CheckOf(verdict.code)] = "fail"
      BY <1>1, VerdictWithoutInvoice DEF JudgementInv
    <2>3. "invoice" \in CheckNames
      BY DEF CheckNames
    <2> QED BY <2>1, <2>2, <2>3 DEF VerifiedIffChecksPass, CodeNamesFailedCheck
  <1>2. CASE found # NoInvoice
    <2>1. payment \in JudgedPayments /\ found \in JudgedInvoices /\ payment.memo # NoMemo
      BY <1>2 DEF JudgementInv, Judgeable
    <2> QED BY <2>1, VerdictWithInvoice
            DEF JudgementInv, VerifiedIffChecksPass, CodeNamesFailedCheck
  <1> QED BY <1>1, <1>2

(* The agreement is an invariant.                                          *)
LEMMA JudgementAlways == JudgementSpec => []JudgementInv
  <1>1. JudgementInit => JudgementInv
    BY DEF JudgementInit, JudgementInv, Judgeable
  <1>2. JudgementInv /\ [Judge]_judgementVars => JudgementInv'
    BY DEF JudgementInv, Judgeable, Judge, judgementVars
  <1> QED BY <1>1, <1>2, PTL DEF JudgementSpec

(* A payment is verified exactly when all six checks pass, for payments    *)
(* and invoices of any amounts, dates, assets and statuses.                *)
THEOREM VerifiedMeansChecked == JudgementSpec => []VerifiedIffChecksPass
  <1>1. JudgementInv => VerifiedIffChecksPass
    BY JudgementAgrees
  <1> QED BY <1>1, JudgementAlways, PTL

(* A failure code always points at a check shown as failed.                *)
THEOREM CodesNameFailures == JudgementSpec => []CodeNamesFailedCheck
  <1>1. JudgementInv => CodeNamesFailedCheck
    BY JudgementAgrees
  <1> QED BY <1>1, JudgementAlways, PTL
=============================================================================
