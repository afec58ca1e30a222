------------------------------ MODULE InvoiceCache ------------------------------
(***************************************************************************)
(* One invoice and its copies in Redis (internal/invoice): the owner's     *)
(* view under invoice:<id> and the public view under invoice_search:...    *)
(* Readers fill a missing copy in a goroutine of their own, after they     *)
(* have answered; most writers delete the owner's view after their commit, *)
(* none the public view.                                                   *)
(*                                                                         *)
(* What matters of a copy is how old it is and since when the row says     *)
(* something else; both are counted in ticks from the present.             *)
(***************************************************************************)
EXTENDS Integers

CONSTANTS
  Readers,       \* requests that read the invoice
  Writers,       \* requests and tasks that write it
  Lifetime,      \* the expiry of a copy: 90 seconds
  FillBound,     \* the bound on the time from reading the row to Redis' answer
  MaxCacheFaults \* the bound on errors of Redis and crashes

ASSUME CacheAssumption ==
  /\ {Lifetime, FillBound} \subseteq Nat \ {0}
  /\ MaxCacheFaults \in Nat

VARIABLES
  copy,          \* the copies in Redis
  reader,        \* what each reader is at, and what it has read
  deleting,      \* writers between their commit and the deletion of the key
  cacheFaults    \* errors and crashes so far

cacheVars == <<copy, reader, deleting, cacheFaults>>

OwnerKey == "invoice"
PublicKey == "invoice_search"
Keys == {OwnerKey, PublicKey}

(* since: ticks since the row changed, Current if it did not; cause: how   *)
(* the copy outlived the first such change.                                *)
Current == -1
Contents == [since: Current..(Lifetime + FillBound),
             cause: {"none", "kept", "cached", "inFlight"}]
Absent == Lifetime

CacheTypeOK ==
  /\ copy \in [Keys -> [age: 0..Lifetime, content: Contents]]
  /\ reader \in [Readers -> [phase: {"idle", "missed", "filling"}, key: Keys,
                             age: 0..FillBound, content: Contents]]
  /\ deleting \subseteq Writers
  /\ cacheFaults \in 0..MaxCacheFaults

Fresh == [since |-> Current, cause |-> "none"]
NoCopy == [age |-> Absent, content |-> Fresh]
NotReading == [phase |-> "idle", key |-> OwnerKey, age |-> 0, content |-> Fresh]

CacheInit ==
  /\ copy = [k \in Keys |-> NoCopy]
  /\ reader = [r \in Readers |-> NotReading]
  /\ deleting = {}
  /\ cacheFaults = 0
-------------------------------------------------------------------------------
(***************************************************************************)
(* getInvoiceById and getInvoiceSearch.                                    *)
(***************************************************************************)

(* Mutated form of AgeAfterHit: the expiry slides.                         *)
AgeAfterSlidingHit(age) == 0

(* A hit leaves the expiry of the copy as it is.                           *)
AgeAfterHit(age) == age

getFromCache(k) ==
  /\ copy[k].age < Absent
  /\ copy' = [copy EXCEPT ![k].age = AgeAfterHit(@)]
  /\ UNCHANGED <<reader, deleting, cacheFaults>>

CacheMiss(r, k) ==
  /\ reader[r].phase = "idle"
  /\ copy[k].age = Absent
  /\ reader' = [reader EXCEPT ![r] = [NotReading EXCEPT !.phase = "missed", !.key = k]]
  /\ UNCHANGED <<copy, deleting, cacheFaults>>

(* The row is read with its items in one query; the answer and the copy    *)
(* are made of it.                                                         *)
ReadRow(r, k) ==
  /\ reader[r].phase = "missed" /\ reader[r].key = k
  /\ reader' = [reader EXCEPT ![r] = [NotReading EXCEPT !.phase = "filling", !.key = k]]
  /\ UNCHANGED <<copy, deleting, cacheFaults>>

getInvoiceById(r) == ReadRow(r, OwnerKey)
getInvoiceSearch(r) == ReadRow(r, PublicKey)

cacheInvoice(r) ==
  /\ reader[r].phase = "filling"
  /\ copy' = [copy EXCEPT ![reader[r].key] = [age |-> 0, content |-> reader[r].content]]
  /\ reader' = [reader EXCEPT ![r] = NotReading]
  /\ UNCHANGED <<deleting, cacheFaults>>

(* The reader is refused, the row is gone, or Redis fails: errors of the   *)
(* fill are logged.                                                        *)
ReadEnds(r) ==
  /\ reader[r].phase # "idle"
  /\ reader' = [reader EXCEPT ![r] = NotReading]
  /\ UNCHANGED <<copy, deleting, cacheFaults>>
-------------------------------------------------------------------------------
(***************************************************************************)
(* Writers.                                                                *)
(***************************************************************************)
Outdated(content, cause) ==
  IF content.since = Current THEN [since |-> 0, cause |-> cause] ELSE content

OutdateReaders ==
  reader' = [r \in Readers |->
               IF reader[r].phase = "filling"
               THEN [reader[r] EXCEPT !.content = Outdated(@, "inFlight")]
               ELSE reader[r]]

OutdateCopies(deletedKeys) ==
  copy' = [k \in Keys |->
             IF copy[k].age = Absent THEN copy[k]
             ELSE [copy[k] EXCEPT !.content =
                     Outdated(@, IF k \in deletedKeys THEN "cached" ELSE "kept")]]

(* SendInvoice, ReviewInvoice, EditInvoice, DeleteInvoice, the daily task  *)
(* and the payments package commit, some send mails, and then delete the   *)
(* owner's view ...                                                        *)
CommitWrite(w) ==
  /\ w \notin deleting
  /\ OutdateCopies({OwnerKey}) /\ OutdateReaders
  /\ deleting' = deleting \cup {w}
  /\ UNCHANGED cacheFaults

(* ... UpdateInvoice, the hourly ticker and ExpireInvoices do not:         *)
(* UpdateInvoice deletes the key invoice:invoice:<id>.                     *)
CommitSilently(w) ==
  /\ w \notin deleting
  /\ OutdateCopies({}) /\ OutdateReaders
  /\ UNCHANGED <<deleting, cacheFaults>>

(* Mutated form of DeletedKey: the key with its prefix twice, as in        *)
(* UpdateInvoice.                                                          *)
DeletedKeyPrefixedTwice == "invoice:invoice"

DeletedKey == OwnerKey

DeleteFromRedisCache(w) ==
  /\ w \in deleting
  /\ copy' = [k \in Keys |-> IF k = DeletedKey THEN NoCopy ELSE copy[k]]
  /\ deleting' = deleting \ {w}
  /\ UNCHANGED <<reader, cacheFaults>>

(* An error of Redis is logged, and a crash forgets the deletion.          *)
DeleteFails(w) ==
  /\ w \in deleting /\ cacheFaults < MaxCacheFaults
  /\ deleting' = deleting \ {w}
  /\ cacheFaults' = cacheFaults + 1
  /\ UNCHANGED <<copy, reader>>
-------------------------------------------------------------------------------
Older(content) ==
  IF content.since = Current THEN content ELSE [content EXCEPT !.since = @ + 1]

CacheTick ==
  /\ \A r \in Readers : reader[r].phase = "filling" => reader[r].age < FillBound
  /\ copy' = [k \in Keys |->
       IF copy[k].age + 1 >= Lifetime THEN NoCopy
       ELSE [age |-> copy[k].age + 1, content |-> Older(copy[k].content)]]
  /\ reader' = [r \in Readers |->
       IF reader[r].phase = "filling"
       THEN [reader[r] EXCEPT !.age = @ + 1, !.content = Older(@)] ELSE reader[r]]
  /\ UNCHANGED <<deleting, cacheFaults>>

CacheNext ==
  \/ \E k \in Keys : getFromCache(k)
  \/ \E r \in Readers :
       \/ \E k \in Keys : CacheMiss(r, k)
       \/ getInvoiceById(r) \/ getInvoiceSearch(r) \/ cacheInvoice(r) \/ ReadEnds(r)
  \/ \E w \in Writers :
       CommitWrite(w) \/ CommitSilently(w) \/ DeleteFromRedisCache(w) \/ DeleteFails(w)
  \/ CacheTick

CacheSpec == CacheInit /\ [][CacheNext]_cacheVars
-------------------------------------------------------------------------------
(* No reader is served an invoice that changed longer ago than the         *)
(* lifetime of a copy and the time a fill may take: a reader that read the *)
(* row before a write may fill the cache after it, but no copy is renewed. *)
ServedWithinLifetime ==
  \A k \in Keys : copy[k].age < Absent => copy[k].content.since < Lifetime + FillBound

(* An old copy of the owner's view is left by a writer that deletes no     *)
(* key, by a reader that overtook the deletion, or by an error: a copy     *)
(* that was in the cache when a write committed is gone when it returns.   *)
DeletedAfterWrite ==
  copy[OwnerKey].content.cause = "cached" => deleting # {} \/ cacheFaults > 0
=============================================================================
