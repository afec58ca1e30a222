------------------------ MODULE ListingsReports_proofs ------------------------
(***************************************************************************)
(* What a client is shown of tables that change while it looks: how many   *)
(* rows it may miss and see twice when it turns the pages of a listing,    *)
(* and by how much the sums of two reports over the same rows may differ.  *)
(***************************************************************************)
EXTENDS Listings, ServiceBounds_proofs, SequenceTheorems, FiniteSetTheorems,
        WellFoundedInduction, TLAPS

(***************************************************************************)
(* Lists that lose or gain a row.                                          *)
(***************************************************************************)
LEMMA Joined ==
  ASSUME NEW S, NEW a \in Seq(S), NEW b \in Seq(S), NEW k \in Nat, NEW n \in Nat,
         NEW m, m = k + n, Len(a) = k, Len(b) = n, NEW c, c = a \o b
  PROVE  /\ c \in Seq(S) /\ Len(c) = m
         /\ \A i \in 1..m : c[i] = IF i <= k THEN a[i] ELSE b[i - k]
  BY ConcatProperties

LEMMA RowInserted ==
  ASSUME NEW S, NEW l \in Seq(S), NEW p \in 1..(Len(l) + 1), NEW r,
         NEW m, m = InsertAt(l, p, r)
  PROVE  /\ m \in Seq(S \cup {r}) /\ Len(m) = Len(l) + 1
         /\ \A i \in 1..(Len(l) + 1) :
              m[i] = IF i < p THEN l[i] ELSE IF i = p THEN r ELSE l[i - 1]
  <1> PICK T : T = S \cup {r}
    OBVIOUS
  <1> PICK n \in Nat : n = Len(l)
    BY LenProperties
  <1>1. l \in Seq(T) /\ p \in 1..(n + 1) /\ \A i \in 1..n : l[i] \in T
    BY SeqMonotonic, LenProperties, ElementOfSeq
  <1>b. PICK before : before = SubSeq(l, 1, p - 1)
    OBVIOUS
  <1>a. PICK after : after = SubSeq(l, p, n)
    OBVIOUS
  <1>2. /\ before \in Seq(T) /\ Len(before) = p - 1
        /\ \A i \in 1..(p - 1) : before[i] = l[i]
    <2>1. \A i \in 1..(p - 1) : l[i] \in T
      BY <1>1
    <2>2. /\ before \in Seq(T) /\ Len(before) = IF 1 <= p - 1 THEN p - 1 - 1 + 1 ELSE 0
          /\ \A i \in 1..(p - 1 - 1 + 1) : before[i] = l[1 + i - 1]
      BY <1>b, <1>1, <2>1, SubSeqProperties
    <2> QED BY <1>1, <2>2
  <1>3. /\ after \in Seq(T) /\ Len(after) = n - p + 1
        /\ \A i \in 1..(n - p + 1) : after[i] = l[p + i - 1]
    <2>1. \A i \in p..n : l[i] \in T
      BY <1>1
    <2>2. /\ after \in Seq(T) /\ Len(after) = IF p <= n THEN n - p + 1 ELSE 0
          /\ \A i \in 1..(n - p + 1) : after[i] = l[p + i - 1]
      BY <1>a, <1>1, <2>1, SubSeqProperties
    <2> QED BY <1>1, <2>2
  <1>r. PICK row : row = <<r>>
    OBVIOUS
  <1>0. row \in Seq(T) /\ Len(row) = 1 /\ row[1] = r
    BY <1>r
  <1>f. PICK first : first = before \o row
    OBVIOUS
  <1>4. /\ first \in Seq(T) /\ Len(first) = p
        /\ \A i \in 1..p : first[i] = IF i <= p - 1 THEN before[i] ELSE row[i - (p - 1)]
    <2>1. PICK q \in Nat : q = p - 1
      BY <1>1
    <2>2. /\ q \in Nat /\ before \in Seq(T) /\ Len(before) = q
          /\ 1 \in Nat /\ p = q + 1
      BY <1>1, <1>2, <2>1
    <2>3. /\ first \in Seq(T) /\ Len(first) = p
          /\ \A i \in 1..p : first[i] = IF i <= q THEN before[i] ELSE row[i - q]
      <3>1. /\ first \in Seq(T) /\ Len(first) = Len(before) + Len(row)
            /\ \A i \in 1..(Len(before) + Len(row)) :
                 first[i] = IF i <= Len(before) THEN before[i] ELSE row[i - Len(before)]
        BY ZenonT(30), <1>f, <1>0, <2>2, ConcatProperties
      <3> QED BY <3>1, <1>0, <2>2
    <2> QED BY <2>1, <2>3
  <1>m. m = first \o after
    BY <1>b, <1>a, <1>r, <1>f DEF InsertAt
  <1>5. /\ m \in Seq(T) /\ Len(m) = n + 1
        /\ \A i \in 1..(n + 1) : m[i] = IF i <= p THEN first[i] ELSE after[i - p]
    <2>1. p \in Nat /\ n - p + 1 \in Nat /\ n + 1 \in Nat /\ n + 1 = p + (n - p + 1)
      BY <1>1
    <2> QED BY <1>m, <1>3, <1>4, <2>1, Joined
  <1>6. ASSUME NEW i \in 1..(n + 1)
        PROVE  m[i] = IF i < p THEN l[i] ELSE IF i = p THEN r ELSE l[i - 1]
    <2>1. CASE i < p
      <3>1. m[i] = first[i]
        BY <1>1, <1>5, <2>1
      <3>2. first[i] = l[i]
        BY <1>1, <1>2, <1>4, <2>1
      <3> QED BY <2>1, <3>1, <3>2
    <2>2. CASE i = p
      BY <1>0, <1>1, <1>4, <1>5, <2>2
    <2>3. CASE i > p
      <3> PICK j \in Int : j = i - p
        BY <1>1
      <3>1. m[i] = after[j] /\ j \in 1..(n - p + 1) /\ p + j - 1 = i - 1
        BY <1>1, <1>5, <2>3
      <3> QED BY SMTT(30), <1>1, <1>3, <2>3, <3>1
    <2> QED BY <1>1, <2>1, <2>2, <2>3
  <1> QED BY <1>5, <1>6

LEMMA RowRemoved ==
  ASSUME NEW S, NEW l \in Seq(S), NEW p \in 1..Len(l), NEW m, m = RemoveAt(l, p)
  PROVE  /\ m \in Seq(S) /\ Len(m) = Len(l) - 1
         /\ \A i \in 1..(Len(l) - 1) : m[i] = IF i < p THEN l[i] ELSE l[i + 1]
  <1> PICK n \in Nat : n = Len(l)
    BY LenProperties
  <1>1. p \in 1..n /\ \A i \in 1..n : l[i] \in S
    BY LenProperties, ElementOfSeq
  <1>b. PICK before : before = SubSeq(l, 1, p - 1)
    OBVIOUS
  <1>a. PICK after : after = SubSeq(l, p + 1, n)
    OBVIOUS
  <1>2. /\ before \in Seq(S) /\ Len(before) = p - 1
        /\ \A i \in 1..(p - 1) : before[i] = l[i]
    <2>1. \A i \in 1..(p - 1) : l[i] \in S
      BY <1>1
    <2>2. /\ before \in Seq(S) /\ Len(before) = IF 1 <= p - 1 THEN p - 1 - 1 + 1 ELSE 0
          /\ \A i \in 1..(p - 1 - 1 + 1) : before[i] = l[1 + i - 1]
      BY <1>b, <1>1, <2>1, SubSeqProperties
    <2> QED BY <1>1, <2>2
  <1>3. /\ after \in Seq(S) /\ Len(after) = n - p
        /\ \A i \in 1..(n - p) : after[i] = l[p + i]
    <2>1. \A i \in (p + 1)..n : l[i] \in S
      BY <1>1
    <2>2. /\ after \in Seq(S)
          /\ Len(after) = IF p + 1 <= n THEN n - (p + 1) + 1 ELSE 0
          /\ \A i \in 1..(n - (p + 1) + 1) : after[i] = l[p + 1 + i - 1]
      BY SMTT(30), <1>a, <1>1, <2>1, SubSeqProperties
    <2> QED BY <1>1, <2>2
  <1>m. m = before \o after
    BY <1>b, <1>a DEF RemoveAt
  <1>4. /\ m \in Seq(S) /\ Len(m) = n - 1
        /\ \A i \in 1..(n - 1) : m[i] = IF i <= p - 1 THEN before[i] ELSE after[i - (p - 1)]
    <2>1. PICK q \in Nat : q = p - 1
      BY <1>1
    <2>2. /\ q \in Nat /\ before \in Seq(S) /\ Len(before) = q
          /\ after \in Seq(S) /\ Len(after) = n - p /\ n - p \in Nat /\ n - 1 = q + (n - p)
      BY <1>1, <1>2, <1>3, <2>1
    <2>3. /\ m \in Seq(S) /\ Len(m) = n - 1
          /\ \A i \in 1..(n - 1) : m[i] = IF i <= q THEN before[i] ELSE after[i - q]
      <3> PICK c : c = before \o after
        OBVIOUS
      <3>1. /\ c \in Seq(S) /\ Len(c) = Len(before) + Len(after)
            /\ \A i \in 1..(Len(before) + Len(after)) :
                 c[i] = IF i <= Len(before) THEN before[i] ELSE after[i - Len(before)]
        BY <2>2, ConcatProperties
      <3> QED BY <1>m, <3>1, <2>2
    <2> QED BY <2>1, <2>3
  <1>5. ASSUME NEW i \in 1..(n - 1)
        PROVE  m[i] = IF i < p THEN l[i] ELSE l[i + 1]
    <2>1. CASE i < p
      BY <1>1, <1>2, <1>4, <2>1
    <2>2. CASE i >= p
      <3> PICK j \in Int : j = i - (p - 1)
        BY <1>1
      <3>1. m[i] = after[j] /\ j \in 1..(n - p) /\ p + j = i + 1
        BY <1>1, <1>4, <2>2
      <3> QED BY <1>1, <1>3, <2>2, <3>1
    <2> QED BY <1>1, <2>1, <2>2
  <1> QED BY <1>4, <1>5
-------------------------------------------------------------------------------
(***************************************************************************)
(* Turning pages.  The pages fetched cover the first rows of the list as   *)
(* it is now: of the rows that were there all the time, those among them   *)
(* that the client did not see were pulled forward by rows that left, and  *)
(* those behind them that it did see were pushed back by rows that came.   *)
(***************************************************************************)
Passed(k) == {list[i] : i \in {j \in DOMAIN list : j <= k}}
Ahead(k) == {list[i] : i \in {j \in DOMAIN list : j > k}}

Unseen(k) == (Passed(k) \cap turning.stayed) \ pager.seen
Pushed(k) == Ahead(k) \cap turning.stayed \cap pager.seen

(* The rows of the pages fetched so far.                                   *)
Skipped == offset(pager.page, pager.limit)

ListingsTypeOK ==
  /\ listing.order \in {"newest", "oldest", "relevance"}
  /\ newest \in Nat /\ list \in Seq(1..newest)
  /\ \A i, j \in DOMAIN list : list[i] = list[j] => i = j
  /\ pager \in [phase: {"idle", "count", "page", "done"}, page: Nat, limit: Nat,
                total: Nat, seen: SUBSET (1..newest), repeats: Nat]
  /\ turning \in [stayed: SUBSET (1..newest), left: Nat, joined: Nat, late: Nat]

ListingsInv ==
  /\ ListingsTypeOK
  /\ Reading =>
       /\ pager.page \in Nat \ {0} /\ pager.limit \in Nat \ {0}
       /\ turning.stayed \subseteq Rows
       /\ Cardinality(Unseen(Skipped)) <= turning.left
       /\ pager.repeats + Cardinality(Pushed(Skipped)) <= turning.joined
  /\ pager.phase = "page" => Len(list) <= pager.total + turning.late
  /\ MissedBounded /\ RepeatedBounded

LEMMA ListTyped ==
  ASSUME ListingsTypeOK
  PROVE  /\ Len(list) \in Nat /\ DOMAIN list = 1..Len(list) /\ Rows \subseteq 1..newest
         /\ \A i \in DOMAIN list : list[i] \in 1..newest
         /\ Rows = {list[i] : i \in DOMAIN list}
         /\ IsFiniteSet(1..newest) /\ newest \in Nat
  <1>1. /\ Len(list) \in Nat /\ DOMAIN list = 1..Len(list) /\ newest \in Nat
        /\ list \in [1..Len(list) -> 1..newest]
    BY LenProperties DEF ListingsTypeOK
  <1>2. Rows = {list[i] : i \in DOMAIN list}
    BY DEF Rows, ToSet
  <1>3. \A i \in DOMAIN list : list[i] \in 1..newest
    BY <1>1
  <1>4. Rows \subseteq 1..newest
    BY <1>2, <1>3
  <1>5. IsFiniteSet(1..newest)
    BY <1>1, FS_Interval
  <1> QED BY <1>1, <1>2, <1>3, <1>4, <1>5

(* A set that gains an element at most.                                    *)
LEMMA OneMore ==
  ASSUME NEW A, NEW B, NEW x, IsFiniteSet(B), A \subseteq B \cup {x}
  PROVE  /\ IsFiniteSet(A) /\ Cardinality(A) \in Nat /\ Cardinality(B) \in Nat
         /\ Cardinality(A) <= Cardinality(B) + 1
  <1>1. IsFiniteSet(B \cup {x}) /\ Cardinality(B \cup {x}) <= Cardinality(B) + 1
    <2>1. /\ IsFiniteSet(B \cup {x})
          /\ Cardinality(B \cup {x}) = IF x \in B THEN Cardinality(B) ELSE Cardinality(B) + 1
      BY FS_AddElement
    <2>2. Cardinality(B) \in Nat
      BY FS_CardinalityType
    <2> QED BY <2>1, <2>2
  <1>2. IsFiniteSet(A) /\ Cardinality(A) <= Cardinality(B \cup {x})
    BY <1>1, FS_Subset
  <1> QED BY <1>1, <1>2, FS_CardinalityType

LEMMA FewerOnes ==
  ASSUME NEW A, NEW B, IsFiniteSet(B), A \subseteq B
  PROVE  /\ IsFiniteSet(A) /\ Cardinality(A) \in Nat /\ Cardinality(B) \in Nat
         /\ Cardinality(A) <= Cardinality(B)
  BY FS_Subset, FS_CardinalityType

(* A row that leaves: one behind the pages may move into them.             *)
LEMMA ListShrinks ==
  ASSUME ListingsTypeOK, NEW p \in DOMAIN list, list' = RemoveAt(list, p), NEW k \in Nat
  PROVE  /\ list' \in Seq(1..newest) /\ Len(list') = Len(list) - 1
         /\ \A i, j \in DOMAIN list' : list'[i] = list'[j] => i = j
         /\ Rows \ {list[p]} \subseteq Rows'
         /\ \E x : Passed(k)' \subseteq Passed(k) \cup {x}
         /\ Ahead(k)' \subseteq Ahead(k)
  <1>1. /\ Len(list) \in Nat /\ DOMAIN list = 1..Len(list)
        /\ \A i, j \in DOMAIN list : list[i] = list[j] => i = j
    BY ListTyped DEF ListingsTypeOK
  <1>2. /\ list' \in Seq(1..newest) /\ Len(list') = Len(list) - 1
        /\ \A i \in 1..(Len(list) - 1) :
             list'[i] = IF i < p THEN list[i] ELSE list[i + 1]
    <2>0. PICK S : S = 1..newest
      OBVIOUS
    <2>1. list \in Seq(S) /\ p \in 1..Len(list)
      BY <1>1, <2>0 DEF ListingsTypeOK
    <2>m. PICK m : m = RemoveAt(list, p)
      OBVIOUS
    <2>2. /\ m \in Seq(S) /\ Len(m) = Len(list) - 1
          /\ \A i \in 1..(Len(list) - 1) : m[i] = IF i < p THEN list[i] ELSE list[i + 1]
      BY ZenonT(30), <2>1, <2>m, RowRemoved
    <2> QED BY <2>0, <2>m, <2>2
  <1>3. DOMAIN list' = 1..(Len(list) - 1)
    BY <1>1, <1>2, LenProperties
  <1> PICK n \in Nat : n = Len(list)
    BY <1>1
  <1>4. ASSUME NEW i \in DOMAIN list', NEW j \in DOMAIN list', list'[i] = list'[j]
        PROVE  i = j
    <2>1. PICK a \in DOMAIN list : list'[i] = list[a] /\ IF i < p THEN a = i ELSE a = i + 1
      BY <1>1, <1>2, <1>3
    <2>2. PICK b \in DOMAIN list : list'[j] = list[b] /\ IF j < p THEN b = j ELSE b = j + 1
      BY <1>1, <1>2, <1>3
    <2>3. a = b
      BY <1>1, <1>4, <2>1, <2>2
    <2>4. i \in Int /\ j \in Int /\ p \in Int
      BY <1>1, <1>3
    <2> QED BY <2>1, <2>2, <2>3, <2>4
  <1>5. ASSUME NEW r \in Rows, r # list[p]
        PROVE  r \in Rows'
    <2>1. PICK i \in DOMAIN list : r = list[i] /\ i # p
      BY <1>5, ListTyped
    <2>2. CASE i < p
      <3>1. i \in DOMAIN list' /\ list'[i] = r
        BY <1>1, <1>2, <1>3, <2>1, <2>2
      <3> QED BY <3>1 DEF Rows, ToSet
    <2>3. CASE i > p
      <3>1. i - 1 \in DOMAIN list' /\ list'[i - 1] = r
        BY <1>1, <1>2, <1>3, <2>1, <2>3
      <3> QED BY <3>1 DEF Rows, ToSet
    <2> QED BY <1>1, <2>1, <2>2, <2>3
  <1>6. Passed(k)' \subseteq Passed(k) \cup {list[k + 1]}
    <2> SUFFICES ASSUME NEW i \in DOMAIN list', i <= k
                 PROVE  list'[i] \in Passed(k) \cup {list[k + 1]}
      BY DEF Passed
    <2>1. CASE i < p
      <3>1. list'[i] = list[i] /\ i \in DOMAIN list
        BY <1>1, <1>2, <1>3, <2>1
      <3> QED BY <3>1 DEF Passed
    <2>2. CASE i >= p
      <3>1. list'[i] = list[i + 1] /\ i + 1 \in DOMAIN list
        BY <1>1, <1>2, <1>3, <2>2
      <3>2. i + 1 <= k \/ i + 1 = k + 1
        BY <1>1, <1>3
      <3> QED BY <3>1, <3>2 DEF Passed
    <2> QED BY <1>1, <1>3, <2>1, <2>2
  <1>7. Ahead(k)' \subseteq Ahead(k)
    <2> SUFFICES ASSUME NEW i \in DOMAIN list', i > k
                 PROVE  list'[i] \in Ahead(k)
      BY DEF Ahead
    <2>1. CASE i < p
      <3>1. list'[i] = list[i] /\ i \in DOMAIN list
        BY <1>1, <1>2, <1>3, <2>1
      <3> QED BY <3>1 DEF Ahead
    <2>2. CASE i >= p
      <3>1. list'[i] = list[i + 1] /\ i + 1 \in DOMAIN list /\ i + 1 > k
        BY <1>1, <1>2, <1>3, <2>2
      <3> QED BY <3>1 DEF Ahead
    <2> QED BY <1>1, <1>3, <2>1, <2>2
  <1> QED BY <1>2, <1>4, <1>5, <1>6, <1>7

(* A row that comes: one of the pages may move behind them.                *)
LEMMA ListGrows ==
  ASSUME ListingsTypeOK, NEW p \in 1..(Len(list) + 1), NEW row \in Nat \ {0}, row \notin Rows,
         list' = InsertAt(list, p, row), newest' \in Nat, newest <= newest', row <= newest',
         NEW k \in Nat
  PROVE  /\ list' \in Seq(1..newest') /\ Len(list') = Len(list) + 1
         /\ \A i, j \in DOMAIN list' : list'[i] = list'[j] => i = j
         /\ Rows \subseteq Rows'
         /\ Passed(k)' \subseteq Passed(k) \cup {row}
         /\ \E x : Ahead(k)' \subseteq (Ahead(k) \cup {x}) \cup {row}
  <1>1. /\ Len(list) \in Nat /\ DOMAIN list = 1..Len(list)
        /\ \A i, j \in DOMAIN list : list[i] = list[j] => i = j
        /\ \A i \in DOMAIN list : list[i] # row
    BY SMTT(30), ListTyped DEF ListingsTypeOK
  <1>2. /\ list' \in Seq((1..newest) \cup {row}) /\ Len(list') = Len(list) + 1
        /\ \A i \in 1..(Len(list) + 1) :
             list'[i] = IF i < p THEN list[i] ELSE IF i = p THEN row ELSE list[i - 1]
    <2>0. PICK S : S = 1..newest
      OBVIOUS
    <2>1. list \in Seq(S)
      BY <2>0 DEF ListingsTypeOK
    <2>m. PICK m : m = InsertAt(list, p, row)
      OBVIOUS
    <2>2. /\ m \in Seq(S \cup {row}) /\ Len(m) = Len(list) + 1
          /\ \A i \in 1..(Len(list) + 1) :
               m[i] = IF i < p THEN list[i] ELSE IF i = p THEN row ELSE list[i - 1]
      BY <2>1, <2>m, RowInserted
    <2> QED BY <2>0, <2>m, <2>2
  <1>3. list' \in Seq(1..newest') /\ DOMAIN list' = 1..(Len(list) + 1)
    <2>1. (1..newest) \cup {row} \subseteq 1..newest'
      BY ListTyped
    <2>2. list' \in Seq(1..newest')
      BY <1>2, <2>1, SeqMonotonic
    <2> QED BY <1>2, <2>2, LenProperties
  <1> PICK n \in Nat : n = Len(list)
    BY <1>1
  <1>4. ASSUME NEW i \in DOMAIN list', NEW j \in DOMAIN list', list'[i] = list'[j]
        PROVE  i = j
    <2>0. i \in Int /\ j \in Int /\ p \in Int
      BY <1>1, <1>3
    <2>1. i # p => \E a \in DOMAIN list : list'[i] = list[a] /\ IF i < p THEN a = i ELSE a = i - 1
      BY SMTT(30), <1>1, <1>2, <1>3, <2>0
    <2>2. j # p => \E b \in DOMAIN list : list'[j] = list[b] /\ IF j < p THEN b = j ELSE b = j - 1
      BY SMTT(30), <1>1, <1>2, <1>3, <2>0
    <2>3. (i = p => list'[i] = row) /\ (j = p => list'[j] = row)
      BY <1>2, <1>3
    <2>4. i = p <=> j = p
      BY <1>1, <1>4, <2>1, <2>2, <2>3
    <2>5. CASE i # p
      <3>1. PICK a \in DOMAIN list : list'[i] = list[a] /\ IF i < p THEN a = i ELSE a = i - 1
        BY <2>1, <2>5
      <3>2. PICK b \in DOMAIN list : list'[j] = list[b] /\ IF j < p THEN b = j ELSE b = j - 1
        BY <2>2, <2>4, <2>5
      <3>3. a = b
        BY <1>1, <1>4, <3>1, <3>2
      <3> QED BY <2>0, <2>4, <2>5, <3>1, <3>2, <3>3
    <2> QED BY <2>4, <2>5
  <1>5. ASSUME NEW r \in Rows
        PROVE  r \in Rows'
    <2>1. PICK i \in DOMAIN list : r = list[i]
      BY ListTyped
    <2>2. CASE i < p
      <3>1. i \in DOMAIN list' /\ list'[i] = r
        BY <1>1, <1>2, <1>3, <2>1, <2>2
      <3> QED BY <3>1 DEF Rows, ToSet
    <2>3. CASE i >= p
      <3>1. i + 1 \in DOMAIN list' /\ list'[i + 1] = r
        BY <1>1, <1>2, <1>3, <2>1, <2>3
      <3> QED BY <3>1 DEF Rows, ToSet
    <2> QED BY <1>1, <2>1, <2>2, <2>3
  <1>6. Passed(k)' \subseteq Passed(k) \cup {row}
    <2> SUFFICES ASSUME NEW i \in DOMAIN list', i <= k, i # p
                 PROVE  list'[i] \in Passed(k)
      <3>1. list'[p] = row
        BY <1>1, <1>2
      <3> QED BY <3>1 DEF Passed
    <2>1. CASE i < p
      <3>1. list'[i] = list[i] /\ i \in DOMAIN list
        BY <1>1, <1>2, <1>3, <2>1
      <3> QED BY <3>1 DEF Passed
    <2>2. CASE i > p
      <3>1. list'[i] = list[i - 1] /\ i - 1 \in DOMAIN list /\ i - 1 <= k
        BY <1>1, <1>2, <1>3, <2>2
      <3> QED BY <3>1 DEF Passed
    <2> QED BY <1>1, <1>3, <2>1, <2>2
  <1>7. Ahead(k)' \subseteq (Ahead(k) \cup {list[k]}) \cup {row}
    <2> SUFFICES ASSUME NEW i \in DOMAIN list', i > k, i # p
                 PROVE  list'[i] \in Ahead(k) \cup {list[k]}
      <3>1. list'[p] = row
        BY <1>1, <1>2
      <3> QED BY <3>1 DEF Ahead
    <2>1. CASE i < p
      <3>1. list'[i] = list[i] /\ i \in DOMAIN list
        BY <1>1, <1>2, <1>3, <2>1
      <3> QED BY <3>1 DEF Ahead
    <2>2. CASE i > p
      <3>1. PICK a \in DOMAIN list : a = i - 1 /\ list'[i] = list[a]
        BY <1>1, <1>2, <1>3, <2>2
      <3>2. a > k \/ a = k
        BY <1>1, <1>3, <3>1
      <3> QED BY <3>1, <3>2 DEF Ahead
    <2> QED BY <1>1, <1>3, <2>1, <2>2
  <1> QED BY <1>2, <1>3, <1>4, <1>5, <1>6, <1>7

(* The rows behind the first k.                                            *)
LEMMA AheadBounded ==
  ASSUME ListingsTypeOK, NEW k \in Nat
  PROVE  /\ IsFiniteSet(Ahead(k))
         /\ Cardinality(Ahead(k)) <= IF k < Len(list) THEN Len(list) - k ELSE 0
  <1>1. Len(list) \in Nat /\ DOMAIN list = 1..Len(list)
    BY ListTyped
  <1>2. CASE k >= Len(list)
    <2>1. Ahead(k) = {}
      BY <1>1, <1>2 DEF Ahead
    <2> QED BY <1>1, <1>2, <2>1, FS_EmptySet
  <1>3. CASE k < Len(list)
    <2> DEFINE places == (k + 1)..Len(list)
               f == [i \in places |-> list[i]]
    <2>1. IsFiniteSet(places) /\ Cardinality(places) = Len(list) - k
      <3>1. k + 1 \in Int /\ Len(list) \in Int /\ ~(k + 1 > Len(list))
        BY <1>1, <1>3
      <3> QED BY <1>1, <3>1, FS_Interval
    <2>2. f \in Surjection(places, Ahead(k))
      <3>1. places = {j \in DOMAIN list : j > k}
        BY <1>1
      <3>2. Ahead(k) = {list[i] : i \in places}
        BY <3>1 DEF Ahead
      <3> HIDE DEF places
      <3> QED BY <3>2 DEF Surjection
    <2> HIDE DEF places, f
    <2>3. IsFiniteSet(Ahead(k)) /\ Cardinality(Ahead(k)) <= Cardinality(places)
      BY <2>1, <2>2, FS_Surjection
    <2> QED BY <1>1, <1>3, <2>1, <2>3
  <1> QED BY <1>1, <1>2, <1>3

LEMMA PlacesAre ==
  ASSUME ListingsTypeOK
  PROVE  NewPlaces \subseteq 1..(Len(list) + 1) /\ \A row : PlaceOf(row) \subseteq 1..(Len(list) + 1)
  <1>1. /\ Len(list) \in Nat /\ DOMAIN list = 1..Len(list)
        /\ listing.order \in {"newest", "oldest", "relevance"}
    BY ListTyped DEF ListingsTypeOK
  <1>2. IsFiniteSet(Rows) /\ Cardinality(Rows) <= Len(list)
    <2>1. Ahead(0) = Rows
      BY <1>1, ListTyped DEF Ahead
    <2> QED BY <1>1, <2>1, AheadBounded
  <1>3. NewPlaces \subseteq 1..(Len(list) + 1)
    BY <1>1 DEF NewPlaces
  <1>4. ASSUME NEW row PROVE PlaceOf(row) \subseteq 1..(Len(list) + 1)
    <2> PICK before : before = {r \in Rows : IF listing.order = "newest" THEN r > row ELSE r < row}
      OBVIOUS
    <2>1. before \subseteq Rows
      OBVIOUS
    <2>2. Cardinality(before) \in Nat /\ Cardinality(before) <= Len(list)
      BY <1>1, <1>2, <2>1, FewerOnes
    <2>3. PlaceOf(row) = IF listing.order = "relevance" THEN 1..(Len(list) + 1)
                                                     ELSE {Cardinality(before) + 1}
      BY DEF PlaceOf
    <2> QED BY SMTT(30), <1>1, <2>2, <2>3
  <1> QED BY <1>3, <1>4

LEMMA PagesFetched ==
  ASSUME NEW page \in Nat \ {0}, NEW limit \in Nat \ {0}
  PROVE  /\ offset(page, limit) \in Nat
         /\ offset(page + 1, limit) = offset(page, limit) + limit
         /\ offset(1, limit) = 0
         /\ \A total \in Nat : ~(page < totalPages(total, limit))
                               => total <= offset(page, limit) + limit
  <1> PICK k \in Nat : k = page - 1
    OBVIOUS
  <1>1. k * limit \in Nat /\ (k + 1) * limit = k * limit + limit /\ 0 * limit = 0
    BY SMT
  <1>2. /\ offset(page, limit) = k * limit /\ offset(page + 1, limit) = (k + 1) * limit
        /\ offset(1, limit) = 0 * limit
    BY DEF offset
  <1>3. ASSUME NEW total \in Nat, ~(page < totalPages(total, limit))
        PROVE  total <= k * limit + limit
    <2> PICK d \in Int : d = totalPages(total, limit) /\ total + limit - 1 < limit * d + limit
      <3>1. total + limit - 1 \in Int
        OBVIOUS
      <3> QED BY <3>1, WholePeriods DEF totalPages
    <2>1. d <= k + 1
      BY <1>3
    <2>2. limit * d <= limit * (k + 1)
      BY <2>1, SMT
    <2>3. limit * (k + 1) = (k + 1) * limit
      BY SMT
    <2>4. limit * d \in Int
      BY SMT
    <2> QED BY <1>1, <2>2, <2>3, <2>4
  <1> QED BY <1>1, <1>2, <1>3

LEMMA PagerTyped ==
  ASSUME ListingsTypeOK
  PROVE  /\ pager.phase \in {"idle", "count", "page", "done"}
         /\ {pager.page, pager.limit, pager.total, pager.repeats} \subseteq Nat
         /\ {turning.left, turning.joined, turning.late} \subseteq Nat
         /\ pager.seen \subseteq 1..newest /\ turning.stayed \subseteq 1..newest
         /\ IsFiniteSet(pager.seen) /\ IsFiniteSet(turning.stayed)
         /\ \A n : IsFiniteSet(Unseen(n)) /\ IsFiniteSet(Pushed(n))
  <1>1. /\ pager.phase \in {"idle", "count", "page", "done"}
        /\ {pager.page, pager.limit, pager.total, pager.repeats} \subseteq Nat
        /\ {turning.left, turning.joined, turning.late} \subseteq Nat
        /\ pager.seen \subseteq 1..newest /\ turning.stayed \subseteq 1..newest
    BY DEF ListingsTypeOK
  <1>2. IsFiniteSet(pager.seen) /\ IsFiniteSet(turning.stayed)
    BY <1>1, ListTyped, FS_Subset
  <1>3. ASSUME NEW n PROVE IsFiniteSet(Unseen(n)) /\ IsFiniteSet(Pushed(n))
    <2>1. Unseen(n) \subseteq turning.stayed /\ Pushed(n) \subseteq turning.stayed
      BY DEF Unseen, Pushed
    <2> QED BY <1>2, <2>1, FS_Subset
  <1> QED BY <1>1, <1>2, <1>3

LEMMA SkippedIs ==
  ASSUME ListingsInv, Reading
  PROVE  Skipped \in Nat
  BY PagesFetched DEF ListingsInv, Skipped

LEMMA ListingsBegin == ListingsInit => ListingsInv
  <1> SUFFICES ASSUME ListingsInit PROVE ListingsInv
    OBVIOUS
  <1>1. listing.order \in {"newest", "oldest", "relevance"}
    BY DEF ListingsInit
  <1>2. list = <<>> /\ list \in Seq(1..newest) /\ DOMAIN list = {} /\ newest = 0
    BY DEF ListingsInit
  <1>3. ListingsTypeOK
    BY <1>1, <1>2 DEF ListingsInit, ListingsTypeOK, NotPaging, NothingHappened
  <1> QED BY <1>3 DEF ListingsInit, ListingsInv, NotPaging, NothingHappened, Reading,
                      MissedBounded, RepeatedBounded

(* A row comes, new or back.                                               *)
LEMMA RowPut ==
  ASSUME ListingsInv, NEW p \in 1..(Len(list) + 1), NEW row \in Nat \ {0}, row \notin Rows,
         Puts(row, p), newest' \in Nat, newest <= newest', row <= newest'
  PROVE  ListingsInv'
  <1>0. ListingsTypeOK /\ MissedBounded /\ RepeatedBounded
    BY DEF ListingsInv
  <1>1. /\ list' = InsertAt(list, p, row)
        /\ UNCHANGED <<listing, pager>> /\ Reading' = Reading
    BY DEF Puts, Reading
  <1>2. turning' = IF Reading
                   THEN [turning EXCEPT !.joined = @ + 1,
                                        !.late = IF pager.phase = "page" THEN @ + 1 ELSE @]
                   ELSE turning
    BY DEF Puts
  <1>3. /\ list' \in Seq(1..newest') /\ Len(list') = Len(list) + 1
        /\ \A i, j \in DOMAIN list' : list'[i] = list'[j] => i = j
        /\ Rows \subseteq Rows'
        /\ \A k \in Nat : /\ Passed(k)' \subseteq Passed(k) \cup {row}
                         /\ \E x : Ahead(k)' \subseteq (Ahead(k) \cup {x}) \cup {row}
    BY <1>0, <1>1, ListGrows
  <1>4. 1..newest \subseteq 1..newest' /\ Len(list) \in Nat
    BY <1>0, ListTyped
  <1>5. ListingsTypeOK'
    <2>1. /\ pager \in [phase: {"idle", "count", "page", "done"}, page: Nat, limit: Nat,
                        total: Nat, seen: SUBSET (1..newest'), repeats: Nat]
          /\ turning \in [stayed: SUBSET (1..newest'), left: Nat, joined: Nat, late: Nat]
      BY <1>0, <1>4 DEF ListingsTypeOK
    <2>2. turning' \in [stayed: SUBSET (1..newest'), left: Nat, joined: Nat, late: Nat]
      <3> PICK S : S = SUBSET (1..newest')
        OBVIOUS
      <3>1. turning \in [stayed: S, left: Nat, joined: Nat, late: Nat]
        BY <2>1
      <3>2. PICK late \in Nat : late = IF pager.phase = "page" THEN turning.late + 1
                                                              ELSE turning.late
        BY <3>1
      <3>j. PICK joined \in Nat : joined = turning.joined + 1
        BY <3>1
      <3>3. turning' = IF Reading THEN [turning EXCEPT !.joined = joined, !.late = late]
                                  ELSE turning
        BY <1>2, <3>1, <3>2, <3>j
      <3>4. turning' \in [stayed: S, left: Nat, joined: Nat, late: Nat]
        <4>1. CASE Reading
          BY <3>1, <3>3, <4>1
        <4>2. CASE ~Reading
          BY <3>1, <3>3, <4>2
        <4> QED BY <4>1, <4>2
      <3> QED BY <3>4
    <2>3. listing' = listing /\ listing.order \in {"newest", "oldest", "relevance"}
      BY <1>0, <1>1 DEF ListingsTypeOK
    <2> QED BY <1>1, <1>3, <2>1, <2>2, <2>3 DEF ListingsTypeOK
  <1>6. /\ turning'.stayed = turning.stayed /\ turning'.left = turning.left
        /\ Reading => turning'.joined = turning.joined + 1
        /\ pager.phase = "page" => turning'.late = turning.late + 1
        /\ ~Reading => turning' = turning
    BY <1>0, <1>2 DEF ListingsTypeOK, Reading
  <1>7. CASE ~Reading
    <2>1. pager.phase # "page"
      BY <1>7 DEF Reading
    <2> QED BY <1>0, <1>1, <1>5, <1>6, <1>7, <2>1
            DEF ListingsInv, MissedBounded, RepeatedBounded
  <1>8. CASE Reading
    <2>1. /\ pager.page \in Nat \ {0} /\ pager.limit \in Nat \ {0}
          /\ turning.stayed \subseteq Rows /\ row \notin turning.stayed
          /\ Cardinality(Unseen(Skipped)) <= turning.left
          /\ pager.repeats + Cardinality(Pushed(Skipped)) <= turning.joined
      BY <1>8 DEF ListingsInv
    <2>2. Skipped \in Nat /\ Skipped' = Skipped
      BY <1>1, <1>8, SkippedIs DEF Skipped
    <2>3. PICK k \in Nat : k = Skipped
      BY <2>2
    <2>4. Unseen(k)' \subseteq Unseen(k)
      BY <1>1, <1>3, <1>6, <2>1 DEF Unseen
    <2>5. \E x : Pushed(k)' \subseteq Pushed(k) \cup {x}
      <3>1. PICK x : Ahead(k)' \subseteq (Ahead(k) \cup {x}) \cup {row}
        BY <1>3
      <3>2. Pushed(k)' \subseteq Pushed(k) \cup {x}
        BY <1>1, <1>6, <2>1, <3>1 DEF Pushed
      <3> QED BY <3>2
    <2>6. Unseen(Skipped)' = Unseen(k)' /\ Pushed(Skipped)' = Pushed(k)'
      BY <2>2, <2>3 DEF Unseen, Pushed, Passed, Ahead
    <2>7. Cardinality(Unseen(Skipped)') <= turning'.left
      <3>1. IsFiniteSet(Unseen(k))
        BY <1>0, PagerTyped
      <3>2. Cardinality(Unseen(k)') <= Cardinality(Unseen(k)) /\ Cardinality(Unseen(k)') \in Nat
            /\ Cardinality(Unseen(k)) \in Nat
        BY <2>4, <3>1, FewerOnes
      <3>3. turning.left \in Nat
        BY <1>0, PagerTyped
      <3> QED BY <1>6, <2>1, <2>3, <2>6, <3>2, <3>3
    <2>8. pager'.repeats + Cardinality(Pushed(Skipped)') <= turning'.joined
      <3>1. IsFiniteSet(Pushed(k)) /\ turning.joined \in Nat /\ pager.repeats \in Nat
        BY <1>0, PagerTyped
      <3>2. /\ Cardinality(Pushed(k)') <= Cardinality(Pushed(k)) + 1
            /\ Cardinality(Pushed(k)') \in Nat /\ Cardinality(Pushed(k)) \in Nat
        BY <2>5, <3>1, OneMore
      <3> QED BY SMTT(30), <1>1, <1>6, <1>8, <2>1, <2>3, <2>6, <3>1, <3>2
    <2>9. pager'.phase = "page" => Len(list') <= pager'.total + turning'.late
      <3>1. turning.late \in Nat /\ pager.total \in Nat
        BY <1>0, PagerTyped
      <3> QED BY SMTT(30), <1>1, <1>3, <1>4, <1>6, <3>1 DEF ListingsInv
    <2>10. MissedBounded' /\ RepeatedBounded'
      <3>1. pager.phase # "done"
        BY <1>8 DEF Reading
      <3>2. pager.repeats \in Nat /\ turning.joined \in Nat
        BY <1>0, PagerTyped
      <3> QED BY <1>0, <1>1, <1>6, <1>8, <3>1, <3>2 DEF MissedBounded, RepeatedBounded
    <2> QED BY <1>1, <1>3, <1>5, <1>6, <2>1, <2>7, <2>8, <2>9, <2>10 DEF ListingsInv
  <1> QED BY <1>7, <1>8

LEMMA RowGone ==
  ASSUME ListingsInv, NEW row, RowLeaves(row)
  PROVE  ListingsInv'
  <1>0. ListingsTypeOK /\ MissedBounded /\ RepeatedBounded
    BY DEF ListingsInv
  <1>1. PICK p \in DOMAIN list : list[p] = row /\ list' = RemoveAt(list, p)
    BY DEF RowLeaves
  <1>2. /\ UNCHANGED <<listing, newest, pager>> /\ Reading' = Reading
        /\ turning' = IF Reading
                      THEN [turning EXCEPT !.stayed = @ \ {row}, !.left = @ + 1]
                      ELSE turning
    BY DEF RowLeaves, Reading
  <1>3. /\ list' \in Seq(1..newest) /\ Len(list') = Len(list) - 1
        /\ \A i, j \in DOMAIN list' : list'[i] = list'[j] => i = j
        /\ Rows \ {row} \subseteq Rows'
        /\ \A k \in Nat : /\ \E x : Passed(k)' \subseteq Passed(k) \cup {x}
                         /\ Ahead(k)' \subseteq Ahead(k)
    BY <1>0, <1>1, ListShrinks
  <1>4. Len(list) \in Nat
    BY <1>0, ListTyped
  <1>5. ListingsTypeOK'
    <2>1. turning' \in [stayed: SUBSET (1..newest), left: Nat, joined: Nat, late: Nat]
      <3> PICK S : S = SUBSET (1..newest)
        OBVIOUS
      <3>1. turning \in [stayed: S, left: Nat, joined: Nat, late: Nat] /\ turning.stayed \in S
        BY <1>0 DEF ListingsTypeOK
      <3>2. PICK stayed \in S : stayed = turning.stayed \ {row}
        BY <3>1
      <3>j. PICK left \in Nat : left = turning.left + 1
        BY <3>1
      <3>3. turning' = IF Reading THEN [turning EXCEPT !.stayed = stayed, !.left = left]
                                  ELSE turning
        BY <1>2, <3>1, <3>2, <3>j
      <3>4. turning' \in [stayed: S, left: Nat, joined: Nat, late: Nat]
        <4>1. CASE Reading
          BY <3>1, <3>3, <4>1
        <4>2. CASE ~Reading
          BY <3>1, <3>3, <4>2
        <4> QED BY <4>1, <4>2
      <3> QED BY <3>4
    <2>2. listing' = listing /\ newest' = newest /\ pager' = pager
      BY <1>2
    <2> QED BY <1>0, <1>3, <2>1, <2>2 DEF ListingsTypeOK
  <1>6. /\ turning'.joined = turning.joined /\ turning'.late = turning.late
        /\ Reading => turning'.stayed = turning.stayed \ {row} /\ turning'.left = turning.left + 1
        /\ ~Reading => turning' = turning
    BY <1>0, <1>2 DEF ListingsTypeOK, Reading
  <1>7. CASE ~Reading
    <2>1. pager.phase # "page"
      BY <1>7 DEF Reading
    <2> QED BY <1>0, <1>2, <1>5, <1>6, <1>7, <2>1
            DEF ListingsInv, MissedBounded, RepeatedBounded
  <1>8. CASE Reading
    <2>1. /\ pager.page \in Nat \ {0} /\ pager.limit \in Nat \ {0}
          /\ turning.stayed \subseteq Rows
          /\ Cardinality(Unseen(Skipped)) <= turning.left
          /\ pager.repeats + Cardinality(Pushed(Skipped)) <= turning.joined
      BY <1>8 DEF ListingsInv
    <2>2. Skipped \in Nat /\ Skipped' = Skipped
      BY <1>2, <1>8, SkippedIs DEF Skipped
    <2>3. PICK k \in Nat : k = Skipped
      BY <2>2
    <2>4. \E x : Unseen(k)' \subseteq Unseen(k) \cup {x}
      <3>1. PICK x : Passed(k)' \subseteq Passed(k) \cup {x}
        BY <1>3
      <3>2. Unseen(k)' \subseteq Unseen(k) \cup {x}
        BY <1>2, <1>6, <1>8, <3>1 DEF Unseen
      <3> QED BY <3>2
    <2>5. Pushed(k)' \subseteq Pushed(k)
      BY <1>2, <1>3, <1>6, <1>8 DEF Pushed
    <2>6. Unseen(Skipped)' = Unseen(k)' /\ Pushed(Skipped)' = Pushed(k)'
      BY <2>2, <2>3 DEF Unseen, Pushed, Passed, Ahead
    <2>7. Cardinality(Unseen(Skipped)') <= turning'.left
      <3>1. IsFiniteSet(Unseen(k)) /\ turning.left \in Nat
        BY <1>0, PagerTyped
      <3>2. /\ Cardinality(Unseen(k)') <= Cardinality(Unseen(k)) + 1
            /\ Cardinality(Unseen(k)') \in Nat /\ Cardinality(Unseen(k)) \in Nat
        BY <2>4, <3>1, OneMore
      <3> QED BY <1>6, <1>8, <2>1, <2>3, <2>6, <3>1, <3>2
    <2>8. pager'.repeats + Cardinality(Pushed(Skipped)') <= turning'.joined
      <3>1. IsFiniteSet(Pushed(k)) /\ turning.joined \in Nat /\ pager.repeats \in Nat
        BY <1>0, PagerTyped
      <3>2. /\ Cardinality(Pushed(k)') <= Cardinality(Pushed(k))
            /\ Cardinality(Pushed(k)') \in Nat /\ Cardinality(Pushed(k)) \in Nat
        BY <2>5, <3>1, FewerOnes
      <3> QED BY <1>2, <1>6, <2>1, <2>3, <2>6, <3>1, <3>2
    <2>9. pager'.phase = "page" => Len(list') <= pager'.total + turning'.late
      <3>1. turning.late \in Nat /\ pager.total \in Nat
        BY <1>0, PagerTyped
      <3> QED BY <1>2, <1>3, <1>4, <1>6, <3>1 DEF ListingsInv
    <2>10. MissedBounded' /\ RepeatedBounded'
      <3>1. pager.phase # "done"
        BY <1>8 DEF Reading
      <3> QED BY <1>0, <1>2, <1>6, <3>1 DEF MissedBounded, RepeatedBounded
    <2>11. turning'.stayed \subseteq Rows'
      BY <1>3, <1>6, <1>8, <2>1
    <2> QED BY <1>2, <1>5, <2>1, <2>7, <2>8, <2>9, <2>10, <2>11 DEF ListingsInv
  <1> QED BY <1>7, <1>8
LEMMA PagerAsks ==
  ASSUME ListingsInv, NEW asked \in {0, 1}, NEW limit \in PageSizes, Ask(asked, limit)
  PROVE  ListingsInv'
  <1>0. ListingsTypeOK
    BY DEF ListingsInv
  <1>1. FirstPage(asked) = 1
    BY DEF Ask, FirstPage
  <1>2. limit \in Nat \ {0}
    BY ListingsAssumption
  <1>3. /\ pager' = [phase |-> "count", page |-> 1, limit |-> limit,
                     total |-> 0, seen |-> {}, repeats |-> 0]
        /\ turning' = [stayed |-> Rows, left |-> 0, joined |-> 0, late |-> 0]
        /\ UNCHANGED <<listing, list, newest>>
    BY <1>1 DEF Ask, NotPaging, NothingHappened
  <1>4. ListingsTypeOK'
    BY <1>0, <1>2, <1>3, ListTyped DEF ListingsTypeOK
  <1>5. Skipped' = 0 /\ Rows' = Rows
    BY <1>2, <1>3, PagesFetched DEF Skipped, Rows
  <1>6. Unseen(Skipped)' = {} /\ Pushed(Skipped)' = {}
    BY <1>0, <1>3, <1>5, ListTyped DEF Unseen, Pushed, Passed
  <1>7. Cardinality(Unseen(Skipped)') = 0 /\ Cardinality(Pushed(Skipped)') = 0
    BY <1>6, FS_EmptySet
  <1>8. /\ pager'.phase = "count" /\ pager'.page = 1 /\ pager'.limit = limit
        /\ pager'.repeats = 0 /\ turning'.joined = 0 /\ turning'.left = 0
        /\ turning'.stayed = Rows
    BY <1>3
  <1> QED BY <1>2, <1>4, <1>5, <1>7, <1>8
          DEF ListingsInv, Reading, MissedBounded, RepeatedBounded

LEMMA PagerCounts ==
  ASSUME ListingsInv, CountRows
  PROVE  ListingsInv'
  <1>0. ListingsTypeOK
    BY DEF ListingsInv
  <1>1. /\ pager.phase = "count" /\ pager' = [pager EXCEPT !.phase = "page", !.total = Len(list)]
        /\ turning' = [turning EXCEPT !.late = 0]
        /\ UNCHANGED <<listing, list, newest>>
    BY DEF CountRows
  <1>2. Len(list) \in Nat
    BY <1>0, ListTyped
  <1>3. ListingsTypeOK'
    BY <1>0, <1>1, <1>2 DEF ListingsTypeOK
  <1>4. /\ pager'.phase = "page" /\ pager'.total = Len(list) /\ turning'.late = 0
        /\ pager'.page = pager.page /\ pager'.limit = pager.limit
        /\ pager'.seen = pager.seen /\ pager'.repeats = pager.repeats
        /\ turning'.stayed = turning.stayed /\ turning'.left = turning.left
        /\ turning'.joined = turning.joined
    BY <1>0, <1>1 DEF ListingsTypeOK
  <1>5. Skipped' = Skipped /\ Rows' = Rows
    BY <1>1, <1>4 DEF Skipped, Rows
  <1>6. Unseen(Skipped)' = Unseen(Skipped) /\ Pushed(Skipped)' = Pushed(Skipped)
    BY <1>1, <1>4, <1>5 DEF Unseen, Pushed, Passed, Ahead
  <1> QED BY <1>1, <1>2, <1>3, <1>4, <1>5, <1>6
          DEF ListingsInv, Reading, MissedBounded, RepeatedBounded

LEMMA PagerFails ==
  ASSUME ListingsInv, QueryFails
  PROVE  ListingsInv'
  <1>0. ListingsTypeOK
    BY DEF ListingsInv
  <1>1. /\ pager.phase = "page" /\ pager' = [pager EXCEPT !.phase = "count"]
        /\ UNCHANGED <<listing, list, newest, turning>>
    BY DEF QueryFails
  <1>2. ListingsTypeOK'
    BY <1>0, <1>1 DEF ListingsTypeOK
  <1>3. /\ pager'.phase = "count" /\ pager'.page = pager.page /\ pager'.limit = pager.limit
        /\ pager'.seen = pager.seen /\ pager'.repeats = pager.repeats
    BY <1>0, <1>1 DEF ListingsTypeOK
  <1>4. Skipped' = Skipped /\ Rows' = Rows
    BY <1>1, <1>3 DEF Skipped, Rows
  <1>5. Unseen(Skipped)' = Unseen(Skipped) /\ Pushed(Skipped)' = Pushed(Skipped)
    BY <1>1, <1>3, <1>4 DEF Unseen, Pushed, Passed, Ahead
  <1> QED BY <1>1, <1>2, <1>3, <1>4, <1>5
          DEF ListingsInv, Reading, MissedBounded, RepeatedBounded

(* A page: the rows of it seen before are among those pushed back, and the *)
(* rows that stay unseen are in front of it or behind it.                  *)
LEMMA PageFetched ==
  ASSUME ListingsInv, FetchPage
  PROVE  ListingsInv'
  <1>0. ListingsTypeOK /\ Reading /\ pager.phase = "page"
    BY DEF ListingsInv, FetchPage, Reading
  <1> PICK k \in Nat : k = Skipped
    BY <1>0, SkippedIs
  <1> PICK l \in Nat \ {0} : l = pager.limit
    BY <1>0 DEF ListingsInv
  <1>p. PICK page : page = {list[i] : i \in DOMAIN list \cap (k + 1)..(k + l)}
    OBVIOUS
  <1> DEFINE more == pager.page < totalPages(pager.total, pager.limit)
  <1>1. /\ pager' = [pager EXCEPT
             !.phase = IF more THEN "count" ELSE "done",
             !.page = IF more THEN @ + 1 ELSE @,
             !.seen = @ \cup page,
             !.repeats = @ + Cardinality(page \cap turning.stayed \cap pager.seen)]
        /\ UNCHANGED <<listing, list, newest, turning>>
    BY <1>p DEF FetchPage, Skipped
  <1>n. ~more => pager.page \in Nat /\ ~(pager.page < totalPages(pager.total, l))
    BY <1>0 DEF ListingsInv
  <1> HIDE DEF more
  <1>2. /\ Len(list) \in Nat /\ DOMAIN list = 1..Len(list)
        /\ \A i, j \in DOMAIN list : list[i] = list[j] => i = j
        /\ page \subseteq 1..newest /\ IsFiniteSet(page)
    <2>1. page \subseteq 1..newest
      BY <1>0, <1>p, ListTyped
    <2> QED BY <1>0, <2>1, ListTyped, FS_Subset DEF ListingsTypeOK
  <1>3. /\ Cardinality(Unseen(k)) <= turning.left
        /\ pager.repeats + Cardinality(Pushed(k)) <= turning.joined
        /\ turning.stayed \subseteq Rows /\ pager.page \in Nat \ {0}
        /\ Len(list) <= pager.total + turning.late
    BY <1>0 DEF ListingsInv
  <1> PICK again : again = page \cap turning.stayed \cap pager.seen
    OBVIOUS
  <1> PICK behind : behind = Ahead(k + l) \cap turning.stayed \cap (pager.seen \cup page)
    OBVIOUS
  <1>4. /\ page \subseteq Ahead(k) /\ Ahead(k + l) \subseteq Ahead(k)
        /\ page \cap Ahead(k + l) = {}
        /\ Passed(k + l) \subseteq Passed(k) \cup page
        /\ Rows \subseteq Passed(k) \cup page \cup Ahead(k + l)
    BY <1>0, <1>2, <1>p, ListTyped DEF Ahead, Passed
  <1>5. /\ again \subseteq Pushed(k) /\ behind \subseteq Pushed(k) /\ again \cap behind = {}
    BY <1>4 DEF Pushed
  <1>6. /\ Cardinality(again) + Cardinality(behind) <= Cardinality(Pushed(k))
        /\ Cardinality(again) \in Nat /\ Cardinality(behind) \in Nat
        /\ Cardinality(Pushed(k)) \in Nat
    <2>1. IsFiniteSet(Pushed(k))
      BY <1>0, PagerTyped
    <2>2. IsFiniteSet(again) /\ IsFiniteSet(behind)
      BY <1>5, <2>1, FS_Subset
    <2>3. Cardinality(again \cup behind) = Cardinality(again) + Cardinality(behind)
      <3>1. Cardinality(again \cup behind) =
              Cardinality(again) + Cardinality(behind) - Cardinality(again \cap behind)
        BY <2>2, FS_Union
      <3>2. Cardinality(again \cap behind) = 0
        BY <1>5, FS_EmptySet
      <3> QED BY <2>2, <3>1, <3>2, FS_CardinalityType
    <2>4. again \cup behind \subseteq Pushed(k)
      BY <1>5
    <2> QED BY <2>1, <2>2, <2>3, <2>4, FewerOnes
  <1>7. /\ pager.repeats \in Nat /\ turning.joined \in Nat /\ turning.left \in Nat
        /\ turning.late \in Nat /\ pager.total \in Nat
    BY <1>0, PagerTyped
  <1>8. ListingsTypeOK'
    <2>1. PICK seen \in SUBSET (1..newest) : seen = pager.seen \cup page
      BY <1>0, <1>2, PagerTyped
    <2>2. PICK repeats \in Nat : repeats = pager.repeats + Cardinality(again)
      BY <1>6, <1>7
    <2>3. PICK next \in Nat : next = IF more THEN pager.page + 1 ELSE pager.page
      BY <1>3
    <2>4. PICK phase \in {"idle", "count", "page", "done"} : phase = IF more THEN "count" ELSE "done"
      OBVIOUS
    <2>5. pager \in [phase: {"idle", "count", "page", "done"}, page: Nat, limit: Nat,
                     total: Nat, seen: SUBSET (1..newest), repeats: Nat]
      BY <1>0 DEF ListingsTypeOK
    <2>6. pager' = [pager EXCEPT !.phase = phase, !.page = next, !.seen = seen, !.repeats = repeats]
      BY <1>1, <2>1, <2>2, <2>3, <2>4, <2>5
    <2>7. pager' \in [phase: {"idle", "count", "page", "done"}, page: Nat, limit: Nat,
                      total: Nat, seen: SUBSET (1..newest), repeats: Nat]
      BY <2>5, <2>6
    <2> QED BY <1>0, <1>1, <2>7 DEF ListingsTypeOK
  <1>9. /\ pager'.phase = IF more THEN "count" ELSE "done"
        /\ pager'.page = IF more THEN pager.page + 1 ELSE pager.page
        /\ pager'.limit = l /\ pager'.seen = pager.seen \cup page
        /\ pager'.repeats = pager.repeats + Cardinality(again)
    BY <1>0, <1>1 DEF ListingsTypeOK
  <1>10. RepeatedBounded'
    BY SMTT(30), <1>1, <1>3, <1>6, <1>7, <1>9 DEF RepeatedBounded
  <1>11. CASE more
    <2>1. Skipped' = k + l /\ Rows' = Rows
      BY <1>1, <1>3, <1>9, <1>11, PagesFetched DEF Skipped, Rows
    <2>2. Unseen(Skipped)' \subseteq Unseen(k) /\ Pushed(Skipped)' = behind
      <3>1. Unseen(k + l)' = Unseen(Skipped)' /\ Pushed(k + l)' = Pushed(Skipped)'
        BY <2>1 DEF Unseen, Pushed, Passed, Ahead
      <3>2. Passed(k + l)' = Passed(k + l) /\ Ahead(k + l)' = Ahead(k + l)
        BY <1>1 DEF Passed, Ahead
      <3>3. Unseen(k + l)' \subseteq Unseen(k)
        BY <1>1, <1>4, <1>9, <3>2 DEF Unseen
      <3>4. Pushed(k + l)' = behind
        BY <1>1, <1>9, <3>2 DEF Pushed
      <3> QED BY <3>1, <3>3, <3>4
    <2>3. Cardinality(Unseen(Skipped)') <= turning.left
      <3>1. IsFiniteSet(Unseen(k))
        BY <1>0, PagerTyped
      <3> QED BY <1>3, <1>7, <2>2, <3>1, FewerOnes
    <2>4. pager'.repeats + Cardinality(Pushed(Skipped)') <= turning.joined
      <3>1. pager.repeats + Cardinality(again) + Cardinality(behind) <= turning.joined
        BY SMTT(30), <1>3, <1>6, <1>7
      <3>2. Cardinality(Pushed(Skipped)') = Cardinality(behind)
        BY <2>2
      <3>3. pager'.repeats = pager.repeats + Cardinality(again)
        BY <1>9
      <3> QED BY <1>6, <1>7, <3>1, <3>2, <3>3
    <2> QED BY <1>1, <1>3, <1>8, <1>9, <1>10, <1>11, <2>1, <2>3, <2>4
            DEF ListingsInv, MissedBounded
  <1>12. CASE ~more
    <2>1. pager.total <= k + l
      BY <1>3, <1>7, <1>12, <1>n, PagesFetched DEF Skipped
    <2>2. IsFiniteSet(Unseen(k)) /\ IsFiniteSet(Ahead(k + l))
      BY <1>0, PagerTyped, AheadBounded
    <2>3. Cardinality(Ahead(k + l)) <= turning.late
      <3>1. Cardinality(Ahead(k + l)) <= IF k + l < Len(list) THEN Len(list) - (k + l) ELSE 0
        BY <1>0, AheadBounded
      <3>2. Cardinality(Ahead(k + l)) \in Nat
        BY <2>2, FS_CardinalityType
      <3> QED BY SMTT(30), <1>2, <1>3, <1>7, <2>1, <3>1, <3>2
    <2>4. turning.stayed \ (pager.seen \cup page) \subseteq Unseen(k) \cup Ahead(k + l)
      BY <1>3, <1>4 DEF Unseen
    <2>5. Cardinality(turning.stayed \ (pager.seen \cup page)) <= turning.left + turning.late
      <3>1. /\ IsFiniteSet(Unseen(k) \cup Ahead(k + l))
            /\ Cardinality(Unseen(k) \cup Ahead(k + l)) =
                 Cardinality(Unseen(k)) + Cardinality(Ahead(k + l))
                   - Cardinality(Unseen(k) \cap Ahead(k + l))
        BY <2>2, FS_Union
      <3>2. Cardinality(Unseen(k) \cap Ahead(k + l)) \in Nat
        BY <2>2, FS_Intersection, FS_CardinalityType
      <3>3. Cardinality(Unseen(k)) \in Nat /\ Cardinality(Ahead(k + l)) \in Nat
        BY <2>2, FS_CardinalityType
      <3>4. Cardinality(Unseen(k) \cup Ahead(k + l)) <= turning.left + turning.late
        BY SMTT(30), <1>3, <1>7, <2>3, <3>1, <3>2, <3>3
      <3>5. /\ Cardinality(turning.stayed \ (pager.seen \cup page))
                 <= Cardinality(Unseen(k) \cup Ahead(k + l))
            /\ Cardinality(turning.stayed \ (pager.seen \cup page)) \in Nat
            /\ Cardinality(Unseen(k) \cup Ahead(k + l)) \in Nat
        BY <2>4, <3>1, FewerOnes
      <3> QED BY <1>7, <3>4, <3>5
    <2>6. MissedBounded'
      BY <1>1, <1>9, <2>5 DEF MissedBounded
    <2> QED BY <1>8, <1>9, <1>10, <1>12, <2>6 DEF ListingsInv, Reading
  <1> QED BY <1>11, <1>12
-------------------------------------------------------------------------------
LEMMA ListingsStep == ListingsInv /\ [ListingsNext]_listingsVars => ListingsInv'
  <1> SUFFICES ASSUME ListingsInv, [ListingsNext]_listingsVars PROVE ListingsInv'
    OBVIOUS
  <1>0. ListingsTypeOK
    BY DEF ListingsInv
  <1>1. CASE RowAdded
    <2> PICK place \in NewPlaces : Puts(newest + 1, place)
      BY <1>1 DEF RowAdded
    <2>1. newest \in Nat /\ newest' = newest + 1 /\ newest + 1 \notin Rows
      BY <1>0, <1>1, ListTyped DEF RowAdded
    <2>2. place \in 1..(Len(list) + 1)
      BY <1>0, PlacesAre
    <2> PICK row \in Nat \ {0} : row = newest + 1
      BY <2>1
    <2>3. /\ row \notin Rows /\ Puts(row, place) /\ newest' \in Nat
          /\ newest <= newest' /\ row <= newest'
      BY <2>1
    <2> QED BY <2>2, <2>3, RowPut
  <1>2. ASSUME NEW row \in 1..MaxRows, RowJoins(row) PROVE ListingsInv'
    <2> PICK place \in PlaceOf(row) : Puts(row, place)
      BY <1>2 DEF RowJoins
    <2>1. /\ row \in (1..newest) \ Rows /\ newest' = newest /\ newest \in Nat
      BY <1>0, <1>2, ListTyped DEF RowJoins
    <2>2. place \in 1..(Len(list) + 1)
      BY <1>0, PlacesAre
    <2>3. row \in Nat \ {0} /\ row <= newest' /\ newest <= newest'
      BY <2>1
    <2> QED BY <2>1, <2>2, <2>3, RowPut
  <1>3. ASSUME NEW row \in 1..MaxRows, RowLeaves(row) PROVE ListingsInv'
    BY <1>3, RowGone
  <1>4. CASE UNCHANGED listingsVars
    BY <1>4 DEF listingsVars, ListingsInv, ListingsTypeOK, Reading, Rows, Unseen, Pushed,
                Passed, Ahead, Skipped, MissedBounded, RepeatedBounded
  <1> QED BY <1>1, <1>2, <1>3, <1>4, PagerAsks, PagerCounts, PageFetched, PagerFails
          DEF ListingsNext

THEOREM ListingsHold == ListingsSpec => []ListingsInv
  <1> QED BY ListingsBegin, ListingsStep, PTL DEF ListingsSpec

(* However many rows come and go while a client turns the pages, a listing *)
(* of GET /invoices, of the transactions, payments, users or notifications *)
(* hides from it no more rows that were there all the time than rows left  *)
(* or came after the last count, and shows it no more of them twice than   *)
(* rows came, whatever the order: handlers page with OFFSET and LIMIT.     *)
THEOREM PagesMissAndRepeatFew == ListingsSpec => []PagesBounded
  <1>1. ListingsInv => PagesBounded
    BY DEF ListingsInv, PagesBounded
  <1> QED BY ListingsHold, <1>1, PTL
-------------------------------------------------------------------------------
(***************************************************************************)
(* Sums over finite sets.  The community modules fold a set by a recursive *)
(* function on its subsets; that there is one, and that the sum does not   *)
(* depend on the order, is shown by taking a smallest subset that fails.   *)
(***************************************************************************)
LEMMA SubsetInduction ==
  ASSUME NEW S, IsFiniteSet(S), NEW Good, {} \in Good,
         \A T \in SUBSET S : T # {} /\ (\A x \in T : T \ {x} \in Good) => T \in Good
  PROVE  SUBSET S \subseteq Good
  <1> SUFFICES ASSUME (SUBSET S) \ Good # {} PROVE FALSE
    OBVIOUS
  <1> PICK Bad : Bad = (SUBSET S) \ Good
    OBVIOUS
  <1> PICK R : R = StrictSubsetOrdering(S)
    OBVIOUS
  <1>1. IsWellFoundedOn(R, SUBSET S)
    BY FS_StrictSubsetOrderingWellFounded, FS_FiniteSubsetsOfFinite
  <1>2. PICK T \in Bad : \A U \in Bad : ~(<<U, T>> \in R)
    BY <1>1, WFMin
  <1>3. ASSUME NEW x \in T
        PROVE  T \ {x} \in Good
    <2>1. T \ {x} \subseteq T /\ T \ {x} # T /\ T \ {x} \in SUBSET S /\ T \in SUBSET S
      OBVIOUS
    <2>2. <<T \ {x}, T>> \in R
      BY <2>1 DEF StrictSubsetOrdering
    <2> QED BY <1>2, <2>1, <2>2
  <1>4. T \in SUBSET S /\ T # {} /\ T \notin Good
    OBVIOUS
  <1> QED BY <1>3, <1>4

(* What adding up the values v of the elements of a subset means.          *)
Adds(f, S, v) ==
  /\ f \in [SUBSET S -> Int] /\ f[{}] = 0
  /\ \A T \in SUBSET S : \A x \in T : f[T] = v[x] + f[T \ {x}]

LEMMA AddsExists ==
  ASSUME NEW S, IsFiniteSet(S), NEW v, \A x \in S : v[x] \in Int
  PROVE  \E f : Adds(f, S, v)
  <1>g. PICK Good : Good = {T \in SUBSET S : \E f : Adds(f, T, v)}
    OBVIOUS
  <1>1. {} \in Good
    <2>1. Adds([T \in SUBSET {} |-> 0], {}, v)
      BY DEF Adds
    <2> QED BY <1>g, <2>1
  <1>2. ASSUME NEW T \in SUBSET S, T # {}, \A x \in T : T \ {x} \in Good
        PROVE  T \in Good
    <2> PICK y \in T : TRUE
      BY <1>2
    <2> PICK f : Adds(f, T \ {y}, v)
      BY <1>g, <1>2
    <2>g. PICK g : g = [s \in SUBSET T |-> IF y \in s THEN f[s \ {y}] + v[y] ELSE f[s \ {y}]]
      OBVIOUS
    <2>1. v[y] \in Int /\ \A s \in SUBSET T : s \ {y} \in SUBSET (T \ {y}) /\ f[s \ {y}] \in Int
      BY DEF Adds
    <2>2. \A s \in SUBSET T : g[s] = IF y \in s THEN f[s \ {y}] + v[y] ELSE f[s \ {y}]
      BY <2>g, <2>1
    <2>3. g \in [SUBSET T -> Int] /\ g[{}] = 0
      <3>1. g \in [SUBSET T -> Int]
        BY <2>g, <2>1
      <3>2. f[{}] = 0
        BY DEF Adds
      <3> PICK a, b : a = {} /\ b = a \ {y}
        OBVIOUS
      <3>3. a \in SUBSET T /\ y \notin a /\ a = b
        OBVIOUS
      <3>4. g[a] = f[b]
        BY <2>2, <3>3
      <3> QED BY <3>1, <3>2, <3>3, <3>4
    <2>4. ASSUME NEW s \in SUBSET T, NEW x \in s
          PROVE  g[s] = v[x] + g[s \ {x}]
      <3>1. CASE x = y
        <4>a. PICK a, b : a = s \ {y} /\ b = a \ {y}
          OBVIOUS
        <4>1. a = b /\ a \in SUBSET T /\ y \notin a /\ f[a] \in Int
          BY <2>1, <4>a
        <4>2. g[s] = f[a] + v[y] /\ g[a] = f[b]
          BY <2>2, <3>1, <4>a, <4>1
        <4> QED BY <2>1, <3>1, <4>a, <4>1, <4>2
      <3>2. CASE x # y
        <4>a. PICK a, b, c : a = s \ {y} /\ b = s \ {x} /\ c = a \ {x}
          OBVIOUS
        <4>1. /\ a \in SUBSET (T \ {y}) /\ x \in a /\ b \in SUBSET T /\ c = b \ {y}
              /\ (y \in s <=> y \in b)
          BY <3>2, <4>a
        <4>2. f[a] = v[x] + f[c] /\ v[x] \in Int /\ f[c] \in Int
          <5>1. f[a] = v[x] + f[a \ {x}]
            BY <4>1 DEF Adds
          <5>2. f[c] \in Int
            BY <2>1, <4>1
          <5> QED BY <4>a, <5>1, <5>2
        <4>3. /\ g[s] = IF y \in s THEN f[a] + v[y] ELSE f[a]
              /\ g[b] = IF y \in b THEN f[c] + v[y] ELSE f[c]
          BY <2>2, <4>a, <4>1
        <4>4. v[y] \in Int /\ f[a] \in Int
          BY <2>1, <4>a
        <4>5. g[s] = v[x] + g[b]
          BY <4>1, <4>2, <4>3, <4>4
        <4> QED BY <4>a, <4>5
      <3> QED BY <3>1, <3>2
    <2>5. Adds(g, T, v)
      BY <2>3, <2>4 DEF Adds
    <2> QED BY <1>g, <2>5
  <1>3. SUBSET S \subseteq Good
    <2>1. \A T \in SUBSET S : T # {} /\ (\A x \in T : T \ {x} \in Good) => T \in Good
      BY <1>2
    <2> QED BY <1>1, <2>1, SubsetInduction
  <1> QED BY <1>g, <1>3

LEMMA AddsPart ==
  ASSUME NEW S, NEW v, NEW f, Adds(f, S, v), NEW T \in SUBSET S
  PROVE  Adds([s \in SUBSET T |-> f[s]], T, v)
  <1>1. {} \in SUBSET T /\ \A s \in SUBSET T : s \in SUBSET S /\ \A x \in s : s \ {x} \in SUBSET T
    OBVIOUS
  <1> QED BY <1>1 DEF Adds

(* A sum does not depend on the order in which the elements are taken.     *)
AddsInOrder(g, S, v) ==
  /\ g[{}] = 0
  /\ \A T \in SUBSET S : T # {} => \E x \in T : g[T] = v[x] + g[T \ {x}]

LEMMA AddsAnyOrder ==
  ASSUME NEW S, IsFiniteSet(S), NEW v, NEW f, Adds(f, S, v), NEW g, AddsInOrder(g, S, v)
  PROVE  g[S] = f[S]
  <1>g. PICK Good : Good = {T \in SUBSET S : g[T] = f[T]}
    OBVIOUS
  <1>1. {} \in Good
    BY <1>g DEF Adds, AddsInOrder
  <1>2. ASSUME NEW T \in SUBSET S, T # {}, \A x \in T : T \ {x} \in Good
        PROVE  T \in Good
    <2> PICK x \in T : g[T] = v[x] + g[T \ {x}]
      BY <1>2 DEF AddsInOrder
    <2>1. g[T \ {x}] = f[T \ {x}]
      BY <1>g, <1>2
    <2>2. f[T] = v[x] + f[T \ {x}]
      BY DEF Adds
    <2> QED BY <1>g, <2>1, <2>2
  <1>3. SUBSET S \subseteq Good
    <2>1. \A T \in SUBSET S : T # {} /\ (\A x \in T : T \ {x} \in Good) => T \in Good
      BY <1>2
    <2> QED BY <1>1, <2>1, SubsetInduction
  <1> QED BY <1>g, <1>3

LEMMA SumIs ==
  ASSUME NEW T, IsFiniteSet(T), NEW v, DOMAIN v = T, NEW f, Adds(f, T, v)
  PROVE  SumFunction(v) = f[T]
  <1>1. \A s \in SUBSET T : s # {} => (CHOOSE x \in s : TRUE) \in s
    OBVIOUS
  <1> DEFINE Defines(it) ==
        it = [s \in SUBSET T |-> IF s = {} THEN 0
                ELSE v[CHOOSE x \in s : TRUE] + it[s \ {CHOOSE x \in s : TRUE}]]
  <1>2. Defines(f)
    <2>1. ASSUME NEW s \in SUBSET T, s # {}
          PROVE  f[s] = v[CHOOSE x \in s : TRUE] + f[s \ {CHOOSE x \in s : TRUE}]
      <3> PICK c \in s : c = CHOOSE x \in s : TRUE
        BY <1>1, <2>1
      <3> QED BY DEF Adds
    <2> QED BY <2>1 DEF Adds
  <1>s. SumFunction(v) = (CHOOSE it : Defines(it))[T]
    BY DEF SumFunction, SumFunctionOnSet, FoldFunctionOnSet, MapThenFoldSet
  <1> HIDE DEF Defines
  <1>3. Defines(CHOOSE it : Defines(it))
    BY <1>2
  <1>g. PICK g : g = CHOOSE it : Defines(it)
    OBVIOUS
  <1>4. g = [s \in SUBSET T |-> IF s = {} THEN 0
                 ELSE v[CHOOSE x \in s : TRUE] + g[s \ {CHOOSE x \in s : TRUE}]]
    <2>1. Defines(g)
      BY <1>3, <1>g
    <2> QED BY <2>1 DEF Defines
  <1>5. g[{}] = 0
    <2>1. {} \in SUBSET T
      OBVIOUS
    <2> QED BY <1>4, <2>1
  <1>6. ASSUME NEW s \in SUBSET T, s # {}
        PROVE  \E x \in s : g[s] = v[x] + g[s \ {x}]
    <2> PICK c \in s : c = CHOOSE x \in s : TRUE
      BY <1>1, <1>6
    <2>1. g[s] = v[c] + g[s \ {c}]
      BY <1>4, <1>6
    <2> QED BY <2>1
  <1>7. g[T] = f[T]
    <2>1. AddsInOrder(g, T, v)
      BY <1>5, <1>6 DEF AddsInOrder
    <2> QED BY <2>1, AddsAnyOrder
  <1> QED BY <1>s, <1>g, <1>7

LEMMA SumOfPart ==
  ASSUME NEW S, IsFiniteSet(S), NEW v, NEW f, Adds(f, S, v), NEW T \in SUBSET S,
         NEW u, DOMAIN u = T, \A x \in T : u[x] = v[x]
  PROVE  SumFunction(u) = f[T]
  <1> PICK g : g = [s \in SUBSET T |-> f[s]]
    OBVIOUS
  <1>0. IsFiniteSet(T)
    BY FS_Subset
  <1>1. Adds(g, T, v) /\ IsFiniteSet(T)
    BY <1>0, AddsPart
  <1>2. Adds(g, T, u)
    <2>1. \A s \in SUBSET T : \A x \in s : u[x] = v[x]
      OBVIOUS
    <2> QED BY <1>1, <2>1 DEF Adds
  <1>3. SumFunction(u) = g[T]
    BY <1>1, <1>2, SumIs
  <1> QED BY <1>3

LEMMA SumOfOne ==
  ASSUME NEW x, NEW u, DOMAIN u = {x}, u[x] \in Int
  PROVE  SumFunction(u) = u[x]
  <1> PICK D : D = {x}
    OBVIOUS
  <1>1. IsFiniteSet(D) /\ \A y \in D : u[y] \in Int
    BY FS_Singleton
  <1>2. PICK f : Adds(f, D, u)
    BY <1>1, AddsExists
  <1>3. SumFunction(u) = f[D]
    BY <1>1, <1>2, SumIs
  <1>4. f[D] = u[x]
    <2> PICK E : E = D \ {x}
      OBVIOUS
    <2>1. E = {} /\ x \in D /\ D \in SUBSET D
      OBVIOUS
    <2>2. f[D] = u[x] + f[E]
      BY <1>2, <2>1 DEF Adds
    <2>3. f[E] = 0
      BY <1>2, <2>1 DEF Adds
    <2> QED BY <2>2, <2>3
  <1> QED BY <1>3, <1>4

LEMMA AddsTyped ==
  ASSUME NEW S, NEW v, NEW f, Adds(f, S, v), NEW T \in SUBSET S
  PROVE  f[T] \in Int
  BY DEF Adds

LEMMA AddsDisjoint ==
  ASSUME NEW S, IsFiniteSet(S), NEW v, \A x \in S : v[x] \in Int, NEW f, Adds(f, S, v),
         NEW A \in SUBSET S, NEW B \in SUBSET S, A \cap B = {}
  PROVE  f[A \cup B] = f[A] + f[B]
  <1>g. PICK Good : Good = {T \in SUBSET S : T \cap B = {} => f[T \cup B] = f[T] + f[B]}
    OBVIOUS
  <1>0. \A T \in SUBSET S : f[T] \in Int
    BY DEF Adds
  <1>1. {} \in Good
    <2> PICK E, U : E = {} /\ U = E \cup B
      OBVIOUS
    <2>1. U = B /\ f[E] = 0 /\ f[B] \in Int
      BY <1>0 DEF Adds
    <2> QED BY <1>g, <2>1
  <1>2. ASSUME NEW T \in SUBSET S, T # {}, \A x \in T : T \ {x} \in Good
        PROVE  T \in Good
    <2> SUFFICES ASSUME T \cap B = {} PROVE f[T \cup B] = f[T] + f[B]
      BY <1>g
    <2> PICK x \in T : TRUE
      BY <1>2
    <2>u. PICK t, u, w : t = T \ {x} /\ u = t \cup B /\ w = T \cup B
      OBVIOUS
    <2>1. t \in Good /\ t \cap B = {}
      BY <1>2, <2>u
    <2>2. f[u] = f[t] + f[B] /\ f[t] \in Int /\ f[B] \in Int
      BY <1>0, <1>g, <2>1, <2>u
    <2>3. w \in SUBSET S /\ x \in w /\ w \ {x} = u /\ v[x] \in Int
      BY <2>u
    <2>4. f[w] = v[x] + f[u]
      BY <2>3 DEF Adds
    <2>5. f[T] = v[x] + f[t]
      BY <2>u DEF Adds
    <2> QED BY <2>2, <2>3, <2>4, <2>5, <2>u
  <1>3. SUBSET S \subseteq Good
    <2>1. \A T \in SUBSET S : T # {} /\ (\A x \in T : T \ {x} \in Good) => T \in Good
      BY <1>2
    <2> QED BY <1>1, <2>1, SubsetInduction
  <1> QED BY <1>g, <1>3

(* Elements that are counted.                                              *)
LEMMA CardinalityAdds ==
  ASSUME NEW S, IsFiniteSet(S), NEW v, \A x \in S : v[x] = 1
  PROVE  Adds([T \in SUBSET S |-> Cardinality(T)], S, v)
  <1>1. \A T \in SUBSET S : IsFiniteSet(T) /\ Cardinality(T) \in Int
    BY FS_Subset, FS_CardinalityType
  <1>2. Cardinality({}) = 0
    BY FS_EmptySet
  <1>3. ASSUME NEW T \in SUBSET S, NEW x \in T
        PROVE  Cardinality(T) = v[x] + Cardinality(T \ {x})
    <2>1. Cardinality(T \ {x}) = Cardinality(T) - 1
      BY <1>1, FS_RemoveElement
    <2> QED BY <1>1, <2>1
  <1>4. \A T \in SUBSET S : \A x \in T : T \ {x} \in SUBSET S
    OBVIOUS
  <1> QED BY <1>1, <1>2, <1>3, <1>4 DEF Adds

(* What falls on each of several days adds up to what falls on any.        *)
Parts(h, S, D) == [m \in D |-> {x \in S : h[x] = m}]
Chosen(h, S, D) == {x \in S : h[x] \in D}

LEMMA AddsByPart ==
  ASSUME NEW S, IsFiniteSet(S), NEW v, \A x \in S : v[x] \in Int, NEW f, Adds(f, S, v),
         NEW h, NEW D, IsFiniteSet(D), NEW part, part = Parts(h, S, D),
         NEW w, \A m \in D : w[m] = f[part[m]], NEW g, Adds(g, D, w)
  PROVE  g[D] = f[Chosen(h, S, D)]
  <1>g. PICK Good : Good = {E \in SUBSET D : g[E] = f[Chosen(h, S, E)]}
    OBVIOUS
  <1>1. {} \in Good
    <2> PICK E, U : E = {} /\ U = Chosen(h, S, E)
      OBVIOUS
    <2>1. U = {} /\ g[E] = 0 /\ f[U] = 0
      BY DEF Adds, Chosen
    <2> QED BY <1>g, <2>1
  <1>2. ASSUME NEW E \in SUBSET D, E # {}, \A m \in E : E \ {m} \in Good
        PROVE  E \in Good
    <2> PICK m \in E : TRUE
      BY <1>2
    <2>u. PICK e, A, B, U : /\ e = E \ {m} /\ A = {x \in S : h[x] = m}
                            /\ B = Chosen(h, S, e) /\ U = Chosen(h, S, E)
      OBVIOUS
    <2>1. g[e] = f[B]
      BY <1>2, <1>g, <2>u
    <2>2. g[E] = w[m] + g[e]
      BY <2>u DEF Adds
    <2>3. w[m] = f[A]
      BY <2>u DEF Parts
    <2>4. A \in SUBSET S /\ B \in SUBSET S /\ A \cap B = {} /\ A \cup B = U
      BY <2>u DEF Chosen
    <2>5. f[A \cup B] = f[A] + f[B]
      BY <2>4, AddsDisjoint
    <2>6. g[E] = f[U]
      BY <2>1, <2>2, <2>3, <2>4, <2>5
    <2> QED BY <1>g, <2>u, <2>6
  <1>3. SUBSET D \subseteq Good
    <2>1. \A T \in SUBSET D : T # {} /\ (\A x \in T : T \ {x} \in Good) => T \in Good
      BY <1>2
    <2> QED BY <1>1, <2>1, SubsetInduction
  <1> QED BY <1>g, <1>3

(* Amounts rounded to cents one by one.                                    *)
LEMMA AddsRounded ==
  ASSUME NEW D, IsFiniteSet(D), NEW v, \A m \in D : v[m] \in Int, NEW f, Adds(f, D, v),
         NEW w, \A m \in D : w[m] \in Int /\ 10 * w[m] - v[m] \in (-5)..5,
         NEW g, Adds(g, D, w)
  PROVE  10 * g[D] - f[D] \in (-(5 * Cardinality(D)))..(5 * Cardinality(D))
  <1>g. PICK Good : Good = {E \in SUBSET D :
          10 * g[E] - f[E] \in (-(5 * Cardinality(E)))..(5 * Cardinality(E))}
    OBVIOUS
  <1>0. \A E \in SUBSET D : /\ f[E] \in Int /\ g[E] \in Int /\ IsFiniteSet(E)
                           /\ Cardinality(E) \in Nat
    BY FS_Subset, FS_CardinalityType DEF Adds
  <1>1. {} \in Good
    <2> PICK E : E = {}
      OBVIOUS
    <2>1. f[E] = 0 /\ g[E] = 0 /\ Cardinality(E) = 0
      BY FS_EmptySet DEF Adds
    <2>2. 10 * g[E] - f[E] \in (-(5 * Cardinality(E)))..(5 * Cardinality(E))
      BY <2>1
    <2> QED BY <1>g, <2>2
  <1>2. ASSUME NEW E \in SUBSET D, E # {}, \A m \in E : E \ {m} \in Good
        PROVE  E \in Good
    <2> PICK m \in E : TRUE
      BY <1>2
    <2>e. PICK e : e = E \ {m}
      OBVIOUS
    <2>n. PICK n : n = Cardinality(e)
      OBVIOUS
    <2>1. e \in SUBSET D /\ 10 * g[e] - f[e] \in (-(5 * n))..(5 * n)
      BY <1>2, <1>g, <2>e, <2>n
    <2>2. f[E] = v[m] + f[e] /\ g[E] = w[m] + g[e]
      BY <2>e DEF Adds
    <2>3. Cardinality(E) = n + 1
      <3>1. Cardinality(E \ {m}) = Cardinality(E) - 1
        BY <1>0, FS_RemoveElement
      <3> QED BY <1>0, <2>e, <2>n, <3>1
    <2>4. /\ f[e] \in Int /\ g[e] \in Int /\ n \in Nat /\ v[m] \in Int /\ w[m] \in Int
          /\ 10 * w[m] - v[m] \in (-5)..5
      BY <1>0, <2>1, <2>n
    <2>5. 10 * g[E] - f[E] \in (-(5 * Cardinality(E)))..(5 * Cardinality(E))
      BY <2>1, <2>2, <2>3, <2>4
    <2> QED BY <1>g, <2>5
  <1>3. SUBSET D \subseteq Good
    <2>1. \A T \in SUBSET D : T # {} /\ (\A x \in T : T \ {x} \in Good) => T \in Good
      BY <1>2
    <2> QED BY <1>1, <2>1, SubsetInduction
  <1> QED BY <1>g, <1>3
-------------------------------------------------------------------------------
(***************************************************************************)
(* The cash flow of a merchant and the card of what is paid.               *)
(***************************************************************************)
(* A paid invoice was paid since it was created, and by today, and all of  *)
(* a merchant's invoices were created since the merchant signed up.        *)
PaidInv ==
  /\ signedUp \in Int /\ signedUp <= today
  /\ \A i \in Billed :
       /\ billed[i].status # "none" => signedUp # -1 /\ signedUp <= billed[i].created
       /\ billed[i].status = "paid" =>
            billed[i].created <= billed[i].paidAt /\ billed[i].paidAt <= today

LEMMA PaidBegin == ReportsInit => PaidInv
  BY DEF ReportsInit, PaidInv, NotIssued

LEMMA PaidStep == ReportsInv /\ PaidInv /\ [ReportsNext]_reportsVars => PaidInv'
  <1> SUFFICES ASSUME ReportsInv, PaidInv, [ReportsNext]_reportsVars PROVE PaidInv'
    OBVIOUS
  <1>0. /\ today \in Nat /\ signedUp \in Int /\ billed \in [Billed -> BilledRows]
        /\ \A i \in Billed : /\ billed[i].created \in Int /\ billed[i].paidAt \in Int
                             /\ billed[i].created <= today
    BY DEF ReportsInv, BilledRows
  <1>1. CASE NextReportDay
    BY <1>0, <1>1 DEF NextReportDay, PaidInv
  <1>2. CASE SignUp
    BY <1>0, <1>2 DEF SignUp, PaidInv
  <1>3. CASE UNCHANGED <<today, signedUp, billed>>
    BY <1>3 DEF PaidInv
  (* One row is written, with the day it was created and the day paid.     *)
  <1>4. ASSUME NEW i \in Billed, NEW new, billed' = [billed EXCEPT ![i] = new],
               UNCHANGED <<today, signedUp>>,
               new.status # "none" => signedUp # -1 /\ signedUp <= new.created,
               new.status = "paid" => new.created <= new.paidAt /\ new.paidAt <= today
        PROVE  PaidInv'
    <2>1. billed'[i] = new /\ \A j \in Billed \ {i} : billed'[j] = billed[j]
      BY <1>0, <1>4
    <2> QED BY <1>4, <2>1 DEF PaidInv
  <1>5. ASSUME NEW i \in Billed, NEW total \in Totals, IssueInvoice(i, total)
        PROVE  PaidInv'
    <2>1. PICK new : new = [status |-> "sent", created |-> today, paidAt |-> -1,
                            total |-> total]
      OBVIOUS
    <2>2. /\ billed' = [billed EXCEPT ![i] = new] /\ signedUp # -1
          /\ UNCHANGED <<today, signedUp>>
      BY <1>5, <2>1 DEF IssueInvoice
    <2>3. new.status = "sent" /\ new.created = today /\ signedUp <= today
      BY <2>1 DEF PaidInv
    <2> QED BY <1>4, <2>2, <2>3
  <1>6. ASSUME NEW i \in Billed, NEW status \in OpenStatuses, ChangeStatus(i, status)
        PROVE  PaidInv'
    <2>1. PICK new : new = [billed[i] EXCEPT !.status = status]
      OBVIOUS
    <2>2. billed' = [billed EXCEPT ![i] = new] /\ UNCHANGED <<today, signedUp>>
      BY <1>0, <1>6, <2>1 DEF ChangeStatus
    <2>3. /\ new.status = status /\ new.created = billed[i].created
          /\ billed[i].status # "none" /\ status # "paid"
      BY <1>0, <1>6, <2>1, ReportsAssumption DEF ChangeStatus, PayableNow, BilledRows
    <2> QED BY <1>4, <2>2, <2>3 DEF PaidInv
  <1>7. ASSUME NEW i \in Billed, PayInvoice(i)
        PROVE  PaidInv'
    <2>1. PICK day \in {today, today - 1} :
            /\ day >= billed[i].created
            /\ billed' = [billed EXCEPT ![i].status = "paid", ![i].paidAt = day]
      BY <1>7 DEF PayInvoice
    <2>2. PICK new : new = [billed[i] EXCEPT !.status = "paid", !.paidAt = day]
      OBVIOUS
    <2>3. billed' = [billed EXCEPT ![i] = new] /\ UNCHANGED <<today, signedUp>>
      BY <1>0, <1>7, <2>1, <2>2 DEF PayInvoice
    <2>4. /\ new.created = billed[i].created /\ new.paidAt = day /\ day <= today
          /\ billed[i].status # "none"
      BY <1>0, <1>7, <2>1, <2>2 DEF PayInvoice, PayableNow, BilledRows
    <2>5. new.created <= new.paidAt /\ new.paidAt <= today
      BY <1>0, <2>1, <2>4
    <2> QED BY <1>4, <2>3, <2>4, <2>5 DEF PaidInv
  <1>8. ASSUME NEW i \in Billed, RemoveInvoice(i)
        PROVE  PaidInv'
    BY <1>4, <1>8 DEF RemoveInvoice, NotIssued
  <1>9. ASSUME NEW month \in 1..MonthsPerYear, AskMonth(month)
        PROVE  PaidInv'
    BY <1>3, <1>9 DEF AskMonth
  <1>10. CASE StartOverview \/ EndOverview \/ UNCHANGED reportsVars
    BY <1>3, <1>10 DEF StartOverview, EndOverview, reportsVars
  <1> QED BY <1>1, <1>2, <1>5, <1>6, <1>7, <1>8, <1>9, <1>10 DEF ReportsNext

LEMMA BilledTyped ==
  ASSUME ReportsInv
  PROVE  /\ IsFiniteSet(Billed)
         /\ \A i \in Billed : /\ billed[i].created \in Nat /\ billed[i].paidAt \in Int
                              /\ billed[i].total \in Int
  <1>1. Totals \cup {0} \subseteq Int /\ IsFiniteSet(Billed)
    BY ReportsAssumption
  <1>2. billed \in [Billed -> BilledRows]
    BY DEF ReportsInv
  <1> QED BY <1>1, <1>2 DEF BilledRows

LEMMA CentsRound ==
  ASSUME NEW x \in Int
  PROVE  /\ ConvertUSDCToCents(x) \in Int
         /\ 10 * ConvertUSDCToCents(x) - x \in (-5)..5
  BY SMT DEF ConvertUSDCToCents

(* What a range of days adds up to, month by month.                        *)
LEMMA CashFlowAdds ==
  ASSUME ReportsInv, NEW v, v = [i \in Billed |-> billed[i].total],
         NEW total, Adds(total, Billed, v),
         NEW from, NEW to, NEW F, F = GetTransactionCashFlowQuery(from, to),
         NEW flow, flow = CashFlow(from, to)
  PROVE  /\ F \in SUBSET Billed /\ IsFiniteSet(DOMAIN flow)
         /\ CashFlowCount(flow) = Cardinality(F) /\ CashFlowAmount(flow) \in Int
         /\ 10 * CashFlowAmount(flow) - total[F] \in
              (-(5 * Cardinality(DOMAIN flow)))..(5 * Cardinality(DOMAIN flow))
  <1>0. IsFiniteSet(Billed) /\ \A i \in Billed : v[i] \in Int
    BY BilledTyped
  <1>1. F \in SUBSET Billed /\ IsFiniteSet(F)
    <2>1. F \subseteq Billed
      BY DEF GetTransactionCashFlowQuery, Is
    <2> QED BY <1>0, <2>1, FS_Subset
  <1>h. PICK h : h = [i \in F |-> MonthOf(billed[i].paidAt)]
    OBVIOUS
  <1>D. PICK D : D = {h[i] : i \in F}
    OBVIOUS
  <1>p. PICK part : part = Parts(h, F, D)
    OBVIOUS
  <1>2. flow = [m \in D |-> Bucket(part[m])]
    <2>1. flow = [m \in {MonthOf(billed[i].paidAt) : i \in F} |->
                    Bucket({i \in F : MonthOf(billed[i].paidAt) = m})]
      BY DEF CashFlow
    <2>2. D = {MonthOf(billed[i].paidAt) : i \in F}
      BY <1>h, <1>D
    <2>3. ASSUME NEW m \in D PROVE part[m] = {i \in F : MonthOf(billed[i].paidAt) = m}
      BY <1>h, <1>p DEF Parts
    <2>4. part = [m \in D |-> {i \in F : MonthOf(billed[i].paidAt) = m}]
      BY <1>p, <2>3 DEF Parts
    <2> QED BY <2>1, <2>2, <2>3, <2>4
  <1>3. DOMAIN flow = D /\ IsFiniteSet(D) /\ Chosen(h, F, D) = F
    <2>1. IsFiniteSet(D)
      <3>1. h \in Surjection(F, D)
        BY <1>h, <1>D DEF Surjection
      <3> QED BY <1>1, <3>1, FS_Surjection
    <2>2. Chosen(h, F, D) = F
      BY <1>D DEF Chosen
    <2>3. DOMAIN flow = D
      BY <1>2
    <2> QED BY <2>1, <2>2, <2>3
  <1>4. \A m \in D : part[m] \in SUBSET F
    BY <1>p DEF Parts
  <1>5. CashFlowCount(flow) = Cardinality(F)
    <2>1. PICK ones, counted : /\ ones = [i \in F |-> 1]
                               /\ counted = [T \in SUBSET F |-> Cardinality(T)]
      OBVIOUS
    <2>2. Adds(counted, F, ones)
      BY <1>1, <2>1, CardinalityAdds
    <2>3. PICK w : w = [m \in D |-> flow[m].count]
      OBVIOUS
    <2>4. ASSUME NEW m \in D PROVE w[m] = counted[part[m]]
      BY <1>2, <1>4, <2>1, <2>3 DEF Bucket
    <2>5. \A m \in D : w[m] \in Int
      BY <1>4, <2>2, <2>4, AddsTyped
    <2>6. PICK g : Adds(g, D, w)
      BY <1>3, <2>5, AddsExists
    <2>7. CashFlowCount(flow) = g[D]
      <3>1. SumFunction(w) = g[D]
        BY <1>3, <2>3, <2>6, SumIs
      <3> QED BY <1>3, <2>3, <3>1 DEF CashFlowCount
    <2>8. g[D] = counted[Chosen(h, F, D)]
      <3>1. \A i \in F : ones[i] \in Int
        BY <2>1
      <3>2. \A m \in D : w[m] = counted[part[m]]
        BY <2>4
      <3> QED BY <1>1, <1>3, <1>p, <2>2, <2>6, <3>1, <3>2, AddsByPart
    <2> QED BY <1>3, <2>1, <2>7, <2>8
  <1>6. PICK owed : owed = [T \in SUBSET F |-> total[T]]
    OBVIOUS
  <1>7. Adds(owed, F, v) /\ \A i \in F : v[i] \in Int
    BY <1>0, <1>1, <1>6, AddsPart
  <1>8. PICK w : w = [m \in D |-> owed[part[m]]]
    OBVIOUS
  <1>9. \A m \in D : w[m] = owed[part[m]] /\ w[m] \in Int
    BY <1>4, <1>7, <1>8, AddsTyped
  <1>10. PICK g : Adds(g, D, w)
    BY <1>3, <1>9, AddsExists
  <1>11. g[D] = total[F]
    <2>1. g[D] = owed[Chosen(h, F, D)]
      <3>1. /\ IsFiniteSet(F) /\ IsFiniteSet(D) /\ Adds(owed, F, v) /\ Adds(g, D, w)
            /\ \A i \in F : v[i] \in Int
            /\ \A m \in D : w[m] = owed[part[m]]
        BY <1>1, <1>3, <1>7, <1>9, <1>10
      <3> QED BY <1>p, <3>1, AddsByPart
    <2> QED BY <1>3, <1>6, <2>1
  <1>12. PICK cents : cents = [m \in D |-> flow[m].amount]
    OBVIOUS
  <1>13. ASSUME NEW m \in D
         PROVE  cents[m] \in Int /\ 10 * cents[m] - w[m] \in (-5)..5
    <2>1. Sum(part[m]) = total[part[m]]
      <3> PICK P \in SUBSET Billed : P = part[m]
        BY <1>1, <1>4
      <3> PICK u : u = [i \in P |-> billed[i].total]
        OBVIOUS
      <3>1. DOMAIN u = P /\ \A i \in P : u[i] = v[i]
        OBVIOUS
      <3>2. SumFunction(u) = total[P]
        BY <1>0, <3>1, SumOfPart
      <3> QED BY <3>2 DEF Sum
    <2>2. w[m] = total[part[m]]
      BY <1>4, <1>6, <1>9
    <2>3. cents[m] = ConvertUSDCToCents(w[m])
      BY <1>2, <1>12, <2>1, <2>2 DEF Bucket
    <2> QED BY <1>9, <2>3, CentsRound
  <1>14. PICK k : Adds(k, D, cents)
    BY <1>3, <1>13, AddsExists
  <1>15. CashFlowAmount(flow) = k[D]
    <2>1. SumFunction(cents) = k[D]
      BY <1>3, <1>12, <1>14, SumIs
    <2> QED BY <1>3, <1>12, <2>1 DEF CashFlowAmount
  <1>16. 10 * k[D] - g[D] \in (-(5 * Cardinality(D)))..(5 * Cardinality(D))
    <2>1. \A m \in D : cents[m] \in Int /\ 10 * cents[m] - w[m] \in (-5)..5
      BY <1>13
    <2> QED BY <1>3, <1>9, <1>10, <1>14, <2>1, AddsRounded
  <1>17. k[D] \in Int
    BY <1>14, AddsTyped
  <1> QED BY <1>1, <1>3, <1>5, <1>11, <1>15, <1>16, <1>17

(* The card of what is paid has a single group.                            *)
LEMMA PaidCard ==
  ASSUME ReportsInv, NEW v, v = [i \in Billed |-> billed[i].total],
         NEW total, Adds(total, Billed, v)
  PROVE  /\ GetTransactionCard("paid").count = Cardinality(Is("paid"))
         /\ GetTransactionCard("paid").amount = ConvertUSDCToCents(total[Is("paid")])
         /\ total[Is("paid")] \in Int
  <1>0. IsFiniteSet(Billed) /\ \A i \in Billed : v[i] \in Int
    BY BilledTyped
  <1>1. PICK P \in SUBSET Billed : P = Is("paid")
    BY DEF Is
  <1>2. IsFiniteSet(P) /\ total[P] \in Int /\ Cardinality(P) \in Int
    BY <1>0, AddsTyped, FS_Subset, FS_CardinalityType
  <1>3. Sum(P) = total[P]
    <2> PICK u : u = [i \in P |-> billed[i].total]
      OBVIOUS
    <2>1. DOMAIN u = P /\ \A i \in P : u[i] = v[i]
      OBVIOUS
    <2>2. SumFunction(u) = total[P]
      BY <1>0, <2>1, SumOfPart
    <2> QED BY <2>2 DEF Sum
  <1>4. CardStatuses("paid") = {"paid"}
    BY DEF CardStatuses
  <1>5. GetTransactionCard("paid").count = Cardinality(P)
    <2> PICK u : u = [s \in CardStatuses("paid") |-> Bucket(Is(s)).count]
      OBVIOUS
    <2>1. DOMAIN u = {"paid"} /\ u["paid"] = Cardinality(P)
      BY <1>1, <1>4 DEF Bucket
    <2>2. SumFunction(u) = Cardinality(P)
      BY <1>2, <2>1, SumOfOne
    <2> QED BY <2>2 DEF GetTransactionCard
  <1>6. GetTransactionCard("paid").amount = ConvertUSDCToCents(total[P])
    <2> PICK u : u = [s \in CardStatuses("paid") |-> Bucket(Is(s)).amount]
      OBVIOUS
    <2>1. DOMAIN u = {"paid"} /\ u["paid"] = ConvertUSDCToCents(total[P])
      BY <1>1, <1>3, <1>4 DEF Bucket
    <2>2. SumFunction(u) = u["paid"]
      BY <1>2, <2>1, CentsRound, SumOfOne
    <2> QED BY <2>1, <2>2 DEF GetTransactionCard
  <1> QED BY <1>1, <1>2, <1>5, <1>6

LEMMA CashFlowFits == ReportsInv /\ PaidInv => CashFlowAgrees
  <1> SUFFICES ASSUME ReportsInv, PaidInv PROVE CashFlowAgrees
    OBVIOUS
  <1>v. PICK v : v = [i \in Billed |-> billed[i].total]
    OBVIOUS
  <1>0. /\ IsFiniteSet(Billed) /\ \A i \in Billed : v[i] \in Int
        /\ today \in Nat /\ signedUp \in Int
        /\ \A i \in Billed : billed[i].created \in Nat /\ billed[i].paidAt \in Int
    BY <1>v, BilledTyped DEF ReportsInv
  <1>1. PICK total : Adds(total, Billed, v)
    BY <1>0, AddsExists
  <1>2. ASSUME NEW i \in Is("paid")
        PROVE  /\ i \in Billed /\ signedUp <= billed[i].paidAt
               /\ 0 <= billed[i].paidAt /\ billed[i].paidAt <= today
    BY <1>0 DEF Is, PaidInv
  <1>3. ASSUME DefaultFrom = signedUp
        PROVE  LET flow == GetTransactionCashFlow
                   card == GetTransactionCard("paid")
                   error == 10 * (card.amount - CashFlowAmount(flow))
                   bound == 5 * (Cardinality(DOMAIN flow) + 1) IN
               /\ CashFlowCount(flow) = card.count
               /\ error \in (-bound)..bound
    <2> PICK flow : flow = GetTransactionCashFlow
      OBVIOUS
    <2> PICK P : P = Is("paid")
      OBVIOUS
    <2>1. flow = CashFlow(signedUp, today + 1) /\ P = GetTransactionCashFlowQuery(signedUp, today + 1)
      <3>1. flow = CashFlow(signedUp, today + 1)
        BY <1>3 DEF GetTransactionCashFlow, ToDate
      <3>2. P = GetTransactionCashFlowQuery(signedUp, today + 1)
        BY <1>0, <1>2 DEF GetTransactionCashFlowQuery
      <3> QED BY <3>1, <3>2
    <2>2. /\ IsFiniteSet(DOMAIN flow) /\ CashFlowCount(flow) = Cardinality(P)
          /\ CashFlowAmount(flow) \in Int
          /\ 10 * CashFlowAmount(flow) - total[P] \in
               (-(5 * Cardinality(DOMAIN flow)))..(5 * Cardinality(DOMAIN flow))
      BY <1>v, <1>1, <2>1, CashFlowAdds
    <2>3. /\ GetTransactionCard("paid").count = Cardinality(P)
          /\ GetTransactionCard("paid").amount = ConvertUSDCToCents(total[P])
          /\ total[P] \in Int
      BY <1>v, <1>1, PaidCard
    <2>4. PICK c, a, n, t : /\ c = GetTransactionCard("paid").amount
                            /\ a = CashFlowAmount(flow) /\ n = Cardinality(DOMAIN flow)
                            /\ t = total[P]
      OBVIOUS
    <2>5. c \in Int /\ 10 * c - t \in (-5)..5
      BY <2>3, <2>4, CentsRound
    <2>6. a \in Int /\ n \in Nat /\ t \in Int /\ 10 * a - t \in (-(5 * n))..(5 * n)
      BY <2>2, <2>3, <2>4, FS_CardinalityType
    <2>7. 10 * (c - a) \in (-(5 * (n + 1)))..(5 * (n + 1))
      BY <2>5, <2>6
    <2> QED BY <2>2, <2>3, <2>4, <2>7
  <1>4. ASSUME NEW last \in 0..today
        PROVE  CashFlowCount(CashFlow(0, ToDate(last)))
                 + CashFlowCount(CashFlow(last + 1, ToDate(today)))
               = CashFlowCount(CashFlow(0, ToDate(today)))
    <2>1. \A from, to : CashFlowCount(CashFlow(from, to)) =
                          Cardinality(GetTransactionCashFlowQuery(from, to))
      BY <1>v, <1>1, CashFlowAdds
    <2> PICK A, B, C : /\ A = GetTransactionCashFlowQuery(0, last + 1)
                       /\ B = GetTransactionCashFlowQuery(last + 1, today + 1)
                       /\ C = GetTransactionCashFlowQuery(0, today + 1)
      OBVIOUS
    <2>2. A \cup B = C /\ A \cap B = {} /\ C \subseteq Billed
      BY <1>0, <1>2 DEF GetTransactionCashFlowQuery, Is
    <2>3. IsFiniteSet(A) /\ IsFiniteSet(B)
      BY <1>0, <2>2, FS_Subset
    <2>4. Cardinality(A \cup B) = Cardinality(A) + Cardinality(B)
      <3>1. /\ Cardinality(A \cup B) =
                 Cardinality(A) + Cardinality(B) - Cardinality(A \cap B)
            /\ Cardinality(A \cap B) = 0
        BY <2>2, <2>3, FS_Union, FS_EmptySet
      <3> QED BY <2>3, <3>1, FS_CardinalityType
    <2> QED BY <2>1, <2>2, <2>4 DEF ToDate
  <1> QED BY <1>3, <1>4 DEF CashFlowAgrees

(* The cash flow of GET /transactions/cashflow and the paid card never     *)
(* disagree on the number of invoices, nor by more than half a cent for    *)
(* each month and one for the card, whatever the invoices, their totals,   *)
(* the day of payment around midnight and the calendar.                    *)
THEOREM CashFlowFitsCard == ReportsSpec => []CashFlowAgrees
  <1> DEFINE Both == ReportsInv /\ PaidInv
  <1>1. ReportsInit => Both
    BY ReportsBegin, PaidBegin
  <1>2. Both /\ [ReportsNext]_reportsVars => Both'
    BY ReportsStep, PaidStep
  <1>3. Both => CashFlowAgrees
    BY CashFlowFits
  <1> HIDE DEF Both
  <1> QED BY <1>1, <1>2, <1>3, PTL DEF ReportsSpec
=============================================================================
