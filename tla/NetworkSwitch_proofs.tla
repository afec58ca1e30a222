------------------------- MODULE NetworkSwitch_proofs -------------------------
(***************************************************************************)
(* What switching the network leaves intact, for any number of monitors,   *)
(* requests, switches and crashes: the cursor of a network passes no       *)
(* payment that is not in the table, and the issuer of USDC gives a        *)
(* payment the verdict of the network it was made on.                      *)
(***************************************************************************)
EXTENDS NetworkSwitch, FiniteSetTheorems, TLAPS

Workers == Monitors \cup Verifiers

TaskPhases == {"idle", "poll", "page", "process", "finalize", "polled", "recover"}
TaskRows == [phase: TaskPhases, stage: Networks, place: Nat, last: Nat]

PaymentRows ==
  [status: {"unseen", "detected", "verified", "invalid_payment"},
   judgedOn: Networks \cup {Unset}]

LedgersOK ==
  /\ DOMAIN made = Networks
  /\ \A n \in Networks : \E k \in 0..MaxPayments : made[n] \in [1..k -> Currencies]

NetworkShape ==
  /\ setting \in Networks \cup {Unset}
  /\ LedgersOK
  /\ cursor \in [Networks -> Nat]
  /\ recorded \in [Places -> PaymentRows]
  /\ task \in [Workers -> TaskRows]

(* No worker is beyond the end of the ledger of the network it works on.   *)
WithinLedger(t) ==
  /\ t.last <= Count(t.stage)
  /\ t.phase \in {"process", "finalize"} => t.place >= 1 /\ t.place <= t.last + 1
  /\ t.phase = "finalize" => t.place <= t.last

Seen(n, i) == recorded[<<n, i>>].status # "unseen"
SeenTo(n, k) == \A i \in 1..k : Seen(n, i)

(* A monitor has left nothing behind on the way to where it is.            *)
NothingSkipped(t) ==
  /\ t.phase = "page" => SeenTo(t.stage, t.last)
  /\ t.phase \in {"process", "finalize"} => SeenTo(t.stage, t.place - 1)
  /\ t.phase = "finalize" => Seen(t.stage, t.place)

(* What is in the table was made, and has a verdict once and for all.      *)
VerdictOK(n, i) ==
  LET r == recorded[<<n, i>>] IN
  /\ Seen(n, i) => i <= Count(n)
  /\ r.status \in {"unseen", "detected"} => r.judgedOn = Unset
  /\ made[n][i] = "usdc" /\ r.judgedOn # Unset => (r.status = "verified" <=> r.judgedOn = n)

CursorOK(n) == cursor[n] <= Count(n) /\ SeenTo(n, cursor[n])

NetworkInv ==
  /\ NetworkShape
  /\ \A m \in Workers : WithinLedger(task[m])
  /\ \A m \in Monitors : NothingSkipped(task[m])
  /\ \A n \in Networks : CursorOK(n)
  /\ \A n \in Networks, i \in 1..MaxPayments : VerdictOK(n, i)

LEMMA NetworkConstants ==
  /\ PageLimit \in Nat /\ MaxPayments \in Nat
  /\ Stage \in Networks /\ Monitors \cap Verifiers = {}
  BY NetworkAssumption

(* Count counts: a ledger is a sequence.                                   *)
LEMMA LedgerLength ==
  ASSUME NEW k \in Nat, NEW n \in Networks, made[n] \in [1..k -> Currencies]
  PROVE  Count(n) = k
  <1>1. DOMAIN made[n] = 1..k
    OBVIOUS
  <1>2. Cardinality(1..k) = k
    BY FS_Interval
  <1> QED BY <1>1, <1>2 DEF Count

LEMMA LedgerCount ==
  ASSUME LedgersOK, NEW n \in Networks
  PROVE  /\ Count(n) \in Nat /\ Count(n) <= MaxPayments
         /\ made[n] \in [1..Count(n) -> Currencies]
  <1>1. PICK k \in 0..MaxPayments : made[n] \in [1..k -> Currencies]
    BY DEF LedgersOK
  <1>2. k \in Nat /\ k <= MaxPayments
    BY <1>1, NetworkConstants
  <1>3. Count(n) = k
    BY <1>1, <1>2, LedgerLength
  <1> QED BY <1>1, <1>2, <1>3

LEMMA TaskPhaseNames ==
  /\ "idle" \in TaskPhases /\ "poll" \in TaskPhases /\ "page" \in TaskPhases
  /\ "process" \in TaskPhases /\ "finalize" \in TaskPhases
  /\ "polled" \in TaskPhases /\ "recover" \in TaskPhases
  BY DEF TaskPhases

LEMMA TaskChangesPhase ==
  ASSUME NEW row \in TaskRows, NEW ph \in TaskPhases
  PROVE  LET t == [row EXCEPT !.phase = ph] IN
         /\ t \in TaskRows /\ t.phase = ph /\ t.stage = row.stage
         /\ t.place = row.place /\ t.last = row.last
  BY DEF TaskRows

(* Outside a page there is nothing to skip.                                *)
LEMMA RestingTask ==
  ASSUME NetworkInv, NEW t \in TaskRows, t.last <= Count(t.stage),
         t.phase \notin {"page", "process", "finalize"}
  PROVE  WithinLedger(t) /\ NothingSkipped(t) /\ NothingSkipped(t)'
  BY DEF WithinLedger, NothingSkipped

LEMMA IdleTask ==
  ASSUME NetworkInv
  PROVE  /\ Idle \in TaskRows /\ Idle.phase = "idle" /\ Idle.stage = Stage
         /\ Idle.place = 0 /\ Idle.last = 0
         /\ WithinLedger(Idle) /\ NothingSkipped(Idle) /\ NothingSkipped(Idle)'
  <1>1. /\ Idle \in TaskRows /\ Idle.phase = "idle" /\ Idle.stage = Stage
        /\ Idle.place = 0 /\ Idle.last = 0
    BY NetworkConstants DEF Idle, TaskRows, TaskPhases
  <1>2. Count(Stage) \in Nat
    BY LedgerCount, NetworkConstants DEF NetworkInv, NetworkShape
  <1> QED BY <1>1, <1>2, RestingTask

LEMMA NetworkResolved ==
  ASSUME NetworkInv
  PROVE  resolveNetwork \in Networks
  BY NetworkConstants DEF NetworkInv, NetworkShape, resolveNetwork

(* A worker goes on, and the table of payments grows at most.              *)
LEMMA WorkerGoesOn ==
  ASSUME NetworkInv, NEW m \in Workers, NEW t \in TaskRows,
         task' = [task EXCEPT ![m] = t], UNCHANGED <<setting, made>>,
         recorded' \in [Places -> PaymentRows],
         \A n \in Networks, i \in 1..MaxPayments : Seen(n, i) => Seen(n, i)',
         \A n \in Networks, i \in 1..MaxPayments : VerdictOK(n, i)',
         cursor' \in [Networks -> Nat], \A n \in Networks : CursorOK(n)',
         WithinLedger(t), m \in Monitors => NothingSkipped(t)'
  PROVE  NetworkInv'
  <1>1. NetworkShape'
    BY DEF NetworkInv, NetworkShape, LedgersOK
  <1>2. \A n : Count(n)' = Count(n)
    BY DEF Count
  <1>3. ASSUME NEW w \in Workers PROVE WithinLedger(task[w])'
    <2>1. CASE w = m
      BY <1>2, <2>1 DEF WithinLedger, NetworkInv, NetworkShape
    <2>2. CASE w # m
      BY <1>2, <2>2 DEF WithinLedger, NetworkInv, NetworkShape
    <2> QED BY <2>1, <2>2
  <1>4. ASSUME NEW w \in Monitors PROVE NothingSkipped(task[w])'
    <2>1. CASE w = m
      <3>1. task'[w] = t
        BY <2>1 DEF NetworkInv, NetworkShape
      <3> QED BY <2>1, <3>1 DEF NothingSkipped
    <2>2. CASE w # m
      <3>1. task'[w] = task[w] /\ task[w] \in TaskRows
        BY <2>2 DEF NetworkInv, NetworkShape, Workers
      <3>2. /\ task[w].last \in Nat /\ task[w].place \in Nat
            /\ task[w].stage \in Networks
        BY <3>1 DEF TaskRows
      <3>3. /\ Count(task[w].stage) \in Nat /\ Count(task[w].stage) <= MaxPayments
            /\ WithinLedger(task[w]) /\ NothingSkipped(task[w])
        BY <3>2, LedgerCount DEF NetworkInv, NetworkShape, Workers
      <3> QED BY <3>1, <3>2, <3>3, NetworkConstants
              DEF WithinLedger, NothingSkipped, SeenTo, Seen
    <2> QED BY <2>1, <2>2
  <1> QED BY <1>1, <1>3, <1>4 DEF NetworkInv

(* ... with every cursor where it was.                                     *)
LEMMA ProgressKept ==
  ASSUME NetworkInv, NEW m \in Workers, NEW t \in TaskRows,
         task' = [task EXCEPT ![m] = t], UNCHANGED <<setting, made, cursor>>,
         recorded' \in [Places -> PaymentRows],
         \A n \in Networks, i \in 1..MaxPayments : Seen(n, i) => Seen(n, i)',
         \A n \in Networks, i \in 1..MaxPayments : VerdictOK(n, i)',
         WithinLedger(t), m \in Monitors => NothingSkipped(t)'
  PROVE  NetworkInv'
  <1>1. cursor' \in [Networks -> Nat]
    BY DEF NetworkInv, NetworkShape
  <1>2. ASSUME NEW n \in Networks PROVE CursorOK(n)'
    <2>1. /\ cursor[n] \in Nat /\ CursorOK(n) /\ Count(n)' = Count(n)
          /\ Count(n) \in Nat /\ Count(n) <= MaxPayments
      BY LedgerCount DEF NetworkInv, NetworkShape, Count
    <2>2. \A j \in 1..cursor[n] : j \in 1..MaxPayments
      BY <2>1, NetworkConstants DEF CursorOK
    <2> QED BY <2>1, <2>2 DEF CursorOK, SeenTo
  <1> QED BY <1>1, <1>2, WorkerGoesOn

LEMMA OnlyTaskMoves ==
  ASSUME NetworkInv, NEW m \in Workers, NEW t \in TaskRows,
         task' = [task EXCEPT ![m] = t], UNCHANGED <<setting, made, cursor, recorded>>,
         WithinLedger(t), m \in Monitors => NothingSkipped(t)
  PROVE  NetworkInv'
  <1>1. recorded' \in [Places -> PaymentRows] /\ cursor' \in [Networks -> Nat]
    BY DEF NetworkInv, NetworkShape
  <1>2. \A n, i : Seen(n, i)' = Seen(n, i)
    BY DEF Seen
  <1>3. \A n : Count(n)' = Count(n)
    BY DEF Count
  <1>4. \A n \in Networks, i \in 1..MaxPayments : VerdictOK(n, i)'
    BY <1>2, <1>3 DEF NetworkInv, VerdictOK
  <1>5. \A n \in Networks : CursorOK(n)'
    BY <1>2, <1>3 DEF NetworkInv, CursorOK, SeenTo
  <1>6. m \in Monitors => NothingSkipped(t)'
    BY <1>2 DEF NothingSkipped, SeenTo
  <1> QED BY <1>1, <1>2, <1>4, <1>5, <1>6, WorkerGoesOn

LEMMA WorkerGoesIdle ==
  ASSUME NetworkInv, NEW m \in Workers, Goes(m, Idle),
         UNCHANGED <<setting, made, cursor, recorded>>
  PROVE  NetworkInv'
  BY IdleTask, OnlyTaskMoves DEF Goes

LEMMA WorkerStarts ==
  ASSUME NetworkInv, NEW m \in Workers, NEW ph \in {"poll", "recover"},
         Goes(m, [Idle EXCEPT !.phase = ph, !.stage = resolveNetwork]),
         UNCHANGED <<setting, made, cursor, recorded>>
  PROVE  NetworkInv'
  <1> DEFINE t == [Idle EXCEPT !.phase = ph, !.stage = resolveNetwork]
  <1>1. ph \in TaskPhases /\ ph \notin {"page", "process", "finalize"}
    BY TaskPhaseNames
  <1>2. t \in TaskRows /\ t.phase = ph /\ t.stage = resolveNetwork /\ t.last = 0
    BY <1>1, IdleTask, NetworkResolved DEF TaskRows
  <1>3. task' = [task EXCEPT ![m] = t]
    BY DEF Goes
  <1> HIDE DEF t
  <1>4. t.last <= Count(t.stage)
    BY <1>2, LedgerCount, NetworkResolved DEF NetworkInv, NetworkShape
  <1>5. WithinLedger(t) /\ NothingSkipped(t)
    BY <1>1, <1>2, <1>4, RestingTask
  <1> QED BY <1>2, <1>3, <1>5, OnlyTaskMoves

(* What is known of a worker's task.                                       *)
LEMMA TaskKnown ==
  ASSUME NetworkInv, NEW m \in Workers
  PROVE  /\ task[m] \in TaskRows /\ WithinLedger(task[m])
         /\ task[m].stage \in Networks /\ task[m].place \in Nat /\ task[m].last \in Nat
         /\ Count(task[m].stage) \in Nat /\ Count(task[m].stage) <= MaxPayments
         /\ task[m].last <= Count(task[m].stage)
         /\ m \in Monitors => NothingSkipped(task[m])
  <1>1. task[m] \in TaskRows /\ WithinLedger(task[m])
    BY DEF NetworkInv, NetworkShape
  <1>2. task[m].stage \in Networks /\ task[m].place \in Nat /\ task[m].last \in Nat
    BY <1>1 DEF TaskRows
  <1>3. Count(task[m].stage) \in Nat /\ Count(task[m].stage) <= MaxPayments
    BY <1>2, LedgerCount DEF NetworkInv, NetworkShape
  <1>4. task[m].last <= Count(task[m].stage)
    BY <1>1 DEF WithinLedger
  <1> QED BY <1>1, <1>2, <1>3, <1>4 DEF NetworkInv

LEMMA AccountPolled ==
  ASSUME NetworkInv, NEW m \in Workers, PollAccount(m)
  PROVE  NetworkInv'
  <1> DEFINE g == task[m].stage
             t == [task[m] EXCEPT !.phase = "page", !.last = cursor[g]]
  <1>1. task' = [task EXCEPT ![m] = t] /\ UNCHANGED <<setting, made, cursor, recorded>>
    BY DEF PollAccount, Goes, CursorOf
  <1>2. cursor[g] \in Nat /\ cursor[g] <= Count(g) /\ SeenTo(g, cursor[g])
    BY TaskKnown DEF NetworkInv, NetworkShape, CursorOK
  <1>3. t \in TaskRows /\ t.phase = "page" /\ t.stage = g /\ t.last = cursor[g]
    <2>1. task[m] \in TaskRows /\ "page" \in TaskPhases
      BY TaskKnown, TaskPhaseNames
    <2>2. t \in TaskRows /\ t.phase = "page" /\ t.stage = task[m].stage /\ t.last = cursor[g]
      BY <1>2, <2>1 DEF TaskRows
    <2> QED BY <2>2
  <1> HIDE DEF t, g
  <1>4. WithinLedger(t) /\ NothingSkipped(t)
    BY <1>2, <1>3 DEF WithinLedger, NothingSkipped
  <1> QED BY <1>1, <1>3, <1>4, OnlyTaskMoves

LEMMA PageTaken ==
  ASSUME NetworkInv, NEW m \in Workers, NextPage(m)
  PROVE  NetworkInv'
  <1> DEFINE old == task[m]
             end == Least(old.last + PageLimit, Count(old.stage))
             t == [old EXCEPT !.phase = "process", !.place = old.last + 1, !.last = end]
             u == [old EXCEPT !.phase = "polled"]
  <1>1. /\ UNCHANGED <<setting, made, cursor, recorded>> /\ old.phase = "page"
        /\ \/ end > old.last /\ task' = [task EXCEPT ![m] = t]
           \/ task' = [task EXCEPT ![m] = u]
    BY DEF NextPage, Goes
  <1>2. end \in Nat /\ end <= Count(old.stage) /\ old.last + 1 \in Nat
    BY TaskKnown, NetworkConstants DEF Least
  <1>3. CASE end > old.last /\ task' = [task EXCEPT ![m] = t]
    <2>1. /\ t \in TaskRows /\ t.phase = "process" /\ t.stage = old.stage
          /\ t.place = old.last + 1 /\ t.last = end
      <3>1. old \in TaskRows /\ "process" \in TaskPhases
        BY TaskKnown, TaskPhaseNames
      <3> HIDE DEF old, end
      <3> QED BY <1>2, <3>1 DEF TaskRows
    <2>2. m \in Monitors => SeenTo(old.stage, old.last)
      BY <1>1, TaskKnown DEF NothingSkipped
    <2>3. old.last \in Nat
      BY TaskKnown
    <2> HIDE DEF t, end, old
    <2>4. WithinLedger(t)
      BY <1>2, <1>3, <2>1, <2>3 DEF WithinLedger
    <2>5. t.place - 1 = old.last
      BY <2>1, <2>3
    <2>6. m \in Monitors => NothingSkipped(t)
      BY <2>1, <2>2, <2>5 DEF NothingSkipped
    <2> QED BY <1>1, <1>3, <2>1, <2>4, <2>6, OnlyTaskMoves
  <1>4. CASE task' = [task EXCEPT ![m] = u]
    <2>1. u \in TaskRows /\ u.phase = "polled" /\ u.stage = old.stage /\ u.last = old.last
      BY TaskKnown, TaskPhaseNames, TaskChangesPhase
    <2>2. u.last <= Count(u.stage)
      BY <2>1, TaskKnown
    <2> HIDE DEF u
    <2>3. WithinLedger(u) /\ NothingSkipped(u)
      BY <2>1, <2>2, RestingTask
    <2> QED BY <1>1, <1>4, <2>1, <2>3, OnlyTaskMoves
  <1> QED BY <1>1, <1>3, <1>4

LEMMA VerifyStarts ==
  ASSUME NetworkInv, NEW m \in Verifiers, NEW i \in 1..MaxPayments, VerifyTransaction(m, i)
  PROVE  NetworkInv'
  <1> DEFINE t == [phase |-> "process", stage |-> resolveNetwork, place |-> i, last |-> i]
  <1>1. /\ task' = [task EXCEPT ![m] = t] /\ UNCHANGED <<setting, made, cursor, recorded>>
        /\ i <= Count(resolveNetwork)
    BY DEF VerifyTransaction, Goes
  <1>2. i \in Nat /\ i >= 1
    BY NetworkConstants
  <1>3. t \in TaskRows
    BY <1>2, NetworkResolved DEF TaskRows, TaskPhases
  <1>4. WithinLedger(t)
    BY <1>1, <1>2 DEF WithinLedger
  <1>5. m \in Workers /\ m \notin Monitors
    BY NetworkConstants DEF Workers
  <1> HIDE DEF t
  <1> QED BY <1>1, <1>3, <1>4, <1>5, OnlyTaskMoves

(* A row of the table changes from unseen to detected, or gets its verdict.*)
LEMMA RowDetected ==
  ASSUME NetworkInv, NEW n \in Networks, NEW i \in 1..MaxPayments, i <= Count(n),
         recorded[<<n, i>>].status \in {"unseen", "detected"},
         recorded' = [recorded EXCEPT ![<<n, i>>].status = "detected"], UNCHANGED made
  PROVE  /\ recorded' \in [Places -> PaymentRows]
         /\ \A k \in Networks, j \in 1..MaxPayments : Seen(k, j) => Seen(k, j)'
         /\ \A k \in Networks, j \in 1..MaxPayments : VerdictOK(k, j)'
         /\ Seen(n, i)'
  <1> DEFINE row == [recorded[<<n, i>>] EXCEPT !.status = "detected"]
  <1>1. <<n, i>> \in Places
    BY DEF Places
  <1>2. recorded[<<n, i>>] \in PaymentRows /\ recorded[<<n, i>>].judgedOn = Unset
    BY <1>1 DEF NetworkInv, NetworkShape, VerdictOK
  <1>3. row \in PaymentRows /\ row.status = "detected" /\ row.judgedOn = Unset
    BY <1>2 DEF PaymentRows
  <1>4. recorded' = [recorded EXCEPT ![<<n, i>>] = row]
    OBVIOUS
  <1> HIDE DEF row
  <1>5. recorded' \in [Places -> PaymentRows]
    BY <1>3, <1>4 DEF NetworkInv, NetworkShape
  <1>6. recorded'[<<n, i>>] = row
    BY <1>1, <1>4 DEF NetworkInv, NetworkShape
  <1>7. \A p \in Places : p # <<n, i>> => recorded'[p] = recorded[p]
    BY <1>4 DEF NetworkInv, NetworkShape
  <1>8. ASSUME NEW k \in Networks, NEW j \in 1..MaxPayments
        PROVE  (Seen(k, j) => Seen(k, j)') /\ VerdictOK(k, j)'
    <2>1. <<k, j>> \in Places /\ Count(k)' = Count(k) /\ VerdictOK(k, j)
      BY DEF Places, Count, NetworkInv
    <2>2. CASE <<k, j>> = <<n, i>>
      BY <1>3, <1>6, <2>1, <2>2 DEF Seen, VerdictOK
    <2>3. CASE <<k, j>> # <<n, i>>
      <3>1. recorded'[<<k, j>>] = recorded[<<k, j>>]
        BY <1>7, <2>1, <2>3
      <3> QED BY <2>1, <3>1 DEF Seen, VerdictOK
    <2> QED BY <2>2, <2>3
  <1> QED BY <1>3, <1>5, <1>6, <1>8 DEF Seen

LEMMA RowJudged ==
  ASSUME NetworkInv, NEW n \in Networks, NEW i \in 1..MaxPayments, NEW g \in Networks,
         recorded' = [recorded EXCEPT ![<<n, i>>] = Judged(<<n, i>>, g)], UNCHANGED made
  PROVE  /\ recorded' \in [Places -> PaymentRows]
         /\ \A k \in Networks, j \in 1..MaxPayments : Seen(k, j) => Seen(k, j)'
         /\ \A k \in Networks, j \in 1..MaxPayments : VerdictOK(k, j)'
  <1> DEFINE row == Judged(<<n, i>>, g)
             verdict == IF AssetMatches(g, n, made[n][i]) THEN "verified" ELSE "invalid_payment"
  <1>1. /\ <<n, i>> \in Places /\ recorded[<<n, i>>] \in PaymentRows
        /\ VerdictOK(n, i)
    BY DEF Places, NetworkInv, NetworkShape, VerdictOK
  <1>2. /\ recorded[<<n, i>>].status # "detected" => row = recorded[<<n, i>>]
        /\ recorded[<<n, i>>].status = "detected" =>
             row = [status |-> verdict, judgedOn |-> g]
    BY DEF Judged
  <1>3. /\ verdict \in {"verified", "invalid_payment"}
        /\ made[n][i] = "usdc" => (verdict = "verified" <=> g = n)
    BY DEF AssetMatches
  <1>4. g # Unset /\ g \in Networks \cup {Unset}
    BY DEF Networks, Unset
  <1> HIDE DEF row, verdict
  <1>5. row \in PaymentRows /\ (Seen(n, i) => row.status # "unseen")
    BY <1>1, <1>2, <1>3, <1>4 DEF PaymentRows, Seen
  <1>6. recorded' = [recorded EXCEPT ![<<n, i>>] = row]
    BY DEF row
  <1>7. /\ recorded' \in [Places -> PaymentRows]
        /\ recorded'[<<n, i>>] = row
        /\ \A p \in Places : p # <<n, i>> => recorded'[p] = recorded[p]
    BY <1>1, <1>5, <1>6 DEF NetworkInv, NetworkShape
  <1>8. VerdictOK(n, i)'
    <2>1. CASE recorded[<<n, i>>].status # "detected"
      <3>1. recorded'[<<n, i>>] = recorded[<<n, i>>] /\ Count(n)' = Count(n)
        BY <1>2, <1>7, <2>1 DEF Count
      <3> QED BY <1>1, <3>1 DEF VerdictOK, Seen
    <2>2. CASE recorded[<<n, i>>].status = "detected"
      <3>1. recorded'[<<n, i>>] = [status |-> verdict, judgedOn |-> g] /\ Count(n)' = Count(n)
        BY <1>2, <1>7, <2>2 DEF Count
      <3>2. i <= Count(n)
        BY <1>1, <2>2 DEF VerdictOK, Seen
      <3> QED BY <1>3, <1>4, <3>1, <3>2 DEF VerdictOK, Seen
    <2> QED BY <2>1, <2>2
  <1>9. ASSUME NEW k \in Networks, NEW j \in 1..MaxPayments
        PROVE  (Seen(k, j) => Seen(k, j)') /\ VerdictOK(k, j)'
    <2>1. <<k, j>> \in Places /\ Count(k)' = Count(k) /\ VerdictOK(k, j)
      BY DEF Places, Count, NetworkInv
    <2>2. CASE k = n /\ j = i
      BY <1>5, <1>7, <1>8, <2>2 DEF Seen
    <2>3. CASE ~ (k = n /\ j = i)
      <3>1. recorded'[<<k, j>>] = recorded[<<k, j>>]
        BY <1>7, <2>1, <2>3
      <3> QED BY <2>1, <3>1 DEF Seen, VerdictOK
    <2> QED BY <2>2, <2>3
  <1> QED BY <1>7, <1>9

(* processPayment: what it leaves seen is the payment it was at.           *)
LEMMA PaymentProcessed ==
  ASSUME NetworkInv, NEW m \in Workers, ProcessPayment(m)
  PROVE  NetworkInv'
  <1>0. PICK old \in TaskRows : old = task[m]
    BY TaskKnown
  <1> DEFINE n == old.stage
             i == old.place
             t == [old EXCEPT !.phase = "finalize"]
             u == [old EXCEPT !.place = i + 1]
             unsettled == recorded[<<n, i>>].status \in {"unseen", "detected"}
  <1>1. /\ UNCHANGED <<setting, made, cursor>> /\ old.phase = "process" /\ i <= old.last
        /\ unsettled => /\ recorded' = [recorded EXCEPT ![<<n, i>>].status = "detected"]
                        /\ task' = [task EXCEPT ![m] = t]
        /\ ~ unsettled => recorded' = recorded /\ task' = [task EXCEPT ![m] = u]
    BY <1>0, Zenon DEF ProcessPayment, Goes
  <1>2. /\ old \in TaskRows /\ n \in Networks /\ i \in Nat /\ old.last \in Nat
        /\ old.last <= Count(n) /\ Count(n) \in Nat /\ Count(n) <= MaxPayments
        /\ m \in Monitors => NothingSkipped(old)
        /\ WithinLedger(old)
    BY <1>0, TaskKnown
  <1>3. i >= 1 /\ i <= Count(n) /\ i \in 1..MaxPayments
    BY <1>1, <1>2, NetworkConstants DEF WithinLedger
  <1>4. m \in Monitors => SeenTo(n, i - 1)
    BY <1>1, <1>2 DEF NothingSkipped
  <1>5. CASE unsettled
    <2>1. /\ recorded' \in [Places -> PaymentRows]
          /\ \A k \in Networks, j \in 1..MaxPayments : Seen(k, j) => Seen(k, j)'
          /\ \A k \in Networks, j \in 1..MaxPayments : VerdictOK(k, j)'
          /\ Seen(n, i)'
      <3> HIDE DEF n, i
      <3> QED BY <1>1, <1>2, <1>3, <1>5, RowDetected
    <2>2. t \in TaskRows /\ t.phase = "finalize" /\ t.stage = n /\ t.place = i /\ t.last = old.last
      <3>1. "finalize" \in TaskPhases
        BY TaskPhaseNames
      <3> QED BY <1>2, <3>1 DEF TaskRows
    <2> HIDE DEF t, n, i
    <2>3. WithinLedger(t)
      BY <1>1, <1>2, <1>3, <2>2 DEF WithinLedger
    <2>4. m \in Monitors => NothingSkipped(t)'
      <3>1. \A j \in 1..(i - 1) : j \in 1..MaxPayments
        BY <1>2, <1>3, NetworkConstants
      <3>2. m \in Monitors => SeenTo(n, i - 1)'
        BY <1>2, <1>4, <2>1, <3>1 DEF SeenTo
      <3> QED BY <2>1, <2>2, <3>2 DEF NothingSkipped
    <2> QED BY <1>1, <1>5, <2>1, <2>2, <2>3, <2>4, ProgressKept
  <1>6. CASE ~ unsettled
    <2>1. u \in TaskRows /\ u.phase = "process" /\ u.stage = n /\ u.place = i + 1
          /\ u.last = old.last
      <3> QED BY <1>1, <1>2 DEF TaskRows
    <2>2. Seen(n, i)
      BY <1>6 DEF Seen
    <2> HIDE DEF u, n, i, unsettled
    <2>3. WithinLedger(u)
      BY <1>1, <1>2, <1>3, <2>1 DEF WithinLedger
    <2>4. m \in Monitors => NothingSkipped(u)
      BY <1>2, <1>4, <2>1, <2>2 DEF NothingSkipped, SeenTo
    <2> QED BY <1>1, <1>6, <2>1, <2>3, <2>4, OnlyTaskMoves
  <1> QED BY <1>5, <1>6

(* finalize: the payment is judged and the page goes on.                   *)
LEMMA PaymentFinalized ==
  ASSUME NetworkInv, NEW m \in Workers, Finalize(m)
  PROVE  NetworkInv'
  <1>0. PICK old \in TaskRows : old = task[m]
    BY TaskKnown
  <1> DEFINE n == old.stage
             i == old.place
             t == [old EXCEPT !.phase = "process", !.place = i + 1]
  <1>1. /\ UNCHANGED <<setting, made, cursor>> /\ old.phase = "finalize"
        /\ recorded' = [recorded EXCEPT ![<<n, i>>] = Judged(<<n, i>>, n)]
        /\ task' = [task EXCEPT ![m] = t]
    BY <1>0, Zenon DEF Finalize, Goes
  <1>2. /\ old \in TaskRows /\ n \in Networks /\ i \in Nat /\ old.last \in Nat
        /\ old.last <= Count(n) /\ Count(n) \in Nat /\ Count(n) <= MaxPayments
        /\ m \in Monitors => NothingSkipped(old)
        /\ WithinLedger(old)
    BY <1>0, TaskKnown
  <1>3. i >= 1 /\ i <= old.last /\ i \in 1..MaxPayments
    BY <1>1, <1>2, NetworkConstants DEF WithinLedger
  <1>4. m \in Monitors => SeenTo(n, i - 1) /\ Seen(n, i)
    BY <1>1, <1>2 DEF NothingSkipped
  <1>5. t \in TaskRows /\ t.phase = "process" /\ t.stage = n /\ t.place = i + 1
        /\ t.last = old.last
    <2>1. "process" \in TaskPhases /\ i + 1 \in Nat
      BY <1>2, TaskPhaseNames
    <2> HIDE DEF i, n
    <2>2. t \in TaskRows /\ t.phase = "process" /\ t.stage = old.stage
          /\ t.place = i + 1 /\ t.last = old.last
      BY <1>2, <2>1 DEF TaskRows
    <2> QED BY <2>2 DEF n
  <1> HIDE DEF t, n, i
  <1>6. WithinLedger(t)
    BY <1>2, <1>3, <1>5 DEF WithinLedger
  <1>7. /\ recorded' \in [Places -> PaymentRows]
        /\ \A k \in Networks, j \in 1..MaxPayments : Seen(k, j) => Seen(k, j)'
        /\ \A k \in Networks, j \in 1..MaxPayments : VerdictOK(k, j)'
    BY <1>1, <1>2, <1>3, RowJudged
  <1>8. m \in Monitors => NothingSkipped(t)'
    <2>1. m \in Monitors => \A j \in 1..i : Seen(n, j) /\ j \in 1..MaxPayments
      BY <1>2, <1>3, <1>4, NetworkConstants DEF SeenTo
    <2>2. m \in Monitors => SeenTo(n, i)'
      BY <1>2, <1>7, <2>1 DEF SeenTo
    <2>3. t.place - 1 = i
      BY <1>2, <1>5
    <2> QED BY <1>5, <2>2, <2>3 DEF NothingSkipped
  <1> QED BY <1>1, <1>5, <1>6, <1>7, <1>8, ProgressKept

(* The page is done: all of it has been seen.                              *)
LEMMA CursorSaved ==
  ASSUME NetworkInv, NEW m \in Monitors, SaveCursor(m)
  PROVE  NetworkInv'
  <1>1. m \in Workers
    BY DEF Workers
  <1>0. PICK old \in TaskRows : old = task[m]
    BY <1>1, TaskKnown
  <1> DEFINE n == old.stage
             t == [old EXCEPT !.phase = "page"]
  <1>2. /\ UNCHANGED <<setting, made, recorded>> /\ old.phase = "process"
        /\ old.place > old.last
        /\ cursor' = [cursor EXCEPT ![n] = old.last]
        /\ task' = [task EXCEPT ![m] = t]
    BY <1>0, Zenon DEF SaveCursor, PageDone, Goes, CursorOf
  <1>3. /\ n \in Networks /\ old.place \in Nat /\ old.last \in Nat
        /\ old.last <= Count(n) /\ NothingSkipped(old) /\ WithinLedger(old)
    BY <1>0, <1>1, TaskKnown
  <1>4. SeenTo(n, old.last)
    <2>1. old.place - 1 = old.last
      BY <1>2, <1>3 DEF WithinLedger
    <2> QED BY <1>2, <1>3, <2>1 DEF NothingSkipped
  <1>5. t \in TaskRows /\ t.phase = "page" /\ t.stage = n /\ t.last = old.last
    <2>1. "page" \in TaskPhases
      BY TaskPhaseNames
    <2> QED BY <2>1 DEF TaskRows
  <1> HIDE DEF t, n
  <1>6. /\ \A k, j : Seen(k, j)' = Seen(k, j)
        /\ \A k : Count(k)' = Count(k)
        /\ \A k \in Networks, j \in 1..MaxPayments : VerdictOK(k, j)'
    BY <1>2 DEF Seen, Count, VerdictOK, NetworkInv
  <1>7. cursor' \in [Networks -> Nat]
    BY <1>2, <1>3 DEF NetworkInv, NetworkShape
  <1>8. ASSUME NEW k \in Networks PROVE CursorOK(k)'
    <2>1. CASE k = n
      <3>1. cursor'[k] = old.last
        BY <1>2, <1>3, <2>1 DEF NetworkInv, NetworkShape
      <3> QED BY <1>3, <1>4, <1>6, <2>1, <3>1 DEF CursorOK, SeenTo
    <2>2. CASE k # n
      <3>1. cursor'[k] = cursor[k] /\ CursorOK(k)
        BY <1>2, <2>2 DEF NetworkInv, NetworkShape
      <3> QED BY <1>6, <3>1 DEF CursorOK, SeenTo
    <2> QED BY <2>1, <2>2
  <1>9. WithinLedger(t) /\ NothingSkipped(t)'
    BY <1>3, <1>4, <1>5, <1>6 DEF WithinLedger, NothingSkipped, SeenTo
  <1>10. recorded' \in [Places -> PaymentRows]
    BY <1>2 DEF NetworkInv, NetworkShape
  <1> QED BY <1>1, <1>2, <1>5, <1>6, <1>7, <1>8, <1>9, <1>10, WorkerGoesOn

(* Recovery judges what it finds detected, on whichever network.           *)
LEMMA UnfinishedFinalized ==
  ASSUME NetworkInv, NEW m \in Workers, NEW p \in Places, FinalizeUnfinished(m, p)
  PROVE  NetworkInv'
  <1>1. PICK n \in Networks, i \in 1..MaxPayments : p = <<n, i>>
    BY DEF Places
  <1>0. PICK old \in TaskRows : old = task[m]
    BY TaskKnown
  <1>2. /\ UNCHANGED <<setting, made, cursor, task>>
        /\ recorded' = [recorded EXCEPT ![<<n, i>>] = Judged(<<n, i>>, old.stage)]
        /\ old.phase = "recover"
    BY <1>0, <1>1 DEF FinalizeUnfinished
  <1>3. task' = [task EXCEPT ![m] = old]
    BY <1>0, <1>2 DEF NetworkInv, NetworkShape
  <1>4. /\ old.stage \in Networks /\ WithinLedger(old)
        /\ NothingSkipped(old)'
    <2>1. old.stage \in Networks /\ WithinLedger(old)
      BY <1>0, TaskKnown
    <2> QED BY <1>2, <2>1 DEF NothingSkipped
  <1>5. /\ recorded' \in [Places -> PaymentRows]
        /\ \A k \in Networks, j \in 1..MaxPayments : Seen(k, j) => Seen(k, j)'
        /\ \A k \in Networks, j \in 1..MaxPayments : VerdictOK(k, j)'
    BY <1>2, <1>4, RowJudged
  <1> QED BY <1>2, <1>3, <1>4, <1>5, ProgressKept

(* A payment is made on top of the ledger of its network.                  *)
LEMMA PaymentMade ==
  ASSUME NetworkInv, NEW n \in Networks, NEW c \in Currencies, Pay(n, c)
  PROVE  NetworkInv'
  <1> DEFINE k == Count(n)
             longer == [i \in 1..(k + 1) |-> IF i <= k THEN made[n][i] ELSE c]
  <1>1. /\ UNCHANGED <<setting, cursor, recorded, task>> /\ k < MaxPayments
        /\ made' = [made EXCEPT ![n] = longer]
    BY DEF Pay
  <1>2. /\ k \in Nat /\ k <= MaxPayments /\ k + 1 \in 0..MaxPayments
        /\ made[n] \in [1..k -> Currencies] /\ LedgersOK
    BY <1>1, LedgerCount, NetworkConstants DEF NetworkInv, NetworkShape
  <1> HIDE DEF k
  <1>3. longer \in [1..(k + 1) -> Currencies]
    BY <1>2
  <1> HIDE DEF longer
  <1>4. made'[n] = longer /\ DOMAIN made' = Networks
        /\ \A g \in Networks : g # n => made'[g] = made[g]
    BY <1>1, <1>2 DEF LedgersOK
  <1>5. LedgersOK'
    <2>1. ASSUME NEW g \in Networks
          PROVE  \E j \in 0..MaxPayments : made'[g] \in [1..j -> Currencies]
      <3>1. CASE g = n
        BY <1>2, <1>3, <1>4, <3>1
      <3>2. CASE g # n
        BY <1>2, <1>4, <3>2 DEF LedgersOK
      <3> QED BY <3>1, <3>2
    <2> QED BY <1>4, <2>1 DEF LedgersOK
  <1>6. \A g \in Networks : g # n => Count(g)' = Count(g)
    BY <1>4 DEF Count
  <1>7. Count(n)' = k + 1
    <2>1. DOMAIN longer = 1..(k + 1) /\ Cardinality(1..(k + 1)) = k + 1
      BY <1>2, <1>3, FS_Interval
    <2> QED BY <1>4, <2>1 DEF Count
  <1>8. ASSUME NEW g \in Networks PROVE Count(g) \in Nat /\ Count(g)' \in Nat /\ Count(g) <= Count(g)'
    <2>1. CASE g = n
      BY <1>2, <1>7, <2>1 DEF k
    <2>2. CASE g # n
      BY <1>2, <1>6, <2>2, LedgerCount
    <2> QED BY <2>1, <2>2
  <1>9. \A g, i : Seen(g, i)' = Seen(g, i)
    BY <1>1 DEF Seen
  <1>10. NetworkShape'
    BY <1>1, <1>5 DEF NetworkInv, NetworkShape
  <1>11. ASSUME NEW w \in Workers PROVE WithinLedger(task[w])'
    BY <1>1, <1>8, TaskKnown DEF WithinLedger
  <1>12. ASSUME NEW w \in Monitors PROVE NothingSkipped(task[w])'
    BY <1>1, <1>9 DEF NothingSkipped, SeenTo, NetworkInv
  <1>13. ASSUME NEW g \in Networks PROVE CursorOK(g)'
    BY <1>1, <1>8, <1>9 DEF CursorOK, SeenTo, NetworkInv, NetworkShape
  <1>14. ASSUME NEW g \in Networks, NEW i \in 1..MaxPayments PROVE VerdictOK(g, i)'
    <2>1. VerdictOK(g, i) /\ recorded' = recorded /\ i \in Nat /\ i >= 1
      BY <1>1, NetworkConstants DEF NetworkInv
    <2>2. Seen(g, i) => made'[g][i] = made[g][i]
      <3>1. CASE g = n
        <4>1. Seen(g, i) => i <= k
          BY <2>1, <3>1 DEF VerdictOK, k
        <4>2. i <= k => longer[i] = made[n][i]
          BY <1>2, <2>1 DEF longer
        <4> QED BY <1>4, <3>1, <4>1, <4>2
      <3>2. CASE g # n
        BY <1>4, <3>2
      <3> QED BY <3>1, <3>2
    <2>3. recorded[<<g, i>>].judgedOn # Unset => Seen(g, i)
      BY <2>1 DEF VerdictOK, Seen
    <2>4. (Seen(g, i) => i <= Count(g))'
      BY <1>8, <1>9, <2>1 DEF VerdictOK
    <2> QED BY <1>9, <2>1, <2>2, <2>3, <2>4 DEF VerdictOK
  <1> QED BY <1>10, <1>11, <1>12, <1>13, <1>14 DEF NetworkInv

(* Nothing here depends on the setting.                                    *)
LEMMA SettingChanges ==
  ASSUME NetworkInv, setting' \in Networks \cup {Unset},
         UNCHANGED <<made, cursor, recorded, task>>
  PROVE  NetworkInv'
  <1>1. \A n, i : Seen(n, i)' = Seen(n, i)
    BY DEF Seen
  <1>2. \A n : Count(n)' = Count(n)
    BY DEF Count
  <1>3. NetworkShape'
    BY DEF NetworkInv, NetworkShape, LedgersOK
  <1>4. \A m \in Workers : WithinLedger(task[m])'
    BY <1>2 DEF NetworkInv, WithinLedger
  <1>5. \A m \in Monitors : NothingSkipped(task[m])'
    BY <1>1 DEF NetworkInv, NothingSkipped, SeenTo
  <1>6. \A n \in Networks : CursorOK(n)'
    BY <1>1, <1>2 DEF NetworkInv, CursorOK, SeenTo
  <1>7. \A n \in Networks, i \in 1..MaxPayments : VerdictOK(n, i)'
    BY <1>1, <1>2 DEF NetworkInv, VerdictOK
  <1> QED BY <1>3, <1>4, <1>5, <1>6, <1>7 DEF NetworkInv

LEMMA NetworkStarts == NetworkInit => NetworkInv
  <1> SUFFICES ASSUME NetworkInit PROVE NetworkInv
    OBVIOUS
  <1>1. Workers = Monitors \cup Verifiers /\ MaxPayments \in Nat /\ 0 \in 0..MaxPayments
    BY NetworkConstants DEF Workers
  <1>2. \A n \in Networks : made[n] \in [1..0 -> Currencies]
    BY DEF NetworkInit
  <1>3. \A n \in Networks : Count(n) = 0
    BY <1>2, LedgerLength
  <1>4. /\ Idle \in TaskRows /\ Idle.phase = "idle" /\ Idle.stage = Stage
        /\ Idle.place = 0 /\ Idle.last = 0 /\ Stage \in Networks
    BY NetworkConstants DEF Idle, TaskRows, TaskPhases
  <1>5. \A p \in Places : recorded[p] = Unseen
    BY DEF NetworkInit
  <1>6. Unseen \in PaymentRows /\ Unseen.status = "unseen" /\ Unseen.judgedOn = Unset
    BY DEF Unseen, PaymentRows
  <1>7. NetworkShape
    <2>1. LedgersOK
      BY <1>1, <1>2 DEF LedgersOK, NetworkInit
    <2> QED BY <1>1, <1>4, <1>6, <2>1 DEF NetworkShape, NetworkInit
  <1>8. \A m \in Workers : WithinLedger(task[m]) /\ NothingSkipped(task[m])
    <2>1. \A m \in Workers : task[m] = Idle
      BY <1>1 DEF NetworkInit
    <2> QED BY <1>3, <1>4, <2>1 DEF WithinLedger, NothingSkipped
  <1>9. \A n \in Networks : CursorOK(n)
    BY <1>3 DEF NetworkInit, CursorOK, SeenTo
  <1>10. \A n \in Networks, i \in 1..MaxPayments : VerdictOK(n, i)
    <2>1. \A n \in Networks, i \in 1..MaxPayments : <<n, i>> \in Places
      BY DEF Places
    <2> QED BY <1>5, <1>6, <2>1 DEF VerdictOK, Seen
  <1> QED BY <1>7, <1>8, <1>9, <1>10 DEF NetworkInv, Workers

LEMMA NetworkStepKeeps == NetworkInv /\ [NetworkNext]_networkVars => NetworkInv'
  <1> SUFFICES ASSUME NetworkInv, [NetworkNext]_networkVars PROVE NetworkInv'
    OBVIOUS
  <1>1. CASE EnsureNetworkConfig
    BY <1>1, NetworkConstants, SettingChanges DEF EnsureNetworkConfig
  <1>2. ASSUME NEW n \in Networks, SetStellarNetwork(n) PROVE NetworkInv'
    BY <1>2, SettingChanges DEF SetStellarNetwork
  <1>3. ASSUME NEW n \in Networks, NEW c \in Currencies, Pay(n, c) PROVE NetworkInv'
    BY <1>3, PaymentMade
  <1>4. ASSUME NEW m \in Monitors, MonitorStep(m) PROVE NetworkInv'
    <2>1. m \in Workers
      BY DEF Workers
    <2>2. CASE Poll(m)
      BY <2>1, <2>2, WorkerStarts DEF Poll, Starts
    <2>3. CASE PollAccount(m)
      BY <2>1, <2>3, AccountPolled
    <2>4. CASE NextPage(m)
      BY <2>1, <2>4, PageTaken
    <2>5. CASE ProcessPayment(m)
      BY <2>1, <2>5, PaymentProcessed
    <2>6. CASE Finalize(m)
      BY <2>1, <2>6, PaymentFinalized
    <2>7. CASE SaveCursor(m)
      BY <2>7, CursorSaved
    <2>8. CASE RecoverUnfinished(m)
      BY <2>1, <2>8, WorkerStarts DEF RecoverUnfinished
    <2>9. CASE EndRecover(m)
      BY <2>1, <2>9, WorkerGoesIdle DEF EndRecover
    <2> QED BY <1>4, <2>2, <2>3, <2>4, <2>5, <2>6, <2>7, <2>8, <2>9 DEF MonitorStep
  <1>5. ASSUME NEW m \in Monitors, Recovers(m) PROVE NetworkInv'
    BY <1>5, UnfinishedFinalized DEF Recovers, Workers
  <1>6. ASSUME NEW m \in Verifiers, VerifyStep(m) PROVE NetworkInv'
    <2>1. m \in Workers
      BY DEF Workers
    <2>2. CASE EndVerify(m)
      BY <2>1, <2>2, WorkerGoesIdle DEF EndVerify
    <2> QED BY <1>6, <2>1, <2>2, PaymentProcessed, PaymentFinalized DEF VerifyStep
  <1>7. ASSUME NEW m \in Verifiers, NEW i \in 1..MaxPayments, VerifyTransaction(m, i)
        PROVE  NetworkInv'
    BY <1>7, VerifyStarts
  <1>8. ASSUME NEW m \in Workers, Interrupt(m) PROVE NetworkInv'
    BY <1>8, WorkerGoesIdle DEF Interrupt
  <1>9. CASE UNCHANGED networkVars
    BY <1>9, SettingChanges DEF networkVars, NetworkInv, NetworkShape
  <1> QED BY <1>1, <1>2, <1>3, <1>4, <1>5, <1>6, <1>7, <1>8, <1>9 DEF NetworkNext, Workers
-------------------------------------------------------------------------------
(* However the network is switched, no cursor passes a payment that is not *)
(* in the table.                                                           *)
THEOREM CursorNeverSkips == NetworkSpec => []CursorsPerNetwork
  <1>1. NetworkInv => CursorsPerNetwork
    BY DEF NetworkInv, CursorOK, SeenTo, Seen, CursorsPerNetwork
  <1> QED BY <1>1, NetworkStarts, NetworkStepKeeps, PTL DEF NetworkSpec

(* A payment of USDC is verified exactly when it was judged on the network *)
(* it was made on.                                                         *)
THEOREM VerdictTellsNetwork == NetworkSpec => []IssuerTellsTheNetwork
  <1>1. NetworkInv => IssuerTellsTheNetwork
    <2> SUFFICES ASSUME NetworkInv, NEW n \in Networks, NEW i \in 1..Count(n)
                 PROVE  LET r == recorded[<<n, i>>] IN
                        made[n][i] = "usdc" /\ r.judgedOn # Unset =>
                          (r.status = "verified" <=> r.judgedOn = n)
      BY DEF IssuerTellsTheNetwork
    <2>1. i \in 1..MaxPayments
      BY LedgerCount, NetworkConstants DEF NetworkInv, NetworkShape
    <2> QED BY <2>1 DEF NetworkInv, VerdictOK
  <1> QED BY <1>1, NetworkStarts, NetworkStepKeeps, PTL DEF NetworkSpec
=============================================================================
