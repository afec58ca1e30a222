----------------------------- MODULE NetworkSwitch -----------------------------
(***************************************************************************)
(* The Stellar network the servers work on, which the admin may switch at  *)
(* any time (internal/admin, cmd/server), and what a switch does to the    *)
(* payments on their way (internal/payments).                              *)
(*                                                                         *)
(* A monitor asks for the network once, at the start of a stage, and works *)
(* with the answer to its end.  Payments are recorded in one table for     *)
(* both networks, which does not say which one a payment was made on.      *)
(* Every payment here is right in all but its network and has an invoice   *)
(* of its own; PaymentSettlement has the other verdicts.                   *)
(***************************************************************************)
EXTENDS Integers, FiniteSets

CONSTANTS
  Stage,         \* the network of STELLAR_STAGE
  Monitors,      \* the payment monitors of the servers
  Verifiers,     \* verify requests
  PageLimit,     \* operations Horizon returns at once
  MaxPayments,   \* the bound on payments on each network
  MaxSwitches,   \* the bound on changes of the setting
  MaxCrashes     \* the bound on crashes

Networks == {"testnet", "mainnet"}
Currencies == {"usdc", "xlm"}
Unset == "unset"

ASSUME NetworkAssumption ==
  /\ Stage \in Networks /\ Monitors \cap Verifiers = {}
  /\ {PageLimit, MaxPayments} \subseteq Nat \ {0}
  /\ {MaxSwitches, MaxCrashes} \subseteq Nat

VARIABLES
  setting,       \* row stellar_network of system_config
  made,          \* the payments on each network, in ledger order, by currency
  cursor,        \* table payment_cursors for the one account, by network
  recorded,      \* table payments: status and, for the properties, the
                 \* network each payment was judged on
  task,          \* what each monitor and each request is at
  switches,      \* changes of the setting so far
  crashes        \* crashes so far

networkVars ==
  <<setting, made, cursor, recorded, task, switches, crashes>>

Places == Networks \X (1..MaxPayments)
Idle == [phase |-> "idle", stage |-> Stage, place |-> 0, last |-> 0]
Unseen == [status |-> "unseen", judgedOn |-> Unset]

NetworkTypeOK ==
  /\ setting \in Networks \cup {Unset}
  /\ made \in [Networks -> UNION {[1..k -> Currencies] : k \in 0..MaxPayments}]
  /\ cursor \in [Networks -> 0..MaxPayments]
  /\ recorded \in [Places -> [status: {"unseen", "detected", "verified", "invalid_payment"},
                              judgedOn: Networks \cup {Unset}]]
  /\ task \in [Monitors \cup Verifiers ->
                [phase: {"idle", "poll", "page", "process", "finalize", "polled", "recover"},
                 stage: Networks, place: 0..(MaxPayments + 1), last: 0..MaxPayments]]
  /\ switches \in 0..MaxSwitches
  /\ crashes \in 0..MaxCrashes

NetworkInit ==
  /\ setting = Unset
  /\ made = [n \in Networks |-> [i \in 1..0 |-> "usdc"]]
  /\ cursor = [n \in Networks |-> 0]
  /\ recorded = [p \in Places |-> Unseen]
  /\ task = [m \in Monitors \cup Verifiers |-> Idle]
  /\ switches = 0 /\ crashes = 0

Count(n) == Cardinality(DOMAIN made[n])
-------------------------------------------------------------------------------
(***************************************************************************)
(* The setting.  At its start every server also runs                       *)
(* seedStellarNetworkConfig, which writes nothing: it passes the empty     *)
(* string as the administrator's UUID, which Postgres refuses, and ignores *)
(* the error.                                                              *)
(***************************************************************************)
EnsureNetworkConfig ==
  /\ setting = Unset
  /\ setting' = Stage
  /\ UNCHANGED <<made, cursor, recorded, task, switches, crashes>>

SetStellarNetwork(n) ==
  /\ switches < MaxSwitches
  /\ setting' = n
  /\ switches' = switches + 1
  /\ UNCHANGED <<made, cursor, recorded, task, crashes>>

(* The setting, or the environment's network while it is unset.            *)
resolveNetwork == IF setting = Unset THEN Stage ELSE setting
-------------------------------------------------------------------------------
(***************************************************************************)
(* The monitors.                                                           *)
(***************************************************************************)
Pay(n, currency) ==
  /\ Count(n) < MaxPayments
  /\ made' = [made EXCEPT ![n] = [i \in 1..(Count(n) + 1) |->
                                    IF i <= Count(n) THEN made[n][i] ELSE currency]]
  /\ UNCHANGED <<setting, cursor, recorded, task, switches, crashes>>

Goes(m, state) == task' = [task EXCEPT ![m] = state]

Starts(m, phase) ==
  /\ task[m].phase = "idle"
  /\ Goes(m, [Idle EXCEPT !.phase = phase, !.stage = resolveNetwork])
  /\ UNCHANGED <<setting, made, cursor, recorded, switches, crashes>>

Poll(m) == Starts(m, "poll")

(* Mutated form of CursorOf: one cursor for the account on both networks.  *)
CursorOfAccount(stage) == "testnet"

(* The row of payment_cursors a monitor works with.                        *)
CursorOf(stage) == stage

PollAccount(m) ==
  /\ task[m].phase = "poll"
  /\ Goes(m, [task[m] EXCEPT !.phase = "page", !.last = cursor[CursorOf(task[m].stage)]])
  /\ UNCHANGED <<setting, made, cursor, recorded, switches, crashes>>

Least(a, b) == IF a < b THEN a ELSE b

(* A page of what comes after the cursor, if anything does.                *)
NextPage(m) ==
  LET t == task[m]
      last == Least(t.last + PageLimit, Count(t.stage))
  IN
  /\ t.phase = "page"
  /\ Goes(m, IF last > t.last
             THEN [t EXCEPT !.phase = "process", !.place = t.last + 1, !.last = last]
             ELSE [t EXCEPT !.phase = "polled"])
  /\ UNCHANGED <<setting, made, cursor, recorded, switches, crashes>>

(* VerifyTransaction: one transaction, wherever the cursor is.             *)
VerifyTransaction(m, i) ==
  /\ task[m].phase = "idle" /\ i <= Count(resolveNetwork)
  /\ Goes(m, [phase |-> "process", stage |-> resolveNetwork, place |-> i, last |-> i])
  /\ UNCHANGED <<setting, made, cursor, recorded, switches, crashes>>

(* processPayment up to its first commit: unfinished payments go on to     *)
(* finalize, settled ones are skipped.                                     *)
ProcessPayment(m) ==
  LET p == <<task[m].stage, task[m].place>>
      unsettled == recorded[p].status \in {"unseen", "detected"}
  IN
  /\ task[m].phase = "process" /\ task[m].place <= task[m].last
  /\ recorded' = IF unsettled THEN [recorded EXCEPT ![p].status = "detected"] ELSE recorded
  /\ Goes(m, IF unsettled THEN [task[m] EXCEPT !.phase = "finalize"]
                          ELSE [task[m] EXCEPT !.place = @ + 1])
  /\ UNCHANGED <<setting, made, cursor, switches, crashes>>

(* Mutated form of AssetMatches: the issuer is always the environment's.   *)
AssetMatchesStage(stage, n, currency) == currency = "xlm" \/ Stage = n

(* expectedAsset: XLM is the same asset on both networks, USDC is not.     *)
AssetMatches(stage, n, currency) == currency = "xlm" \/ stage = n

Judged(p, stage) ==
  IF recorded[p].status # "detected" THEN recorded[p]
  ELSE [status |-> IF AssetMatches(stage, p[1], made[p[1]][p[2]])
                   THEN "verified" ELSE "invalid_payment",
        judgedOn |-> stage]

(* finalize, under the network the stage started with.                     *)
Finalize(m) ==
  LET p == <<task[m].stage, task[m].place>> IN
  /\ task[m].phase = "finalize"
  /\ recorded' = [recorded EXCEPT ![p] = Judged(p, task[m].stage)]
  /\ Goes(m, [task[m] EXCEPT !.phase = "process", !.place = @ + 1])
  /\ UNCHANGED <<setting, made, cursor, switches, crashes>>

PageDone(m) == task[m].phase = "process" /\ task[m].place > task[m].last

(* The page is done: its end is the new cursor, whatever another monitor   *)
(* has saved meanwhile.                                                    *)
SaveCursor(m) ==
  /\ PageDone(m)
  /\ cursor' = [cursor EXCEPT ![CursorOf(task[m].stage)] = task[m].last]
  /\ Goes(m, [task[m] EXCEPT !.phase = "page"])
  /\ UNCHANGED <<setting, made, recorded, switches, crashes>>

EndVerify(m) ==
  /\ PageDone(m)
  /\ Goes(m, Idle)
  /\ UNCHANGED <<setting, made, cursor, recorded, switches, crashes>>

(* RecoverUnfinished asks for the network again ...                        *)
RecoverUnfinished(m) ==
  /\ task[m].phase = "polled"
  /\ Goes(m, [Idle EXCEPT !.phase = "recover", !.stage = resolveNetwork])
  /\ UNCHANGED <<setting, made, cursor, recorded, switches, crashes>>

(* ... and finalizes any detected payment, whichever network it is from.   *)
FinalizeUnfinished(m, p) ==
  /\ task[m].phase = "recover"
  /\ recorded[p].status = "detected"
  /\ recorded' = [recorded EXCEPT ![p] = Judged(p, task[m].stage)]
  /\ UNCHANGED <<setting, made, cursor, task, switches, crashes>>

EndRecover(m) ==
  /\ task[m].phase = "recover"
  /\ Goes(m, Idle)
  /\ UNCHANGED <<setting, made, cursor, recorded, switches, crashes>>

(* A crash, a timeout or an error of the database or of Horizon.           *)
Interrupt(m) ==
  /\ task[m].phase # "idle" /\ crashes < MaxCrashes
  /\ Goes(m, Idle)
  /\ crashes' = crashes + 1
  /\ UNCHANGED <<setting, made, cursor, recorded, switches>>
-------------------------------------------------------------------------------
MonitorStep(m) ==
  \/ Poll(m) \/ PollAccount(m) \/ NextPage(m) \/ ProcessPayment(m) \/ Finalize(m)
  \/ SaveCursor(m) \/ RecoverUnfinished(m) \/ EndRecover(m)

Recovers(m) == \E p \in Places : FinalizeUnfinished(m, p)

VerifyStep(m) == ProcessPayment(m) \/ Finalize(m) \/ EndVerify(m)

NetworkNext ==
  \/ EnsureNetworkConfig
  \/ \E n \in Networks : SetStellarNetwork(n) \/ \E c \in Currencies : Pay(n, c)
  \/ \E m \in Monitors : MonitorStep(m) \/ Recovers(m)
  \/ \E m \in Verifiers : VerifyStep(m) \/ \E i \in 1..MaxPayments : VerifyTransaction(m, i)
  \/ \E m \in Monitors \cup Verifiers : Interrupt(m)

NetworkSpec == NetworkInit /\ [][NetworkNext]_networkVars
-------------------------------------------------------------------------------
(* "Payment cursors are kept per network, so switching does not replay     *)
(* history" (admin/handler.go:353), nor does it skip: whatever is switched *)
(* while pages are worked through, every payment up to a network's cursor  *)
(* is in the table.                                                        *)
CursorsPerNetwork ==
  \A n \in Networks : \A i \in 1..cursor[n] : recorded[<<n, i>>].status # "unseen"

(* A right payment of USDC counts exactly when it is judged on the network *)
(* it was made on, although no record says which that is: a switch between *)
(* detection and recovery gets it rejected for good, and the money of the  *)
(* test network never counts on the other.  XLM has no issuer to tell.     *)
IssuerTellsTheNetwork ==
  \A n \in Networks : \A i \in 1..Count(n) :
    LET r == recorded[<<n, i>>] IN
    made[n][i] = "usdc" /\ r.judgedOn # Unset =>
      (r.status = "verified" <=> r.judgedOn = n)

(* A payment on the network the servers are set to gets a verdict unless   *)
(* they are switched away: also one made while they were set to the other. *)
JudgedAfterSwitch ==
  \A n \in Networks : \A i \in 1..MaxPayments :
    Count(n) >= i /\ resolveNetwork = n
      ~> recorded[<<n, i>>].judgedOn # Unset \/ resolveNetwork # n
=============================================================================
