------------------------------- MODULE Notices -------------------------------
(***************************************************************************)
(* What a merchant is told of a payment.  It is settled in a transaction   *)
(* that several processes may attempt; the one whose commit settles it     *)
(* starts a goroutine that looks the merchant up and writes a              *)
(* notification.  The goroutine is part of no transaction, nobody retries  *)
(* it, and it dies with the server.                                        *)
(***************************************************************************)
EXTENDS Integers, FiniteSets

CONSTANTS
  Settlers,        \* processes that settle: pollers, recovery, requests
  Arrivals,        \* payments
  MaxNoticeFaults  \* crashes and errors

ASSUME NoticesAssumption == MaxNoticeFaults \in Nat

VARIABLES
  arrived,       \* the payments: what their rows say, and what is to come of them
  settler,       \* what each process settles, and how far it is
  telling,       \* the goroutines: of which payment, by whom, and how far
  notices,       \* the table notifications
  told,          \* how many were written of each payment
  noticeFaults

noticesVars == <<arrived, settler, telling, notices, told, noticeFaults>>
-------------------------------------------------------------------------------
Verdicts == {"verified", "invalid", "unmatched", "failed"}

(* The verdicts merchants are told of, with onPaid or onReview.            *)
review(verdict) == verdict \in {"invalid", "unmatched"}
Announced(verdict) == verdict = "verified" \/ review(verdict)

NotSettling == [phase |-> "idle", of |-> CHOOSE p \in Arrivals : TRUE]

(* A payment's verdict, and whether its account belongs to a merchant: an  *)
(* invoice may have kept the address of a wallet that is gone.             *)
NoticesInit ==
  /\ arrived \in [Arrivals -> [row: {"none"}, verdict: Verdicts, owned: BOOLEAN]]
  /\ settler = [s \in Settlers |-> NotSettling]
  /\ telling = {} /\ notices = {}
  /\ told = [p \in Arrivals |-> 0] /\ noticeFaults = 0

MayFault == noticeFaults < MaxNoticeFaults /\ noticeFaults' = noticeFaults + 1
-------------------------------------------------------------------------------
(***************************************************************************)
(* Settling.  A payment of no invoice is inserted with its verdict, every  *)
(* other one as detected, and judged under a lock in a second transaction. *)
(***************************************************************************)
Locked(p) == \E s \in Settlers : settler[s].of = p /\ settler[s].phase = "locked"

insertDetected(s, p) ==
  /\ settler[s].phase = "idle"
  /\ arrived[p].verdict \in {"verified", "invalid"} /\ arrived[p].row # "settled"
  /\ arrived' = IF arrived[p].row = "none" THEN [arrived EXCEPT ![p].row = "detected"] ELSE arrived
  /\ settler' = [settler EXCEPT ![s] = [phase |-> "detected", of |-> p]]
  /\ UNCHANGED <<telling, notices, told, noticeFaults>>

(* RecoverDetected goes on from a row another process left.              *)
RecoverDetected(s, p) ==
  /\ settler[s].phase = "idle" /\ arrived[p].row = "detected"
  /\ settler' = [settler EXCEPT ![s] = [phase |-> "detected", of |-> p]]
  /\ UNCHANGED <<arrived, telling, notices, told, noticeFaults>>

(* Mutated form of Unfinished: finalize trusts the row it was given.       *)
AnyRow(p) == arrived[p].row # "none"

Unfinished(p) == arrived[p].row = "detected"

LockPayment(s) ==
  LET p == settler[s].of IN
  /\ settler[s].phase = "detected" /\ ~Locked(p)
  /\ settler' = [settler EXCEPT ![s].phase = IF Unfinished(p) THEN "locked" ELSE "idle"]
  /\ UNCHANGED <<arrived, telling, notices, told, noticeFaults>>

insertSettled(s, p) ==
  /\ settler[s].phase = "idle" /\ ~Locked(p)
  /\ arrived[p].verdict \in {"unmatched", "failed"} /\ arrived[p].row = "none"
  /\ settler' = [settler EXCEPT ![s] = [phase |-> "locked", of |-> p]]
  /\ UNCHANGED <<arrived, telling, notices, told, noticeFaults>>

(* Mutated form of Tells: only of payments that are verified.              *)
TellsPaid(s, p) ==
  IF arrived[p].verdict = "verified" THEN {[of |-> p, by |-> s, phase |-> "started"]} ELSE {}

Tells(s, p) ==
  IF Announced(arrived[p].verdict) THEN {[of |-> p, by |-> s, phase |-> "started"]} ELSE {}

CommitSettled(s) ==
  LET p == settler[s].of IN
  /\ settler[s].phase = "locked"
  /\ arrived' = [arrived EXCEPT ![p].row = "settled"]
  /\ telling' = telling \cup Tells(s, p)
  /\ settler' = [settler EXCEPT ![s] = NotSettling]
  /\ UNCHANGED <<notices, told, noticeFaults>>

SettleFails(s) ==
  /\ MayFault /\ settler[s].phase # "idle"
  /\ settler' = [settler EXCEPT ![s] = NotSettling]
  /\ UNCHANGED <<arrived, telling, notices, told>>
-------------------------------------------------------------------------------
(***************************************************************************)
(* notifyPaid, notifyReview: whom to tell, then CreateNewNotification.     *)
(***************************************************************************)
LooksUp(g) ==
  /\ g \in telling /\ g.phase = "started"
  /\ telling' = (telling \ {g}) \cup
       (IF arrived[g.of].owned THEN {[g EXCEPT !.phase = "writing"]} ELSE {})
  /\ UNCHANGED <<arrived, settler, notices, told, noticeFaults>>

CreateNewNotification(g) ==
  /\ g \in telling /\ g.phase = "writing"
  /\ telling' = telling \ {g}
  /\ told' = [told EXCEPT ![g.of] = @ + 1]
  /\ notices' = notices \cup {[of |-> g.of, by |-> g.by, viewed |-> FALSE]}
  /\ UNCHANGED <<arrived, settler, noticeFaults>>

(* A statement fails, or the 30 seconds of the goroutine are over.         *)
TellingFails(g) ==
  /\ MayFault /\ g \in telling
  /\ telling' = telling \ {g}
  /\ UNCHANGED <<arrived, settler, notices, told>>

ServerCrash ==
  /\ MayFault
  /\ settler' = [s \in Settlers |-> NotSettling]
  /\ telling' = {}
  /\ UNCHANGED <<arrived, notices, told>>
-------------------------------------------------------------------------------
UpdateNotificationViewStatus(n, viewed) ==
  /\ n \in notices
  /\ notices' = (notices \ {n}) \cup {[n EXCEPT !.viewed = viewed]}
  /\ UNCHANGED <<arrived, settler, telling, told, noticeFaults>>

DeleteNotificationByID(n) ==
  /\ n \in notices
  /\ notices' = notices \ {n}
  /\ UNCHANGED <<arrived, settler, telling, told, noticeFaults>>

SettlerStep(s) ==
  LockPayment(s) \/ CommitSettled(s)
    \/ \E p \in Arrivals : insertDetected(s, p) \/ insertSettled(s, p) \/ RecoverDetected(s, p)

TellingStep(g) == LooksUp(g) \/ CreateNewNotification(g)

NoticesNext ==
  \/ \E s \in Settlers : SettlerStep(s) \/ SettleFails(s)
  \/ \E g \in telling : TellingStep(g) \/ TellingFails(g)
  \/ \E n \in notices :
       \/ DeleteNotificationByID(n)
       \/ \E viewed \in BOOLEAN : UpdateNotificationViewStatus(n, viewed)
  \/ ServerCrash

NoticesSpec == NoticesInit /\ [][NoticesNext]_noticesVars
-------------------------------------------------------------------------------
(* A merchant is told of a payment once, however many processes settle it  *)
(* and however often they start over, and never before it is settled.      *)
ToldOnce ==
  \A p \in Arrivals :
    /\ told[p] + Cardinality({g \in telling : g.of = p}) <= 1
    /\ told[p] > 0 => arrived[p].row = "settled" /\ Announced(arrived[p].verdict)

(* Unless something fails in between, the merchant of a settled payment is *)
(* told in the end.  A crash after the commit is such a failure: nothing   *)
(* remembers that the merchant is still to be told.                        *)
ToldInTheEnd ==
  \A p \in Arrivals :
    (arrived[p].row = "settled" /\ arrived[p].owned /\ Announced(arrived[p].verdict))
      ~> (told[p] = 1 \/ noticeFaults > 0)
=============================================================================
