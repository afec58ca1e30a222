-------------------------- MODULE SettlementContract --------------------------
(***************************************************************************)
(* What the payments package promises, without saying how: every payment   *)
(* is judged once and for good, and an invoice is paid exactly by the one  *)
(* payment accepted for it.  PaymentSettlement implements this contract:   *)
(* outcome and paidBy are read off its payments table, paid off its        *)
(* invoice table, so the two tables may never disagree.                    *)
(***************************************************************************)
EXTENDS Integers

CONSTANTS Invoices, OpIds

VARIABLES
  outcome,   \* what became of each payment operation
  paidBy,    \* the payments accepted for each invoice
  paid       \* whether each invoice is paid

vars == <<outcome, paidBy, paid>>

Init ==
  /\ outcome = [o \in OpIds |-> "unseen"]
  /\ paidBy = [i \in Invoices |-> {}]
  /\ paid = [i \in Invoices |-> FALSE]

(* A payment that names an invoice is recorded, to be judged.              *)
Record(o) ==
  /\ outcome[o] = "unseen"
  /\ outcome' = [outcome EXCEPT ![o] = "open"]
  /\ UNCHANGED <<paidBy, paid>>

Reject(o) ==
  /\ outcome[o] \in {"unseen", "open"}
  /\ outcome' = [outcome EXCEPT ![o] = "rejected"]
  /\ UNCHANGED <<paidBy, paid>>

(* The payment pays the invoice, both in one step.                         *)
Accept(o, i) ==
  /\ outcome[o] = "open"
  /\ ~paid[i] /\ paidBy[i] = {}
  /\ outcome' = [outcome EXCEPT ![o] = "accepted"]
  /\ paidBy' = [paidBy EXCEPT ![i] = {o}]
  /\ paid' = [paid EXCEPT ![i] = TRUE]

Next ==
  \E o \in OpIds : Record(o) \/ Reject(o) \/ \E i \in Invoices : Accept(o, i)

Spec == Init /\ [][Next]_vars
=============================================================================
