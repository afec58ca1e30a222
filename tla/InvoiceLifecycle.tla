--------------------------- MODULE InvoiceLifecycle ---------------------------
(***************************************************************************)
(* The invoice table and everything outside the payments package that      *)
(* writes it: the owner's and the client's requests of internal/invoice,   *)
(* the hourly overdue ticker of cmd/server and the daily asynq task of     *)
(* cmd/api.  PaymentSettlement adds the payments package on top.           *)
(*                                                                         *)
(* A row is created once and keeps its id.  The columns kept are the ones  *)
(* the payment rules or a guard read: status, the review flags (approved,  *)
(* rejected), total and due_date.  Time advances by whole days: every      *)
(* comparison in the code is between dates.                                *)
(***************************************************************************)
EXTENDS PaymentRules

CONSTANTS
  Invoices,      \* the ids invoices may get
  Totals,        \* the totals, in stroops, an invoice may be given
  MaxDay,        \* the bound on the calendar
  Recipient      \* Recipient[i]: the address of the creator's wallet, or ""

ASSUME LifecycleAssumption ==
  /\ Totals \subseteq Nat
  /\ MaxDay \in Nat \ {0}

VARIABLES
  invoice,       \* the invoice table
  today,         \* the current date (UTC)
  updating,      \* invoices an UpdateInvoice or EditInvoice has looked at
  dailyRun       \* whether the daily task is between its two statements

lifecycleVars == <<invoice, today, updating, dailyRun>>

Days == 1..MaxDay

(* "none" is an id not used yet, "deleted" one whose row is gone.          *)
RowStatuses == InvoiceStatuses \cup {"none", "deleted"}
Exists(i) == invoice[i].status \in InvoiceStatuses

InvoiceRows ==
  [status: RowStatuses, review: {"open", "approved", "rejected"},
   stroops: Totals \cup {0}, due: 0..MaxDay]

LifecycleTypeOK ==
  /\ invoice \in [Invoices -> InvoiceRows]
  /\ today \in Days
  /\ updating \in SUBSET Invoices
  /\ dailyRun \in BOOLEAN

LifecycleInit ==
  /\ invoice = [i \in Invoices |->
       [status |-> "none", review |-> "open", stroops |-> 0, due |-> 0]]
  /\ today = 1
  /\ updating = {}
  /\ dailyRun = FALSE

SetStatus(i, status) == invoice' = [invoice EXCEPT ![i].status = status]

(* UPDATE invoice SET status = to: all the matching rows in one statement. *)
UpdateRows(table, rows, to) ==
  [i \in Invoices |-> IF i \in rows THEN [table[i] EXCEPT !.status = to]
                                    ELSE table[i]]

(* Every invoice is created in USDC.                                       *)
InvoiceCurrency == "usdc"
-------------------------------------------------------------------------------
(***************************************************************************)
(* Requests of the invoice's owner and of its client.                      *)
(***************************************************************************)

(* A draft, not approved: the approved column defaults to FALSE.           *)
GenerateNewInvoice(i, total, due) ==
  /\ invoice[i].status = "none"
  /\ due >= today
  /\ invoice' = [invoice EXCEPT ![i] =
       [status |-> "draft", review |-> "open", stroops |-> total, due |-> due]]
  /\ UNCHANGED <<today, updating, dailyRun>>

SendInvoice(i) ==
  /\ invoice[i].status \in {"draft", "viewed"}
  /\ Recipient[i] # NoRecipient
  /\ SetStatus(i, "sent")
  /\ UNCHANGED <<today, updating, dailyRun>>

(* An invoice is reviewed once; rejecting it cancels it.                   *)
ReviewInvoice(i, approve) ==
  /\ invoice[i].review = "open"
  /\ invoice[i].status \in {"draft", "sent", "viewed", "pending", "overdue"}
  /\ invoice' = [invoice EXCEPT
       ![i].review = IF approve THEN "approved" ELSE "rejected",
       ![i].status = IF approve THEN "viewed" ELSE "cancelled"]
  /\ UNCHANGED <<today, updating, dailyRun>>

LockedStatuses ==
  {"sent", "viewed", "paid", "overdue", "payment_detected",
   "invalid_payment", "expired"}

(* UpdateInvoice reads the status in a query of its own, and EditInvoice,  *)
(* which takes drafts only, in its transaction but without a lock ...      *)
UpdateInvoiceCheck(i) ==
  /\ Exists(i)
  /\ invoice[i].status \notin LockedStatuses
  /\ updating' = updating \cup {i}
  /\ UNCHANGED <<invoice, today, dailyRun>>

(* ... and both write later without looking at it again.  A deleted row    *)
(* matches nothing: the request then fails.                                *)
UpdateInvoiceWrite(i, total, due) ==
  /\ i \in updating
  /\ due >= today \/ due = invoice[i].due
  /\ invoice' = IF Exists(i)
                THEN [invoice EXCEPT ![i].stroops = total, ![i].due = due]
                ELSE invoice
  /\ updating' = updating \ {i}
  /\ UNCHANGED <<today, dailyRun>>

(* Only an invoice never paid; a payment row that links it keeps it (the   *)
(* foreign key is ON DELETE RESTRICT).                                     *)
DeleteInvoice(i, linked) ==
  /\ Exists(i)
  /\ invoice[i].status # "paid"
  /\ i \notin linked
  /\ SetStatus(i, "deleted")
  /\ UNCHANGED <<today, updating, dailyRun>>
-------------------------------------------------------------------------------
(***************************************************************************)
(* Scheduled work.                                                         *)
(***************************************************************************)

(* Mutated form of NeverOverdue: the statuses of migration 000029 are      *)
(* missing.                                                                *)
NeverOverdueBeforePayments == {"paid", "cancelled", "overdue", "refunded"}

NeverOverdue ==
  {"paid", "cancelled", "overdue", "refunded", "payment_detected",
   "invalid_payment", "expired"}

(* The hourly ticker: due_date < NOW() holds on the due date already.      *)
MarkOverdue ==
  LET rows == {i \in Invoices :
                 /\ Exists(i)
                 /\ invoice[i].status \notin NeverOverdue
                 /\ invoice[i].due <= today}
  IN /\ invoice' = UpdateRows(invoice, rows, "overdue")
     /\ UNCHANGED <<today, updating, dailyRun>>

OpenInvoices ==
  {i \in Invoices : invoice[i].status \in {"draft", "sent", "viewed", "pending"}}

(* UpdateOverdueInvoices, the daily task: one statement cancels what nobody *)
(* approved ...                                                            *)
CancelUnapproved ==
  LET rows == {i \in OpenInvoices : invoice[i].review # "approved"}
  IN /\ invoice' = UpdateRows(invoice, rows, "cancelled")
     /\ dailyRun' = TRUE
     /\ UNCHANGED <<today, updating>>

(* ... and a second one, unless the task fails before, marks the approved  *)
(* invoices past their due date.                                           *)
OverdueApproved ==
  LET rows == {i \in OpenInvoices :
                 invoice[i].review = "approved" /\ invoice[i].due < today}
  IN /\ dailyRun
     /\ invoice' = UpdateRows(invoice, rows, "overdue")
     /\ dailyRun' = FALSE
     /\ UNCHANGED <<today, updating>>

NextDay ==
  /\ today < MaxDay
  /\ today' = today + 1
  /\ UNCHANGED <<invoice, updating, dailyRun>>

(* linked: the invoices a payment row refers to. *)
LifecycleNext(linked) ==
  \/ \E i \in Invoices, total \in Totals, due \in Days :
       GenerateNewInvoice(i, total, due)
  \/ \E i \in Invoices : SendInvoice(i)
  \/ \E i \in Invoices, approve \in BOOLEAN : ReviewInvoice(i, approve)
  \/ \E i \in Invoices : UpdateInvoiceCheck(i)
  \/ \E i \in Invoices, total \in Totals, due \in Days :
       UpdateInvoiceWrite(i, total, due)
  \/ \E i \in Invoices : DeleteInvoice(i, linked)
  \/ MarkOverdue
  \/ CancelUnapproved
  \/ OverdueApproved
  \/ NextDay
=============================================================================
