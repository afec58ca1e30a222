------------------------- MODULE SettlementProperties -------------------------
(***************************************************************************)
(* What should be true of the payments package and of the invoices it      *)
(* settles, and the mapping that shows it implements SettlementContract.   *)
(***************************************************************************)
EXTENDS PaymentSettlement

(* A payment is settled once it has one of the final verdicts.             *)
FinalStatuses == {"verified", "invalid", "unmatched", "failed"}
Settled(o) == payments[o].status \in FinalStatuses

VerifiedFor(i) ==
  {o \in OpIds : payments[o].status = "verified" /\ payments[o].link = i}

(* An invoice is paid exactly when one payment is verified for it, and no  *)
(* second one ever is: finalize pays the invoice and verifies the payment  *)
(* in one transaction, whatever other payments of the invoice are in       *)
(* flight (finalize, service.go).                                          *)
PaidExactlyOnce ==
  \A i \in Invoices :
    /\ invoice[i].status = "paid" <=> VerifiedFor(i) # {}
    /\ \A o1, o2 \in VerifiedFor(i) : o1 = o2

(* A payment judged a duplicate has a different payment that paid the same *)
(* invoice: evaluate may say "already paid" only when that is so.          *)
DuplicateOfAnother ==
  \A o \in OpIds :
    payments[o].code = "duplicate" =>
      \E q \in OpIds \ {o} : q \in VerifiedFor(payments[o].link)

(* A payment linked to an invoice names it in its memo, the invoice is     *)
(* never deleted under it, and it is never declared unmatched later on: at *)
(* finalize nothing can be missing that was there at the unlocked read.    *)
LinkedPaymentsStayMatched ==
  \A o \in OpIds :
    payments[o].link # NoInvoice =>
      /\ o \in Ops /\ chain[o].memo = payments[o].link
      /\ Exists(payments[o].link)
      /\ payments[o].status # "unmatched"

(* Every payment up to an account's saved cursor is recorded, whatever     *)
(* failed on the way and however many pollers there were: nothing is       *)
(* skipped, for the operations before a cursor are never read again.       *)
CursorCoversRecorded ==
  \A a \in Accounts, o \in Ops :
    chain[o].to = a /\ o <= cursor[a] => Recorded(o)

(* The one row the wallet history has of a transaction agrees with the     *)
(* payment records: it is that of a settled payment of the transaction,    *)
(* says on-chain success or failure and links the invoice the payment is   *)
(* linked to, and no transaction with a settled payment in a known         *)
(* currency is without one, in whatever order its payments are settled.    *)
(* That a row stands for every payment is not so: see EveryPaymentListed.  *)
HistoryAgrees ==
  /\ \A t \in OpIds : ledger[t].status # "none" =>
       LET o == ledger[t].op
       IN /\ o \in Ops /\ chain[o].tx = t /\ Settled(o)
          /\ ledger[t].status = (IF chain[o].ok THEN "confirmed" ELSE "failed")
          /\ ledger[t].link = payments[o].link
  /\ \A o \in Ops : /\ Settled(o) /\ chain[o].to \in Accounts
                    /\ chain[o].asset.code \in {"USDC", "XLM"}
                    => ledger[chain[o].tx].status # "none"

-------------------------------------------------------------------------------
(* Paid is for ever, and an expired or cancelled invoice may only be       *)
(* deleted: none of the ten writers of invoice.status revives one.         *)
ClosedInvoicesStayClosed ==
  [][\A i \in Invoices :
       /\ invoice[i].status = "paid" => invoice'[i].status = "paid"
       /\ invoice[i].status \in {"expired", "cancelled"} =>
            invoice'[i].status \in {invoice[i].status, "deleted"}]_invoice

(* A verdict is final: reprocessing the operation, recovery and a second   *)
(* server never change a settled payment, and no record disappears.        *)
VerdictsAreFinal ==
  [][\A o \in OpIds :
       /\ Settled(o) => payments'[o] = payments[o]
       /\ Recorded(o) => payments'[o].link = payments[o].link]_payments

(* A payment is verified only by an exact, successful USDC payment to the  *)
(* invoice's recipient, closed within the window, of the total the invoice *)
(* has at that very moment; and in the same step a payable invoice becomes *)
(* paid.  The judgement made before the locks must not be the one used.    *)
VerifiedOnTerms ==
  [][\A o \in OpIds :
       payments[o].status # "verified" /\ payments'[o].status = "verified" =>
       LET i == payments'[o].link
       IN /\ chain[o].ok /\ chain[o].memo = i /\ chain[o].to = Recipient[i]
          /\ chain[o].asset = expectedAsset(InvoiceCurrency)
          /\ chain[o].stroops = invoice[i].stroops
          /\ chain[o].closed <= invoice[i].due + GraceDays
          /\ invoice[i].status \in PayableStatuses
          /\ invoice'[i].status = "paid"]_payments

-------------------------------------------------------------------------------
(* Every payment that reaches a polled wallet is in the end settled, after *)
(* any failures, crashes and concurrent requests.                          *)
EveryPaymentSettled ==
  \A o \in OpIds :
    (o \in Ops /\ chain[o].to \in Accounts) ~> Settled(o)

-------------------------------------------------------------------------------
(* SettlementContract, read off the database.                              *)
Outcome(o) ==
  CASE payments[o].status = "none"     -> "unseen"
    [] payments[o].status \in {"pending", "detected"} -> "open"
    [] payments[o].status = "verified" -> "accepted"
    [] OTHER                           -> "rejected"

Contract == INSTANCE SettlementContract WITH
  outcome <- [o \in OpIds |-> Outcome(o)],
  paidBy  <- [i \in Invoices |-> VerifiedFor(i)],
  paid    <- [i \in Invoices |-> invoice[i].status = "paid"]

(* The payments package keeps the contract: one verdict per payment, one   *)
(* payment per paid invoice, both tables changed together.                 *)
ImplementsContract == Contract!Spec

-------------------------------------------------------------------------------
(***************************************************************************)
(* What a document or a comment says and the code does not keep.           *)
(***************************************************************************)

(* docs/payment-status-model.md: "payment_detected is held only while a    *)
(* payment is being settled".                                              *)
DetectedOnlyWhileSettling ==
  \A i \in Invoices :
    invoice[i].status = "payment_detected" =>
      \E o \in OpIds : payments[o].link = i /\ Unfinished(o)

(* docs/payment-status-model.md:44: the wallet history "lists every        *)
(* incoming payment once".                                                 *)
EveryPaymentListed ==
  \A o \in Ops :
    Settled(o) /\ chain[o].to \in Accounts /\ chain[o].asset.code \in {"USDC", "XLM"}
      => \E t \in OpIds : ledger[t].status # "none" /\ ledger[t].op = o

(* The comment on ExpiresAt: whether a payment is late is judged on ledger *)
(* close time, not processing time.                                        *)
JudgedOnCloseTime ==
  \A o \in OpIds :
    /\ payments[o].code = "invoice_not_payable"
    /\ invoice[payments[o].link].status = "expired"
    => chain[o].closed > invoice[payments[o].link].due + GraceDays

(* The API description of UpdateInvoice: invoices that are sent, viewed,   *)
(* paid, ... are locked.                                                   *)
LockedInvoicesKeepTerms ==
  [][\A i \in Invoices :
       invoice[i].status \in LockedStatuses =>
         /\ invoice'[i].stroops = invoice[i].stroops
         /\ invoice'[i].due = invoice[i].due]_invoice
=============================================================================
