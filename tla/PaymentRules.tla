----------------------------- MODULE PaymentRules -----------------------------
(***************************************************************************)
(* The rules that decide what one payment seen on Stellar means for one    *)
(* invoice: internal/payments/verify.go, chain.go and dto.go.  Everything  *)
(* here is a pure function of a payment operation, the view of an invoice  *)
(* and the asset the invoice demands; PaymentSettlement evaluates them     *)
(* against its database.                                                   *)
(*                                                                         *)
(* Amounts are stroops, days are counted from 1 and the day 0 is Go's zero *)
(* time.  Payments and invoices are records with the fields the rules      *)
(* read.                                                                   *)
(***************************************************************************)
EXTENDS Integers

CONSTANTS
  USDCIssuer,    \* the issuer of USDC on the selected Stellar network
  NoMemo,        \* the memo of a payment without a text memo
  NoInvoice,     \* the nil *invoiceView: no invoice carries the memo
  GraceDays      \* PAYMENT_EXPIRY_GRACE_DAYS

ASSUME GraceDaysAssumption == GraceDays \in Nat

InvoiceStatuses ==
  {"draft", "sent", "viewed", "pending", "overdue", "payment_detected",
   "invalid_payment", "paid", "expired", "cancelled", "refunded"}

(* The invoice states in which an incoming payment may complete the invoice. *)
PayableStatuses ==
  {"sent", "viewed", "overdue", "pending", "payment_detected",
   "invalid_payment"}

VerificationStatuses ==
  {"pending", "detected", "verified", "invalid", "unmatched", "failed"}

FailureCodes ==
  {"insufficient_amount", "amount_mismatch", "wrong_asset",
   "wrong_recipient", "missing_reference", "unknown_reference",
   "transaction_failed", "duplicate", "invoice_not_payable", "expired",
   "invalid_invoice_total"}

-------------------------------------------------------------------------------
NoRecipient == ""   \* the creator has no active primary wallet

(* The end of the payment window, exclusive; 0 when there is no due date.  *)
ExpiresAt(due) == IF due = 0 THEN 0 ELSE due + GraceDays + 1

expectedAsset(currency) ==
  IF currency = "xlm" THEN [code |-> "XLM", issuer |-> ""]
                      ELSE [code |-> "USDC", issuer |-> USDCIssuer]

Payable(inv) == inv.status \in PayableStatuses

(* Mutated form of Late: the end of the window counts as inside.           *)
LateAfterTheEnd(p, inv) == inv.expiresAt # 0 /\ p.closed > inv.expiresAt

(* The payment closed at or after the end of the invoice's window.         *)
Late(p, inv) == inv.expiresAt # 0 /\ p.closed >= inv.expiresAt

ToRecipient(p, inv) == inv.recipient # NoRecipient /\ p.to = inv.recipient

Verdict(status, code) == [status |-> status, code |-> code]

(* evaluate is one switch: the first rule that applies decides.            *)
evaluate(p, inv, expected) ==
  IF ~p.ok                            THEN Verdict("failed", "transaction_failed")
  ELSE IF p.memo = NoMemo             THEN Verdict("unmatched", "missing_reference")
  ELSE IF inv = NoInvoice             THEN Verdict("unmatched", "unknown_reference")
  ELSE IF inv.status = "paid"         THEN Verdict("invalid", "duplicate")
  ELSE IF ~ToRecipient(p, inv)        THEN Verdict("unmatched", "wrong_recipient")
  ELSE IF ~Payable(inv)               THEN Verdict("invalid", "invoice_not_payable")
  ELSE IF Late(p, inv)                THEN Verdict("invalid", "expired")
  ELSE IF inv.stroops <= 0            THEN Verdict("invalid", "invalid_invoice_total")
  ELSE IF p.asset # expected          THEN Verdict("invalid", "wrong_asset")
  ELSE IF p.stroops < inv.stroops     THEN Verdict("invalid", "insufficient_amount")
  ELSE IF p.stroops > inv.stroops     THEN Verdict("invalid", "amount_mismatch")
  ELSE Verdict("verified", "")

-------------------------------------------------------------------------------
CheckNames == {"recipient", "asset", "amount", "reference", "success", "invoice"}

passFail(ok) == IF ok THEN "pass" ELSE "fail"

(* Mutated form of AmountCheck: a zero total is not an error.              *)
AmountCheckAllowsZero(p, inv) == passFail(p.stroops = inv.stroops)

AmountCheck(p, inv) == passFail(inv.stroops > 0 /\ p.stroops = inv.stroops)

(* Mutated form of InvoiceCheck: the payment window is forgotten.          *)
InvoiceCheckAnyTime(p, inv) == passFail(Payable(inv))

InvoiceCheck(p, inv) == passFail(Payable(inv) /\ ~Late(p, inv))

(* The checks stored with the verdict and shown to the merchant.           *)
computeChecks(p, inv, expected) ==
  IF inv = NoInvoice
  THEN [success   |-> passFail(p.ok), reference |-> "fail",
        recipient |-> "skip", asset |-> "skip", amount |-> "skip",
        invoice   |-> "skip"]
  ELSE [success   |-> passFail(p.ok), reference |-> "pass",
        recipient |-> passFail(ToRecipient(p, inv)),
        asset     |-> passFail(p.asset = expected),
        amount    |-> AmountCheck(p, inv),
        invoice   |-> InvoiceCheck(p, inv)]

(* The payment_status the API derives from the invoice status.             *)
PaymentStatusFor(status) ==
  IF status \in {"paid", "payment_detected", "invalid_payment", "expired",
                 "cancelled", "draft", "refunded"}
  THEN status ELSE "awaiting_payment"
=============================================================================
