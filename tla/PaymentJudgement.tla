--------------------------- MODULE PaymentJudgement ---------------------------
(***************************************************************************)
(* One judgement: processPayment (or finalize) has a payment operation and *)
(* the invoice found for it, and evaluate returns the verdict together     *)
(* with the checks the merchant is shown.  The verdict and the checks are  *)
(* computed by separate code from the same inputs, and must agree.         *)
(***************************************************************************)
EXTENDS PaymentRules

CONSTANTS
  JudgedPayments,   \* payment operations that may be judged
  JudgedInvoices    \* views of the invoices that may be found

(* A total is read by amount.ParseInt64 and a day is a date: integers.     *)
ASSUME JudgedAssumption ==
  /\ \A p \in JudgedPayments : p.stroops \in Int
  /\ \A inv \in JudgedInvoices : inv.stroops \in Int
  /\ NoInvoice \notin JudgedInvoices

VARIABLES payment, found, verdict, checks, done

judgementVars == <<payment, found, verdict, checks, done>>

JudgedAsset == expectedAsset("usdc")

Unjudged == Verdict("none", "none")

(* An invoice is only looked up for a payment that has a memo.             *)
JudgementInit ==
  /\ payment \in JudgedPayments
  /\ found \in (IF payment.memo = NoMemo THEN {} ELSE JudgedInvoices) \cup {NoInvoice}
  /\ verdict = Unjudged /\ checks = << >> /\ done = FALSE

Judge ==
  /\ ~done
  /\ verdict' = evaluate(payment, found, JudgedAsset)
  /\ checks' = computeChecks(payment, found, JudgedAsset)
  /\ done' = TRUE
  /\ UNCHANGED <<payment, found>>

JudgementSpec == JudgementInit /\ [][Judge]_judgementVars
-------------------------------------------------------------------------------
(* A payment is verified exactly when every check shown to the merchant    *)
(* passes (evaluate and computeChecks, verify.go): no payment settles an   *)
(* invoice with a failed or skipped check, and none is turned down with    *)
(* all checks green.                                                       *)
VerifiedIffChecksPass ==
  done => (verdict.status = "verified" <=> \A c \in CheckNames : checks[c] = "pass")

(* The check a failure code is about.                                      *)
CheckOf(code) ==
  CASE code = "transaction_failed"                                  -> "success"
    [] code \in {"missing_reference", "unknown_reference"}          -> "reference"
    [] code \in {"duplicate", "invoice_not_payable", "expired"}     -> "invoice"
    [] code = "wrong_recipient"                                     -> "recipient"
    [] code = "wrong_asset"                                         -> "asset"
    [] code \in {"insufficient_amount", "amount_mismatch",
                 "invalid_invoice_total"}                           -> "amount"

(* The failure code of a payment that is turned down is one of the codes,  *)
(* and the check it is about is shown as failed, not as passed or skipped. *)
CodeNamesFailedCheck ==
  done /\ verdict.status # "verified" =>
    /\ verdict.code \in FailureCodes
    /\ checks[CheckOf(verdict.code)] = "fail"
=============================================================================
