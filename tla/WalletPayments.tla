---------------------------- MODULE WalletPayments ----------------------------
(***************************************************************************)
(* Money that leaves a wallet kept by Stellance: the PayInvoice and        *)
(* Transfer requests of the wallet service, next to the payments package,  *)
(* which sees on the chain what they submit.  A request checks the PIN     *)
(* against a counter in Redis, reads what to pay, reads the account's      *)
(* sequence number from Horizon and submits: nothing is locked, so several *)
(* requests do this at the same time.                                      *)
(*                                                                         *)
(* The VerifyTransaction call at the end of PayInvoice is one of Requests. *)
(***************************************************************************)
EXTENDS SettlementProperties

CONSTANTS
  Payers,          \* requests to the wallet service, each used many times
  Wallets,         \* the wallets they pay from
  PinMaxAttempts,  \* pinMaxAttempts
  Transfers        \* the payments a Transfer may send: they carry no memo

(* What a wallet sends is one of the transactions the chain may see, with  *)
(* either result.                                                          *)
Sending(p, ok) == <<[p EXCEPT !.ok = ok]>>
PaymentRequests ==
  {[to |-> Recipient[i], memo |-> i, stroops |-> n,
    asset |-> expectedAsset(InvoiceCurrency), ok |-> TRUE] :
     i \in Invoices, n \in Totals \cup {0}}

ASSUME WalletAssumption ==
  /\ IsFiniteSet(Payers)
  /\ PinMaxAttempts \in Nat \ {0}
  /\ \A p \in PaymentRequests \cup Transfers, ok \in BOOLEAN :
       Sending(p, ok) \in Transactions

VARIABLES
  attempts,        \* Redis: wrong PINs of a wallet; no key is 0
  sequence,        \* transactions of the wallet's account so far
  request,         \* what each request to the wallet service is at
  invoicePayments  \* history: <<operation, invoice>> PayInvoice submitted

walletVars == <<attempts, sequence, request, invoicePayments>>
allVars == <<vars, walletVars>>

NothingToSend ==
  [to |-> NoRecipient, memo |-> NoMemo, stroops |-> 0,
   asset |-> expectedAsset(InvoiceCurrency), ok |-> TRUE]

(* invoice is NoInvoice in a Transfer.  seq is the sequence number read,   *)
(* tx the transaction submitted.                                           *)
Idle(w) ==
  [pc |-> "idle", wallet |-> w, invoice |-> NoInvoice,
   payment |-> NothingToSend, seq |-> 0, tx |-> 0]

RequestRows ==
  [pc: {"idle", "compare", "prepare", "account", "submit", "record"},
   wallet: Wallets, invoice: Links,
   payment: PaymentRequests \cup Transfers \cup {NothingToSend},
   seq: 0..MaxOps, tx: 0..MaxOps]

WalletTypeOK ==
  /\ attempts \in [Wallets -> Nat]
  /\ sequence \in [Wallets -> 0..MaxOps]
  /\ request \in [Payers -> RequestRows]
  /\ invoicePayments \subseteq Ops \X Invoices

WalletInit ==
  /\ attempts = [w \in Wallets |-> 0]
  /\ sequence = [w \in Wallets |-> 0]
  /\ request \in [Payers -> {Idle(w) : w \in Wallets}]
  /\ invoicePayments = {}

Ended(p) == request' = [request EXCEPT ![p] = Idle(request[p].wallet)]
-------------------------------------------------------------------------------
(***************************************************************************)
(* verifyPin.                                                              *)
(***************************************************************************)

(* Mutated form of Locked: one attempt too many. *)
LockedLate(w) == attempts[w] > PinMaxAttempts

Locked(w) == attempts[w] >= PinMaxAttempts

StartRequest(p, w, i) ==
  /\ request[p].pc = "idle"
  /\ request' = [request EXCEPT ![p] =
       [Idle(w) EXCEPT !.pc = "compare", !.invoice = i]]

(* A request arrives for a wallet that is not locked.                      *)
ReadAttempts(p, w, i) ==
  /\ ~Locked(w)
  /\ StartRequest(p, w, i)
  /\ UNCHANGED <<attempts, sequence, invoicePayments>>

Compared(p, right) ==
  /\ request[p].pc = "compare"
  /\ IF right THEN request' = [request EXCEPT ![p].pc = "prepare"] ELSE Ended(p)

(* Later the PIN is compared; the counter is not looked at again.          *)
ComparePin(p, right) ==
  /\ Compared(p, right)
  /\ attempts' = [attempts EXCEPT ![request[p].wallet] = IF right THEN 0 ELSE @ + 1]
  /\ UNCHANGED <<sequence, invoicePayments>>

(* Redis does not answer: a counter that cannot be read counts as no       *)
(* attempts, and the error of writing it is ignored.                       *)
RedisFails(p) ==
  /\ Fault
  /\ \/ \E w \in Wallets, i \in Links : Locked(w) /\ StartRequest(p, w, i)
     \/ \E right \in BOOLEAN : Compared(p, right)
  /\ UNCHANGED <<lifecycleVars, chain, dbVars, pollVars, workVars,
                 attempts, sequence, invoicePayments>>

(* pinLockDuration after the last wrong PIN the key expires.               *)
AttemptsExpire(w) ==
  /\ attempts[w] # 0
  /\ attempts' = [attempts EXCEPT ![w] = 0]
  /\ UNCHANGED <<sequence, request, invoicePayments>>
-------------------------------------------------------------------------------
(***************************************************************************)
(* What to pay.                                                            *)
(***************************************************************************)

(* Mutated form of PaymentRequest: without the payment reference.          *)
PaymentRequestWithoutMemo(i) ==
  [to |-> Recipient[i], memo |-> NoMemo, stroops |-> invoice[i].stroops,
   asset |-> expectedAsset(InvoiceCurrency), ok |-> TRUE]

PaymentRequest(i) ==
  [to |-> Recipient[i], memo |-> i, stroops |-> invoice[i].stroops,
   asset |-> expectedAsset(InvoiceCurrency), ok |-> TRUE]

(* EnsurePaymentRequest: the status is payable, there is a recipient, and  *)
(* no payment is being verified at this moment.  The end of the payment    *)
(* window is not looked at.                                                *)
EnsurePaymentRequest(p) ==
  LET i == request[p].invoice
  IN /\ request[p].pc = "prepare" /\ i # NoInvoice
     /\ IF /\ invoice[i].status \in PayableStatuses \ {"payment_detected"}
           /\ Recipient[i] # NoRecipient
        THEN request' = [request EXCEPT ![p].payment = PaymentRequest(i),
                                        ![p].pc = "account"]
        ELSE Ended(p)
     /\ UNCHANGED <<attempts, sequence, invoicePayments>>

PrepareTransfer(p, t) ==
  /\ request[p].pc = "prepare" /\ request[p].invoice = NoInvoice
  /\ request' = [request EXCEPT ![p].payment = t, ![p].pc = "account"]
  /\ UNCHANGED <<attempts, sequence, invoicePayments>>
(* Paying in another asset takes a path of offers: there may be none.      *)
findPaths(p) ==
  /\ request[p].pc = "account"
  /\ Ended(p)
  /\ UNCHANGED <<attempts, sequence, invoicePayments>>

(* The third request behind the PIN ends with the keys of the wallet.      *)
ExportWalletKeys(p) ==
  /\ request[p].pc = "prepare" /\ request[p].invoice = NoInvoice
  /\ Ended(p)
  /\ UNCHANGED <<attempts, sequence, invoicePayments>>
-------------------------------------------------------------------------------
(***************************************************************************)
(* buildAndSubmit.                                                         *)
(***************************************************************************)

(* AccountDetail; an amount Stellar cannot carry ends the request.         *)
LoadAccount(p) ==
  /\ request[p].pc = "account"
  /\ IF request[p].payment.stroops <= MaxStroops
     THEN request' = [request EXCEPT ![p].seq = sequence[request[p].wallet],
                                     ![p].pc = "submit"]
     ELSE Ended(p)
  /\ UNCHANGED <<attempts, sequence, invoicePayments>>

(* The network takes a transaction only with the account's next number.    *)
InSequence(p) == request[p].seq = sequence[request[p].wallet]

(* The transaction is in a ledger.  A transaction that failed there is     *)
(* reported as an error, and so is one whose answer got lost.              *)
Submit(p, ok, answered) ==
  LET w == request[p].wallet
  IN /\ request[p].pc = "submit" /\ InSequence(p)
     /\ SubmitTransaction(Sending(request[p].payment, ok))
     /\ sequence' = [sequence EXCEPT ![w] = @ + 1]
     /\ invoicePayments' =
          IF request[p].invoice = NoInvoice THEN invoicePayments
          ELSE invoicePayments \cup {<<Len(chain) + 1, request[p].invoice>>}
     /\ IF ok /\ answered /\ request[p].invoice = NoInvoice
        THEN request' = [request EXCEPT ![p].pc = "record",
                                        ![p].tx = Len(chain) + 1]
        ELSE Ended(p)
     /\ UNCHANGED attempts

(* tx_bad_seq: another transaction of the account came first.              *)
SubmitRejected(p) ==
  /\ request[p].pc = "submit" /\ ~InSequence(p)
  /\ Ended(p)
  /\ UNCHANGED <<attempts, sequence, invoicePayments>>

(* Transfer writes the payer's history and ignores the error of a hash     *)
(* that is there already.                                                  *)
RecordTransfer(p) ==
  LET tx == request[p].tx
  IN /\ request[p].pc = "record"
     /\ ledger' = IF ledger[tx].status = "none"
                  THEN [ledger EXCEPT ![tx] =
                         [status |-> "confirmed", op |-> 0, link |-> NoInvoice]]
                  ELSE ledger
     /\ Ended(p)
     /\ UNCHANGED <<lifecycleVars, chain, payments, cursor, pollVars, workVars,
                    faults, attempts, sequence, invoicePayments>>

(* A request ends with an error, or the server stops under it.             *)
RequestFails(p) ==
  /\ request[p].pc # "idle"
  /\ Fault
  /\ Ended(p)
  /\ UNCHANGED <<lifecycleVars, chain, dbVars, pollVars, workVars,
                 attempts, sequence, invoicePayments>>
-------------------------------------------------------------------------------
(* What a request does without touching the chain or the database.         *)
PrivateStep(p) ==
  \/ \E w \in Wallets, i \in Links : ReadAttempts(p, w, i)
  \/ \E right \in BOOLEAN : ComparePin(p, right)
  \/ EnsurePaymentRequest(p)
  \/ \E t \in Transfers : PrepareTransfer(p, t)
  \/ findPaths(p) \/ ExportWalletKeys(p)
  \/ LoadAccount(p)
  \/ SubmitRejected(p)

WalletStep ==
  \/ \E p \in Payers : PrivateStep(p) /\ UNCHANGED vars
  \/ \E w \in Wallets : AttemptsExpire(w) /\ UNCHANGED vars
  \/ \E p \in Payers, ok, answered \in BOOLEAN : Submit(p, ok, answered)
  \/ \E p \in Payers : RecordTransfer(p)
  \/ \E p \in Payers : RedisFails(p)
  \/ \E p \in Payers : RequestFails(p)

WalletNext ==
  \/ Next /\ UNCHANGED walletVars
  \/ WalletStep

WalletSpec == Init /\ WalletInit /\ [][WalletNext]_allVars
-------------------------------------------------------------------------------
Comparing(w) == {p \in Payers : request[p].pc = "compare" /\ request[p].wallet = w}

(* pinMaxAttempts wrong PINs lock a wallet.  The counter is read before    *)
(* the PIN is compared, so requests under way at that moment come on top,  *)
(* one for every error of Redis, and no more than those.                   *)
PinGuessesBounded ==
  \A w \in Wallets :
    attempts[w] + Cardinality(Comparing(w))
      < PinMaxAttempts + Cardinality(Payers) + faults

(* A payment PayInvoice sent is turned down only for a reason that arose   *)
(* elsewhere: it failed on the chain, another payment paid the invoice,    *)
(* the invoice was closed, or the payment came after the window.  What the *)
(* payment request says is what evaluate expects, as long as nobody edits  *)
(* the invoice in between.                                                 *)
InvoicePaymentsCount ==
  \A o \in OpIds, i \in Invoices :
    /\ <<o, i>> \in invoicePayments
    /\ Settled(o) /\ payments[o].status # "verified"
    =>
      \/ ~chain[o].ok
      \/ \E q \in Ops \ {o} : q \in VerifiedFor(i)
      \/ invoice[i].status \in {"expired", "cancelled"}
      \/ chain[o].closed > invoice[i].due + GraceDays

(* The API answers 409 "Another payment is being verified": PayInvoice     *)
(* sends no payment for an invoice while another one is being verified.    *)
OnePaymentAtATime ==
  [][\A o, q \in OpIds, i \in Invoices :
       /\ <<o, i>> \in invoicePayments' \ invoicePayments
       /\ payments[q].link = i
       => ~Unfinished(q)]_invoicePayments
=============================================================================
