---------------------------- MODULE PaymentRequests ----------------------------
(***************************************************************************)
(* How an invoice gets the address it is paid to.  The merchant creates a  *)
(* wallet and sends the invoice, payers look at the payment request, and   *)
(* each of them fills the recipient in when it finds none.  What a payer   *)
(* was shown must be what the payment is judged against later.             *)
(***************************************************************************)
EXTENDS Integers, FiniteSets

CONSTANTS
  Creators,   \* requests for a new wallet; each draws a key pair of its own
  Payers,     \* requests for the payment request of the invoice
  NoAddress,
  MaxRequestFaults

ASSUME RequestsAssumption ==
  MaxRequestFaults \in Nat /\ NoAddress \notin Creators

VARIABLES
  wallets,      \* the merchant's rows of the table wallets
  creator,      \* the requests for a wallet
  sent,         \* the invoice: its status, and the recipient or none
  sending,      \* the merchant's request to send it
  payer,        \* the requests of payers
  shown,        \* addresses payers were shown
  requestFaults

requestsVars == <<wallets, creator, sent, sending, payer, shown, requestFaults>>
-------------------------------------------------------------------------------
SentPayable == {"sent", "viewed", "overdue", "pending", "payment_detected", "invalid_payment"}

NotCreating == [phase |-> "idle", count |-> 0]

RequestsInit ==
  /\ wallets = {}
  /\ creator = [c \in Creators |-> NotCreating]
  /\ sent = [status |-> "draft", recipient |-> NoAddress]
  /\ sending = "idle"
  /\ payer = [p \in Payers |-> "idle"]
  /\ shown = {} /\ requestFaults = 0

(* The wallet a subquery picks: LIMIT 1 with no order.                     *)
PrimaryWallets == {w.address : w \in {v \in wallets : v.is_primary}}

(* COALESCE of the recipient and the creator's primary wallet.             *)
Recipients ==
  IF sent.recipient # NoAddress THEN {sent.recipient}
  ELSE IF PrimaryWallets = {} THEN {NoAddress} ELSE PrimaryWallets
-------------------------------------------------------------------------------
(***************************************************************************)
(* CreateWallet: counts in a transaction, inserts under a unique tag.      *)
(***************************************************************************)
CountWallets(c) ==
  /\ creator[c].phase = "idle"
  /\ IF Cardinality(wallets) >= 1
     THEN creator' = [creator EXCEPT ![c].phase = "refused"]
     ELSE creator' = [creator EXCEPT ![c] = [phase |-> "counted", count |-> Cardinality(wallets)]]
  /\ UNCHANGED <<wallets, sent, sending, payer, shown, requestFaults>>

(* Mutated form of TagConflicts: the tag is not unique.                    *)
NoConflicts(tag) == {}

(* The rows of the index unique_user_tag, those not committed yet too.     *)
TagConflicts(tag) ==
  {w.address : w \in {v \in wallets : v.tag = tag}} \cup
  {d \in Creators : creator[d].phase = "inserted" /\ creator[d].count + 1 = tag}

(* The insert waits until the transaction of a conflicting row has ended.  *)
CreateWallet(c) ==
  LET conflicts == TagConflicts(creator[c].count + 1) IN
  /\ creator[c].phase = "counted"
  /\ \/ /\ conflicts = {}
        /\ creator' = [creator EXCEPT ![c].phase = "inserted"]
     \/ /\ \E w \in wallets : w.address \in conflicts
        /\ creator' = [creator EXCEPT ![c].phase = "refused"]
  /\ UNCHANGED <<wallets, sent, sending, payer, shown, requestFaults>>

CommitWallet(c) ==
  /\ creator[c].phase = "inserted"
  /\ creator' = [creator EXCEPT ![c].phase = "created"]
  /\ wallets' = wallets \cup
       {[address |-> c, tag |-> creator[c].count + 1, is_primary |-> creator[c].count = 0]}
  /\ UNCHANGED <<sent, sending, payer, shown, requestFaults>>

(* The count fails and with it the transaction, or the commit does, or the *)
(* process stops.                                                          *)
CreationFails(c) ==
  /\ requestFaults < MaxRequestFaults
  /\ creator[c].phase \in {"idle", "counted", "inserted"}
  /\ creator' = [creator EXCEPT ![c].phase = "refused"]
  /\ requestFaults' = requestFaults + 1
  /\ UNCHANGED <<wallets, sent, sending, payer, shown>>
-------------------------------------------------------------------------------
(***************************************************************************)
(* SendInvoice: looks for a wallet, then sends and fixes the recipient.    *)
(***************************************************************************)
LookForWallet ==
  /\ sending = "idle" /\ sent.status \in {"draft", "viewed"}
  /\ sent.recipient # NoAddress \/ PrimaryWallets # {}
  /\ sending' = "maySend"
  /\ UNCHANGED <<wallets, creator, sent, payer, shown, requestFaults>>

SendInvoice ==
  /\ sending = "maySend"
  /\ sending' = "idle"
  /\ IF sent.status \in {"draft", "viewed"}
     THEN \E r \in Recipients : sent' = [status |-> "sent", recipient |-> r]
     ELSE UNCHANGED sent
  /\ UNCHANGED <<wallets, creator, payer, shown, requestFaults>>

(* What the other writers of InvoiceLifecycle and PaymentSettlement do to  *)
(* it; an invoice that was never sent may become overdue, and payable.     *)
InvoiceMoves ==
  /\ \/ sent.status = "draft" /\ sent' = [sent EXCEPT !.status = "overdue"]
     \/ sent.status = "sent" /\ sent' = [sent EXCEPT !.status = "viewed"]
     \/ sent.status \in SentPayable /\ sent' = [sent EXCEPT !.status = "expired"]
  /\ UNCHANGED <<wallets, creator, sending, payer, shown, requestFaults>>
-------------------------------------------------------------------------------
(***************************************************************************)
(* A payer, or the merchant, asks how to pay: EnsurePaymentRequest fills   *)
(* the recipient in and reads the request in another statement.            *)
(***************************************************************************)
GetPublicRequest(p) ==
  /\ payer[p] = "idle"
  /\ sent.status # "draft"
  /\ payer' = [payer EXCEPT ![p] = "found"]
  /\ UNCHANGED <<wallets, creator, sent, sending, shown, requestFaults>>

GetInvoicePayments(p) ==
  /\ payer[p] = "idle"
  /\ payer' = [payer EXCEPT ![p] = "found"]
  /\ UNCHANGED <<wallets, creator, sent, sending, shown, requestFaults>>

EnsurePaymentRequest(p) ==
  /\ payer[p] = "found"
  /\ payer' = [payer EXCEPT ![p] = "ensured"]
  /\ IF sent.recipient = NoAddress /\ sent.status \in SentPayable /\ PrimaryWallets # {}
     THEN \E address \in PrimaryWallets : sent' = [sent EXCEPT !.recipient = address]
     ELSE UNCHANGED sent
  /\ UNCHANGED <<wallets, creator, sending, shown, requestFaults>>

(* Not payable, the request is read again and answered all the same;       *)
(* payable with no recipient it is refused.                                *)
paymentRequest(p) ==
  /\ payer[p] = "ensured"
  /\ IF sent.status \in SentPayable
     THEN /\ payer' = [payer EXCEPT ![p] = "idle"]
          /\ \E address \in Recipients : shown' = shown \cup ({address} \ {NoAddress})
     ELSE payer' = [payer EXCEPT ![p] = "notPayable"] /\ UNCHANGED shown
  /\ UNCHANGED <<wallets, creator, sent, sending, requestFaults>>

ShowUnpayable(p) ==
  /\ payer[p] = "notPayable"
  /\ payer' = [payer EXCEPT ![p] = "idle"]
  /\ \E address \in Recipients : shown' = shown \cup ({address} \ {NoAddress})
  /\ UNCHANGED <<wallets, creator, sent, sending, requestFaults>>

RequestFaults(p) ==
  /\ requestFaults < MaxRequestFaults /\ payer[p] # "idle"
  /\ requestFaults' = requestFaults + 1
  /\ payer' = [payer EXCEPT ![p] = "idle"]
  /\ UNCHANGED <<wallets, creator, sent, sending, shown>>

RequestsNext ==
  \/ \E c \in Creators :
       CountWallets(c) \/ CreateWallet(c) \/ CommitWallet(c) \/ CreationFails(c)
  \/ LookForWallet \/ SendInvoice \/ InvoiceMoves
  \/ \E p \in Payers :
       \/ GetPublicRequest(p) \/ GetInvoicePayments(p) \/ EnsurePaymentRequest(p)
       \/ paymentRequest(p) \/ ShowUnpayable(p) \/ RequestFaults(p)

RequestsSpec == RequestsInit /\ [][RequestsNext]_requestsVars
-------------------------------------------------------------------------------
(* However many requests create wallets at once, a merchant has one.       *)
OneWalletPerUser == Cardinality(wallets) <= 1

(* Every payer was shown the one address loadInvoice has evaluate compare  *)
(* payments with, also one that looked before the invoice had a recipient  *)
(* of its own.                                                             *)
AddressShownIsJudged == \A address \in shown : Recipients = {address}
=============================================================================
