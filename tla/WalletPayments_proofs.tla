------------------------- MODULE WalletPayments_proofs -------------------------
(***************************************************************************)
(* What the wallet service keeps.  Its steps either are those of a payer   *)
(* of PaymentSettlement or leave the payments and the invoices alone, so   *)
(* what was proved of the payments package holds next to it; and the lock  *)
(* of verifyPin is exceeded at most by the requests under way.             *)
(***************************************************************************)
EXTENDS WalletPayments, SettlementRecords_proofs, FiniteSetTheorems

(* Money is only sent once it is known what to pay, and an account has as  *)
(* many transactions at most as there are operations on the chain.         *)
ReadyToSend ==
  /\ \A p \in Payers : request[p].pc \in {"account", "submit"} =>
       request[p].payment \in PaymentRequests \cup Transfers
  /\ \A w \in Wallets : sequence[w] <= Len(chain)

RequestsOK == WalletTypeOK /\ ReadyToSend
WalletInv == SafetyInv /\ RequestsOK /\ PinGuessesBounded

(* A wallet's transaction has one operation.                               *)
LEMMA SendingLength ==
  ASSUME NEW p, NEW ok
  PROVE  Len(Sending(p, ok)) = 1
  <1> DEFINE op == [p EXCEPT !.ok = ok]
  <1>1. Sending(p, ok) = <<op>>
    BY DEF Sending
  <1> HIDE DEF op
  <1> QED BY <1>1

(* A submission is a transaction a payer may make.                         *)
LEMMA SubmitIsPayment ==
  ASSUME RequestsOK, NEW p \in Payers, NEW ok \in BOOLEAN, NEW answered,
         Submit(p, ok, answered)
  PROVE  Next
  <1>1. Sending(request[p].payment, ok) \in Transactions
    BY WalletAssumption DEF RequestsOK, ReadyToSend, Submit
  <1>2. SubmitTransaction(Sending(request[p].payment, ok))
    BY DEF Submit
  <1> QED BY <1>1, <1>2 DEF Next, SettlementNext

(* What a step of a request may do to the payments package's tables.       *)
LEMMA WalletStepEffect ==
  ASSUME RequestsOK, [WalletNext]_allVars
  PROVE  \/ [Next]_vars
         \/ \E p \in Payers : RecordTransfer(p) \/ RequestFails(p) \/ RedisFails(p)
  <1>1. CASE Next /\ UNCHANGED walletVars
    BY <1>1
  <1>2. CASE WalletStep
    BY <1>2, SubmitIsPayment DEF WalletStep
  <1>3. CASE UNCHANGED allVars
    BY <1>3 DEF allVars
  <1> QED BY <1>1, <1>2, <1>3 DEF WalletNext

(* The history row of a transfer and a failed request keep the invariant   *)
(* of the payments package, and neither touches payments or invoices.      *)
LEMMA WalletWriteSafe ==
  ASSUME SafetyInv, RequestsOK, NEW p \in Payers,
         RecordTransfer(p) \/ RequestFails(p) \/ RedisFails(p)
  PROVE  SafetyInv' /\ UNCHANGED <<payments, invoice>>
  <1> USE DEF dbVars, lifecycleVars
  <1>0. /\ TypeInv /\ PaidExactlyOnce
        /\ LifecycleTypeOK /\ ChainOK /\ DBTypeOK
        /\ PollInv /\ WorkInv /\ FaultsOK
    BY TypeInvParts DEF SafetyInv
  <1>1. UNCHANGED <<payments, invoice>>
    BY DEF RecordTransfer, RequestFails, RedisFails
  <1>2. PaidExactlyOnce'
    BY <1>0, <1>1, PaidOnceKept DEF VerifiedFor, Paid
  <1>3. CASE RecordTransfer(p)
    <2> DEFINE new == [status |-> "confirmed", op |-> 0, link |-> NoInvoice]
               tx == request[p].tx
    <2>1. new \in LedgerRows
      BY SettlementAssumption DEF LedgerRows, Links
    <2>2. ledger' = ledger \/ ledger' = [ledger EXCEPT ![tx] = new]
      BY <1>3 DEF RecordTransfer
    <2>3. ledger' \in [OpIds -> LedgerRows]
      <3> HIDE DEF new, tx
      <3> QED BY <1>0, <2>1, <2>2 DEF DBTypeOK
    <2>4. UNCHANGED <<lifecycleVars, chain, payments, cursor, pollVars, workVars,
                      faults>>
      BY <1>3 DEF RecordTransfer
    <2>5. DBTypeOK'
      BY <1>0, <2>3, <2>4 DEF DBTypeOK
    <2> QED BY <1>0, <1>1, <1>2, <2>4, <2>5, Kept, TypeInvPartsNext DEF SafetyInv
  <1>4. CASE RequestFails(p) \/ RedisFails(p)
    <2>1. FaultsOK'
      BY <1>0, <1>4, SettlementAssumption DEF RequestFails, RedisFails, Fault, FaultsOK
    <2>2. UNCHANGED <<lifecycleVars, chain, dbVars, pollVars, workVars>>
      BY <1>4 DEF RequestFails, RedisFails
    <2> QED BY <1>0, <1>1, <1>2, <2>1, <2>2, Kept, TypeInvPartsNext DEF SafetyInv
  <1> QED BY <1>3, <1>4

-------------------------------------------------------------------------------
(***************************************************************************)
(* The state of the requests.                                              *)
(***************************************************************************)

(* What a request may be told to pay is one of the payments of the model.  *)
LEMMA PaymentRequestTyped ==
  ASSUME TypeInv, NEW i \in Invoices
  PROVE  PaymentRequest(i) \in PaymentRequests
  <1>1. invoice[i].stroops \in Totals \cup {0}
    BY TypeInvParts DEF LifecycleTypeOK, InvoiceRows
  <1>2. PICK n \in Totals \cup {0} : n = invoice[i].stroops
    BY <1>1
  <1> DEFINE asked(j, m) == [to |-> Recipient[j], memo |-> j, stroops |-> m,
                             asset |-> expectedAsset(InvoiceCurrency), ok |-> TRUE]
  <1>3. PaymentRequest(i) = asked(i, n)
    BY <1>2 DEF PaymentRequest
  <1>4. PaymentRequests = {asked(j, m) : j \in Invoices, m \in Totals \cup {0}}
    BY DEF PaymentRequests
  <1> HIDE DEF asked
  <1> QED BY <1>3, <1>4

(* A request that ended is one that never started.                         *)
LEMMA EndedTyped ==
  ASSUME TypeInv, RequestsOK, NEW p \in Payers, Ended(p)
  PROVE  /\ request' \in [Payers -> RequestRows]
         /\ request'[p].pc = "idle"
         /\ \A q \in Payers \ {p} : request'[q] = request[q]
  <1>1. request \in [Payers -> RequestRows] /\ request[p].wallet \in Wallets
    BY DEF RequestsOK, WalletTypeOK, RequestRows
  <1>2. Idle(request[p].wallet) \in RequestRows
    BY <1>1, ChainLength DEF Idle, RequestRows, Links
  <1>3. Idle(request[p].wallet).pc = "idle"
    BY DEF Idle
  <1> QED BY <1>1, <1>2, <1>3 DEF Ended

(* Every step of a request keeps it typed, and it gets to a submission     *)
(* only with something to pay; the other requests do not notice.           *)
LEMMA RequestTyped ==
  ASSUME TypeInv, RequestsOK, NEW p \in Payers,
         \/ \E w \in Wallets, i \in Links : StartRequest(p, w, i)
         \/ \E right \in BOOLEAN : Compared(p, right)
         \/ EnsurePaymentRequest(p)
         \/ \E t \in Transfers : PrepareTransfer(p, t)
         \/ LoadAccount(p)
         \/ Ended(p)
         \/ \E ok, answered \in BOOLEAN : Submit(p, ok, answered)
  PROVE  /\ request' \in [Payers -> RequestRows]
         /\ request'[p].pc \in {"account", "submit"} =>
              request'[p].payment \in PaymentRequests \cup Transfers
         /\ \A q \in Payers \ {p} : request'[q] = request[q]
         /\ request'[p].pc = "compare" =>
              \E w \in Wallets, i \in Links : StartRequest(p, w, i)
  <1> DEFINE Known(q) == request'[q].payment \in PaymentRequests \cup Transfers
             Goal == /\ request' \in [Payers -> RequestRows]
                     /\ request'[p].pc \in {"account", "submit"} => Known(p)
                     /\ \A q \in Payers \ {p} : request'[q] = request[q]
                     /\ request'[p].pc = "compare" =>
                          \E w \in Wallets, i \in Links : StartRequest(p, w, i)
  <1>0. /\ request \in [Payers -> RequestRows] /\ request[p].wallet \in Wallets
        /\ request[p].pc \in {"account", "submit"} =>
             request[p].payment \in PaymentRequests \cup Transfers
        /\ sequence \in [Wallets -> 0..MaxOps]
        /\ Len(chain) \in Nat /\ MaxOps \in Nat
    BY ChainLength DEF RequestsOK, WalletTypeOK, ReadyToSend, RequestRows
  <1>1. CASE Ended(p)
    BY <1>1, EndedTyped
  <1>2. ASSUME NEW w \in Wallets, NEW i \in Links, StartRequest(p, w, i)
        PROVE  Goal
    <2> DEFINE new == [Idle(w) EXCEPT !.pc = "compare", !.invoice = i]
    <2>1. new \in RequestRows /\ new.pc = "compare"
      <3>1. Idle(w) \in RequestRows
        BY <1>0 DEF Idle, RequestRows, Links
      <3> QED BY <3>1 DEF RequestRows
    <2>2. request' = [request EXCEPT ![p] = new]
      BY <1>2 DEF StartRequest
    <2> HIDE DEF new
    <2> QED BY <1>0, <1>2, <2>1, <2>2
  <1>3. ASSUME NEW right \in BOOLEAN, Compared(p, right), ~Ended(p)
        PROVE  Goal
    <2>1. request' = [request EXCEPT ![p].pc = "prepare"]
      BY <1>3, Zenon DEF Compared
    <2> QED BY <1>0, <2>1 DEF RequestRows
  <1>4. CASE EnsurePaymentRequest(p) /\ ~Ended(p)
    <2>1. request[p].invoice \in Invoices
      BY <1>0, <1>4 DEF EnsurePaymentRequest, RequestRows, Links
    <2> DEFINE what == PaymentRequest(request[p].invoice)
    <2>2. what \in PaymentRequests
      BY <2>1, PaymentRequestTyped
    <2>3. request' = [request EXCEPT ![p].payment = what, ![p].pc = "account"]
      BY <1>4 DEF EnsurePaymentRequest
    <2> HIDE DEF what
    <2> QED BY ZenonT(60), <1>0, <2>2, <2>3 DEF RequestRows
  <1>5. ASSUME NEW t \in Transfers, PrepareTransfer(p, t)
        PROVE  Goal
    BY ZenonT(60), <1>0, <1>5 DEF PrepareTransfer, RequestRows
  <1>6. CASE LoadAccount(p) /\ ~Ended(p)
    BY <1>0, <1>6 DEF LoadAccount, RequestRows
  <1>7. ASSUME NEW ok \in BOOLEAN, NEW answered \in BOOLEAN,
               Submit(p, ok, answered), ~Ended(p)
        PROVE  Goal
    <2>1. Len(chain) + 1 \in 0..MaxOps
      <3>1. SubmitTransaction(Sending(request[p].payment, ok))
        BY <1>7, Zenon DEF Submit
      <3>2. Len(chain) + Len(Sending(request[p].payment, ok)) <= MaxOps
        BY <3>1, Zenon DEF SubmitTransaction
      <3>3. Len(Sending(request[p].payment, ok)) = 1
        BY SendingLength, Zenon
      <3>4. Len(chain) + 1 <= MaxOps
        BY <3>2, <3>3
      <3> QED BY <1>0, <3>4
    <2>2. request' = [request EXCEPT ![p].pc = "record", ![p].tx = Len(chain) + 1]
      <3>1. CASE ok /\ answered /\ request[p].invoice = NoInvoice
        BY <1>7, <3>1 DEF Submit
      <3>2. CASE ~(ok /\ answered /\ request[p].invoice = NoInvoice)
        BY <1>7, <3>2 DEF Submit
      <3> QED BY <3>1, <3>2
    <2> QED BY ZenonT(60), <1>0, <2>1, <2>2 DEF RequestRows
  <1> QED BY <1>1, <1>2, <1>3, <1>4, <1>5, <1>6, <1>7

(* Nothing else of the requests' state gets out of its type: the numbers   *)
(* of an account stay below those of the chain.                            *)
LEMMA RequestsKept ==
  ASSUME WalletInv, [WalletNext]_allVars
  PROVE  RequestsOK'
  <1> DEFINE ReadyNext(p) ==
        request'[p].pc \in {"account", "submit"} =>
          request'[p].payment \in PaymentRequests \cup Transfers
  <1>0. /\ TypeInv /\ RequestsOK
        /\ attempts \in [Wallets -> Nat]
        /\ sequence \in [Wallets -> 0..MaxOps]
        /\ request \in [Payers -> RequestRows]
        /\ invoicePayments \subseteq Ops \X Invoices
        /\ \A w \in Wallets : sequence[w] <= Len(chain)
        /\ Len(chain) \in Nat /\ MaxOps \in Nat
    BY ChainLength DEF WalletInv, SafetyInv, RequestsOK, WalletTypeOK, ReadyToSend
  <1>1. \A p \in Payers :
          request[p].pc \in {"account", "submit"} =>
            request[p].payment \in PaymentRequests \cup Transfers
    BY <1>0 DEF RequestsOK, ReadyToSend
  <1>2. ASSUME request' \in [Payers -> RequestRows], \A p \in Payers : ReadyNext(p),
               attempts' \in [Wallets -> Nat], UNCHANGED <<sequence, invoicePayments>>,
               Len(chain') \in Nat, Len(chain) <= Len(chain'), Ops \subseteq Ops'
        PROVE  RequestsOK'
    <2>1. WalletTypeOK'
      BY <1>0, <1>2 DEF WalletTypeOK
    <2>2. ReadyToSend'
      BY <1>0, <1>2 DEF ReadyToSend
    <2> QED BY <2>1, <2>2 DEF RequestsOK
  <1>3. ASSUME UNCHANGED walletVars, [Next]_vars
        PROVE  RequestsOK'
    <2>1. Len(chain') \in Nat
      BY <1>0, <1>3, StepTyped, TypeInvParts DEF TypeInv, TypeOK, SettlementTypeOK
    <2>2. /\ UNCHANGED <<attempts, sequence, request, invoicePayments>>
      BY <1>3 DEF walletVars
    <2> QED BY <1>0, <1>1, <1>2, <1>3, <2>1, <2>2, ChainGrows
  <1>4. ASSUME UNCHANGED chain, UNCHANGED <<sequence, invoicePayments>>,
               attempts' \in [Wallets -> Nat],
               request' \in [Payers -> RequestRows], \A p \in Payers : ReadyNext(p)
        PROVE  RequestsOK'
    <2>1. Len(chain') = Len(chain) /\ Ops' = Ops
      BY <1>4 DEF Ops
    <2> QED BY <1>0, <1>2, <1>4, <2>1
  <1>5. ASSUME NEW p \in Payers,
               PrivateStep(p) \/ RedisFails(p) \/ RecordTransfer(p) \/ RequestFails(p),
               UNCHANGED chain
        PROVE  RequestsOK'
    <2>1. \/ \E w \in Wallets, i \in Links : StartRequest(p, w, i)
          \/ \E right \in BOOLEAN : Compared(p, right)
          \/ EnsurePaymentRequest(p)
          \/ \E t \in Transfers : PrepareTransfer(p, t)
          \/ LoadAccount(p)
          \/ Ended(p)
      BY <1>5
      DEF PrivateStep, ReadAttempts, ComparePin, SubmitRejected, findPaths,
          ExportWalletKeys, RedisFails,
          RecordTransfer, RequestFails
    <2>2. /\ request' \in [Payers -> RequestRows]
          /\ ReadyNext(p)
          /\ \A q \in Payers \ {p} : request'[q] = request[q]
      BY <1>0, <2>1, RequestTyped
    <2>3. UNCHANGED <<sequence, invoicePayments>>
      BY <1>5
      DEF PrivateStep, ReadAttempts, ComparePin, EnsurePaymentRequest,
          PrepareTransfer, LoadAccount, SubmitRejected, findPaths,
          ExportWalletKeys, RedisFails,
          RecordTransfer, RequestFails
    <2>4. attempts' = attempts \/ \E right \in BOOLEAN : ComparePin(p, right)
      BY <1>5
      DEF PrivateStep, ReadAttempts, EnsurePaymentRequest,
          PrepareTransfer, LoadAccount, SubmitRejected, findPaths,
          ExportWalletKeys, RedisFails,
          RecordTransfer, RequestFails
    <2>5. attempts' \in [Wallets -> Nat]
      BY <1>0, <2>4 DEF ComparePin
    <2> QED BY <1>1, <1>4, <1>5, <2>2, <2>3, <2>5
  <1>6. ASSUME NEW w \in Wallets, AttemptsExpire(w), UNCHANGED vars
        PROVE  RequestsOK'
    <2>1. attempts' \in [Wallets -> Nat]
      BY <1>0, <1>6 DEF AttemptsExpire
    <2>2. UNCHANGED <<chain, request, sequence, invoicePayments>>
      BY <1>6 DEF AttemptsExpire, vars, settlementVars
    <2> QED BY <1>0, <1>1, <1>4, <2>1, <2>2
  <1>7. ASSUME NEW p \in Payers, NEW ok \in BOOLEAN, NEW answered \in BOOLEAN,
               Submit(p, ok, answered)
        PROVE  RequestsOK'
    <2> DEFINE t == Sending(request[p].payment, ok)
               w == request[p].wallet
    <2>1. /\ request' \in [Payers -> RequestRows]
          /\ ReadyNext(p)
          /\ \A q \in Payers \ {p} : request'[q] = request[q]
      BY <1>0, <1>7, RequestTyped
    <2>2. t \in Transactions /\ w \in Wallets /\ request[p].invoice \in Links
      BY <1>0, <1>1, <1>7, WalletAssumption DEF Submit, RequestRows
    <2>3. /\ SubmitTransaction(t)
          /\ sequence' = [sequence EXCEPT ![w] = @ + 1]
          /\ UNCHANGED attempts
      BY <1>7 DEF Submit
    <2>4. Len(t) = 1
      BY SendingLength
    <2> HIDE DEF t, w
    <2>5. Len(chain') = Len(chain) + 1 /\ Len(chain') <= MaxOps
      <3>1. ChainOK' /\ Len(chain') = Len(chain) + Len(t)
        BY <1>0, <2>2, <2>3, SubmitTyped
      <3> QED BY <2>4, <3>1 DEF ChainOK
    <2>6. /\ sequence' \in [Wallets -> 0..MaxOps]
          /\ \A v \in Wallets : sequence'[v] <= Len(chain')
      BY <1>0, <2>2, <2>3, <2>5
    <2>7. Ops \subseteq Ops' /\ Len(chain) + 1 \in Ops'
      BY <1>0, <2>5 DEF Ops
    <2>8. invoicePayments' \subseteq Ops' \X Invoices
      <3>1. \/ invoicePayments' = invoicePayments
            \/ /\ request[p].invoice \in Invoices
               /\ invoicePayments' =
                    invoicePayments \cup {<<Len(chain) + 1, request[p].invoice>>}
        BY <1>7, <2>2 DEF Submit, Links
      <3> QED BY <1>0, <2>7, <3>1
    <2>9. WalletTypeOK'
      BY <1>0, <2>1, <2>3, <2>6, <2>8 DEF WalletTypeOK
    <2>10. ReadyToSend'
      BY <1>1, <2>1, <2>6 DEF ReadyToSend
    <2> QED BY <2>9, <2>10 DEF RequestsOK
  <1>8. ASSUME WalletStep
        PROVE  RequestsOK'
    BY <1>5, <1>6, <1>7, <1>8
    DEF WalletStep, RedisFails, RecordTransfer, RequestFails, vars, settlementVars
  <1> QED BY <1>3, <1>8 DEF WalletNext, allVars

-------------------------------------------------------------------------------
(***************************************************************************)
(* The PIN lock.                                                           *)
(***************************************************************************)

(* The requests about to compare a PIN are among the requests.             *)
LEMMA ComparingFinite ==
  ASSUME NEW w
  PROVE  /\ IsFiniteSet(Comparing(w)) /\ Cardinality(Comparing(w)) \in Nat
         /\ Cardinality(Comparing(w)) <= Cardinality(Payers)
         /\ Cardinality(Payers) \in Nat
  <1>1. Comparing(w) \in SUBSET Payers
    BY DEF Comparing
  <1> QED BY <1>1, FS_Subset, FS_CardinalityType, WalletAssumption

(* The same of the next state.                                             *)
LEMMA ComparingFiniteNext ==
  ASSUME NEW w
  PROVE  /\ IsFiniteSet(Comparing(w)') /\ Cardinality(Comparing(w)') \in Nat
         /\ Cardinality(Comparing(w)') <= Cardinality(Payers)
  <1>1. Comparing(w)' \in SUBSET Payers
    BY DEF Comparing
  <1> QED BY <1>1, FS_Subset, FS_CardinalityType, WalletAssumption

NumbersOK == attempts \in [Wallets -> Nat] /\ faults \in Nat

(* Fewer wrong PINs and fewer comparisons keep the bound.                  *)
LEMMA PinKept ==
  ASSUME NumbersOK, NumbersOK', PinGuessesBounded, faults <= faults',
         \A w \in Wallets : /\ attempts'[w] <= attempts[w]
                            /\ Comparing(w)' \subseteq Comparing(w)
  PROVE  PinGuessesBounded'
  <1> SUFFICES ASSUME NEW w \in Wallets
               PROVE  attempts'[w] + Cardinality(Comparing(w)')
                        < PinMaxAttempts + Cardinality(Payers) + faults'
    BY DEF PinGuessesBounded
  <1>1. Cardinality(Comparing(w)') <= Cardinality(Comparing(w))
    BY ComparingFinite, FS_Subset
  <1>2. attempts[w] + Cardinality(Comparing(w))
          < PinMaxAttempts + Cardinality(Payers) + faults
    BY DEF PinGuessesBounded
  <1> QED BY <1>1, <1>2, ComparingFinite, ComparingFiniteNext, WalletAssumption
          DEF NumbersOK

(* A request that starts makes one comparison more, on its wallet: either  *)
(* the wallet is not locked, or Redis failed to say that it is.            *)
LEMMA PinStarted ==
  ASSUME NumbersOK, NumbersOK', PinGuessesBounded,
         NEW p \in Payers, NEW v \in Wallets, NEW i \in Links, StartRequest(p, v, i),
         request \in [Payers -> RequestRows], UNCHANGED attempts,
         \/ ~Locked(v) /\ faults' = faults
         \/ faults' = faults + 1
  PROVE  PinGuessesBounded'
  <1> SUFFICES ASSUME NEW w \in Wallets
               PROVE  attempts[w] + Cardinality(Comparing(w)')
                        < PinMaxAttempts + Cardinality(Payers) + faults'
    BY DEF PinGuessesBounded
  <1> DEFINE new == [Idle(v) EXCEPT !.pc = "compare", !.invoice = i]
  <1>1. request' = [request EXCEPT ![p] = new] /\ request[p].pc = "idle"
    BY DEF StartRequest
  <1>2. new.wallet = v
    BY DEF Idle
  <1> HIDE DEF new
  <1>3. attempts[w] + Cardinality(Comparing(w))
          < PinMaxAttempts + Cardinality(Payers) + faults
    BY DEF PinGuessesBounded
  <1>4. CASE w # v
    <2>1. Comparing(w)' = Comparing(w)
      BY <1>1, <1>2, <1>4 DEF Comparing
    <2> QED BY <1>3, <2>1, ComparingFinite, WalletAssumption DEF NumbersOK
  <1>5. CASE w = v /\ ~Locked(v) /\ faults' = faults
    <2>1. attempts[w] < PinMaxAttempts
      BY <1>5, WalletAssumption DEF Locked, NumbersOK
    <2>2. attempts[w] \in Nat /\ faults \in Nat /\ PinMaxAttempts \in Nat
      BY WalletAssumption DEF NumbersOK
    <2>3. /\ Cardinality(Comparing(w)') \in Nat /\ Cardinality(Payers) \in Nat
          /\ Cardinality(Comparing(w)') <= Cardinality(Payers)
      BY ComparingFinite, ComparingFiniteNext
    <2> QED BY <1>5, <2>1, <2>2, <2>3
  <1>6. CASE w = v /\ faults' = faults + 1
    <2>1. Comparing(w)' \in SUBSET (Comparing(w) \cup {p})
      BY <1>1 DEF Comparing
    <2>2. /\ IsFiniteSet(Comparing(w) \cup {p})
          /\ Cardinality(Comparing(w) \cup {p}) <= Cardinality(Comparing(w)) + 1
      <3> DEFINE S == Comparing(w)
      <3>1. IsFiniteSet(S) /\ Cardinality(S) \in Nat
        BY ComparingFinite
      <3> HIDE DEF S
      <3>2. /\ IsFiniteSet(S \cup {p})
            /\ Cardinality(S \cup {p}) =
                 IF p \in S THEN Cardinality(S) ELSE Cardinality(S) + 1
        BY <3>1, FS_AddElement
      <3>3. Cardinality(S \cup {p}) <= Cardinality(S) + 1
        BY <3>1, <3>2
      <3> QED BY <3>2, <3>3 DEF S
    <2>3. Cardinality(Comparing(w)') <= Cardinality(Comparing(w) \cup {p})
      BY <2>1, <2>2, FS_Subset
    <2>4. Cardinality(Comparing(w) \cup {p}) \in Nat
      BY <2>2, FS_CardinalityType
    <2> QED BY <1>3, <1>6, <2>2, <2>3, <2>4, ComparingFinite, ComparingFiniteNext,
               WalletAssumption
            DEF NumbersOK
  <1> QED BY <1>4, <1>5, <1>6

(* A wrong PIN moves one from the comparisons to the counter.              *)
LEMMA PinCompared ==
  ASSUME NumbersOK, NumbersOK', PinGuessesBounded, faults <= faults',
         NEW p \in Payers, request[p].wallet \in Wallets, request[p].pc = "compare",
         attempts' = [attempts EXCEPT ![request[p].wallet] = @ + 1],
         request'[p].pc # "compare",
         \A q \in Payers \ {p} : request'[q] = request[q]
  PROVE  PinGuessesBounded'
  <1> SUFFICES ASSUME NEW w \in Wallets
               PROVE  attempts'[w] + Cardinality(Comparing(w)')
                        < PinMaxAttempts + Cardinality(Payers) + faults'
    BY DEF PinGuessesBounded
  <1>1. attempts[w] + Cardinality(Comparing(w))
          < PinMaxAttempts + Cardinality(Payers) + faults
    BY DEF PinGuessesBounded
  <1>2. Comparing(w)' = Comparing(w) \ {p}
    BY DEF Comparing
  <1>3. CASE w = request[p].wallet
    <2>1. p \in Comparing(w)
      BY <1>3 DEF Comparing
    <2>2. Cardinality(Comparing(w)') = Cardinality(Comparing(w)) - 1
      BY <1>2, <2>1, ComparingFinite, FS_RemoveElement
    <2>3. attempts'[w] = attempts[w] + 1
      BY <1>3 DEF NumbersOK
    <2> QED BY <1>1, <2>2, <2>3, ComparingFinite, WalletAssumption DEF NumbersOK
  <1>4. CASE w # request[p].wallet
    <2>1. attempts'[w] = attempts[w] /\ Comparing(w)' = Comparing(w)
      BY <1>2, <1>4 DEF NumbersOK, Comparing
    <2> QED BY <1>1, <2>1, ComparingFinite, WalletAssumption DEF NumbersOK
  <1> QED BY <1>3, <1>4

(* Faults are only counted up.                                             *)
LEMMA FaultsGrow ==
  ASSUME TypeInv, [Next]_vars
  PROVE  faults <= faults'
  <1>0. faults \in Nat
    BY TypeInvParts, SettlementAssumption DEF FaultsOK
  <1>1. ASSUME NEW w \in Workers, ProcessPayment(w)
        PROVE  UNCHANGED faults
    BY <1>1
    DEF ProcessPayment, LoadInvoice, InsertSettled, InsertDetected, InsertFails,
        InsertConflicts, Reflag, Finalize, FinalizeNothing
  <1>2. ASSUME NEW s \in Servers, Monitor(s)
        PROVE  UNCHANGED faults
    BY <1>1, <1>2
    DEF Workers, Monitor, Poll, PollAccount, NextPage, SaveCursor, EndPoll,
        RecoverUnfinished, EndRecover, ExpireInvoices
  <1>3. UNCHANGED faults \/ Fault
    BY <1>1, <1>2
    DEF Workers, Next, SettlementNext, VerifyTransaction, SubmitTransaction, Fails,
        StageFails, Crash, LoseLock, vars, settlementVars
  <1> QED BY <1>0, <1>3 DEF Fault

(* The payments package's invariant survives every step of the wallet      *)
(* service.                                                                *)
LEMMA WalletStepSafe ==
  ASSUME SafetyInv, RequestsOK, [WalletNext]_allVars
  PROVE  SafetyInv'
  BY WalletStepEffect, WalletWriteSafe, SafetyStep

(* Every step keeps the bound on wrong PINs.                               *)
LEMMA StepKeepsPin ==
  ASSUME WalletInv, [WalletNext]_allVars
  PROVE  PinGuessesBounded'
  <1>0. /\ SafetyInv /\ RequestsOK /\ PinGuessesBounded /\ TypeInv
        /\ SafetyInv' /\ RequestsOK'
    BY WalletStepSafe, RequestsKept DEF WalletInv, SafetyInv
  <1>1. NumbersOK /\ NumbersOK'
    <2>1. faults \in Nat /\ faults' \in Nat
      BY <1>0, TypeInvParts, SettlementAssumption
      DEF SafetyInv, FaultsOK, TypeInv, TypeOK, SettlementTypeOK
    <2> QED BY <1>0, <2>1 DEF NumbersOK, RequestsOK, WalletTypeOK
  <1>2. request \in [Payers -> RequestRows]
    BY <1>0 DEF RequestsOK, WalletTypeOK
  <1>3. CASE [Next]_vars /\ UNCHANGED walletVars
    <2>1. attempts' = attempts
      BY <1>3 DEF walletVars
    <2>2. \A w : Comparing(w)' = Comparing(w)
      BY <1>3 DEF Comparing, walletVars
    <2> QED BY <1>0, <1>1, <1>3, <2>1, <2>2, FaultsGrow, PinKept DEF NumbersOK
  <1>4. ASSUME NEW p \in Payers, NEW w \in Wallets, NEW i \in Links,
               StartRequest(p, w, i), UNCHANGED attempts,
               (~Locked(w) /\ UNCHANGED faults) \/ Fault
        PROVE  PinGuessesBounded'
    BY <1>0, <1>1, <1>2, <1>4, PinStarted DEF Fault
  <1>5. ASSUME NEW p \in Payers,
               request' \in [Payers -> RequestRows],
               \A q \in Payers \ {p} : request'[q] = request[q],
               request'[p].pc # "compare",
               \A w \in Wallets : attempts'[w] <= attempts[w],
               UNCHANGED faults \/ Fault
        PROVE  PinGuessesBounded'
    <2>1. \A w \in Wallets : Comparing(w)' \subseteq Comparing(w)
      BY <1>5 DEF Comparing
    <2>2. faults <= faults'
      BY <1>1, <1>5 DEF NumbersOK, Fault
    <2> QED BY <1>0, <1>1, <1>5, <2>1, <2>2, PinKept
  <1>6. \A w \in Wallets : attempts[w] <= attempts[w]
    BY <1>1 DEF NumbersOK
  <1>7. ASSUME NEW p \in Payers, PrivateStep(p), UNCHANGED vars
        PROVE  PinGuessesBounded'
    <2>0. UNCHANGED faults
      BY <1>7 DEF vars, settlementVars
    <2>1. ASSUME NEW w \in Wallets, NEW i \in Links, ReadAttempts(p, w, i)
          PROVE  PinGuessesBounded'
      BY <1>4, <2>0, <2>1 DEF ReadAttempts
    <2>2. ASSUME NEW right \in BOOLEAN, ComparePin(p, right)
          PROVE  PinGuessesBounded'
      <3> DEFINE w == request[p].wallet
      <3>1. w \in Wallets /\ request[p].pc = "compare"
        BY <1>2, <2>2 DEF ComparePin, Compared, RequestRows
      <3>2. /\ request' \in [Payers -> RequestRows]
            /\ \A q \in Payers \ {p} : request'[q] = request[q]
            /\ request'[p].pc # "compare"
        <4>1. Compared(p, right)
          BY <2>2 DEF ComparePin
        <4>2. ~\E v \in Wallets, i \in Links : StartRequest(p, v, i)
          BY <3>1 DEF StartRequest
        <4> QED BY <1>0, <4>1, <4>2, RequestTyped
      <3>3. CASE right
        <4>1. attempts' = [attempts EXCEPT ![w] = 0]
          BY <2>2, <3>3 DEF ComparePin
        <4> HIDE DEF w
        <4>2. \A v \in Wallets : attempts'[v] <= attempts[v]
          BY <1>1, <4>1 DEF NumbersOK
        <4> QED BY <1>5, <2>0, <3>2, <4>2
      <3>4. CASE ~right
        <4>1. attempts' = [attempts EXCEPT ![request[p].wallet] = @ + 1]
          BY <2>2, <3>4 DEF ComparePin
        <4>2. faults <= faults'
          BY <1>1, <2>0 DEF NumbersOK
        <4> QED BY <1>0, <1>1, <3>1, <3>2, <4>1, <4>2, PinCompared
      <3> QED BY <3>3, <3>4
    <2>3. CASE \/ EnsurePaymentRequest(p) \/ LoadAccount(p) \/ SubmitRejected(p)
               \/ findPaths(p) \/ ExportWalletKeys(p)
               \/ \E t \in Transfers : PrepareTransfer(p, t)
      <3>1. /\ UNCHANGED attempts
            /\ request[p].pc # "idle"
        BY <2>3 DEF EnsurePaymentRequest, LoadAccount, SubmitRejected, PrepareTransfer,
                   findPaths, ExportWalletKeys
      <3>2. /\ request' \in [Payers -> RequestRows]
            /\ \A q \in Payers \ {p} : request'[q] = request[q]
            /\ request'[p].pc # "compare"
        <4>1. \/ EnsurePaymentRequest(p) \/ LoadAccount(p) \/ Ended(p)
              \/ \E t \in Transfers : PrepareTransfer(p, t)
          BY <2>3 DEF SubmitRejected, findPaths, ExportWalletKeys
        <4>2. ~\E v \in Wallets, i \in Links : StartRequest(p, v, i)
          BY <3>1 DEF StartRequest
        <4> QED BY <1>0, <4>1, <4>2, RequestTyped
      <3> QED BY <1>5, <1>6, <2>0, <3>1, <3>2
    <2> QED BY <1>7, <2>1, <2>2, <2>3 DEF PrivateStep
  <1>8. ASSUME NEW w \in Wallets, AttemptsExpire(w), UNCHANGED vars
        PROVE  PinGuessesBounded'
    <2>1. \A v \in Wallets : attempts'[v] <= attempts[v]
      BY <1>1, <1>8 DEF AttemptsExpire, NumbersOK
    <2>2. faults <= faults' /\ \A v : Comparing(v)' = Comparing(v)
      BY <1>1, <1>8 DEF AttemptsExpire, NumbersOK, vars, settlementVars, Comparing
    <2> QED BY <1>0, <1>1, <2>1, <2>2, PinKept
  <1>9. ASSUME NEW p \in Payers, NEW ok \in BOOLEAN, NEW answered \in BOOLEAN,
               Submit(p, ok, answered)
        PROVE  PinGuessesBounded'
    <2>1. /\ UNCHANGED attempts /\ UNCHANGED faults
          /\ request[p].pc # "idle"
      BY <1>9 DEF Submit, SubmitTransaction
    <2> QED BY <1>0, <1>5, <1>6, <1>9, <2>1, RequestTyped DEF StartRequest
  <1>10. ASSUME NEW p \in Payers, RecordTransfer(p) \/ RequestFails(p)
         PROVE  PinGuessesBounded'
    <2>1. UNCHANGED attempts /\ Ended(p)
      BY <1>10 DEF RecordTransfer, RequestFails
    <2>2. UNCHANGED faults \/ Fault
      BY <1>10 DEF RecordTransfer, RequestFails
    <2>3. /\ request' \in [Payers -> RequestRows]
          /\ \A q \in Payers \ {p} : request'[q] = request[q]
          /\ request'[p].pc # "compare"
      BY <1>0, <2>1, EndedTyped
    <2> QED BY <1>5, <1>6, <2>1, <2>2, <2>3
  <1>11. ASSUME NEW p \in Payers, RedisFails(p)
         PROVE  PinGuessesBounded'
    <2>1. Fault /\ UNCHANGED attempts
      BY <1>11 DEF RedisFails
    <2>2. ASSUME NEW w \in Wallets, NEW i \in Links, StartRequest(p, w, i)
          PROVE  PinGuessesBounded'
      BY <1>4, <2>1, <2>2
    <2>3. ASSUME NEW right \in BOOLEAN, Compared(p, right)
          PROVE  PinGuessesBounded'
      <3>1. request[p].pc # "idle"
        BY <2>3 DEF Compared
      <3> QED BY <1>0, <1>5, <1>6, <2>1, <2>3, <3>1, RequestTyped DEF StartRequest
    <2> QED BY <1>11, <2>2, <2>3 DEF RedisFails
  <1>12. CASE UNCHANGED allVars
    BY <1>3, <1>12 DEF allVars
  <1> QED BY <1>3, <1>7, <1>8, <1>9, <1>10, <1>11, <1>12 DEF WalletNext, WalletStep

-------------------------------------------------------------------------------
(* The specification starts in the invariant and never leaves it.          *)
LEMMA WalletInvInit == Init /\ WalletInit => WalletInv
  <1> SUFFICES ASSUME Init, WalletInit PROVE WalletInv
    OBVIOUS
  <1>1. SafetyInv
    BY SafetyInit
  <1>2. \A w \in Wallets : Idle(w) \in RequestRows /\ Idle(w).pc = "idle"
    BY SettlementAssumption DEF Idle, RequestRows, Links
  <1>3. request \in [Payers -> RequestRows] /\ \A p \in Payers : request[p].pc = "idle"
    BY <1>2 DEF WalletInit
  <1>4. Len(chain) = 0 /\ faults = 0
    BY DEF Init, SettlementInit
  <1>5. WalletTypeOK /\ ReadyToSend
    BY <1>3, <1>4, SettlementAssumption DEF WalletInit, WalletTypeOK, ReadyToSend
  <1>6. \A w \in Wallets : Comparing(w) = {} /\ attempts[w] = 0
    BY <1>3 DEF Comparing, WalletInit
  <1>7. Cardinality({}) = 0
    BY FS_EmptySet
  <1>8. Cardinality(Payers) \in Nat /\ PinMaxAttempts \in Nat \ {0}
    BY FS_CardinalityType, WalletAssumption
  <1>9. PinGuessesBounded
    <2> SUFFICES ASSUME NEW w \in Wallets
                 PROVE  attempts[w] + Cardinality(Comparing(w))
                          < PinMaxAttempts + Cardinality(Payers) + faults
      BY DEF PinGuessesBounded
    <2>1. attempts[w] = 0 /\ Cardinality(Comparing(w)) = 0
      BY <1>6, <1>7
    <2> QED BY <1>4, <1>8, <2>1
  <1> QED BY <1>1, <1>5, <1>9 DEF WalletInv, RequestsOK

(* One step of the induction.                                              *)
LEMMA WalletInvStep == WalletInv /\ [WalletNext]_allVars => WalletInv'
  BY WalletStepSafe, RequestsKept, StepKeepsPin DEF WalletInv

(* The types of the requests' state hold in every reachable state.         *)
THEOREM WalletTypeCorrect == WalletSpec => []WalletTypeOK
  <1>1. WalletInv => WalletTypeOK
    BY DEF WalletInv, RequestsOK
  <1> QED BY <1>1, WalletInvInit, WalletInvStep, PTL DEF WalletSpec

(* Next to any number of requests to the wallet service, an invoice is     *)
(* paid exactly when one payment is verified for it.                       *)
THEOREM WalletPaidOnce == WalletSpec => []PaidExactlyOnce
  <1>1. WalletInv => PaidExactlyOnce
    BY DEF WalletInv, SafetyInv
  <1> QED BY <1>1, WalletInvInit, WalletInvStep, PTL DEF WalletSpec

(* The lock of verifyPin is exceeded at most by the requests under way     *)
(* when it closed and by the errors of Redis.                              *)
THEOREM PinBound == WalletSpec => []PinGuessesBounded
  <1>1. WalletInv => PinGuessesBounded
    BY DEF WalletInv
  <1> QED BY <1>1, WalletInvInit, WalletInvStep, PTL DEF WalletSpec

-------------------------------------------------------------------------------
(***************************************************************************)
(* The records of payments next to the wallet service.                     *)
(***************************************************************************)

(* The history row of a transfer and a failed request change nothing the   *)
(* invariant of the records speaks of beyond that of the tables.           *)
LEMMA WalletWriteKeepsRecords ==
  ASSUME RecordsInv, RequestsOK, NEW p \in Payers,
         RecordTransfer(p) \/ RequestFails(p) \/ RedisFails(p)
  PROVE  RecordsInv' /\ UNCHANGED payments
  <1>1. SafetyInv'
    BY WalletWriteSafe DEF RecordsInv
  <1>2. UNCHANGED <<chain, payments, cursor, invoice, stage, page, queue, phase, row>>
    BY DEF RecordTransfer, RequestFails, RedisFails, lifecycleVars, dbVars,
           pollVars, workVars
  <1>3. RecordsFit'
    BY <1>2 DEF RecordsInv, RecordsFit, RecordFits, RowFits, Addressed, Paid, Exists,
                Recorded, Ops
  <1>4. DuplicateOfAnother'
    BY <1>2 DEF RecordsInv, DuplicateOfAnother, VerifiedFor
  <1>5. CursorsFit'
    BY <1>2 DEF RecordsInv, CursorsFit, CursorCoversRecorded, Recorded, Ops
  <1>6. WorkFits'
    <2>1. ASSUME NEW w \in Workers
          PROVE  AtWork(w)'
      BY <1>2, <2>1
      DEF RecordsInv, WorkFits, AtWork, At, Recovering, RowFits, Addressed, Paid,
          Recorded, Ops
    <2>2. ASSUME NEW s \in Servers
          PROVE  MonitorFits(s)'
      BY <1>2, <2>2 DEF RecordsInv, WorkFits, MonitorFits, PageFits, Recovering,
                        Recorded, Ops
    <2> QED BY <2>1, <2>2 DEF WorkFits
  <1>7. TermsSet'
    BY <1>2 DEF RecordsInv, TermsSet
  <1> QED BY <1>1, <1>2, <1>3, <1>4, <1>5, <1>6, <1>7 DEF RecordsInv

WalletRecordsInv == RecordsInv /\ WalletInv

LEMMA WalletRecordsInit == Init /\ WalletInit => WalletRecordsInv
  BY RecordsInit, WalletInvInit DEF WalletRecordsInv

LEMMA WalletRecordsStep ==
  WalletRecordsInv /\ [WalletNext]_allVars => WalletRecordsInv'
  <1> SUFFICES ASSUME WalletRecordsInv, [WalletNext]_allVars PROVE WalletRecordsInv'
    OBVIOUS
  <1>1. RecordsInv /\ WalletInv /\ RequestsOK
    BY DEF WalletRecordsInv, WalletInv
  <1>2. RecordsInv'
    BY <1>1, WalletStepEffect, RecordsStep, WalletWriteKeepsRecords
  <1> QED BY <1>1, <1>2, WalletInvStep DEF WalletRecordsInv

(* Next to any number of requests to the wallet service the records still  *)
(* match their invoices, duplicates have their originals and no cursor     *)
(* passes over a payment.                                                  *)
THEOREM WalletKeepsRecords ==
  WalletSpec =>
    [](LinkedPaymentsStayMatched /\ DuplicateOfAnother /\ CursorCoversRecorded)
  <1>1. WalletRecordsInv =>
          LinkedPaymentsStayMatched /\ DuplicateOfAnother /\ CursorCoversRecorded
    BY RecordsMatch DEF WalletRecordsInv, RecordsInv, CursorsFit
  <1> QED BY <1>1, WalletRecordsInit, WalletRecordsStep, PTL DEF WalletSpec

(* What PayInvoice submits is verified on the same terms as a payment from *)
(* outside: a wallet of Stellance gets no shortcut.                        *)
THEOREM WalletVerifiedOnTerms == WalletSpec => VerifiedOnTerms
  <1>1. WalletRecordsInv /\ [WalletNext]_allVars => [VerifiedNow]_payments
    <2> SUFFICES ASSUME WalletRecordsInv, [WalletNext]_allVars, ~UNCHANGED payments
                 PROVE  VerifiedNow
      OBVIOUS
    <2>1. RecordsInv /\ RequestsOK
      BY DEF WalletRecordsInv, WalletInv
    <2>2. [Next]_vars
      BY <2>1, WalletStepEffect, WalletWriteKeepsRecords
    <2> QED BY <2>1, <2>2, StepVerifiesOnTerms
  <1>2. WalletSpec => []WalletRecordsInv
    BY WalletRecordsInit, WalletRecordsStep, PTL DEF WalletSpec
  <1>3. WalletSpec => [][VerifiedNow]_payments
    BY <1>1, <1>2, PTL DEF WalletSpec
  <1> QED BY <1>3 DEF VerifiedOnTerms, VerifiedNow

-------------------------------------------------------------------------------
(***************************************************************************)
(* What PayInvoice pays counts.  An invoice may be edited or deleted       *)
(* between the payment request and the ledger; where that does not happen, *)
(* a payment on the terms of the request is never found unmatched at the   *)
(* unlocked read, and finalize can only hold against it what arose         *)
(* elsewhere.                                                              *)
(***************************************************************************)

(* No owner changes or deletes an invoice in this step.                    *)
TermsStand ==
  \A i \in Invoices :
    Exists(i) =>
      /\ Exists(i)'
      /\ invoice'[i].stroops = invoice[i].stroops
      /\ invoice'[i].due = invoice[i].due

Issued(i) == invoice[i].status \in PayableStatuses \cup {"paid", "expired", "cancelled"}

OnTerms(o, i) ==
  /\ o \in Ops /\ Issued(i) /\ Recipient[i] # NoRecipient
  /\ chain[o].memo = i /\ chain[o].to = Recipient[i]
  /\ chain[o].asset = expectedAsset(InvoiceCurrency)
  /\ chain[o].stroops = invoice[i].stroops

AsksForTerms(p) ==
  request[p].pc \in {"account", "submit"} /\ request[p].invoice # NoInvoice =>
    /\ Issued(request[p].invoice) /\ Recipient[request[p].invoice] # NoRecipient
    /\ request[p].payment = PaymentRequest(request[p].invoice)

Awaited(o) == chain[o].ok /\ \E i \in Invoices : <<o, i>> \in invoicePayments

RowDetected(w) ==
  \A o \in OpIds :
    At(w, o) /\ phase[w] = "insert" /\ Awaited(o) => row[w].status = "detected"

SentOnTerms ==
  \A o \in OpIds, i \in Invoices : <<o, i>> \in invoicePayments => OnTerms(o, i)

CountInv ==
  /\ SentOnTerms
  /\ \A p \in Payers : AsksForTerms(p)
  /\ \A w \in Workers : RowDetected(w)
  /\ InvoicePaymentsCount

(* What evaluate says of a successful payment of an invoice on its terms.  *)
LEMMA OnTermsJudged ==
  ASSUME NEW p, NEW inv, NEW expected, NEW v, v = evaluate(p, inv, expected),
         p.ok, p.memo # NoMemo, inv # NoInvoice, ToRecipient(p, inv),
         p.asset = expected, p.stroops = inv.stroops, inv.stroops \in Nat \ {0}
  PROVE  /\ v.status \in {"verified", "invalid"}
         /\ v.status = "invalid" =>
              inv.status = "paid" \/ ~Payable(inv) \/ Late(p, inv)
  <1>1. ~(inv.stroops <= 0) /\ ~(p.stroops < inv.stroops) /\ ~(p.stroops > inv.stroops)
    OBVIOUS
  <1>2. CASE inv.status = "paid" \/ ~Payable(inv) \/ Late(p, inv)
    <2>1. v.status = "invalid"
      BY <1>2, Zenon DEF evaluate, Verdict
    <2> QED BY <1>2, <2>1
  <1>3. CASE ~(inv.status = "paid" \/ ~Payable(inv) \/ Late(p, inv))
    <2>1. v.status = "verified"
      BY <1>1, <1>3, Zenon DEF evaluate, Verdict
    <2> QED BY <2>1
  <1> QED BY <1>2, <1>3

(* What may be decided on an invoice that was sent.                        *)
Decided == PayableStatuses \cup {"paid", "expired", "cancelled", "deleted"}

StatusMoves ==
  \A i \in Invoices :
    invoice[i].status # "none" => invoice'[i].status \in {invoice[i].status} \cup Decided

LEMMA UpdateRowsMoves ==
  ASSUME NEW table \in [Invoices -> InvoiceRows], NEW rows, NEW status \in Decided
  PROVE  \A i \in Invoices :
           UpdateRows(table, rows, status)[i].status \in {table[i].status} \cup Decided
  BY DEF UpdateRows, InvoiceRows

LEMMA SetStatusMoves ==
  ASSUME LifecycleTypeOK, NEW i, NEW status \in Decided, SetStatus(i, status)
  PROVE  StatusMoves
  BY DEF SetStatus, StatusMoves, LifecycleTypeOK, InvoiceRows

LEMMA LifecycleMoves ==
  ASSUME LifecycleTypeOK, NEW linked, LifecycleNext(linked)
  PROVE  StatusMoves
  <1>0. /\ invoice \in [Invoices -> InvoiceRows]
        /\ {"sent", "viewed", "cancelled", "deleted", "overdue"} \subseteq Decided
    BY DEF LifecycleTypeOK, Decided, PayableStatuses
  <1>1. ASSUME NEW i \in Invoices, NEW total \in Totals, NEW due \in Days,
               GenerateNewInvoice(i, total, due) \/ UpdateInvoiceWrite(i, total, due)
        PROVE  StatusMoves
    BY <1>0, <1>1
    DEF GenerateNewInvoice, UpdateInvoiceWrite, InvoiceRows, StatusMoves
  <1>2. ASSUME NEW i \in Invoices, SendInvoice(i) \/ DeleteInvoice(i, linked)
        PROVE  StatusMoves
    BY <1>0, <1>2, SetStatusMoves DEF SendInvoice, DeleteInvoice
  <1>3. ASSUME NEW i \in Invoices, NEW approve \in BOOLEAN, ReviewInvoice(i, approve)
        PROVE  StatusMoves
    BY <1>0, <1>3 DEF ReviewInvoice, InvoiceRows, StatusMoves
  <1>4. ASSUME NEW i \in Invoices, UpdateInvoiceCheck(i)
        PROVE  StatusMoves
    BY <1>4 DEF UpdateInvoiceCheck, StatusMoves
  <1>5. CASE MarkOverdue \/ CancelUnapproved \/ OverdueApproved
    BY <1>0, <1>5, UpdateRowsMoves
    DEF MarkOverdue, CancelUnapproved, OverdueApproved, StatusMoves
  <1>6. CASE NextDay
    BY <1>6 DEF NextDay, StatusMoves
  <1> QED BY <1>1, <1>2, <1>3, <1>4, <1>5, <1>6 DEF LifecycleNext

(* No step takes an invoice that was sent back to a draft.                 *)
LEMMA StepMoves ==
  ASSUME TypeInv, [Next]_vars
  PROVE  StatusMoves
  <1>0. /\ LifecycleTypeOK /\ invoice \in [Invoices -> InvoiceRows]
        /\ {"paid", "expired", "payment_detected", "invalid_payment"} \subseteq Decided
    BY TypeInvParts DEF LifecycleTypeOK, Decided, PayableStatuses
  <1> USE DEF dbVars, lifecycleVars
  <1>1. UNCHANGED invoice => StatusMoves
    BY DEF StatusMoves
  <1>2. ASSUME NEW w \in Workers, ProcessPayment(w)
        PROVE  StatusMoves
    <2>1. PICK o \in OpIds :
            \/ LoadInvoice(w, o) \/ InsertSettled(w, o) \/ InsertDetected(w, o)
            \/ InsertFails(w, o) \/ InsertConflicts(w, o) \/ Reflag(w, o)
            \/ Finalize(w, o) \/ FinalizeNothing(w, o)
      BY <1>2 DEF ProcessPayment
    <2>2. CASE InsertDetected(w, o) \/ Reflag(w, o)
      BY <1>0, <1>1, <2>2, SetStatusMoves DEF InsertDetected, Reflag, FlagDetected
    <2>3. CASE Finalize(w, o)
      <3>1. \/ UNCHANGED invoice
            \/ \E status \in {"paid", "invalid_payment"} :
                 SetStatus(payments[o].link, status)
        BY <2>3 DEF Finalize
      <3> QED BY <1>0, <1>1, <3>1, SetStatusMoves
    <2>4. CASE \/ LoadInvoice(w, o) \/ InsertSettled(w, o) \/ InsertFails(w, o)
               \/ InsertConflicts(w, o) \/ FinalizeNothing(w, o)
      BY <1>1, <2>4
      DEF LoadInvoice, InsertSettled, InsertFails, InsertConflicts, FinalizeNothing
    <2> QED BY <2>1, <2>2, <2>3, <2>4
  <1>3. ASSUME NEW s \in Servers, Monitor(s)
        PROVE  StatusMoves
    <2>1. CASE ExpireInvoices(s)
      BY <1>0, <2>1, UpdateRowsMoves DEF ExpireInvoices, StatusMoves
    <2>2. CASE ProcessPayment(s)
      BY <1>2, <2>2 DEF Workers
    <2>3. CASE \/ Poll(s) \/ (\E a \in Accounts : PollAccount(s, a)) \/ NextPage(s)
               \/ SaveCursor(s) \/ EndPoll(s) \/ RecoverUnfinished(s) \/ EndRecover(s)
      BY <1>1, <2>3
      DEF Poll, PollAccount, NextPage, SaveCursor, EndPoll, RecoverUnfinished,
          EndRecover
    <2> QED BY <1>3, <2>1, <2>2, <2>3 DEF Monitor
  <1>4. ASSUME NEW r \in Requests, ProcessPayment(r)
        PROVE  StatusMoves
    BY <1>2, <1>4 DEF Workers
  <1>5. CASE LifecycleNext(Linked) /\ UNCHANGED settlementVars
    BY <1>0, <1>5, LifecycleMoves
  <1>6. CASE \/ \E r \in Requests, tx \in OpIds : VerifyTransaction(r, tx)
             \/ \E t \in Transactions : SubmitTransaction(t)
             \/ \E w \in Workers, o \in OpIds : Fails(w, o)
             \/ \E s \in Servers : StageFails(s)
             \/ \E s \in Servers : Crash(s)
             \/ LoseLock
             \/ UNCHANGED vars
    BY <1>1, <1>6
    DEF VerifyTransaction, SubmitTransaction, Fails, StageFails, Crash, LoseLock,
        vars
  <1> QED BY <1>3, <1>4, <1>5, <1>6 DEF Next, SettlementNext

(* So an invoice that was sent stays that, and its payment on its terms.   *)
LEMMA IssuedKept ==
  ASSUME TypeInv, [Next]_vars, TermsStand, NEW i \in Invoices, Issued(i)
  PROVE  Issued(i)' /\ invoice'[i].stroops = invoice[i].stroops
                    /\ invoice'[i].due = invoice[i].due
  <1>1. Exists(i) /\ invoice[i].status # "none"
    BY DEF Issued, Exists, InvoiceStatuses, PayableStatuses
  <1>2. invoice'[i].status \in {invoice[i].status} \cup Decided
    BY <1>1, StepMoves DEF StatusMoves
  <1>3. invoice'[i].status # "deleted"
    BY <1>1 DEF TermsStand, Exists, InvoiceStatuses
  <1> QED BY <1>1, <1>2, <1>3 DEF TermsStand, Issued, Decided

LEMMA OnTermsKept ==
  ASSUME TypeInv, [Next]_vars, TermsStand, NEW o, NEW i \in Invoices, OnTerms(o, i)
  PROVE  OnTerms(o, i)'
  BY IssuedKept, ChainGrows DEF OnTerms

(* A row about to be inserted was made by LoadInvoice or is the same as    *)
(* before.                                                                 *)
LEMMA RowsMade ==
  ASSUME TypeInv, WorkFits, [Next]_vars, NEW w \in Workers, phase'[w] = "insert"
  PROVE  \/ \E o \in OpIds : LoadInvoice(w, o)
         \/ /\ phase[w] = "insert" /\ row'[w] = row[w] /\ queue'[w] = queue[w]
            /\ Recovering(w)' => Recovering(w)
  <1> DEFINE Same == /\ phase[w] = "insert" /\ row'[w] = row[w] /\ queue'[w] = queue[w]
                     /\ Recovering(w)' => Recovering(w)
             Goal == (\E o \in OpIds : LoadInvoice(w, o)) \/ Same
  <1>0. /\ queue \in [Workers -> SUBSET OpIds]
        /\ phase \in [Workers -> {"load", "insert", "reflag", "settle"}]
        /\ row \in [Workers -> PaymentRows]
        /\ page \in [Servers -> PollPages]
        /\ stage \in [Servers -> {"idle", "poll", "recover", "recovering", "expire"}]
        /\ AtWork(w) /\ \A s \in Servers : s \in Workers /\ AtWork(s) /\ MonitorFits(s)
    BY LocalsTyped DEF WorkFits, Workers
  <1>1. ASSUME UNCHANGED <<workVars, stage>>
        PROVE  Goal
    BY <1>1 DEF workVars, Recovering
  <1>2. ASSUME NEW v \in Workers, NEW o, GiveUp(v, o)
        PROVE  Goal
    BY <1>0, <1>2 DEF GiveUp, Recovering
  <1>3. ASSUME NEW v \in Workers, ProcessPayment(v)
        PROVE  Goal
    <2>1. PICK o \in OpIds :
            \/ LoadInvoice(v, o) \/ InsertSettled(v, o) \/ InsertDetected(v, o)
            \/ InsertFails(v, o) \/ InsertConflicts(v, o) \/ Reflag(v, o)
            \/ Finalize(v, o) \/ FinalizeNothing(v, o)
      BY <1>3 DEF ProcessPayment
    <2>2. CASE LoadInvoice(v, o) /\ v # w
      BY <1>0, <1>2, <2>2 DEF LoadInvoice, Recovering, pollVars
    <2>3. CASE \/ InsertSettled(v, o) \/ InsertDetected(v, o) \/ Reflag(v, o)
               \/ Finalize(v, o)
      BY <1>0, <2>3
      DEF InsertSettled, InsertDetected, Reflag, Finalize, Finish, GoOn, Recovering,
          pollVars
    <2>4. CASE InsertFails(v, o)
      BY <1>2, <2>4 DEF InsertFails
    <2>5. CASE InsertConflicts(v, o) \/ FinalizeNothing(v, o)
      BY <1>0, <1>2, <2>5
      DEF InsertConflicts, FinalizeNothing, Finish, Recovering, pollVars
    <2> QED BY <2>1, <2>2, <2>3, <2>4, <2>5
  <1>4. ASSUME NEW s \in Servers, Monitor(s)
        PROVE  Goal
    (* Only a server that has nothing in hand reads a page or what is left *)
    (* unfinished.                                                         *)
    <2>1. ASSUME NEW a, PollAccount(s, a) \/ NextPage(s)
          PROVE  Goal
      <3>1. phase[s] = "load"
        <4>1. queue[s] = {}
          BY <1>0, <2>1 DEF PollAccount, NextPage, MonitorFits, Recovering
        <4> QED BY <1>0, <4>1 DEF AtWork
      <3>2. /\ UNCHANGED <<phase, row, stage>>
            /\ \A v \in Workers \ {s} : queue'[v] = queue[v]
        BY <1>0, <2>1 DEF PollAccount, NextPage, FetchPage
      <3> QED BY <3>1, <3>2 DEF Recovering
    <2>2. CASE RecoverUnfinished(s)
      <3>1. phase[s] = "load"
        <4>1. queue[s] = {}
          BY <1>0, <2>2 DEF RecoverUnfinished, MonitorFits, PageFits, Recovering
        <4> QED BY <1>0, <4>1 DEF AtWork
      <3>2. /\ UNCHANGED <<phase, row>>
            /\ \A v \in Workers \ {s} : queue'[v] = queue[v]
            /\ \A v \in Servers \ {s} : stage'[v] = stage[v]
        BY <1>0, <2>2 DEF RecoverUnfinished, Goto
      <3> QED BY <3>1, <3>2 DEF Recovering
    <2>3. CASE SaveCursor(s)
      BY <1>1, <2>3 DEF SaveCursor
    <2>4. CASE Poll(s) \/ EndPoll(s) \/ EndRecover(s) \/ ExpireInvoices(s)
      <3>1. /\ UNCHANGED workVars
            /\ \E next \in {"poll", "recover", "expire", "idle"} : Goto(s, next)
        BY <2>4 DEF Poll, EndPoll, EndRecover, ExpireInvoices
      <3> QED BY <1>0, <3>1 DEF Goto, Recovering, workVars
    <2>5. CASE ProcessPayment(s)
      BY <1>0, <1>3, <2>5
    <2> QED BY <1>4, <2>1, <2>2, <2>3, <2>4, <2>5 DEF Monitor
  <1>5. ASSUME NEW r \in Requests, NEW tx \in OpIds, VerifyTransaction(r, tx)
        PROVE  Goal
    <2>1. r \in Workers /\ AtWork(r)
      BY DEF Workers, WorkFits
    <2>2. phase[r] = "load"
      BY <1>5, <2>1 DEF VerifyTransaction, AtWork
    <2> QED BY <1>0, <1>5, <2>2 DEF VerifyTransaction, Recovering, pollVars
  <1>6. ASSUME NEW v \in Workers, NEW o \in OpIds, Fails(v, o)
        PROVE  Goal
    BY <1>2, <1>6 DEF Fails
  <1>7. ASSUME NEW s \in Servers, StageFails(s) \/ Crash(s)
        PROVE  Goal
    <2>1. /\ phase' = [phase EXCEPT ![s] = "load"]
          /\ row' = [row EXCEPT ![s] = NoPayment]
          /\ queue' = [queue EXCEPT ![s] = {}]
          /\ \E next : Goto(s, next)
      BY <1>7 DEF StageFails, Crash
    <2> QED BY <1>0, <2>1 DEF Goto, Recovering
  <1>8. CASE \/ \E t \in Transactions : SubmitTransaction(t)
             \/ LoseLock
             \/ LifecycleNext(Linked) /\ UNCHANGED settlementVars
             \/ UNCHANGED vars
    BY <1>1, <1>8
    DEF SubmitTransaction, LoseLock, vars, settlementVars, pollVars
  <1> QED BY <1>3, <1>4, <1>5, <1>6, <1>7, <1>8 DEF Next, SettlementNext, Workers

(* The unlocked read never finds such a payment unmatched ...              *)
LEMMA JudgedOnTerms ==
  ASSUME TypeInv, TermsSet, 0 \notin Totals, NEW o \in OpIds, NEW i \in Invoices,
         OnTerms(o, i), NEW p, p.ok, p.memo = i, p.to = chain[o].to,
         p.asset = chain[o].asset, p.stroops = chain[o].stroops,
         p.closed = chain[o].closed,
         NEW v, v = Judge(p, i)
  PROVE  /\ v.status \in {"verified", "invalid"}
         /\ v.status = "invalid" =>
              \/ invoice[i].status \in {"paid", "expired", "cancelled"}
              \/ chain[o].closed > invoice[i].due + GraceDays
  <1>1. Exists(i) /\ invoice[i].status # "none"
    BY DEF OnTerms, Issued, Exists, InvoiceStatuses, PayableStatuses
  <1> PICK inv : inv = InvoiceView(i)
    OBVIOUS
  <1>2. /\ inv # NoInvoice /\ inv.status = invoice[i].status
        /\ inv.recipient = Recipient[i] /\ inv.stroops = invoice[i].stroops
        /\ inv.expiresAt = ExpiresAt(invoice[i].due)
    BY <1>1, ViewOf
  <1>3. /\ invoice[i].stroops \in Totals /\ invoice[i].due \in Days
        /\ chain[o].closed \in Days
    BY <1>1, OperationTyped DEF TermsSet, OnTerms
  <1>4. inv.stroops \in Nat \ {0}
    BY <1>2, <1>3, LifecycleAssumption
  <1>5. i # NoMemo /\ ToRecipient(p, inv) /\ p.stroops = inv.stroops
        /\ p.asset = expectedAsset(InvoiceCurrency)
    BY <1>2, SettlementAssumption DEF OnTerms, ToRecipient
  <1>6. /\ v.status \in {"verified", "invalid"}
        /\ v.status = "invalid" =>
             inv.status = "paid" \/ ~Payable(inv) \/ Late(p, inv)
    BY <1>2, <1>4, <1>5, OnTermsJudged DEF Judge
  <1>7. ~Payable(inv) => invoice[i].status \in {"paid", "expired", "cancelled"}
    BY <1>2 DEF OnTerms, Issued, Payable
  <1>8. Late(p, inv) => chain[o].closed > invoice[i].due + GraceDays
    <2>1. ExpiresAt(invoice[i].due) = invoice[i].due + GraceDays + 1
      BY <1>3, LifecycleAssumption DEF ExpiresAt, Days
    <2>2. Late(p, inv) => chain[o].closed >= invoice[i].due + GraceDays + 1
      BY <1>2, <2>1 DEF Late
    <2> QED BY <1>3, <2>2, LifecycleAssumption, GraceDaysAssumption DEF Days
  <1> QED BY <1>2, <1>6, <1>7, <1>8

LEMMA RowForOnTerms ==
  ASSUME TypeInv, TermsSet, 0 \notin Totals, NEW o \in OpIds, NEW i \in Invoices,
         OnTerms(o, i), chain[o].ok
  PROVE  RowFor(o).status = "detected"
  <1> PICK v : v = Judge(chain[o], i)
    OBVIOUS
  <1>1. v.status \in {"verified", "invalid"}
    BY JudgedOnTerms DEF OnTerms
  <1>2. v = Judge(chain[o], chain[o].memo)
    BY DEF OnTerms
  <1> QED BY <1>1, <1>2 DEF RowFor

LEMMA RowDetectedKept ==
  ASSUME TypeInv, WorkFits, TermsSet, 0 \notin Totals, SentOnTerms, [Next]_vars,
         UNCHANGED invoicePayments, NEW w \in Workers, RowDetected(w)
  PROVE  RowDetected(w)'
  <1> SUFFICES ASSUME NEW o \in OpIds, At(w, o)', phase'[w] = "insert", Awaited(o)'
               PROVE  row'[w].status = "detected"
    BY DEF RowDetected
  <1>1. PICK i \in Invoices : <<o, i>> \in invoicePayments
    BY DEF Awaited
  <1>2. OnTerms(o, i) /\ chain[o].ok
    <2>1. OnTerms(o, i) /\ o \in Ops
      BY <1>1 DEF SentOnTerms, OnTerms
    <2> QED BY <2>1, ChainGrows DEF Awaited
  <1>3. ASSUME NEW q \in OpIds, LoadInvoice(w, q)
        PROVE  row'[w].status = "detected"
    <2>1. phase \in [Workers -> {"load", "insert", "reflag", "settle"}]
          /\ row \in [Workers -> PaymentRows]
      BY LocalsTyped
    <2>2. ~GiveUp(w, q)
      BY <2>1 DEF GiveUp
    <2>3. row'[w] = RowFor(q) /\ UNCHANGED <<queue, pollVars>>
      BY <1>3, <2>1, <2>2 DEF LoadInvoice
    <2>4. At(w, o) /\ At(w, q) /\ ~Recovering(w)
      BY <1>3, <2>3 DEF LoadInvoice, At, Recovering, pollVars
    <2>5. o = q
      BY <2>4, AtIsUnique
    <2> QED BY <1>2, <2>3, <2>5, RowForOnTerms
  <1>4. CASE /\ phase[w] = "insert" /\ row'[w] = row[w] /\ queue'[w] = queue[w]
             /\ Recovering(w)' => Recovering(w)
    <2>1. At(w, o)
      BY <1>4 DEF At
    <2>2. Awaited(o)
      BY <1>1, <1>2 DEF Awaited
    <2> QED BY <1>4, <2>1, <2>2 DEF RowDetected
  <1> QED BY <1>3, <1>4, RowsMade

(* ... and what speaks against it stays.                                   *)
Excused(o, i) ==
  \/ ~chain[o].ok
  \/ \E q \in Ops \ {o} : q \in VerifiedFor(i)
  \/ invoice[i].status \in {"expired", "cancelled"}
  \/ chain[o].closed > invoice[i].due + GraceDays

LEMMA CountIsExcused ==
  InvoicePaymentsCount <=>
    \A o \in OpIds, i \in Invoices :
      <<o, i>> \in invoicePayments /\ Settled(o) /\ payments[o].status # "verified" =>
        Excused(o, i)
  BY DEF InvoicePaymentsCount, Excused

LEMMA ExcusedKept ==
  ASSUME TypeInv, [Next]_vars, TermsStand, NEW o \in OpIds, NEW i \in Invoices,
         OnTerms(o, i), Excused(o, i)
  PROVE  Excused(o, i)'
  <1>0. /\ chain'[o] = chain[o] /\ Ops \subseteq Ops'
        /\ invoice'[i].due = invoice[i].due /\ Issued(i)'
    BY ChainGrows, IssuedKept DEF OnTerms
  <1>1. CASE invoice[i].status \in {"expired", "cancelled"}
    <2>1. invoice'[i].status \in {invoice[i].status, "deleted"}
      BY <1>1, StepKeepsClosed DEF ClosedKept
    <2> QED BY <1>0, <1>1, <2>1 DEF Issued, PayableStatuses, Excused
  <1>2. ASSUME NEW q \in Ops \ {o}, q \in VerifiedFor(i)
        PROVE  Excused(o, i)'
    <2>1. payments'[q] = payments[q]
      BY <1>2, PaymentsEffect DEF VerifiedFor, FinalStatuses
    <2> QED BY <1>0, <1>2, <2>1 DEF VerifiedFor, Excused
  <1> QED BY <1>0, <1>1, <1>2 DEF Excused

(* Only finalize settles it, and what it holds against it is an excuse.    *)
LEMMA SettledOnTerms ==
  ASSUME RecordsInv, 0 \notin Totals, [Next]_vars, TermsStand,
         NEW o \in OpIds, NEW i \in Invoices, OnTerms(o, i),
         <<o, i>> \in invoicePayments, \A w \in Workers : RowDetected(w),
         ~Settled(o), Settled(o)', payments'[o].status # "verified"
  PROVE  Excused(o, i)'
  <1>0. /\ SafetyInv /\ TypeInv /\ RecordFits(o) /\ TermsSet /\ PaidExactlyOnce
        /\ payments \in [OpIds -> PaymentRows]
        /\ OnTerms(o, i)' /\ chain'[o] = chain[o]
        /\ Issued(i)' /\ invoice'[i].due = invoice[i].due
    BY TypeInvParts, OnTermsKept, ChainGrows, IssuedKept
    DEF RecordsInv, RecordsFit, SafetyInv, DBTypeOK, OnTerms
  <1>1. CASE ~chain[o].ok
    BY <1>0, <1>1 DEF Excused
  <1>2. CASE chain[o].ok
    <2>1. PICK w \in Workers, q \in OpIds :
            InsertSettled(w, q) \/ InsertDetected(w, q) \/ Finalize(w, q)
      BY PaymentsWriters DEF Settled
    <2>2. q = o
      <3>1. \A r \in OpIds \ {q} : payments'[r] = payments[r]
        BY <1>0, <2>1, FinalizeEffect DEF InsertSettled, InsertDetected
      <3> QED BY <3>1 DEF Settled
    <2>3. ~InsertDetected(w, o)
      BY <1>0 DEF InsertDetected, Settled, FinalStatuses
    <2>4. ~InsertSettled(w, o)
      BY <1>2 DEF InsertSettled, RowDetected, Awaited
    <2>5. Finalize(w, o) /\ payments[o].link = i
      BY <1>0, <2>1, <2>2, <2>3, <2>4, FinalizeJudges DEF OnTerms
    <2> DEFINE p == [chain[o] EXCEPT !.ok = TRUE]
    <2> PICK v : v = Judge(p, i)
      OBVIOUS
    <2>6. payments'[o].status = v.status
      BY <1>0, <2>5 DEF Finalize, PaymentRows
    <2>7. /\ p.ok /\ p.memo = i /\ p.to = chain[o].to /\ p.asset = chain[o].asset
          /\ p.stroops = chain[o].stroops /\ p.closed = chain[o].closed
      BY <1>0, OperationTyped DEF OnTerms
    <2> HIDE DEF p
    <2>8. \/ invoice[i].status \in {"paid", "expired", "cancelled"}
          \/ chain[o].closed > invoice[i].due + GraceDays
      BY <1>0, <2>6, <2>7, JudgedOnTerms
    <2>9. CASE \/ invoice[i].status \in {"expired", "cancelled"}
               \/ chain[o].closed > invoice[i].due + GraceDays
      BY <1>0, <2>9, ExcusedKept DEF Excused
    <2>10. CASE invoice[i].status = "paid"
      <3>1. PICK q1 \in OpIds : q1 \in VerifiedFor(i)
        BY <1>0, <2>10 DEF PaidExactlyOnce, VerifiedFor
      <3>2. q1 # o /\ q1 \in Ops
        <4>1. q1 # o
          BY <3>1 DEF VerifiedFor, Settled, FinalStatuses
        <4>2. RecordFits(q1) /\ Recorded(q1)
          BY <3>1 DEF RecordsInv, RecordsFit, VerifiedFor, Recorded
        <4> QED BY <4>1, <4>2 DEF RecordFits
      <3> QED BY <1>0, <3>1, <3>2, ExcusedKept DEF Excused
    <2> QED BY <2>8, <2>9, <2>10
  <1> QED BY <1>1, <1>2

(* A step of the payments package: nothing new is sent.                    *)
LEMMA CountNext ==
  ASSUME RecordsInv, 0 \notin Totals, CountInv, [Next]_vars, TermsStand,
         UNCHANGED invoicePayments
  PROVE  /\ SentOnTerms' /\ InvoicePaymentsCount'
         /\ \A w \in Workers : RowDetected(w)'
  <1>0. /\ TypeInv /\ WorkFits /\ TermsSet /\ SentOnTerms
        /\ \A w \in Workers : RowDetected(w)
    BY DEF RecordsInv, SafetyInv, CountInv
  <1>1. \A w \in Workers : RowDetected(w)'
    BY <1>0, RowDetectedKept
  <1>2. SentOnTerms'
    BY <1>0, OnTermsKept DEF SentOnTerms
  <1>3. ASSUME NEW o \in OpIds, NEW i \in Invoices, <<o, i>> \in invoicePayments,
               Settled(o)', payments'[o].status # "verified"
        PROVE  Excused(o, i)'
    <2>1. OnTerms(o, i)
      BY <1>0, <1>3 DEF SentOnTerms
    <2>2. CASE Settled(o)
      <3>1. payments'[o] = payments[o]
        BY <1>0, <2>2, PaymentsEffect DEF Settled
      <3>2. Excused(o, i)
        BY <1>3, <2>2, <3>1, CountIsExcused DEF CountInv
      <3> QED BY <1>0, <2>1, <3>2, ExcusedKept
    <2>3. CASE ~Settled(o)
      BY <1>0, <1>3, <2>1, <2>3, SettledOnTerms
    <2> QED BY <2>2, <2>3
  <1>4. InvoicePaymentsCount'
    BY <1>3 DEF InvoicePaymentsCount, Excused
  <1> QED BY <1>1, <1>2, <1>4

(* The operation a submission appends says what the transaction says.      *)
LEMMA SubmittedLast ==
  ASSUME TypeInv, NEW t \in Transactions, Len(t) = 1, SubmitTransaction(t)
  PROVE  LET o == Len(chain) + 1
         IN /\ Ops' = Ops \cup {o} /\ o \notin Ops
            /\ chain'[o].to = t[1].to /\ chain'[o].asset = t[1].asset
            /\ chain'[o].stroops = t[1].stroops /\ chain'[o].memo = t[1].memo
  <1> DEFINE op(k) == [tx |-> Len(chain) + 1, closed |-> today, to |-> t[k].to,
                       asset |-> t[k].asset, stroops |-> t[k].stroops,
                       memo |-> t[k].memo, ok |-> t[k].ok]
             added == [k \in 1..Len(t) |-> op(k)]
             Ranged == {op(k) : k \in 1..Len(t)}
             o == Len(chain) + 1
  <1>0. /\ Len(chain) \in Nat /\ chain \in Seq(Operations)
        /\ Len(chain') = Len(chain) + 1
    <2>1. Len(chain') = Len(chain) + Len(t)
      BY SubmitTyped
    <2>2. chain \in Seq(Operations)
      BY TypeInvParts DEF ChainOK
    <2> QED BY <2>1, <2>2
  <1>1. chain' = chain \o added
    BY DEF SubmitTransaction
  <1>2. added \in Seq(Ranged) /\ Len(added) = 1 /\ added[1] = op(1)
    <2> HIDE DEF op
    <2> QED BY SMT
  <1>3. op(1).to = t[1].to /\ op(1).asset = t[1].asset
        /\ op(1).stroops = t[1].stroops /\ op(1).memo = t[1].memo
    OBVIOUS
  <1> HIDE DEF added, Ranged, op
  <1>4. chain \in Seq(Operations \cup Ranged) /\ added \in Seq(Operations \cup Ranged)
    BY <1>0, <1>2
  <1>5. chain'[o] = added[1]
    BY <1>0, <1>1, <1>2, <1>4, ConcatProperties
  <1> QED BY <1>0, <1>2, <1>3, <1>5 DEF Ops

(* PayInvoice submits what the payment request asks for.                   *)
LEMMA CountSubmit ==
  ASSUME WalletRecordsInv, CountInv, TermsStand, NEW p \in Payers,
         NEW ok \in BOOLEAN, NEW answered \in BOOLEAN, Submit(p, ok, answered)
  PROVE  CountInv'
  <1> PICK o : o = Len(chain) + 1
    OBVIOUS
  <1> PICK i : i = request[p].invoice
    OBVIOUS
  <1> PICK t : t = Sending(request[p].payment, ok)
    OBVIOUS
  <1>0. /\ TypeInv /\ RecordsFit /\ WorkFits /\ RequestsOK /\ CountInv
        /\ request \in [Payers -> RequestRows] /\ i \in Links
        /\ payments \in [OpIds -> PaymentRows]
    BY TypeInvParts
    DEF WalletRecordsInv, WalletInv, RecordsInv, SafetyInv, RequestsOK, WalletTypeOK,
        RequestRows, DBTypeOK
  <1>1. [Next]_vars
    BY <1>0, SubmitIsPayment
  <1>2. /\ SubmitTransaction(t) /\ t \in Transactions /\ Len(t) = 1
        /\ request[p].pc = "submit"
    BY <1>0, SendingLength, WalletAssumption DEF Submit, RequestsOK, ReadyToSend
  <1>3. /\ Ops' = Ops \cup {o} /\ o \notin Ops
        /\ chain'[o].to = t[1].to /\ chain'[o].asset = t[1].asset
        /\ chain'[o].stroops = t[1].stroops /\ chain'[o].memo = t[1].memo
    BY <1>0, <1>2, SubmittedLast
  <1>4. UNCHANGED <<invoice, payments, queue, phase, row, stage>>
    BY <1>2 DEF SubmitTransaction, lifecycleVars, dbVars, pollVars, workVars
  <1>5. /\ i = NoInvoice => invoicePayments' = invoicePayments
        /\ i # NoInvoice => invoicePayments' = invoicePayments \cup {<<o, i>>}
    BY DEF Submit
  <1>6. \A q \in OpIds, j \in Invoices :
          <<q, j>> \in invoicePayments => q \in Ops /\ chain'[q] = chain[q]
    BY <1>0, <1>1, ChainGrows DEF CountInv, SentOnTerms, OnTerms
  <1>7. i # NoInvoice => OnTerms(o, i)'
    <2> SUFFICES ASSUME i # NoInvoice PROVE OnTerms(o, i)'
      OBVIOUS
    <2>1. i \in Invoices
      BY <1>0 DEF Links
    <2>2. /\ Issued(i) /\ Recipient[i] # NoRecipient
          /\ request[p].payment = PaymentRequest(i)
      BY <1>2, <1>0 DEF CountInv, AsksForTerms
    <2>3. /\ t[1].to = Recipient[i] /\ t[1].memo = i
          /\ t[1].stroops = invoice[i].stroops
          /\ t[1].asset = expectedAsset(InvoiceCurrency)
      BY <2>2 DEF Sending, PaymentRequest
    <2> QED BY <1>3, <1>4, <2>1, <2>2, <2>3 DEF OnTerms, Issued
  <1>8. SentOnTerms'
    <2> SUFFICES ASSUME NEW q \in OpIds, NEW j \in Invoices,
                        <<q, j>> \in invoicePayments'
                 PROVE  OnTerms(q, j)'
      BY DEF SentOnTerms
    <2>1. CASE <<q, j>> \in invoicePayments
      BY <1>0, <1>1, <2>1, OnTermsKept DEF CountInv, SentOnTerms
    <2>2. CASE q = o /\ j = i /\ i # NoInvoice
      BY <1>7, <2>2
    <2> QED BY <1>5, <2>1, <2>2
  <1>9. \A r \in Payers : AsksForTerms(r)'
    <2> SUFFICES ASSUME NEW r \in Payers PROVE AsksForTerms(r)'
      OBVIOUS
    <2> DEFINE done == [request EXCEPT ![p].pc = "record", ![p].tx = Len(chain) + 1]
    <2>0. request' = done \/ Ended(p)
      <3>1. IF ok /\ answered /\ request[p].invoice = NoInvoice
            THEN request' = done ELSE Ended(p)
        BY DEF Submit
      <3> HIDE DEF done
      <3> QED BY <3>1, Zenon
    <2>1. r # p => request'[r] = request[r]
      BY <1>0, <2>0 DEF Ended
    <2>2. request'[p].pc \notin {"account", "submit"}
      BY <1>0, <2>0 DEF Ended, Idle, RequestRows
    <2>3. AsksForTerms(r)
      BY <1>0 DEF CountInv
    <2> QED BY <1>4, <2>1, <2>2, <2>3 DEF AsksForTerms, Issued, PaymentRequest
  <1>10. \A w \in Workers : RowDetected(w)'
    <2> SUFFICES ASSUME NEW w \in Workers, NEW q \in OpIds,
                        At(w, q)', phase'[w] = "insert", Awaited(q)'
                 PROVE  row'[w].status = "detected"
      BY DEF RowDetected
    <2>1. At(w, q) /\ phase[w] = "insert" /\ row'[w] = row[w]
      BY <1>4 DEF At, Recovering
    <2>2. q \in Ops
      BY <1>0, <2>1 DEF WorkFits, AtWork, At
    <2>3. Awaited(q)
      BY <1>3, <1>5, <1>6, <2>2 DEF Awaited
    <2> QED BY <1>0, <2>1, <2>3 DEF CountInv, RowDetected
  <1>11. InvoicePaymentsCount'
    <2> SUFFICES ASSUME NEW q \in OpIds, NEW j \in Invoices,
                        <<q, j>> \in invoicePayments', Settled(q),
                        payments[q].status # "verified"
                 PROVE  Excused(q, j)'
      BY <1>4 DEF InvoicePaymentsCount, Excused, Settled
    <2>1. q \in Ops
      <3>1. Recorded(q) /\ RecordFits(q)
        BY <1>0 DEF Settled, FinalStatuses, Recorded, RecordsFit
      <3> QED BY <3>1 DEF RecordFits
    <2>2. <<q, j>> \in invoicePayments
      BY <1>3, <1>5, <2>1
    <2>3. Excused(q, j) /\ OnTerms(q, j)
      BY <1>0, <2>2, CountIsExcused DEF CountInv, SentOnTerms
    <2> QED BY <1>0, <1>1, <2>3, ExcusedKept
  <1> QED BY <1>8, <1>9, <1>10, <1>11 DEF CountInv

(* A request learns what to pay from EnsurePaymentRequest, or from the     *)
(* body of a transfer, and keeps it until the submission.                  *)
LEMMA AskedOnTerms ==
  ASSUME TypeInv, RequestsOK, NEW p \in Payers, AsksForTerms(p), UNCHANGED invoice,
         \/ PrivateStep(p) \/ RecordTransfer(p) \/ RedisFails(p) \/ RequestFails(p)
  PROVE  \A r \in Payers : AsksForTerms(r)' \/ request'[r] = request[r]
  <1>0. request \in [Payers -> RequestRows] /\ request[p].invoice \in Links
    BY DEF RequestsOK, WalletTypeOK, RequestRows
  <1>1. ASSUME \/ Ended(p)
               \/ \E w \in Wallets, j \in Links : StartRequest(p, w, j)
               \/ \E right \in BOOLEAN : Compared(p, right)
               \/ \E t \in Transfers : PrepareTransfer(p, t)
        PROVE  /\ \A r \in Payers \ {p} : request'[r] = request[r]
               /\ request'[p].pc \notin {"account", "submit"}
                  \/ request'[p].invoice = NoInvoice
    <2>1. CASE Ended(p)
      BY <1>0, <2>1 DEF Ended, Idle
    <2>2. ASSUME NEW w \in Wallets, NEW j \in Links, StartRequest(p, w, j)
          PROVE  /\ \A r \in Payers \ {p} : request'[r] = request[r]
                 /\ request'[p].pc = "compare"
      BY <1>0, <2>2 DEF StartRequest, Idle
    <2>3. CASE (\E right \in BOOLEAN : Compared(p, right)) /\ ~Ended(p)
      <3>1. request' = [request EXCEPT ![p].pc = "prepare"]
        BY <2>3, Zenon DEF Compared
      <3> QED BY <1>0, <3>1 DEF RequestRows
    <2>4. ASSUME NEW t \in Transfers, PrepareTransfer(p, t)
          PROVE  /\ \A r \in Payers \ {p} : request'[r] = request[r]
                 /\ request'[p].invoice = NoInvoice
      BY <1>0, <2>4 DEF PrepareTransfer, RequestRows
    <2> QED BY <1>1, <2>1, <2>2, <2>3, <2>4
  <1>2. CASE EnsurePaymentRequest(p) /\ ~Ended(p)
    <2> PICK i \in Invoices : i = request[p].invoice
      BY <1>0, <1>2 DEF EnsurePaymentRequest, Links
    <2>1. /\ invoice[i].status \in PayableStatuses /\ Recipient[i] # NoRecipient
          /\ request' = [request EXCEPT ![p].payment = PaymentRequest(i),
                                        ![p].pc = "account"]
      BY <1>2 DEF EnsurePaymentRequest
    <2>2. /\ request'[p].payment = PaymentRequest(i) /\ request'[p].invoice = i
          /\ \A r \in Payers \ {p} : request'[r] = request[r]
      <3> HIDE DEF PaymentRequest
      <3> QED BY <1>0, <2>1 DEF RequestRows
    <2> QED BY <2>1, <2>2 DEF AsksForTerms, Issued, PaymentRequest
  <1>3. CASE LoadAccount(p) /\ ~Ended(p)
    <2>1. /\ request'[p].payment = request[p].payment
          /\ request'[p].invoice = request[p].invoice /\ request[p].pc = "account"
          /\ \A r \in Payers \ {p} : request'[r] = request[r]
      BY <1>0, <1>3 DEF LoadAccount, RequestRows
    <2> QED BY <2>1 DEF AsksForTerms, Issued, PaymentRequest
  <1>4. \/ Ended(p)
        \/ \E w \in Wallets, j \in Links : StartRequest(p, w, j)
        \/ \E right \in BOOLEAN : Compared(p, right)
        \/ \E t \in Transfers : PrepareTransfer(p, t)
        \/ EnsurePaymentRequest(p) \/ LoadAccount(p)
    BY DEF PrivateStep, ReadAttempts, ComparePin, SubmitRejected, findPaths,
           ExportWalletKeys, RedisFails, RecordTransfer, RequestFails
  <1> QED BY <1>1, <1>2, <1>3, <1>4 DEF AsksForTerms

CountedInv == WalletRecordsInv /\ CountInv

LEMMA CountInit == Init /\ WalletInit => CountedInv
  <1> SUFFICES ASSUME Init, WalletInit PROVE CountedInv
    OBVIOUS
  <1>1. invoicePayments = {} /\ \A p \in Payers : request[p].pc = "idle"
    BY DEF WalletInit, Idle
  <1>2. \A w \in Workers : phase[w] = "load"
    BY DEF Init, SettlementInit
  <1> QED BY <1>1, <1>2, WalletRecordsInit
          DEF CountedInv, CountInv, SentOnTerms, AsksForTerms, RowDetected,
              InvoicePaymentsCount

LEMMA CountStep ==
  ASSUME 0 \notin Totals
  PROVE  CountedInv /\ [WalletNext]_allVars /\ [TermsStand]_allVars => CountedInv'
  <1> SUFFICES ASSUME CountedInv, [WalletNext]_allVars, [TermsStand]_allVars
               PROVE  CountInv'
    BY WalletRecordsStep DEF CountedInv
  <1>0. /\ WalletRecordsInv /\ RecordsInv /\ TypeInv /\ RequestsOK /\ CountInv
    BY DEF CountedInv, WalletRecordsInv, WalletInv, RecordsInv, SafetyInv
  <1>1. TermsStand
    BY DEF TermsStand, allVars, vars, lifecycleVars, Exists
  <1>2. ASSUME [Next]_vars, UNCHANGED invoicePayments,
               \A p \in Payers : AsksForTerms(p)' \/ request'[p] = request[p]
        PROVE  CountInv'
    <2>1. ASSUME NEW p \in Payers, request'[p] = request[p]
          PROVE  AsksForTerms(p)'
      <3> SUFFICES ASSUME request[p].pc \in {"account", "submit"},
                          request[p].invoice # NoInvoice
                   PROVE  /\ Issued(request[p].invoice)'
                          /\ Recipient[request[p].invoice] # NoRecipient
                          /\ request[p].payment = PaymentRequest(request[p].invoice)'
        BY <2>1 DEF AsksForTerms
      <3> PICK i : i = request[p].invoice
        OBVIOUS
      <3>1. i \in Invoices
        BY <1>0 DEF RequestsOK, WalletTypeOK, RequestRows, Links
      <3>2. /\ Issued(i) /\ Recipient[i] # NoRecipient
            /\ request[p].payment = PaymentRequest(i)
        BY <1>0 DEF CountInv, AsksForTerms
      <3>3. Issued(i)' /\ invoice'[i].stroops = invoice[i].stroops
        BY <1>0, <1>1, <1>2, <3>1, <3>2, IssuedKept
      <3>4. PaymentRequest(i)' = PaymentRequest(i)
        BY <3>3 DEF PaymentRequest
      <3> QED BY <2>1, <3>2, <3>3, <3>4 DEF PaymentRequest, Issued
    <2> QED BY <1>0, <1>1, <1>2, <2>1, CountNext DEF CountInv
  <1>3. CASE [Next]_vars /\ UNCHANGED walletVars
    BY <1>2, <1>3 DEF walletVars
  <1>4. ASSUME NEW p \in Payers, NEW ok \in BOOLEAN, NEW answered \in BOOLEAN,
               Submit(p, ok, answered)
        PROVE  CountInv'
    BY <1>0, <1>1, <1>4, CountSubmit
  <1>5. CASE /\ UNCHANGED <<chain, invoice, payments, queue, phase, row, stage,
                            invoicePayments>>
             /\ \A p \in Payers : AsksForTerms(p)' \/ request'[p] = request[p]
    <2>1. SentOnTerms'
      BY <1>0, <1>5 DEF CountInv, SentOnTerms, OnTerms, Issued, Ops
    <2>2. InvoicePaymentsCount'
      BY <1>0, <1>5 DEF CountInv, InvoicePaymentsCount, Settled, VerifiedFor, Ops
    <2>3. \A w \in Workers : RowDetected(w)'
      BY <1>0, <1>5 DEF CountInv, RowDetected, At, Recovering, Awaited
    <2>4. \A p \in Payers : AsksForTerms(p)'
      BY <1>0, <1>5 DEF CountInv, AsksForTerms, Issued, PaymentRequest
    <2> QED BY <2>1, <2>2, <2>3, <2>4 DEF CountInv
  <1>6. ASSUME NEW w \in Wallets, AttemptsExpire(w), UNCHANGED vars
        PROVE  CountInv'
    BY <1>5, <1>6
    DEF AttemptsExpire, vars, lifecycleVars, settlementVars, dbVars, pollVars, workVars
  <1>7. ASSUME NEW p \in Payers,
               \/ PrivateStep(p) /\ UNCHANGED vars
               \/ RecordTransfer(p) \/ RedisFails(p) \/ RequestFails(p)
        PROVE  CountInv'
    <2>1. /\ UNCHANGED <<chain, invoice, payments, queue, phase, row, stage>>
      BY <1>7
      DEF RecordTransfer, RedisFails, RequestFails, vars, lifecycleVars,
          settlementVars, dbVars, pollVars, workVars
    <2>2. UNCHANGED invoicePayments
      BY <1>7
      DEF PrivateStep, ReadAttempts, ComparePin, EnsurePaymentRequest,
          PrepareTransfer, LoadAccount, SubmitRejected, findPaths,
          ExportWalletKeys, RedisFails, RecordTransfer, RequestFails
    <2>3. \A r \in Payers : AsksForTerms(r)' \/ request'[r] = request[r]
      BY <1>0, <1>7, <2>1, AskedOnTerms DEF CountInv
    <2> QED BY <1>5, <2>1, <2>2, <2>3
  <1>8. CASE WalletStep
    BY <1>4, <1>6, <1>7, <1>8 DEF WalletStep
  <1>9. CASE UNCHANGED allVars
    BY <1>3, <1>9 DEF allVars
  <1> QED BY <1>3, <1>8, <1>9 DEF WalletNext

(* PayInvoice asks the payer for exactly what evaluate expects: as long as *)
(* nobody edits or deletes an invoice, and no total is zero, its payment   *)
(* is only ever turned down for what arose elsewhere.                      *)
THEOREM InvoicePaymentsGoThrough ==
  ASSUME 0 \notin Totals
  PROVE  WalletSpec /\ [][TermsStand]_allVars => []InvoicePaymentsCount
  <1>1. CountedInv => InvoicePaymentsCount
    BY DEF CountedInv, CountInv
  <1> QED BY <1>1, CountInit, CountStep, PTL DEF WalletSpec

(* The payments package keeps its contract while the wallet service runs.  *)
THEOREM WalletImplements == WalletSpec => ImplementsContract
  <1>1. WalletSpec => []WalletInv
    BY WalletInvInit, WalletInvStep, PTL DEF WalletSpec
  <1>2. WalletInv /\ [WalletNext]_allVars => [Contract!Next]_Contract!vars
    <2> SUFFICES ASSUME WalletInv, [WalletNext]_allVars
                 PROVE  [Contract!Next]_Contract!vars
      OBVIOUS
    <2>1. SafetyInv /\ RequestsOK
      BY DEF WalletInv
    <2>2. CASE [Next]_vars
      BY <2>1, <2>2, ContractStep
    <2>3. CASE \E p \in Payers : RecordTransfer(p) \/ RequestFails(p) \/ RedisFails(p)
      <3>1. UNCHANGED <<payments, invoice>>
        BY <2>1, <2>3, WalletWriteSafe
      <3> QED BY <3>1, ContractStutter DEF Paid
    <2> QED BY <2>1, <2>2, <2>3, WalletStepEffect
  <1>3. Init /\ WalletInit => Contract!Init
    BY ContractInit
  <1> QED BY <1>1, <1>2, <1>3, PTL DEF WalletSpec, ImplementsContract, Contract!Spec
=============================================================================
