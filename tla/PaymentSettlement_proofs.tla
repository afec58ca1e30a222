----------------------- MODULE PaymentSettlement_proofs -----------------------
(***************************************************************************)
(* Proofs about PaymentSettlement, for any number of invoices, payments,   *)
(* servers, requests and faults: types, paid once, verdicts, refinement.   *)
(***************************************************************************)
EXTENDS SettlementProperties, SequenceTheorems, TLAPS

-------------------------------------------------------------------------------
(***************************************************************************)
(* What the rules of PaymentRules guarantee whatever they are applied to.  *)
(***************************************************************************)

(* A verdict is one of five statuses with a code that the tables know.     *)
LEMMA VerdictTyped ==
  ASSUME NEW p, NEW inv, NEW expected
  PROVE  /\ evaluate(p, inv, expected).status \in
              {"verified", "invalid", "unmatched", "failed"}
         /\ evaluate(p, inv, expected).code \in FailureCodes \cup {NoCode}
  BY DEF evaluate, Verdict, FailureCodes, NoCode

(* Only a payable invoice gets a payment verified, ...                     *)
LEMMA VerifiedIsPayable ==
  ASSUME NEW p, NEW inv, NEW expected,
         evaluate(p, inv, expected).status = "verified"
  PROVE  inv # NoInvoice /\ inv.status \in PayableStatuses
  BY DEF evaluate, Verdict, Payable

(* ... and an operation without an invoice is failed or unmatched.         *)
LEMMA JudgedHasInvoice ==
  ASSUME NEW p, NEW inv, NEW expected,
         evaluate(p, inv, expected).status \notin {"failed", "unmatched"}
  PROVE  inv # NoInvoice
  BY DEF evaluate, Verdict

(* Judging works on the view of the very row the memo or the link names.   *)
LEMMA ViewIsOfInvoice ==
  ASSUME NEW m, InvoiceView(m) # NoInvoice
  PROVE  /\ m \in Invoices /\ Exists(m)
         /\ InvoiceView(m).status = invoice[m].status
  BY DEF InvoiceView

(* The row to insert is never a verified one: only finalize verifies.      *)
LEMMA RowForTyped ==
  ASSUME NEW o
  PROVE  /\ RowFor(o) \in PaymentRows
         /\ RowFor(o).status \in {"failed", "unmatched", "detected"}
  <1> DEFINE inv == InvoiceView(chain[o].memo)
             v == Judge(chain[o], chain[o].memo)
  <1>1. v.status \in {"verified", "invalid", "unmatched", "failed"}
        /\ v.code \in FailureCodes \cup {NoCode}
    BY VerdictTyped DEF Judge
  <1>2. CASE v.status \in {"failed", "unmatched"}
    <2>1. inv # NoInvoice => chain[o].memo \in Links
      BY ViewIsOfInvoice DEF Links
    <2> QED
      BY <1>1, <1>2, <2>1
      DEF RowFor, PaymentRows, VerificationStatuses, Links
  <1>3. CASE v.status \notin {"failed", "unmatched"}
    <2>1. inv # NoInvoice
      BY <1>3, JudgedHasInvoice DEF Judge
    <2>2. chain[o].memo \in Links
      BY <2>1, ViewIsOfInvoice DEF Links
    <2> QED
      BY <1>3, <2>2 DEF RowFor, PaymentRows, VerificationStatuses, NoCode, Links
  <1> QED BY <1>2, <1>3

-------------------------------------------------------------------------------
(***************************************************************************)
(* Type correctness.  Two facts about the control state are needed to make *)
(* it inductive: pollAccount only asks for a further page below the limit, *)
(* and the row a process is about to insert is there and is not verified.  *)
(***************************************************************************)
PagesLeft ==
  \A s \in Servers : page[s].pc = "next" => page[s].pages < MaxPages

RowsUnjudged ==
  \A w \in Workers :
    /\ row[w].status \in {"none", "failed", "unmatched", "detected"}
    /\ phase[w] = "insert" => row[w].status # "none"

TypeInv == TypeOK /\ PagesLeft /\ RowsUnjudged

WorkInv == WorkTypeOK /\ RowsUnjudged
PollInv == PollTypeOK /\ PagesLeft

(* The neutral rows and pages are of their types.                          *)
LEMMA NoPaymentTyped == NoPayment \in PaymentRows
  BY DEF NoPayment, PaymentRows, Links, NoCode

(* A monitor that reads no page holds a page of the type.                  *)
LEMMA NoPageTyped == NoPage \in PollPages
  BY SettlementAssumption DEF NoPage, PollPages, NoRecipient

(* The ways a process leaves an operation keep its state typed.            *)
LEMMA FinishTyped ==
  ASSUME WorkInv, NEW w \in Workers, NEW o, Finish(w, o)
  PROVE  WorkInv'
  BY NoPaymentTyped
  DEF WorkInv, WorkTypeOK, RowsUnjudged, Finish, NoPayment

(* The helpers of processPayment keep a process within its type ...        *)
LEMMA GoOnTyped ==
  ASSUME WorkInv, NEW w \in Workers, GoOn(w, "settle")
  PROVE  WorkInv'
  BY NoPaymentTyped
  DEF WorkInv, WorkTypeOK, RowsUnjudged, GoOn, NoPayment

(* ... giving up included, ...                                             *)
LEMMA GiveUpTyped ==
  ASSUME WorkInv, PollInv, NEW w \in Workers, NEW o, GiveUp(w, o)
  PROVE  WorkInv' /\ PollInv'
  <1>1. WorkInv'
    BY NoPaymentTyped
    DEF WorkInv, WorkTypeOK, RowsUnjudged, GiveUp, NoPayment
  <1>2. PollInv'
    BY NoPageTyped
    DEF PollInv, PollTypeOK, PagesLeft, GiveUp, AbandonPage, NoPage
  <1> QED BY <1>1, <1>2

(* ... and those that write the invoice table keep it within its own.      *)
LEMMA FlagDetectedTyped ==
  ASSUME LifecycleTypeOK, NEW i, FlagDetected(i)
  PROVE  invoice' \in [Invoices -> InvoiceRows]
  BY DEF LifecycleTypeOK, FlagDetected, SetStatus, InvoiceRows, RowStatuses,
         InvoiceStatuses

(* Setting one status ...                                                  *)
LEMMA SetStatusTyped ==
  ASSUME LifecycleTypeOK, NEW i, NEW status \in RowStatuses, SetStatus(i, status)
  PROVE  invoice' \in [Invoices -> InvoiceRows]
  BY DEF LifecycleTypeOK, SetStatus, InvoiceRows

(* ... or those of many rows keeps the invoice table typed.                *)
LEMMA UpdateRowsTyped ==
  ASSUME NEW table \in [Invoices -> InvoiceRows], NEW rows,
         NEW status \in RowStatuses
  PROVE  UpdateRows(table, rows, status) \in [Invoices -> InvoiceRows]
  BY DEF UpdateRows, InvoiceRows

(* Both writers of the history keep it typed.                              *)
LEMMA AddTransactionTyped ==
  ASSUME DBTypeOK, NEW o \in OpIds, NEW link \in Links,
         NEW status \in {"confirmed", "failed"}, AddTransaction(o, link, status)
  PROVE  ledger' \in [OpIds -> LedgerRows]
  <1> DEFINE new == [status |-> status, op |-> o, link |-> link]
  <1>1. new \in LedgerRows
    BY SettlementAssumption DEF LedgerRows, OpIds
  <1>2. ledger' = ledger \/ ledger' = [ledger EXCEPT ![chain[o].tx] = new]
    BY DEF AddTransaction
  <1> HIDE DEF new
  <1> QED BY <1>1, <1>2 DEF DBTypeOK

(* The history of rejected payments: the second writer.                    *)
LEMMA RejectedTyped ==
  ASSUME DBTypeOK, NEW o \in OpIds, NEW link \in Links, NEW status,
         recordRejectedTransaction(o, link, status)
  PROVE  ledger' \in [OpIds -> LedgerRows]
  <1>1. CASE chain[o].asset.code \in {"USDC", "XLM"} /\ chain[o].to \in Accounts
    <2>1. (IF status = "failed" THEN "failed" ELSE "confirmed")
            \in {"confirmed", "failed"}
      OBVIOUS
    <2> QED BY <1>1, <2>1, AddTransactionTyped DEF recordRejectedTransaction
  <1>2. CASE ~(chain[o].asset.code \in {"USDC", "XLM"} /\ chain[o].to \in Accounts)
    BY <1>2 DEF recordRejectedTransaction, DBTypeOK
  <1> QED BY <1>1, <1>2

ChainOK == chain \in Seq(Operations) /\ Len(chain) <= MaxOps
FaultsOK == faults \in 0..MaxFaults

(* The invariant is the conjunction of its parts.                          *)
LEMMA TypeInvParts ==
  TypeInv <=> /\ LifecycleTypeOK /\ ChainOK /\ DBTypeOK
              /\ PollInv /\ WorkInv /\ FaultsOK
  BY DEF TypeInv, TypeOK, SettlementTypeOK, ChainOK, PollInv, WorkInv, FaultsOK

(* The same for the next state.                                            *)
LEMMA TypeInvPartsNext ==
  ASSUME LifecycleTypeOK', ChainOK', DBTypeOK', PollInv', WorkInv', FaultsOK'
  PROVE  TypeInv'
  BY DEF TypeInv, TypeOK, SettlementTypeOK, ChainOK, PollInv, WorkInv, FaultsOK

(* What a step leaves alone stays typed.                                   *)
LEMMA Kept ==
  /\ LifecycleTypeOK /\ UNCHANGED lifecycleVars => LifecycleTypeOK'
  /\ ChainOK /\ UNCHANGED chain => ChainOK'
  /\ DBTypeOK /\ UNCHANGED dbVars => DBTypeOK'
  /\ PollInv /\ UNCHANGED pollVars => PollInv'
  /\ WorkInv /\ UNCHANGED workVars => WorkInv'
  /\ FaultsOK /\ UNCHANGED faults => FaultsOK'
  BY DEF LifecycleTypeOK, lifecycleVars, ChainOK, DBTypeOK, dbVars, PollInv,
         PollTypeOK, PagesLeft, pollVars, WorkInv, WorkTypeOK, RowsUnjudged,
         workVars, FaultsOK

(* Every step of processPayment keeps the invariant.                       *)
LEMMA ProcessPaymentTyped ==
  ASSUME TypeInv, NEW w \in Workers, NEW o \in OpIds,
         \/ LoadInvoice(w, o) \/ InsertSettled(w, o) \/ InsertDetected(w, o)
         \/ InsertFails(w, o) \/ InsertConflicts(w, o) \/ Reflag(w, o)
         \/ Finalize(w, o) \/ FinalizeNothing(w, o)
  PROVE  TypeInv'
  <1> USE DEF lifecycleVars, dbVars
  <1>0. /\ LifecycleTypeOK /\ ChainOK /\ DBTypeOK
        /\ PollInv /\ WorkInv /\ FaultsOK
    BY TypeInvParts
  <1>1. CASE LoadInvoice(w, o)
    <2>1. CASE Unreadable(chain[o].memo)
      <3>1. GiveUp(w, o) /\ UNCHANGED <<lifecycleVars, chain, dbVars, faults>>
        BY <1>1, <2>1 DEF LoadInvoice
      <3> QED BY <1>0, <3>1, GiveUpTyped, Kept, TypeInvPartsNext
    <2>2. CASE ~Unreadable(chain[o].memo)
      <3>1. /\ row' = [row EXCEPT ![w] = RowFor(o)]
            /\ phase' = [phase EXCEPT ![w] = "insert"]
            /\ UNCHANGED <<queue, pollVars, lifecycleVars, chain, dbVars, faults>>
        BY <1>1, <2>2 DEF LoadInvoice
      <3>2. WorkInv'
        BY <1>0, <3>1, RowForTyped DEF WorkInv, WorkTypeOK, RowsUnjudged
      <3> QED BY <1>0, <3>1, <3>2, Kept, TypeInvPartsNext
    <2> QED BY <2>1, <2>2
  <1>2. CASE InsertSettled(w, o)
    <2>1. row[w] \in PaymentRows /\ row[w].link \in Links
      BY <1>0 DEF WorkInv, WorkTypeOK, PaymentRows
    <2>2. ledger' \in [OpIds -> LedgerRows]
      BY <1>0, <1>2, <2>1, RejectedTyped DEF InsertSettled
    <2>3. DBTypeOK'
      BY <1>0, <1>2, <2>1, <2>2 DEF InsertSettled, DBTypeOK
    <2>4. WorkInv'
      BY <1>0, <1>2, FinishTyped DEF InsertSettled
    <2> QED BY <1>0, <1>2, <2>3, <2>4, Kept, TypeInvPartsNext DEF InsertSettled
  <1>3. CASE InsertDetected(w, o)
    <2>1. row[w] \in PaymentRows
      BY <1>0 DEF WorkInv, WorkTypeOK
    <2>2. DBTypeOK'
      BY <1>0, <1>3, <2>1 DEF InsertDetected, DBTypeOK
    <2>3. LifecycleTypeOK'
      BY <1>0, <1>3, FlagDetectedTyped DEF InsertDetected, LifecycleTypeOK
    <2>4. WorkInv'
      BY <1>0, <1>3, GoOnTyped DEF InsertDetected
    <2> QED BY <1>0, <1>3, <2>2, <2>3, <2>4, Kept, TypeInvPartsNext
            DEF InsertDetected
  <1>4. CASE InsertFails(w, o)
    BY <1>0, <1>4, GiveUpTyped, Kept, TypeInvPartsNext DEF InsertFails
  <1>5. CASE InsertConflicts(w, o)
    <2>1. WorkInv'
      <3>1. CASE row[w].status = "detected" /\ Unfinished(o)
        BY <1>0, <1>5, <3>1 DEF InsertConflicts, WorkInv, WorkTypeOK, RowsUnjudged
      <3>2. CASE ~(row[w].status = "detected" /\ Unfinished(o))
        BY <1>0, <1>5, <3>2, FinishTyped DEF InsertConflicts
      <3> QED BY <3>1, <3>2
    <2> QED BY <1>0, <1>5, <2>1, Kept, TypeInvPartsNext DEF InsertConflicts
  <1>6. CASE Reflag(w, o)
    <2>1. LifecycleTypeOK'
      BY <1>0, <1>6, FlagDetectedTyped DEF Reflag, LifecycleTypeOK
    <2>2. WorkInv'
      BY <1>0, <1>6, GoOnTyped DEF Reflag
    <2> QED BY <1>0, <1>6, <2>1, <2>2, Kept, TypeInvPartsNext DEF Reflag
  <1>7. CASE Finalize(w, o)
    <2> DEFINE i == payments[o].link
               v == Judge([chain[o] EXCEPT !.ok = TRUE], i)
    <2>1. v.status \in {"verified", "invalid", "unmatched", "failed"}
          /\ v.code \in FailureCodes \cup {NoCode}
      BY VerdictTyped DEF Judge
    <2>2. payments[o] \in PaymentRows /\ i \in Links
      BY <1>0 DEF DBTypeOK, PaymentRows
    <2>3. payments' = [payments EXCEPT ![o].status = v.status, ![o].code = v.code]
      BY <1>7 DEF Finalize
    <2>4. payments' \in [OpIds -> PaymentRows]
      <3> HIDE DEF v
      <3> QED BY <1>0, <2>1, <2>2, <2>3
              DEF DBTypeOK, PaymentRows, VerificationStatuses
    <2>5. \/ /\ v.status = "verified"
             /\ SetStatus(i, "paid") /\ AddTransaction(o, i, "confirmed")
          \/ /\ recordRejectedTransaction(o, i, v.status)
             /\ SetStatus(i, "invalid_payment") \/ UNCHANGED invoice
      BY <1>7 DEF Finalize
    <2>6. ledger' \in [OpIds -> LedgerRows]
      <3> HIDE DEF v, i
      <3> QED BY <1>0, <2>2, <2>5, AddTransactionTyped, RejectedTyped
    <2>7. invoice' \in [Invoices -> InvoiceRows]
      <3> "paid" \in RowStatuses /\ "invalid_payment" \in RowStatuses
        BY DEF RowStatuses, InvoiceStatuses
      <3> HIDE DEF v, i
      <3> QED BY <1>0, <2>5, SetStatusTyped DEF LifecycleTypeOK
    <2>8. DBTypeOK' /\ LifecycleTypeOK'
      BY <1>0, <1>7, <2>4, <2>6, <2>7 DEF Finalize, DBTypeOK, LifecycleTypeOK
    <2>9. WorkInv'
      BY <1>0, <1>7, FinishTyped DEF Finalize
    <2> QED BY <1>0, <1>7, <2>8, <2>9, Kept, TypeInvPartsNext DEF Finalize
  <1>8. CASE FinalizeNothing(w, o)
    <2>1. \/ GiveUp(w, o)
          \/ Finish(w, o) /\ UNCHANGED pollVars
      BY <1>8 DEF FinalizeNothing
    <2>2. WorkInv' /\ PollInv'
      BY <1>0, <2>1, GiveUpTyped, FinishTyped, Kept
    <2> QED BY <1>0, <1>8, <2>2, Kept, TypeInvPartsNext DEF FinalizeNothing
  <1> QED BY <1>1, <1>2, <1>3, <1>4, <1>5, <1>6, <1>7, <1>8

(* A page read from Horizon is of its type and leaves pages to read.       *)
LEMMA FetchPageTyped ==
  ASSUME TypeInv, NEW s \in Servers, NEW a \in Accounts \cup {NoRecipient},
         NEW since \in 0..MaxOps, NEW pages \in 0..MaxPages,
         FetchPage(s, a, since, pages), UNCHANGED <<phase, row>>
  PROVE  /\ WorkInv'
         /\ page' \in [Servers -> PollPages]
         /\ PagesLeft'
  <1>0. ChainOK /\ PollInv /\ WorkInv
    BY TypeInvParts
  <1>1. Ops \subseteq OpIds /\ Ops \subseteq 0..MaxOps
    BY <1>0, SettlementAssumption DEF ChainOK, Ops, OpIds
  <1>2. PICK upto \in {since} \cup Ops :
          LET ops == {o \in Ops : chain[o].to = a /\ o > since /\ o <= upto}
          IN /\ queue' = [queue EXCEPT ![s] = ops]
             /\ page' = [page EXCEPT ![s] =
                  [pc |-> "page", account |-> a, since |-> since, upto |-> upto,
                   pages |-> pages, full |-> Cardinality(ops) = PageLimit]]
    BY DEF FetchPage
  <1> DEFINE ops == {o \in Ops : chain[o].to = a /\ o > since /\ o <= upto}
             full == Cardinality(ops) = PageLimit
             new == [pc |-> "page", account |-> a, since |-> since,
                     upto |-> upto, pages |-> pages, full |-> full]
  <1>3. ops \in SUBSET OpIds
    BY <1>1
  <1>4. full \in BOOLEAN
    OBVIOUS
  <1>5. new \in PollPages /\ new.pc = "page"
    <2> HIDE DEF full
    <2> QED BY <1>1, <1>4 DEF PollPages
  <1>6. queue' = [queue EXCEPT ![s] = ops] /\ page' = [page EXCEPT ![s] = new]
    BY <1>2
  <1> HIDE DEF ops, new
  <1>7. WorkInv'
    BY <1>0, <1>3, <1>6 DEF WorkInv, WorkTypeOK, RowsUnjudged, Workers
  <1>8. page' \in [Servers -> PollPages] /\ PagesLeft'
    BY <1>0, <1>5, <1>6 DEF PollInv, PollTypeOK, PagesLeft
  <1> QED BY <1>7, <1>8

(* Every step of a payment monitor keeps the invariant.                    *)
LEMMA MonitorTyped ==
  ASSUME TypeInv, NEW s \in Servers, Monitor(s)
  PROVE  TypeInv'
  <1> USE DEF lifecycleVars, dbVars
  <1>0. /\ LifecycleTypeOK /\ ChainOK /\ DBTypeOK
        /\ PollInv /\ WorkInv /\ FaultsOK
    BY TypeInvParts
  <1>1. CASE Poll(s)
    <2>1. PollInv'
      BY <1>0, <1>1 DEF Poll, Goto, PollInv, PollTypeOK, PagesLeft
    <2> QED BY <1>0, <1>1, <2>1, Kept, TypeInvPartsNext DEF Poll
  <1>2. ASSUME NEW a \in Accounts, PollAccount(s, a)
        PROVE  TypeInv'
    <2>1. cursor[a] \in 0..MaxOps /\ 1 \in 0..MaxPages
      BY <1>0, SettlementAssumption DEF DBTypeOK
    <2>2. WorkInv' /\ page' \in [Servers -> PollPages] /\ PagesLeft'
      BY <1>2, <2>1, FetchPageTyped DEF PollAccount
    <2>3. PollInv'
      BY <1>0, <1>2, <2>2 DEF PollAccount, PollInv, PollTypeOK
    <2> QED BY <1>0, <1>2, <2>2, <2>3, Kept, TypeInvPartsNext DEF PollAccount
  <1>3. CASE NextPage(s)
    <2>1. page[s] \in PollPages /\ page[s].pages < MaxPages
      BY <1>0, <1>3 DEF NextPage, PollInv, PollTypeOK, PagesLeft
    <2>2. /\ page[s].account \in Accounts \cup {NoRecipient}
          /\ page[s].upto \in 0..MaxOps
          /\ page[s].pages + 1 \in 0..MaxPages
      BY <2>1, SettlementAssumption DEF PollPages
    <2>3. WorkInv' /\ page' \in [Servers -> PollPages] /\ PagesLeft'
      BY <1>3, <2>2, FetchPageTyped DEF NextPage
    <2>4. PollInv'
      BY <1>0, <1>3, <2>3 DEF NextPage, PollInv, PollTypeOK
    <2> QED BY <1>0, <1>3, <2>3, <2>4, Kept, TypeInvPartsNext DEF NextPage
  <1>4. CASE SaveCursor(s)
    <2>1. page[s] \in PollPages /\ page[s].upto \in 0..MaxOps
      BY <1>0 DEF PollInv, PollTypeOK, PollPages
    <2>2. DBTypeOK'
      BY <1>0, <1>4, <2>1 DEF SaveCursor, DBTypeOK
    <2>3. PICK p \in PollPages :
            /\ page' = [page EXCEPT ![s] = p]
            /\ p.pc = "next" => p.pages < MaxPages
      <3> DEFINE further == [page[s] EXCEPT !.pc = "next"]
      <3>1. further \in PollPages /\ further.pages = page[s].pages
        BY <2>1 DEF PollPages
      <3>2. \/ page' = [page EXCEPT ![s] = further] /\ page[s].pages < MaxPages
            \/ page' = [page EXCEPT ![s] = NoPage]
        BY <1>4 DEF SaveCursor, MorePages
      <3>3. NoPage \in PollPages /\ NoPage.pc # "next"
        BY NoPageTyped DEF NoPage
      <3> HIDE DEF further
      <3> QED BY <3>1, <3>2, <3>3
    <2>5. page' \in [Servers -> PollPages] /\ PagesLeft'
      BY <1>0, <2>3 DEF PollInv, PollTypeOK, PagesLeft
    <2>6. PollInv'
      BY <1>0, <1>4, <2>5 DEF SaveCursor, PollInv, PollTypeOK
    <2> QED BY <1>0, <1>4, <2>2, <2>6, Kept, TypeInvPartsNext DEF SaveCursor
  <1>5. CASE EndPoll(s)
    <2>1. PollInv'
      BY <1>0, <1>5 DEF EndPoll, Goto, Unlock, PollInv, PollTypeOK, PagesLeft
    <2> QED BY <1>0, <1>5, <2>1, Kept, TypeInvPartsNext DEF EndPoll
  <1>6. CASE RecoverUnfinished(s)
    <2>1. PollInv' /\ WorkInv'
      BY <1>0, <1>6
      DEF RecoverUnfinished, Goto, PollInv, PollTypeOK, PagesLeft, WorkInv,
          WorkTypeOK, RowsUnjudged, Workers
    <2> QED BY <1>0, <1>6, <2>1, Kept, TypeInvPartsNext DEF RecoverUnfinished
  <1>7. CASE EndRecover(s)
    <2>1. PollInv'
      BY <1>0, <1>7 DEF EndRecover, Goto, PollInv, PollTypeOK, PagesLeft
    <2> QED BY <1>0, <1>7, <2>1, Kept, TypeInvPartsNext DEF EndRecover
  <1>8. CASE ExpireInvoices(s)
    <2>1. PollInv'
      BY <1>0, <1>8 DEF ExpireInvoices, Goto, PollInv, PollTypeOK, PagesLeft
    <2>2. invoice' \in [Invoices -> InvoiceRows]
      <3>1. "expired" \in RowStatuses /\ invoice \in [Invoices -> InvoiceRows]
        BY <1>0 DEF RowStatuses, InvoiceStatuses, LifecycleTypeOK
      <3> QED BY <1>8, <3>1, UpdateRowsTyped DEF ExpireInvoices
    <2>3. LifecycleTypeOK'
      BY <1>0, <1>8, <2>2 DEF ExpireInvoices, LifecycleTypeOK
    <2> QED BY <1>0, <1>8, <2>1, <2>3, Kept, TypeInvPartsNext DEF ExpireInvoices
  <1>9. CASE ProcessPayment(s)
    BY <1>9, ProcessPaymentTyped DEF ProcessPayment, Workers
  <1> QED BY <1>1, <1>2, <1>3, <1>4, <1>5, <1>6, <1>7, <1>8, <1>9 DEF Monitor

(* A submitted transaction keeps the chain a sequence of operations.       *)
LEMMA SubmitTyped ==
  ASSUME TypeInv, NEW t \in Transactions, SubmitTransaction(t)
  PROVE  ChainOK' /\ Len(chain') = Len(chain) + Len(t)
  <1>0. ChainOK /\ LifecycleTypeOK
    BY TypeInvParts
  <1> DEFINE op(k) == [tx |-> Len(chain) + 1, closed |-> today, to |-> t[k].to,
                       asset |-> t[k].asset, stroops |-> t[k].stroops,
                       memo |-> t[k].memo, ok |-> t[k].ok]
             added == [k \in 1..Len(t) |-> op(k)]
  <1>1. Len(t) \in Nat /\ DOMAIN t = 1..Len(t) /\ Len(chain) \in Nat
        /\ Len(chain) + Len(t) <= MaxOps /\ MaxOps \in Nat
    BY <1>0, SettlementAssumption DEF ChainOK, SubmitTransaction
  <1>2. \A k \in 1..Len(t) : op(k) \in Operations
    <2> TAKE k \in 1..Len(t)
    <2>1. Len(chain) + 1 \in OpIds /\ today \in Days /\ k \in DOMAIN t
      BY <1>0, <1>1 DEF OpIds, LifecycleTypeOK
    <2> QED BY <2>1 DEF Operations
  <1>3. added \in Seq(Operations)
    <2> HIDE DEF op
    <2> QED BY <1>1, <1>2
  <1>4. Len(added) = Len(t)
    <2> HIDE DEF op
    <2> QED BY <1>1, <1>3
  <1>5. chain' = chain \o added
    BY DEF SubmitTransaction
  <1> HIDE DEF added
  <1>6. chain \in Seq(Operations)
    BY <1>0 DEF ChainOK
  <1>7. chain' \in Seq(Operations) /\ Len(chain') = Len(chain) + Len(t)
    <2>1. /\ chain \o added \in Seq(Operations)
          /\ Len(chain \o added) = Len(chain) + Len(added)
      BY <1>3, <1>6, ConcatProperties
    <2>2. Len(chain') = Len(chain) + Len(added)
      BY <1>5, <2>1
    <2> QED BY <1>4, <1>5, <2>1, <2>2
  <1> QED BY <1>1, <1>7 DEF ChainOK

(* Errors, crashes and lost locks keep the invariant.                      *)
LEMMA FaultTyped ==
  ASSUME TypeInv,
         \/ \E w \in Workers, o \in OpIds : Fails(w, o)
         \/ \E s \in Servers : StageFails(s)
         \/ \E s \in Servers : Crash(s)
         \/ LoseLock
  PROVE  TypeInv'
  <1> USE DEF lifecycleVars, dbVars
  <1>0. /\ LifecycleTypeOK /\ ChainOK /\ DBTypeOK
        /\ PollInv /\ WorkInv /\ FaultsOK
    BY TypeInvParts
  <1>1. Fault => FaultsOK'
    BY <1>0, SettlementAssumption DEF Fault, FaultsOK
  <1>2. ASSUME NEW w \in Workers, NEW o \in OpIds, Fails(w, o)
        PROVE  TypeInv'
    BY <1>0, <1>1, <1>2, GiveUpTyped, Kept, TypeInvPartsNext DEF Fails
  (* What an interrupted monitor is left with.                             *)
  <1>3. ASSUME NEW s \in Servers, NEW st \in {"idle", "recover", "expire"},
               Fault, Goto(s, st), Unlock(s),
               queue' = [queue EXCEPT ![s] = {}],
               phase' = [phase EXCEPT ![s] = "load"],
               row' = [row EXCEPT ![s] = NoPayment],
               page' = [page EXCEPT ![s] = NoPage],
               todo' = [todo EXCEPT ![s] = {}],
               UNCHANGED <<lifecycleVars, chain, dbVars>>
        PROVE  TypeInv'
    <2>1. WorkInv'
      BY <1>0, <1>3, NoPaymentTyped
      DEF WorkInv, WorkTypeOK, RowsUnjudged, NoPayment, Workers
    <2>2. page' \in [Servers -> PollPages] /\ PagesLeft'
      BY <1>0, <1>3, NoPageTyped DEF PollInv, PollTypeOK, PagesLeft, NoPage
    <2>3. PollInv'
      BY <1>0, <1>3, <2>2 DEF Goto, Unlock, PollInv, PollTypeOK
    <2> QED BY <1>0, <1>1, <1>3, <2>1, <2>3, Kept, TypeInvPartsNext
  <1>4. ASSUME NEW s \in Servers, StageFails(s)
        PROVE  TypeInv'
    <2>1. stage[s] \in {"poll", "recover", "recovering", "expire"}
      BY <1>0, <1>4 DEF StageFails, PollInv, PollTypeOK
    <2>2. PICK st \in {"idle", "recover", "expire"} : Goto(s, st)
      BY <1>4, <2>1 DEF StageFails
    <2> QED BY <1>3, <1>4, <2>2 DEF StageFails
  <1>5. ASSUME NEW s \in Servers, Crash(s)
        PROVE  TypeInv'
    BY <1>3, <1>5 DEF Crash
  <1>6. CASE LoseLock
    <2>1. PollInv'
      BY <1>0, <1>6 DEF LoseLock, PollInv, PollTypeOK, PagesLeft
    <2> QED BY <1>0, <1>1, <1>6, <2>1, Kept, TypeInvPartsNext DEF LoseLock
  <1> QED BY <1>2, <1>4, <1>5, <1>6

(* Every writer of the invoice table outside payments keeps its type.      *)
LEMMA LifecycleTyped ==
  ASSUME LifecycleTypeOK, NEW linked, LifecycleNext(linked)
  PROVE  LifecycleTypeOK'
  <1> USE DEF LifecycleTypeOK
  <1>0. InvoiceStatuses \subseteq RowStatuses /\ "deleted" \in RowStatuses
    BY DEF RowStatuses
  <1>1. \A d \in Days : d \in 0..MaxDay
    BY LifecycleAssumption DEF Days
  <1>2. ASSUME NEW i \in Invoices, NEW total \in Totals, NEW due \in Days,
               GenerateNewInvoice(i, total, due)
        PROVE  LifecycleTypeOK'
    <2> DEFINE new == [status |-> "draft", review |-> "open",
                       stroops |-> total, due |-> due]
    <2>1. new \in InvoiceRows
      BY <1>0, <1>1 DEF InvoiceRows, InvoiceStatuses
    <2>2. /\ invoice' = [invoice EXCEPT ![i] = new]
          /\ UNCHANGED <<today, updating, dailyRun>>
      BY <1>2 DEF GenerateNewInvoice
    <2> HIDE DEF new
    <2> QED BY <2>1, <2>2
  <1>3. ASSUME NEW i \in Invoices, SendInvoice(i)
        PROVE  LifecycleTypeOK'
    BY <1>0, <1>3, SetStatusTyped DEF SendInvoice, InvoiceStatuses
  <1>4. ASSUME NEW i \in Invoices, NEW approve \in BOOLEAN, ReviewInvoice(i, approve)
        PROVE  LifecycleTypeOK'
    <2>1. PICK review \in {"approved", "rejected"},
               status \in {"viewed", "cancelled"} :
            invoice' = [invoice EXCEPT ![i].review = review, ![i].status = status]
      BY <1>4 DEF ReviewInvoice
    <2>2. invoice' \in [Invoices -> InvoiceRows]
      BY <1>0, <2>1 DEF InvoiceRows, InvoiceStatuses
    <2> QED BY <1>4, <2>2 DEF ReviewInvoice
  <1>5. ASSUME NEW i \in Invoices, UpdateInvoiceCheck(i)
        PROVE  LifecycleTypeOK'
    BY <1>5 DEF UpdateInvoiceCheck
  <1>6. ASSUME NEW i \in Invoices, NEW total \in Totals, NEW due \in Days,
               UpdateInvoiceWrite(i, total, due)
        PROVE  LifecycleTypeOK'
    BY ZenonT(40), <1>1, <1>6 DEF UpdateInvoiceWrite, InvoiceRows
  <1>7. ASSUME NEW i \in Invoices, DeleteInvoice(i, linked)
        PROVE  LifecycleTypeOK'
    BY <1>0, <1>7, SetStatusTyped DEF DeleteInvoice
  <1>8. CASE MarkOverdue
    BY <1>0, <1>8, UpdateRowsTyped DEF MarkOverdue, InvoiceStatuses
  <1>9. CASE CancelUnapproved \/ OverdueApproved
    <2>1. {"cancelled", "overdue"} \subseteq RowStatuses
      BY <1>0 DEF InvoiceStatuses
    <2>2. CASE CancelUnapproved
      BY <2>1, <2>2, UpdateRowsTyped DEF CancelUnapproved
    <2>3. CASE OverdueApproved
      BY <2>1, <2>3, UpdateRowsTyped DEF OverdueApproved
    <2> QED BY <1>9, <2>2, <2>3
  <1>10. CASE NextDay
    BY <1>10, LifecycleAssumption DEF NextDay, Days
  <1> QED BY <1>2, <1>3, <1>4, <1>5, <1>6, <1>7, <1>8, <1>9, <1>10
          DEF LifecycleNext

(* The invariant holds at the start ...                                    *)
LEMMA InitTyped == Init => TypeInv
  <1> SUFFICES ASSUME Init PROVE TypeInv
    OBVIOUS
  <1>1. LifecycleTypeOK
    <2>1. dailyRun \in BOOLEAN
      BY Zenon DEF Init, LifecycleInit
    <2>2. invoice \in [Invoices -> InvoiceRows] /\ today \in Days
      BY LifecycleAssumption
      DEF Init, LifecycleInit, InvoiceRows, RowStatuses, Days
    <2> QED BY <2>1, <2>2 DEF Init, LifecycleInit, LifecycleTypeOK
  <1>2. ChainOK /\ FaultsOK
    BY SettlementAssumption DEF Init, SettlementInit, ChainOK, FaultsOK
  <1>3. DBTypeOK
    BY NoPaymentTyped, SettlementAssumption
    DEF Init, SettlementInit, DBTypeOK, LedgerRows, NoTransaction, Links
  <1>4. PollInv
    BY NoPageTyped DEF Init, SettlementInit, PollInv, PollTypeOK, PagesLeft, NoPage
  <1>5. WorkInv
    BY NoPaymentTyped
    DEF Init, SettlementInit, WorkInv, WorkTypeOK, RowsUnjudged, NoPayment
  <1> QED BY <1>1, <1>2, <1>3, <1>4, <1>5, TypeInvParts

(* ... and every step keeps it.                                            *)
LEMMA StepTyped == TypeInv /\ [Next]_vars => TypeInv'
  <1> SUFFICES ASSUME TypeInv, [Next]_vars PROVE TypeInv'
    OBVIOUS
  <1> USE DEF lifecycleVars, dbVars
  <1>0. /\ LifecycleTypeOK /\ ChainOK /\ DBTypeOK
        /\ PollInv /\ WorkInv /\ FaultsOK
    BY TypeInvParts
  <1>1. ASSUME NEW s \in Servers, Monitor(s)
        PROVE  TypeInv'
    BY <1>1, MonitorTyped
  <1>2. ASSUME NEW r \in Requests, ProcessPayment(r)
        PROVE  TypeInv'
    BY <1>2, ProcessPaymentTyped DEF ProcessPayment, Workers
  <1>3. ASSUME NEW r \in Requests, NEW tx \in OpIds, VerifyTransaction(r, tx)
        PROVE  TypeInv'
    <2>1. {o \in Ops : chain[o].tx = tx /\ chain[o].to \in Accounts} \subseteq OpIds
      BY <1>0, SettlementAssumption DEF ChainOK, Ops, OpIds
    <2>2. WorkInv'
      BY <1>0, <1>3, <2>1
      DEF VerifyTransaction, WorkInv, WorkTypeOK, RowsUnjudged, Workers
    <2> QED BY <1>0, <1>3, <2>2, Kept, TypeInvPartsNext DEF VerifyTransaction
  <1>4. ASSUME NEW t \in Transactions, SubmitTransaction(t)
        PROVE  TypeInv'
    BY <1>0, <1>4, SubmitTyped, Kept, TypeInvPartsNext DEF SubmitTransaction
  <1>5. CASE LifecycleNext(Linked) /\ UNCHANGED settlementVars
    BY <1>0, <1>5, LifecycleTyped, Kept, TypeInvPartsNext DEF settlementVars
  <1>6. CASE UNCHANGED vars
    BY <1>0, <1>6, Kept, TypeInvPartsNext DEF vars, settlementVars
  <1> QED BY <1>1, <1>2, <1>3, <1>4, <1>5, <1>6, FaultTyped
          DEF Next, SettlementNext

(* Every table and every process stays within its type, for any number of  *)
(* invoices, accounts, payments, servers and requests.                     *)
THEOREM TypeCorrect == Spec => []TypeOK
  <1>1. Spec => []TypeInv
    BY InitTyped, StepTyped, PTL DEF Spec
  <1>2. TypeInv => TypeOK
    BY DEF TypeInv
  <1> QED BY <1>1, <1>2, PTL
-------------------------------------------------------------------------------
(***************************************************************************)
(* The safety properties of SettlementProperties.  The inductive invariant *)
(* is type correctness, with the two facts TypeInv adds, and               *)
(* PaidExactlyOnce itself: finalize decides on rows it has locked, so the  *)
(* invariant of the tables is all it relies on, and nothing about where    *)
(* the other processes are.                                                *)
(***************************************************************************)
SafetyInv == TypeInv /\ PaidExactlyOnce

Paid(i) == invoice[i].status = "paid"

(* Only finalize lets an invoice become paid; nobody else touches one.     *)
LEMMA FlagKeepsPaid ==
  ASSUME LifecycleTypeOK, NEW j, FlagDetected(j)
  PROVE  \A i \in Invoices : Paid(i)' <=> Paid(i)
  BY DEF FlagDetected, FlaggableStatuses, PayableStatuses, SetStatus, Paid,
         LifecycleTypeOK, InvoiceRows

(* A bulk update of rows not paid, to a status other than paid, changes no  *)
(* invoice from or to paid.                                                *)
LEMMA UpdateRowsKeepsPaid ==
  ASSUME NEW table \in [Invoices -> InvoiceRows], NEW rows, NEW status,
         status # "paid",
         \A j \in rows \cap Invoices : table[j].status # "paid"
  PROVE  \A i \in Invoices :
           UpdateRows(table, rows, status)[i].status = "paid" <=> table[i].status = "paid"
  BY DEF UpdateRows, InvoiceRows

(* Nobody outside the payments package makes an invoice paid or unpaid.    *)
LEMMA LifecycleKeepsPaid ==
  ASSUME LifecycleTypeOK, NEW linked, LifecycleNext(linked)
  PROVE  \A i \in Invoices : Paid(i)' <=> Paid(i)
  <1>0. invoice \in [Invoices -> InvoiceRows]
    BY DEF LifecycleTypeOK
  <1> USE DEF Paid
  <1> DEFINE Goal == \A i \in Invoices : Paid(i)' <=> Paid(i)
  <1>1. ASSUME NEW i \in Invoices, NEW total \in Totals, NEW due \in Days,
               GenerateNewInvoice(i, total, due)
        PROVE  Goal
    BY <1>0, <1>1 DEF GenerateNewInvoice, InvoiceRows
  <1>2. ASSUME NEW i \in Invoices, SendInvoice(i)
        PROVE  Goal
    BY <1>0, <1>2 DEF SendInvoice, SetStatus, InvoiceRows
  <1>3. ASSUME NEW i \in Invoices, NEW approve \in BOOLEAN, ReviewInvoice(i, approve)
        PROVE  Goal
    BY <1>0, <1>3 DEF ReviewInvoice, InvoiceRows
  <1>4. ASSUME NEW i \in Invoices, UpdateInvoiceCheck(i)
        PROVE  Goal
    BY <1>4 DEF UpdateInvoiceCheck
  <1>5. ASSUME NEW i \in Invoices, NEW total \in Totals, NEW due \in Days,
               UpdateInvoiceWrite(i, total, due)
        PROVE  Goal
    BY <1>0, <1>5 DEF UpdateInvoiceWrite, InvoiceRows
  <1>6. ASSUME NEW i \in Invoices, DeleteInvoice(i, linked)
        PROVE  Goal
    BY <1>0, <1>6 DEF DeleteInvoice, SetStatus, InvoiceRows
  <1>7. CASE MarkOverdue
    BY <1>0, <1>7, UpdateRowsKeepsPaid DEF MarkOverdue, NeverOverdue
  <1>8. CASE CancelUnapproved \/ OverdueApproved
    BY <1>0, <1>8, UpdateRowsKeepsPaid
    DEF CancelUnapproved, OverdueApproved, OpenInvoices
  <1>9. CASE NextDay
    BY <1>9 DEF NextDay
  <1> QED BY <1>1, <1>2, <1>3, <1>4, <1>5, <1>6, <1>7, <1>8, <1>9
          DEF LifecycleNext

(* The invariant only looks at which invoices are paid and which payments  *)
(* are verified.                                                           *)
LEMMA PaidOnceKept ==
  ASSUME PaidExactlyOnce,
         \A i \in Invoices : VerifiedFor(i)' = VerifiedFor(i),
         \A i \in Invoices : Paid(i)' <=> Paid(i)
  PROVE  PaidExactlyOnce'
  BY DEF PaidExactlyOnce, Paid

(* A row that becomes recorded without being verified changes no           *)
(* VerifiedFor.                                                            *)
LEMMA RecordingVerifiesNothing ==
  ASSUME DBTypeOK, NEW o \in OpIds, NEW new, new.status # "verified",
         payments[o].status # "verified",
         payments' = [payments EXCEPT ![o] = new]
  PROVE  \A i \in Invoices : VerifiedFor(i)' = VerifiedFor(i)
  BY DEF DBTypeOK, VerifiedFor

(* What finalize does to the two tables.                                   *)
LEMMA FinalizeEffect ==
  ASSUME TypeInv, NEW w \in Workers, NEW o \in OpIds, Finalize(w, o)
  PROVE  /\ payments[o].status \notin FinalStatuses
         /\ payments'[o].status \in FinalStatuses
         /\ payments'[o].link = payments[o].link
         /\ \A q \in OpIds \ {o} : payments'[q] = payments[q]
         /\ \/ /\ payments'[o].status = "verified"
               /\ payments[o].link \in Invoices
               /\ Exists(payments[o].link)
               /\ invoice[payments[o].link].status \in PayableStatuses
               /\ SetStatus(payments[o].link, "paid")
            \/ /\ payments'[o].status # "verified"
               /\ \/ UNCHANGED invoice
                  \/ /\ invoice[payments[o].link].status = "payment_detected"
                     /\ SetStatus(payments[o].link, "invalid_payment")
  <1> DEFINE i == payments[o].link
             v == Judge([chain[o] EXCEPT !.ok = TRUE], i)
  <1>1. payments \in [OpIds -> PaymentRows] /\ payments[o] \in PaymentRows
    BY TypeInvParts DEF DBTypeOK
  <1>2. v.status \in FinalStatuses
    BY VerdictTyped DEF Judge, FinalStatuses
  <1>3. payments' = [payments EXCEPT ![o].status = v.status, ![o].code = v.code]
    BY DEF Finalize
  <1>4. payments[o].status \notin FinalStatuses
    BY DEF Finalize, Unfinished, FinalStatuses
  <1>5. /\ payments'[o].status = v.status
        /\ payments'[o].link = payments[o].link
        /\ \A q \in OpIds \ {o} : payments'[q] = payments[q]
    <2> HIDE DEF v
    <2> QED BY <1>1, <1>3 DEF PaymentRows
  <1>6. CASE v.status = "verified"
    <2>1. InvoiceView(i) # NoInvoice /\ InvoiceView(i).status \in PayableStatuses
      BY <1>6, VerifiedIsPayable DEF Judge
    <2>2. i \in Invoices /\ Exists(i) /\ invoice[i].status \in PayableStatuses
      BY <2>1, ViewIsOfInvoice
    <2>3. SetStatus(i, "paid")
      BY <1>6 DEF Finalize
    <2> HIDE DEF v
    <2> QED BY <1>2, <1>4, <1>5, <1>6, <2>2, <2>3
  <1>7. CASE v.status # "verified"
    <2>1. \/ UNCHANGED invoice
          \/ /\ invoice[i].status = "payment_detected"
             /\ SetStatus(i, "invalid_payment")
      BY <1>7 DEF Finalize
    <2> HIDE DEF v
    <2> QED BY <1>2, <1>4, <1>5, <1>7, <2>1
  <1> QED BY <1>6, <1>7

(* finalize pays an invoice only when no payment is verified for it.       *)
LEMMA FinalizePaysOnce ==
  ASSUME SafetyInv, NEW w \in Workers, NEW o \in OpIds, Finalize(w, o)
  PROVE  PaidExactlyOnce'
  <1>0. TypeInv /\ PaidExactlyOnce /\ invoice \in [Invoices -> InvoiceRows]
    BY TypeInvParts DEF SafetyInv, LifecycleTypeOK
  <1> PICK i : i = payments[o].link
    OBVIOUS
  <1>1. /\ payments[o].status # "verified"
        /\ payments'[o].link = i
        /\ \A q \in OpIds \ {o} : payments'[q] = payments[q]
    BY <1>0, FinalizeEffect DEF FinalStatuses
  <1>2. CASE payments'[o].status = "verified"
    <2>1. /\ i \in Invoices /\ SetStatus(i, "paid")
          /\ invoice[i].status \in PayableStatuses
      BY <1>0, <1>2, FinalizeEffect
    <2>2. VerifiedFor(i) = {}
      BY <1>0, <2>1 DEF PaidExactlyOnce, PayableStatuses
    <2>3. VerifiedFor(i)' = {o}
      BY <1>1, <1>2, <2>2 DEF VerifiedFor
    <2>4. \A j \in Invoices \ {i} : VerifiedFor(j)' = VerifiedFor(j)
      BY <1>1 DEF VerifiedFor
    <2>5. /\ invoice'[i].status = "paid"
          /\ \A j \in Invoices \ {i} : invoice'[j] = invoice[j]
      BY <1>0, <2>1 DEF SetStatus, InvoiceRows
    <2>6. ASSUME NEW j \in Invoices
          PROVE  /\ invoice'[j].status = "paid" <=> VerifiedFor(j)' # {}
                 /\ \A o1, o2 \in VerifiedFor(j)' : o1 = o2
      <3>1. CASE j = i
        BY <2>3, <2>5, <3>1
      <3>2. CASE j # i
        BY <1>0, <2>4, <2>5, <3>2 DEF PaidExactlyOnce
      <3> QED BY <3>1, <3>2
    <2> QED BY <2>6 DEF PaidExactlyOnce
  <1>3. CASE payments'[o].status # "verified"
    <2>1. \A j \in Invoices : VerifiedFor(j)' = VerifiedFor(j)
      BY <1>1, <1>3 DEF VerifiedFor
    <2>2. \/ UNCHANGED invoice
          \/ /\ invoice[i].status = "payment_detected"
             /\ SetStatus(i, "invalid_payment")
      BY <1>0, <1>3, FinalizeEffect
    <2>3. \A j \in Invoices : Paid(j)' <=> Paid(j)
      BY <1>0, <2>2 DEF SetStatus, Paid, InvoiceRows
    <2> QED BY <1>0, <2>1, <2>3, PaidOnceKept
  <1> QED BY <1>2, <1>3

(* Every step of processPayment keeps one verified payment per paid one.   *)
LEMMA ProcessPaymentPaysOnce ==
  ASSUME SafetyInv, NEW w \in Workers, ProcessPayment(w)
  PROVE  PaidExactlyOnce'
  <1>0. /\ TypeInv /\ PaidExactlyOnce /\ LifecycleTypeOK /\ DBTypeOK /\ WorkInv
    BY TypeInvParts DEF SafetyInv
  <1>1. PICK o \in OpIds :
          \/ LoadInvoice(w, o) \/ InsertSettled(w, o) \/ InsertDetected(w, o)
          \/ InsertFails(w, o) \/ InsertConflicts(w, o) \/ Reflag(w, o)
          \/ Finalize(w, o) \/ FinalizeNothing(w, o)
    BY DEF ProcessPayment
  <1>2. ASSUME UNCHANGED <<payments, invoice>>
        PROVE  PaidExactlyOnce'
    BY <1>0, <1>2, PaidOnceKept DEF VerifiedFor, Paid
  <1>3. CASE \/ LoadInvoice(w, o) \/ InsertFails(w, o) \/ InsertConflicts(w, o)
             \/ FinalizeNothing(w, o)
    BY <1>2, <1>3
    DEF LoadInvoice, InsertFails, InsertConflicts, FinalizeNothing, dbVars,
        lifecycleVars
  <1>4. CASE InsertSettled(w, o)
    <2>1. row[w].status # "verified" /\ payments[o].status # "verified"
      BY <1>0, <1>4 DEF WorkInv, RowsUnjudged, InsertSettled, Recorded
    <2>2. \A i \in Invoices : VerifiedFor(i)' = VerifiedFor(i)
      BY <1>0, <1>4, <2>1, RecordingVerifiesNothing DEF InsertSettled
    <2> QED BY <1>0, <1>4, <2>2, PaidOnceKept DEF InsertSettled, lifecycleVars, Paid
  <1>5. CASE InsertDetected(w, o)
    <2>1. row[w].status # "verified" /\ payments[o].status # "verified"
      BY <1>5 DEF InsertDetected, Recorded
    <2>2. \A i \in Invoices : VerifiedFor(i)' = VerifiedFor(i)
      BY <1>0, <1>5, <2>1, RecordingVerifiesNothing DEF InsertDetected
    <2> QED BY <1>0, <1>5, <2>2, FlagKeepsPaid, PaidOnceKept DEF InsertDetected
  <1>6. CASE Reflag(w, o)
    <2>1. \A i \in Invoices : VerifiedFor(i)' = VerifiedFor(i)
      BY <1>6 DEF Reflag, dbVars, VerifiedFor
    <2> QED BY <1>0, <1>6, <2>1, FlagKeepsPaid, PaidOnceKept DEF Reflag
  <1>7. CASE Finalize(w, o)
    BY <1>7, FinalizePaysOnce
  <1> QED BY <1>1, <1>3, <1>4, <1>5, <1>6, <1>7

(* The safety invariant holds at the start ...                             *)
LEMMA SafetyInit == Init => SafetyInv
  <1> SUFFICES ASSUME Init PROVE SafetyInv
    OBVIOUS
  <1>1. \A i \in Invoices : VerifiedFor(i) = {} /\ invoice[i].status # "paid"
    BY DEF Init, SettlementInit, LifecycleInit, VerifiedFor, NoPayment
  <1> QED BY <1>1, InitTyped DEF SafetyInv, PaidExactlyOnce

(* ... and every step keeps it.                                            *)
LEMMA SafetyStep == SafetyInv /\ [Next]_vars => SafetyInv'
  <1> SUFFICES ASSUME SafetyInv, [Next]_vars PROVE PaidExactlyOnce'
    BY StepTyped DEF SafetyInv
  <1>0. TypeInv /\ PaidExactlyOnce /\ LifecycleTypeOK
    BY TypeInvParts DEF SafetyInv
  <1>1. ASSUME UNCHANGED <<payments, invoice>>
        PROVE  PaidExactlyOnce'
    BY <1>0, <1>1, PaidOnceKept DEF VerifiedFor, Paid
  <1>2. ASSUME NEW s \in Servers, Monitor(s)
        PROVE  PaidExactlyOnce'
    <2>1. CASE ExpireInvoices(s)
      <3>1. \A i \in Invoices : VerifiedFor(i)' = VerifiedFor(i)
        BY <2>1 DEF ExpireInvoices, dbVars, VerifiedFor
      <3>2. \A i \in Invoices : Paid(i)' <=> Paid(i)
        BY <1>0, <2>1, UpdateRowsKeepsPaid
        DEF ExpireInvoices, Paid, LifecycleTypeOK
      <3> QED BY <1>0, <3>1, <3>2, PaidOnceKept
    <2>2. CASE ProcessPayment(s)
      BY <2>2, ProcessPaymentPaysOnce DEF Workers
    <2>3. CASE \/ Poll(s) \/ (\E a \in Accounts : PollAccount(s, a)) \/ NextPage(s)
               \/ SaveCursor(s) \/ EndPoll(s) \/ RecoverUnfinished(s) \/ EndRecover(s)
      BY <1>1, <2>3
      DEF Poll, PollAccount, NextPage, SaveCursor, EndPoll, RecoverUnfinished,
          EndRecover, dbVars, lifecycleVars
    <2> QED BY <1>2, <2>1, <2>2, <2>3 DEF Monitor
  <1>3. ASSUME NEW r \in Requests, ProcessPayment(r)
        PROVE  PaidExactlyOnce'
    BY <1>3, ProcessPaymentPaysOnce DEF Workers
  <1>4. CASE \/ \E r \in Requests, tx \in OpIds : VerifyTransaction(r, tx)
             \/ \E t \in Transactions : SubmitTransaction(t)
             \/ \E w \in Workers, o \in OpIds : Fails(w, o)
             \/ \E s \in Servers : StageFails(s)
             \/ \E s \in Servers : Crash(s)
             \/ LoseLock
    BY <1>1, <1>4
    DEF VerifyTransaction, SubmitTransaction, Fails, StageFails, Crash, LoseLock,
        dbVars, lifecycleVars
  <1>5. CASE LifecycleNext(Linked) /\ UNCHANGED settlementVars
    <2>1. \A i \in Invoices : VerifiedFor(i)' = VerifiedFor(i)
      BY <1>5 DEF settlementVars, dbVars, VerifiedFor
    <2>2. \A i \in Invoices : Paid(i)' <=> Paid(i)
      BY <1>0, <1>5, LifecycleKeepsPaid
    <2> QED BY <1>0, <2>1, <2>2, PaidOnceKept
  <1>6. CASE UNCHANGED vars
    BY <1>1, <1>6 DEF vars, settlementVars, dbVars, lifecycleVars
  <1> QED BY <1>2, <1>3, <1>4, <1>5, <1>6 DEF Next, SettlementNext

(* An invoice is paid exactly when one payment is verified for it and no   *)
(* second one ever is, whatever polls, requests, recoveries, edits and     *)
(* crashes interleave, for any number of each.                             *)
THEOREM PaidOnce == Spec => []PaidExactlyOnce
  <1>1. SafetyInv => PaidExactlyOnce
    BY DEF SafetyInv
  <1> QED BY <1>1, SafetyInit, SafetyStep, PTL DEF Spec

-------------------------------------------------------------------------------
(* The only steps that write the payments table.                           *)
LEMMA PaymentsWriters ==
  ASSUME [Next]_vars, payments' # payments
  PROVE  \E w \in Workers, o \in OpIds :
           InsertSettled(w, o) \/ InsertDetected(w, o) \/ Finalize(w, o)
  <1> USE DEF dbVars, lifecycleVars
  <1>1. ASSUME NEW w \in Workers, ProcessPayment(w)
        PROVE  \E o \in OpIds :
                 InsertSettled(w, o) \/ InsertDetected(w, o) \/ Finalize(w, o)
    BY <1>1
    DEF ProcessPayment, LoadInvoice, InsertFails, InsertConflicts, Reflag,
        FinalizeNothing
  <1>2. ASSUME NEW s \in Servers, Monitor(s)
        PROVE  ProcessPayment(s)
    BY <1>2
    DEF Monitor, Poll, PollAccount, NextPage, SaveCursor, EndPoll,
        RecoverUnfinished, EndRecover, ExpireInvoices
  <1>3. PICK w \in Workers : ProcessPayment(w)
    <2>1. (\E s \in Servers : Monitor(s)) \/ (\E r \in Requests : ProcessPayment(r))
      BY DEF Next, SettlementNext, VerifyTransaction, SubmitTransaction, Fails,
             StageFails, Crash, LoseLock, vars, settlementVars
    <2> QED BY <1>2, <2>1 DEF Workers
  <1> QED BY <1>1, <1>3

(* How a write of the payments table changes one row, and only one.        *)
LEMMA PaymentsEffect ==
  ASSUME TypeInv, [Next]_vars, payments' # payments
  PROVE  \E o \in OpIds :
           /\ payments[o].status \notin FinalStatuses
           /\ \A q \in OpIds \ {o} : payments'[q] = payments[q]
           /\ ~Recorded(o) \/ payments'[o].link = payments[o].link
  <1>0. DBTypeOK
    BY TypeInvParts
  <1>1. PICK w \in Workers, o \in OpIds :
          InsertSettled(w, o) \/ InsertDetected(w, o) \/ Finalize(w, o)
    BY PaymentsWriters
  <1>2. CASE InsertSettled(w, o) \/ InsertDetected(w, o)
    BY <1>0, <1>2
    DEF InsertSettled, InsertDetected, Recorded, FinalStatuses, DBTypeOK
  <1>3. CASE Finalize(w, o)
    BY <1>3, FinalizeEffect
  <1> QED BY <1>1, <1>2, <1>3

(* A verdict, once given, is never changed, and a payment never moves to   *)
(* another invoice: reprocessing, recovery and further servers included.   *)
THEOREM VerdictsFinal == Spec => VerdictsAreFinal
  <1> DEFINE RowsFinal ==
        \A o \in OpIds :
          /\ Settled(o) => payments'[o] = payments[o]
          /\ Recorded(o) => payments'[o].link = payments[o].link
  <1>1. TypeInv /\ [Next]_vars => [RowsFinal]_payments
    <2> SUFFICES ASSUME TypeInv, [Next]_vars, payments' # payments PROVE RowsFinal
      OBVIOUS
    <2>1. PICK o \in OpIds :
            /\ payments[o].status \notin FinalStatuses
            /\ \A q \in OpIds \ {o} : payments'[q] = payments[q]
            /\ ~Recorded(o) \/ payments'[o].link = payments[o].link
      BY PaymentsEffect
    <2> QED BY <2>1 DEF Settled
  <1>2. Spec => []TypeInv
    BY InitTyped, StepTyped, PTL DEF Spec
  <1> QED BY <1>1, <1>2, PTL DEF Spec, VerdictsAreFinal

-------------------------------------------------------------------------------
(* What ClosedInvoicesStayClosed says of one step.                         *)
ClosedKept ==
  \A i \in Invoices :
    /\ invoice[i].status = "paid" => invoice'[i].status = "paid"
    /\ invoice[i].status \in {"expired", "cancelled"} =>
         invoice'[i].status \in {invoice[i].status, "deleted"}

(* A bulk update that spares closed rows leaves their status alone.        *)
LEMMA UpdateRowsKeepsClosed ==
  ASSUME NEW table \in [Invoices -> InvoiceRows], NEW rows, NEW status,
         \A j \in rows \cap Invoices :
           table[j].status \notin {"paid", "expired", "cancelled"}
  PROVE  \A i \in Invoices :
           table[i].status \in {"paid", "expired", "cancelled"} =>
             UpdateRows(table, rows, status)[i].status = table[i].status
  BY DEF UpdateRows, InvoiceRows

(* Nobody outside the payments package reopens a closed invoice.           *)
LEMMA LifecycleKeepsClosed ==
  ASSUME LifecycleTypeOK, NEW linked, LifecycleNext(linked)
  PROVE  ClosedKept
  <1>0. invoice \in [Invoices -> InvoiceRows]
    BY DEF LifecycleTypeOK
  <1> USE DEF ClosedKept
  <1>1. ASSUME NEW i \in Invoices, NEW total \in Totals, NEW due \in Days,
               GenerateNewInvoice(i, total, due)
        PROVE  ClosedKept
    BY <1>0, <1>1 DEF GenerateNewInvoice, InvoiceRows
  <1>2. ASSUME NEW i \in Invoices, SendInvoice(i)
        PROVE  ClosedKept
    BY <1>0, <1>2 DEF SendInvoice, SetStatus, InvoiceRows
  <1>3. ASSUME NEW i \in Invoices, NEW approve \in BOOLEAN, ReviewInvoice(i, approve)
        PROVE  ClosedKept
    BY <1>0, <1>3 DEF ReviewInvoice, InvoiceRows
  <1>4. ASSUME NEW i \in Invoices, UpdateInvoiceCheck(i)
        PROVE  ClosedKept
    BY <1>4 DEF UpdateInvoiceCheck
  <1>5. ASSUME NEW i \in Invoices, NEW total \in Totals, NEW due \in Days,
               UpdateInvoiceWrite(i, total, due)
        PROVE  ClosedKept
    BY <1>0, <1>5 DEF UpdateInvoiceWrite, InvoiceRows
  <1>6. ASSUME NEW i \in Invoices, DeleteInvoice(i, linked)
        PROVE  ClosedKept
    BY <1>0, <1>6 DEF DeleteInvoice, SetStatus, InvoiceRows
  <1>7. CASE MarkOverdue
    BY <1>0, <1>7, UpdateRowsKeepsClosed DEF MarkOverdue, NeverOverdue
  <1>8. CASE CancelUnapproved \/ OverdueApproved
    BY <1>0, <1>8, UpdateRowsKeepsClosed
    DEF CancelUnapproved, OverdueApproved, OpenInvoices
  <1>9. CASE NextDay
    BY <1>9 DEF NextDay
  <1> QED BY <1>1, <1>2, <1>3, <1>4, <1>5, <1>6, <1>7, <1>8, <1>9
          DEF LifecycleNext

(* No step at all reopens a closed invoice.                                *)
LEMMA StepKeepsClosed ==
  ASSUME TypeInv, [Next]_vars
  PROVE  ClosedKept
  <1>0. LifecycleTypeOK /\ invoice \in [Invoices -> InvoiceRows]
    BY TypeInvParts DEF LifecycleTypeOK
  <1> USE DEF dbVars, lifecycleVars
  <1>1. UNCHANGED invoice => ClosedKept
    BY DEF ClosedKept
  <1>2. ASSUME NEW w \in Workers, ProcessPayment(w)
        PROVE  ClosedKept
    <2>1. PICK o \in OpIds :
            \/ LoadInvoice(w, o) \/ InsertSettled(w, o) \/ InsertDetected(w, o)
            \/ InsertFails(w, o) \/ InsertConflicts(w, o) \/ Reflag(w, o)
            \/ Finalize(w, o) \/ FinalizeNothing(w, o)
      BY <1>2 DEF ProcessPayment
    <2>2. CASE InsertDetected(w, o) \/ Reflag(w, o)
      BY <1>0, <2>2
      DEF InsertDetected, Reflag, FlagDetected, FlaggableStatuses,
          PayableStatuses, SetStatus, ClosedKept, InvoiceRows
    <2>3. CASE Finalize(w, o)
      <3>1. PICK i : i = payments[o].link
        OBVIOUS
      <3>2. \/ UNCHANGED invoice
            \/ invoice[i].status \in PayableStatuses /\ SetStatus(i, "paid")
            \/ /\ invoice[i].status = "payment_detected"
               /\ SetStatus(i, "invalid_payment")
        BY <2>3, <3>1, FinalizeEffect
      <3> QED BY <1>0, <3>2 DEF PayableStatuses, SetStatus, ClosedKept, InvoiceRows
    <2>4. CASE \/ LoadInvoice(w, o) \/ InsertSettled(w, o) \/ InsertFails(w, o)
               \/ InsertConflicts(w, o) \/ FinalizeNothing(w, o)
      BY <1>1, <2>4
      DEF LoadInvoice, InsertSettled, InsertFails, InsertConflicts, FinalizeNothing
    <2> QED BY <2>1, <2>2, <2>3, <2>4
  <1>3. ASSUME NEW s \in Servers, Monitor(s)
        PROVE  ClosedKept
    <2>1. CASE ExpireInvoices(s)
      BY <1>0, <2>1, UpdateRowsKeepsClosed DEF ExpireInvoices, ClosedKept
    <2>2. CASE ProcessPayment(s)
      BY <1>2, <2>2 DEF Workers
    <2>3. CASE \/ Poll(s) \/ (\E a \in Accounts : PollAccount(s, a)) \/ NextPage(s)
               \/ SaveCursor(s) \/ EndPoll(s) \/ RecoverUnfinished(s) \/ EndRecover(s)
      BY <1>1, <2>3
      DEF Poll, PollAccount, NextPage, SaveCursor, EndPoll, RecoverUnfinished,
          EndRecover
    <2> QED BY <1>3, <2>1, <2>2, <2>3 DEF Monitor
  <1>4. ASSUME NEW r \in Requests, ProcessPayment(r)
        PROVE  ClosedKept
    BY <1>2, <1>4 DEF Workers
  <1>5. CASE LifecycleNext(Linked) /\ UNCHANGED settlementVars
    BY <1>0, <1>5, LifecycleKeepsClosed
  <1>6. CASE \/ \E r \in Requests, tx \in OpIds : VerifyTransaction(r, tx)
             \/ \E t \in Transactions : SubmitTransaction(t)
             \/ \E w \in Workers, o \in OpIds : Fails(w, o)
             \/ \E s \in Servers : StageFails(s)
             \/ \E s \in Servers : Crash(s)
             \/ LoseLock
             \/ UNCHANGED vars
    BY <1>1, <1>6
    DEF VerifyTransaction, SubmitTransaction, Fails, StageFails, Crash, LoseLock,
        vars
  <1> QED BY <1>3, <1>4, <1>5, <1>6 DEF Next, SettlementNext

(* No writer of invoice.status takes a paid invoice back or revives an     *)
(* expired or cancelled one.                                               *)
THEOREM ClosedStayClosed == Spec => ClosedInvoicesStayClosed
  <1>1. TypeInv /\ [Next]_vars => [ClosedKept]_invoice
    BY StepKeepsClosed
  <1>2. Spec => []TypeInv
    BY InitTyped, StepTyped, PTL DEF Spec
  <1>3. Spec => [][ClosedKept]_invoice
    BY <1>1, <1>2, PTL DEF Spec
  <1> QED BY <1>3 DEF ClosedInvoicesStayClosed, ClosedKept

-------------------------------------------------------------------------------
(***************************************************************************)
(* PaymentSettlement implements SettlementContract.  Under the mapping of  *)
(* SettlementProperties an insert is Record or Reject, finalize is Accept  *)
(* or Reject, and every other step leaves the contract's state alone.      *)
(***************************************************************************)

OutcomeMap == [o \in OpIds |-> Outcome(o)]
PaidByMap == [i \in Invoices |-> VerifiedFor(i)]
PaidMap == [i \in Invoices |-> invoice[i].status = "paid"]

(* What leaves invoice.status = paid alone leaves the abstract paid alone.  *)
LEMMA PaidMapKept ==
  ASSUME \A i \in Invoices : Paid(i)' <=> Paid(i)
  PROVE  PaidMap' = PaidMap
  <1>1. \A i \in Invoices :
          (invoice'[i].status = "paid") = (invoice[i].status = "paid")
    BY DEF Paid
  <1> QED BY <1>1 DEF PaidMap

(* Likewise for the payments accepted for each invoice.                    *)
LEMMA PaidByKept ==
  ASSUME \A i \in Invoices : VerifiedFor(i)' = VerifiedFor(i)
  PROVE  PaidByMap' = PaidByMap
  BY DEF PaidByMap

(* One payment row changes, so one outcome does.                           *)
LEMMA OutcomeStep ==
  ASSUME NEW o \in OpIds, NEW out, Outcome(o)' = out,
         \A q \in OpIds \ {o} : payments'[q] = payments[q]
  PROVE  OutcomeMap' = [OutcomeMap EXCEPT ![o] = out]
  <1>1. \A q \in OpIds \ {o} : Outcome(q)' = Outcome(q)
    BY DEF Outcome
  <1>2. OutcomeMap' = [q \in OpIds |-> Outcome(q)']
    BY DEF OutcomeMap
  <1>3. [OutcomeMap EXCEPT ![o] = out] =
          [q \in OpIds |-> IF q = o THEN out ELSE Outcome(q)]
    BY DEF OutcomeMap
  <1> QED BY <1>1, <1>2, <1>3

(* An initial state maps to an initial state of the contract.              *)
LEMMA ContractInit == Init => Contract!Init
  <1> SUFFICES ASSUME Init PROVE Contract!Init
    OBVIOUS
  <1>1. \A o \in OpIds : payments[o].status = "none"
    BY DEF Init, SettlementInit, NoPayment
  <1>2. \A i \in Invoices : invoice[i].status # "paid"
    BY DEF Init, LifecycleInit
  <1>3. OutcomeMap = [o \in OpIds |-> "unseen"]
    BY <1>1 DEF OutcomeMap, Outcome
  <1>4. PaidByMap = [i \in Invoices |-> {}]
    BY <1>1 DEF PaidByMap, VerifiedFor
  <1>5. PaidMap = [i \in Invoices |-> FALSE]
    BY <1>2 DEF PaidMap
  <1> QED BY <1>3, <1>4, <1>5 DEF Contract!Init, OutcomeMap, PaidByMap, PaidMap

(* A step that writes no payment row and pays no invoice is a stutter.     *)
LEMMA ContractStutter ==
  ASSUME UNCHANGED payments, \A i \in Invoices : Paid(i)' <=> Paid(i)
  PROVE  UNCHANGED Contract!vars
  <1>1. OutcomeMap' = OutcomeMap
    BY DEF OutcomeMap, Outcome
  <1>2. PaidByMap' = PaidByMap
    BY PaidByKept DEF VerifiedFor
  <1>3. PaidMap' = PaidMap
    BY PaidMapKept
  <1> QED BY <1>1, <1>2, <1>3 DEF Contract!vars, OutcomeMap, PaidByMap, PaidMap

(* Inserting a payment row is Record or Reject of the contract.            *)
LEMMA ContractInsert ==
  ASSUME TypeInv, NEW w \in Workers, NEW o \in OpIds,
         InsertSettled(w, o) \/ InsertDetected(w, o)
  PROVE  Contract!Next
  <1>0. DBTypeOK /\ LifecycleTypeOK /\ WorkInv
    BY TypeInvParts
  <1> PICK out : out = Outcome(o)'
    OBVIOUS
  <1>1. /\ payments' = [payments EXCEPT ![o] = row[w]]
        /\ payments[o].status = "none"
        /\ row[w].status \in {"none", "failed", "unmatched", "detected"}
    BY <1>0
    DEF InsertSettled, InsertDetected, Recorded, WorkInv, RowsUnjudged
  <1>2. payments'[o] = row[w] /\ \A q \in OpIds \ {o} : payments'[q] = payments[q]
    BY <1>0, <1>1 DEF DBTypeOK
  <1>3. OutcomeMap' = [OutcomeMap EXCEPT ![o] = out]
    BY <1>2, OutcomeStep
  <1>4. PaidByMap' = PaidByMap
    BY <1>0, <1>1, RecordingVerifiesNothing, PaidByKept
  <1>5. PaidMap' = PaidMap
    BY <1>0, FlagKeepsPaid, PaidMapKept
    DEF InsertSettled, InsertDetected, lifecycleVars, Paid
  <1>6. OutcomeMap[o] = "unseen"
    BY <1>1 DEF OutcomeMap, Outcome
  <1>7. CASE InsertDetected(w, o)
    <2>1. out = "open"
      BY <1>2, <1>7 DEF Outcome, InsertDetected
    <2>2. Contract!Record(o)
      BY <1>3, <1>4, <1>5, <1>6, <2>1
      DEF Contract!Record, OutcomeMap, PaidByMap, PaidMap
    <2> QED BY <2>2 DEF Contract!Next
  <1>8. CASE InsertSettled(w, o) /\ row[w].status # "none"
    <2>1. out = "rejected"
      BY <1>1, <1>2, <1>8 DEF Outcome, InsertSettled
    <2>2. Contract!Reject(o)
      BY <1>3, <1>4, <1>5, <1>6, <2>1
      DEF Contract!Reject, OutcomeMap, PaidByMap, PaidMap
    <2> QED BY <2>2 DEF Contract!Next
  <1>9. InsertSettled(w, o) => row[w].status # "none"
    BY <1>0 DEF InsertSettled, WorkInv, RowsUnjudged
  <1> QED BY <1>7, <1>8, <1>9

(* finalize is Accept or Reject of the contract.                           *)
LEMMA ContractFinalize ==
  ASSUME SafetyInv, NEW w \in Workers, NEW o \in OpIds, Finalize(w, o)
  PROVE  Contract!Next
  <1>0. /\ TypeInv /\ PaidExactlyOnce /\ PaidExactlyOnce'
        /\ invoice \in [Invoices -> InvoiceRows]
    BY TypeInvParts, FinalizePaysOnce DEF SafetyInv, LifecycleTypeOK
  <1> PICK out : out = Outcome(o)'
    OBVIOUS
  <1> PICK i : i = payments[o].link
    OBVIOUS
  <1>1. /\ payments[o].status \in {"pending", "detected"}
        /\ payments'[o].status \in FinalStatuses
        /\ payments'[o].link = i
        /\ \A q \in OpIds \ {o} : payments'[q] = payments[q]
    BY <1>0, FinalizeEffect DEF Finalize, Unfinished
  <1>2. OutcomeMap[o] = "open"
    BY <1>1 DEF OutcomeMap, Outcome
  <1>3. OutcomeMap' = [OutcomeMap EXCEPT ![o] = out]
    BY <1>1, OutcomeStep
  <1>4. CASE payments'[o].status = "verified"
    <2>1. /\ i \in Invoices /\ SetStatus(i, "paid")
          /\ invoice[i].status \in PayableStatuses
      BY <1>0, <1>4, FinalizeEffect
    <2>2. out = "accepted"
      BY <1>4 DEF Outcome
    <2>3. ~Paid(i) /\ VerifiedFor(i) = {}
      BY <1>0, <2>1 DEF PaidExactlyOnce, PayableStatuses, Paid
    <2>4. VerifiedFor(i)' = {o} /\ \A j \in Invoices \ {i} : VerifiedFor(j)' = VerifiedFor(j)
      BY <1>1, <1>4, <2>3 DEF VerifiedFor
    <2>5. PaidByMap' = [PaidByMap EXCEPT ![i] = {o}]
      <3>1. PaidByMap' = [j \in Invoices |-> VerifiedFor(j)']
        BY DEF PaidByMap
      <3>2. [PaidByMap EXCEPT ![i] = {o}] =
              [j \in Invoices |-> IF j = i THEN {o} ELSE VerifiedFor(j)]
        BY DEF PaidByMap
      <3>3. \A j \in Invoices :
              VerifiedFor(j)' = IF j = i THEN {o} ELSE VerifiedFor(j)
        BY <2>4
      <3> QED BY <3>1, <3>2, <3>3
    <2>6. /\ invoice'[i].status = "paid"
          /\ \A j \in Invoices \ {i} : invoice'[j] = invoice[j]
      BY <1>0, <2>1 DEF SetStatus, InvoiceRows
    <2>7. PaidMap' = [PaidMap EXCEPT ![i] = TRUE]
      BY <2>1, <2>6 DEF PaidMap
    <2>8. PaidMap[i] = FALSE /\ PaidByMap[i] = {}
      BY <2>1, <2>3 DEF PaidMap, PaidByMap, Paid
    <2>9. Contract!Accept(o, i)
      BY <1>2, <1>3, <2>2, <2>5, <2>7, <2>8
      DEF Contract!Accept, OutcomeMap, PaidByMap, PaidMap
    <2> QED BY <2>1, <2>9 DEF Contract!Next
  <1>5. CASE payments'[o].status # "verified"
    <2>1. out = "rejected"
      BY <1>1, <1>5 DEF Outcome, FinalStatuses
    <2>2. \A j \in Invoices : VerifiedFor(j)' = VerifiedFor(j)
      BY <1>1, <1>5 DEF VerifiedFor
    <2>3. \A j \in Invoices : Paid(j)' <=> Paid(j)
      BY <1>0, <2>2 DEF PaidExactlyOnce, Paid
    <2>4. Contract!Reject(o)
      BY <1>2, <1>3, <2>1, <2>2, <2>3, PaidByKept, PaidMapKept
      DEF Contract!Reject, OutcomeMap, PaidByMap, PaidMap
    <2> QED BY <2>4 DEF Contract!Next
  <1> QED BY <1>4, <1>5

(* Every step is a step of the contract or leaves its variables alone.     *)
LEMMA ContractStep ==
  ASSUME SafetyInv, [Next]_vars
  PROVE  [Contract!Next]_Contract!vars
  <1>0. /\ TypeInv /\ PaidExactlyOnce /\ PaidExactlyOnce'
    BY SafetyStep DEF SafetyInv
  <1>1. CASE payments' = payments
    <2>1. \A i \in Invoices : VerifiedFor(i)' = VerifiedFor(i)
      BY <1>1 DEF VerifiedFor
    <2>2. \A i \in Invoices : Paid(i)' <=> Paid(i)
      BY <1>0, <2>1 DEF PaidExactlyOnce, Paid
    <2> QED BY <1>1, <2>2, ContractStutter
  <1>2. CASE payments' # payments
    BY <1>0, <1>2, PaymentsWriters, ContractInsert, ContractFinalize
  <1> QED BY <1>1, <1>2

(* The payments package implements the contract: one final verdict per     *)
(* payment, and an invoice paid by exactly the one payment accepted for it *)
(* in the same step.                                                       *)
THEOREM Implements == Spec => ImplementsContract
  <1>1. Spec => []SafetyInv
    BY SafetyInit, SafetyStep, PTL DEF Spec
  <1>2. SafetyInv /\ [Next]_vars => [Contract!Next]_Contract!vars
    BY ContractStep
  <1> QED BY <1>1, <1>2, ContractInit, PTL DEF Spec, ImplementsContract, Contract!Spec
=============================================================================
