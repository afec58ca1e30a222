------------------------ MODULE SettlementRecords_proofs ------------------------
(***************************************************************************)
(* What the records of payments say, in every reachable state: which       *)
(* invoice a row names and why, that a duplicate has its original, that    *)
(* nothing before a saved cursor is missing and that the wallet history    *)
(* agrees.  Unlike PaidExactlyOnce none of this can be seen in the tables  *)
(* alone: a process carries a row, an operation or a page from one step to *)
(* the next, so the invariant says for each of them what it still stands   *)
(* for while the others go on.                                             *)
(***************************************************************************)
EXTENDS PaymentSettlement_proofs

Addressed(o, i) == Recipient[i] # NoRecipient /\ chain[o].to = Recipient[i]

(* What a row, inserted or about to be, says of the operation o.           *)
RowFits(o, r) ==
  /\ r.status = "failed" <=> ~chain[o].ok
  /\ r.link # NoInvoice => chain[o].memo = r.link /\ r.status # "unmatched"
  /\ r.status \in {"pending", "detected"} =>
       r.link \in Invoices /\ (Paid(r.link) \/ Addressed(o, r.link))
  /\ r.status # "invalid" => r.code # "duplicate"

RecordFits(o) ==
  IF Recorded(o)
  THEN /\ o \in Ops /\ chain[o].to \in Accounts
       /\ RowFits(o, payments[o])
       /\ payments[o].link # NoInvoice => Exists(payments[o].link)
  ELSE payments[o] = NoPayment

RecordsFit == \A o \in OpIds : RecordFits(o)

(* What a process has in its queue and in its hands.                       *)
AtWork(w) ==
  /\ \A o \in queue[w] : o \in Ops /\ chain[o].to \in Accounts
  /\ Recovering(w) => \A o \in queue[w] : Recorded(o)
  /\ phase[w] # "load" => queue[w] # {} /\ ~Recovering(w)
  /\ phase[w] = "reflag" => row[w].status = "detected"
  /\ \A o \in OpIds : At(w, o) =>
       /\ phase[w] \in {"reflag", "settle"} => Recorded(o)
       /\ phase[w] \in {"insert", "reflag"} => RowFits(o, row[w])

(* Up to the end of a page all is recorded or still in the queue.          *)
PageFits(s) ==
  /\ stage[s] = "poll" /\ page[s].account \in Accounts
  /\ page[s].upto <= Len(chain)
  /\ \A o \in Ops : chain[o].to = page[s].account /\ o <= page[s].upto =>
       Recorded(o) \/ (page[s].pc = "page" /\ o \in queue[s])

MonitorFits(s) ==
  /\ queue[s] # {} => page[s].pc = "page" \/ Recovering(s)
  /\ page[s].pc # "pick" => PageFits(s)

WorkFits ==
  /\ \A w \in Workers : AtWork(w)
  /\ \A s \in Servers : MonitorFits(s)

CursorsFit == CursorCoversRecorded /\ \A a \in Accounts : cursor[a] <= Len(chain)

TermsSet ==
  \A i \in Invoices :
    invoice[i].status # "none" => invoice[i].due \in Days /\ invoice[i].stroops \in Totals

RecordsInv ==
  SafetyInv /\ RecordsFit /\ DuplicateOfAnother /\ CursorsFit /\ WorkFits /\ TermsSet

-------------------------------------------------------------------------------
(***************************************************************************)
(* What no step takes back.                                                *)
(***************************************************************************)


(* The bound on the chain is where the counters of an account end.         *)
LEMMA ChainLength ==
  ASSUME TypeInv
  PROVE  Len(chain) \in Nat /\ Len(chain) <= MaxOps /\ MaxOps \in Nat
         /\ Ops \subseteq OpIds
  BY TypeInvParts, SettlementAssumption DEF ChainOK, Ops, OpIds

(* Likewise in the next state.                                             *)
LEMMA ChainLengthNext ==
  ASSUME TypeInv, [Next]_vars
  PROVE  Len(chain') \in Nat /\ Ops' \subseteq OpIds
  <1>1. TypeInv'
    BY StepTyped
  <1>2. Len(chain') \in Nat /\ Len(chain') <= MaxOps
    BY <1>1, TypeInvParts DEF ChainOK, TypeInv, TypeOK, SettlementTypeOK
  <1> QED BY <1>2, SettlementAssumption DEF Ops, OpIds

(* A submission leaves what is on the chain where it is.                   *)
LEMMA SubmitKeepsChain ==
  ASSUME TypeInv, NEW t \in Transactions, SubmitTransaction(t)
  PROVE  Len(chain) <= Len(chain') /\ \A o \in Ops : chain'[o] = chain[o]
  <1> DEFINE op(k) == [tx |-> Len(chain) + 1, closed |-> today, to |-> t[k].to,
                       asset |-> t[k].asset, stroops |-> t[k].stroops,
                       memo |-> t[k].memo, ok |-> t[k].ok]
             added == [k \in 1..Len(t) |-> op(k)]
             Ranged == {op(k) : k \in 1..Len(t)}
  <1>0. /\ Len(t) \in Nat /\ Len(chain) \in Nat
        /\ chain \in Seq(Operations) /\ Len(chain') = Len(chain) + Len(t)
    BY TypeInvParts, SubmitTyped, SettlementAssumption DEF ChainOK
  <1>1. chain' = chain \o added
    BY DEF SubmitTransaction
  <1>2. added \in Seq(Ranged)
    <2> HIDE DEF op
    <2> QED BY <1>0
  <1> HIDE DEF added, Ranged
  <1>3. chain \in Seq(Operations \cup Ranged) /\ added \in Seq(Operations \cup Ranged)
    BY <1>0, <1>2
  <1>4. \A o \in Ops : chain'[o] = chain[o]
    BY <1>0, <1>1, <1>3, ConcatProperties DEF Ops
  <1> QED BY <1>0, <1>4

(* Nobody else writes the chain.                                           *)
LEMMA ChainWriters ==
  ASSUME [Next]_vars
  PROVE  UNCHANGED chain \/ \E t \in Transactions : SubmitTransaction(t)
  <1>1. ASSUME NEW w \in Workers, ProcessPayment(w)
        PROVE  UNCHANGED chain
    BY <1>1
    DEF ProcessPayment, LoadInvoice, InsertSettled, InsertDetected, InsertFails,
        InsertConflicts, Reflag, Finalize, FinalizeNothing
  <1>2. ASSUME NEW s \in Servers, Monitor(s)
        PROVE  UNCHANGED chain
    BY <1>1, <1>2
    DEF Workers, Monitor, Poll, PollAccount, NextPage, SaveCursor, EndPoll,
        RecoverUnfinished, EndRecover, ExpireInvoices
  <1> QED BY <1>1, <1>2
          DEF Workers, Next, SettlementNext, VerifyTransaction, Fails, StageFails,
              Crash, LoseLock, vars, settlementVars

(* The chain only grows.                                                   *)
LEMMA ChainGrows ==
  ASSUME TypeInv, [Next]_vars
  PROVE  /\ Len(chain) <= Len(chain') /\ Ops \subseteq Ops'
         /\ \A o \in Ops : chain'[o] = chain[o]
  <1>0. Len(chain) \in Nat /\ Len(chain') \in Nat
    <2>1. TypeInv'
      BY StepTyped
    <2> QED BY <2>1, TypeInvParts DEF ChainOK, TypeInv, TypeOK, SettlementTypeOK
  <1>1. Len(chain) <= Len(chain') /\ \A o \in Ops : chain'[o] = chain[o]
    BY <1>0, ChainWriters, SubmitKeepsChain
  <1> QED BY <1>0, <1>1 DEF Ops

(* No record disappears.                                                   *)
LEMMA RecordedKept ==
  ASSUME TypeInv, [Next]_vars
  PROVE  \A o \in OpIds : Recorded(o) => Recorded(o)'
  <1>0. DBTypeOK /\ WorkInv
    BY TypeInvParts
  <1>1. CASE payments' = payments
    BY <1>1 DEF Recorded
  <1>2. CASE payments' # payments
    <2>1. PICK w \in Workers, o \in OpIds :
            InsertSettled(w, o) \/ InsertDetected(w, o) \/ Finalize(w, o)
      BY <1>2, PaymentsWriters
    <2>2. CASE InsertSettled(w, o) \/ InsertDetected(w, o)
      BY <1>0, <2>2 DEF InsertSettled, InsertDetected, Recorded, DBTypeOK
    <2>3. CASE Finalize(w, o)
      <3>1. payments'[o].status \in FinalStatuses
            /\ \A q \in OpIds \ {o} : payments'[q] = payments[q]
        BY <2>3, FinalizeEffect
      <3> QED BY <3>1 DEF FinalStatuses, Recorded
    <2> QED BY <2>1, <2>2, <2>3
  <1> QED BY <1>1, <1>2

(* An invoice with a payment row is not deleted: nobody but DeleteInvoice  *)
(* takes a row away, and the foreign key stops it.                         *)
LEMMA LinkedKept ==
  ASSUME TypeInv, [Next]_vars
  PROVE  \A i \in Linked : Exists(i) => Exists(i)'
  <1>0. invoice \in [Invoices -> InvoiceRows]
    BY TypeInvParts DEF LifecycleTypeOK
  <1>1. ASSUME NEW i, NEW status \in InvoiceStatuses, SetStatus(i, status)
        PROVE  \A j \in Invoices : Exists(j) => Exists(j)'
    BY <1>0, <1>1 DEF SetStatus, Exists, InvoiceRows
  <1>2. ASSUME NEW rows, NEW status \in InvoiceStatuses,
               invoice' = UpdateRows(invoice, rows, status)
        PROVE  \A j \in Invoices : Exists(j) => Exists(j)'
    BY <1>0, <1>2 DEF UpdateRows, Exists, InvoiceRows
  <1>3. {"paid", "payment_detected", "invalid_payment", "expired", "overdue",
         "cancelled", "sent", "draft", "viewed"} \subseteq InvoiceStatuses
    BY DEF InvoiceStatuses
  <1> DEFINE Goal == \A i \in Linked : Exists(i) => Exists(i)'
  <1>4. UNCHANGED invoice => Goal
    BY DEF Exists
  <1>5. Linked \subseteq Invoices
    BY DEF Linked
  <1>6. ASSUME NEW w \in Workers, ProcessPayment(w)
        PROVE  Goal
    <2>1. PICK o \in OpIds :
            \/ LoadInvoice(w, o) \/ InsertSettled(w, o) \/ InsertDetected(w, o)
            \/ InsertFails(w, o) \/ InsertConflicts(w, o) \/ Reflag(w, o)
            \/ Finalize(w, o) \/ FinalizeNothing(w, o)
      BY <1>6 DEF ProcessPayment
    <2>2. \/ UNCHANGED invoice
          \/ \E status \in {"paid", "payment_detected", "invalid_payment"} :
               \E i : SetStatus(i, status)
      BY <2>1
      DEF LoadInvoice, InsertSettled, InsertDetected, InsertFails, InsertConflicts,
          Reflag, Finalize, FinalizeNothing, FlagDetected, lifecycleVars
    <2> QED BY <1>1, <1>3, <1>4, <1>5, <2>2
  <1>7. ASSUME NEW s \in Servers, Monitor(s)
        PROVE  Goal
    <2>1. CASE ExpireInvoices(s)
      BY <1>2, <1>3, <1>5, <2>1 DEF ExpireInvoices
    <2>2. CASE ProcessPayment(s)
      BY <1>6, <2>2 DEF Workers
    <2>3. CASE \/ Poll(s) \/ (\E a \in Accounts : PollAccount(s, a)) \/ NextPage(s)
               \/ SaveCursor(s) \/ EndPoll(s) \/ RecoverUnfinished(s) \/ EndRecover(s)
      BY <1>4, <2>3
      DEF Poll, PollAccount, NextPage, SaveCursor, EndPoll, RecoverUnfinished,
          EndRecover, lifecycleVars
    <2> QED BY <1>7, <2>1, <2>2, <2>3 DEF Monitor
  <1>8. CASE LifecycleNext(Linked)
    <2>1. ASSUME NEW i \in Invoices, NEW total \in Totals, NEW due \in Days,
                 GenerateNewInvoice(i, total, due)
          PROVE  Goal
      BY <1>0, <1>5, <2>1 DEF GenerateNewInvoice, Exists, InvoiceRows, InvoiceStatuses
    <2>2. ASSUME NEW i \in Invoices, SendInvoice(i)
          PROVE  Goal
      BY <1>1, <1>3, <1>5, <2>2 DEF SendInvoice
    <2>3. ASSUME NEW i \in Invoices, NEW approve \in BOOLEAN,
                 ReviewInvoice(i, approve)
          PROVE  Goal
      BY <1>0, <1>3, <1>5, <2>3 DEF ReviewInvoice, Exists, InvoiceRows
    <2>4. ASSUME NEW i \in Invoices, UpdateInvoiceCheck(i)
          PROVE  Goal
      BY <1>4, <2>4 DEF UpdateInvoiceCheck
    <2>5. ASSUME NEW i \in Invoices, NEW total \in Totals, NEW due \in Days,
                 UpdateInvoiceWrite(i, total, due)
          PROVE  Goal
      BY <1>0, <1>5, <2>5 DEF UpdateInvoiceWrite, Exists, InvoiceRows
    <2>6. ASSUME NEW i \in Invoices, DeleteInvoice(i, Linked)
          PROVE  Goal
      BY <1>0, <2>6 DEF DeleteInvoice, SetStatus, Exists, InvoiceRows
    <2>7. CASE MarkOverdue
      BY <1>2, <1>3, <1>5, <2>7 DEF MarkOverdue
    <2>8. CASE CancelUnapproved \/ OverdueApproved
      BY <1>2, <1>3, <1>5, <2>8 DEF CancelUnapproved, OverdueApproved
    <2>9. CASE NextDay
      BY <1>4, <2>9 DEF NextDay
    <2> QED BY <1>8, <2>1, <2>2, <2>3, <2>4, <2>5, <2>6, <2>7, <2>8, <2>9
            DEF LifecycleNext
  <1>9. CASE \/ \E r \in Requests, tx \in OpIds : VerifyTransaction(r, tx)
             \/ \E t \in Transactions : SubmitTransaction(t)
             \/ \E w \in Workers, o \in OpIds : Fails(w, o)
             \/ \E s \in Servers : StageFails(s)
             \/ \E s \in Servers : Crash(s)
             \/ LoseLock
             \/ UNCHANGED vars
    BY <1>4, <1>9
    DEF VerifyTransaction, SubmitTransaction, Fails, StageFails, Crash, LoseLock,
        vars, lifecycleVars
  <1> QED BY <1>6, <1>7, <1>8, <1>9 DEF Next, SettlementNext, Workers

(* All that a process may rely on from one of its steps to the next.       *)
Onward ==
  /\ Len(chain) \in Nat /\ Len(chain') \in Nat /\ Len(chain) <= Len(chain')
  /\ \A o \in Ops : chain'[o] = chain[o]
  /\ \A o \in OpIds : Recorded(o) => Recorded(o)'
  /\ \A i \in Invoices : Paid(i) => Paid(i)'
  /\ \A i \in Linked : Exists(i) => Exists(i)'

(* Every step goes on from where the one before left off.                  *)
LEMMA Advances ==
  ASSUME TypeInv, [Next]_vars
  PROVE  Onward
  <1>1. TypeInv'
    BY StepTyped
  <1>2. Len(chain) \in Nat /\ Len(chain') \in Nat
    BY <1>1, TypeInvParts DEF ChainOK, TypeInv, TypeOK, SettlementTypeOK
  <1>3. \A i \in Invoices : Paid(i) => Paid(i)'
    BY StepKeepsClosed DEF ClosedKept, Paid
  <1> QED BY <1>2, <1>3, ChainGrows, RecordedKept, LinkedKept DEF Onward

-------------------------------------------------------------------------------
(***************************************************************************)
(* What evaluate decides on a payment and the invoice its memo names.      *)
(***************************************************************************)

(* The rules behind a verdict, whatever is judged.                         *)
LEMMA Rules ==
  ASSUME NEW p, NEW inv, NEW expected,
         NEW v, v = evaluate(p, inv, expected)
  PROVE  /\ v.status = "failed" <=> ~p.ok
         /\ v.status \in {"verified", "invalid"} =>
              /\ inv # NoInvoice /\ p.memo # NoMemo
              /\ inv.status = "paid" \/ ToRecipient(p, inv)
         /\ p.ok /\ inv # NoInvoice /\ p.memo # NoMemo
            /\ (inv.status = "paid" \/ ToRecipient(p, inv)) =>
              v.status \in {"verified", "invalid"}
         /\ v.code = "duplicate" => v.status = "invalid" /\ inv.status = "paid"
         /\ v.status = "verified" =>
              /\ ToRecipient(p, inv) /\ ~Late(p, inv) /\ p.asset = expected
              /\ ~(p.stroops < inv.stroops) /\ ~(p.stroops > inv.stroops)
  BY DEF evaluate, Verdict

(* An invoice that exists is found: NoInvoice is no view of one.           *)
LEMMA ViewOf ==
  ASSUME TypeInv, NEW i \in Invoices, Exists(i)
  PROVE  /\ InvoiceView(i) # NoInvoice
         /\ InvoiceView(i) =
              [status |-> invoice[i].status, recipient |-> Recipient[i],
               stroops |-> invoice[i].stroops,
               expiresAt |-> ExpiresAt(invoice[i].due)]
  <1> DEFINE view == [status |-> invoice[i].status, recipient |-> Recipient[i],
                      stroops |-> invoice[i].stroops,
                      expiresAt |-> ExpiresAt(invoice[i].due)]
  <1>0. invoice[i] \in InvoiceRows
    BY TypeInvParts DEF LifecycleTypeOK
  <1>1. InvoiceView(i) = view
    BY DEF InvoiceView
  <1>2. ExpiresAt(invoice[i].due) \in Nat
    BY <1>0, GraceDaysAssumption, LifecycleAssumption DEF ExpiresAt, InvoiceRows
  <1>3. view \in InvoiceViews
    BY <1>0, <1>2 DEF InvoiceViews, InvoiceRows, Exists
  <1> QED BY <1>1, <1>3, SettlementAssumption

(* An operation on the chain, as far as its type says.                     *)
LEMMA OperationTyped ==
  ASSUME TypeInv, NEW o \in Ops
  PROVE  /\ o \in OpIds
         /\ chain[o] \in
              [tx: OpIds, closed: Days, to: {chain[o].to}, asset: {chain[o].asset},
               stroops: Nat, memo: {chain[o].memo}, ok: {chain[o].ok}]
  <1>1. chain[o] \in Operations /\ o \in OpIds
    BY TypeInvParts, ChainLength DEF ChainOK, Ops
  <1>2. PICK t \in Transactions :
          \E n \in OpIds, d \in Days, k \in DOMAIN t :
            chain[o] = [tx |-> n, closed |-> d, to |-> t[k].to,
                        asset |-> t[k].asset, stroops |-> t[k].stroops,
                        memo |-> t[k].memo, ok |-> t[k].ok]
    BY <1>1 DEF Operations
  <1>3. PICK n \in OpIds, d \in Days, k \in DOMAIN t :
          chain[o] = [tx |-> n, closed |-> d, to |-> t[k].to, asset |-> t[k].asset,
                      stroops |-> t[k].stroops, memo |-> t[k].memo, ok |-> t[k].ok]
    BY <1>2
  <1>4. t[k].stroops \in Nat
    BY SettlementAssumption
  <1> QED BY <1>1, <1>3, <1>4

(* The row processPayment makes says no more than it saw.                  *)
LEMMA RowForFits ==
  ASSUME TypeInv, NEW o \in Ops
  PROVE  RowFits(o, RowFor(o))
  <1> DEFINE m == chain[o].memo
             inv == InvoiceView(m)
  <1> PICK v : v = evaluate(chain[o], inv, expectedAsset(InvoiceCurrency))
    OBVIOUS
  <1>0. /\ v.status \in {"verified", "invalid", "unmatched", "failed"}
        /\ v.status = "failed" <=> ~chain[o].ok
        /\ v.status \in {"verified", "invalid"} =>
             inv # NoInvoice /\ (inv.status = "paid" \/ ToRecipient(chain[o], inv))
        /\ v.code = "duplicate" => v.status = "invalid"
    BY VerdictTyped, Rules
  <1>1. inv # NoInvoice => m \in Invoices /\ Exists(m)
    BY ViewIsOfInvoice
  <1>2. NoInvoice \notin Invoices
    BY SettlementAssumption
  <1>3. CASE v.status \in {"failed", "unmatched"}
    <2>1. /\ RowFor(o).status = v.status /\ RowFor(o).code = v.code
          /\ RowFor(o).link # NoInvoice =>
               v.status = "failed" /\ RowFor(o).link = m
      BY <1>3 DEF RowFor, Judge
    <2> QED BY <1>0, <1>3, <2>1 DEF RowFits
  <1>4. CASE v.status \in {"verified", "invalid"}
    <2>1. /\ RowFor(o).status = "detected" /\ RowFor(o).code # "duplicate"
          /\ RowFor(o).link = m
      BY <1>4 DEF RowFor, Judge, NoCode
    <2>2. m \in Invoices /\ Exists(m)
      BY <1>0, <1>1, <1>4
    <2>3. Paid(m) \/ Addressed(o, m)
      BY <1>0, <1>4, <2>2, ViewOf DEF ToRecipient, Paid, Addressed
    <2>4. chain[o].ok
      BY <1>0, <1>4
    <2> HIDE DEF inv
    <2> QED BY <2>1, <2>2, <2>3, <2>4 DEF RowFits
  <1> QED BY <1>0, <1>3, <1>4

(* finalize finds the invoice its row links and judges on the merits.      *)
LEMMA FinalizeJudges ==
  ASSUME SafetyInv, NEW w \in Workers, NEW o \in OpIds, RecordFits(o),
         Finalize(w, o)
  PROVE  /\ o \in Ops /\ chain[o].ok /\ chain[o].to \in Accounts
         /\ chain[o].memo = payments[o].link
         /\ payments[o].link \in Invoices /\ Exists(payments[o].link)
         /\ payments'[o].link = payments[o].link
         /\ payments'[o].status \in {"verified", "invalid"}
         /\ payments'[o].code = "duplicate" =>
              payments'[o].status = "invalid" /\ Paid(payments[o].link)
         /\ payments'[o].status = "verified" =>
              /\ chain[o].to = Recipient[payments[o].link]
              /\ chain[o].asset = expectedAsset(InvoiceCurrency)
              /\ chain[o].stroops = invoice[payments[o].link].stroops
              /\ ~Late(chain[o], InvoiceView(payments[o].link))
  <1> DEFINE p == [chain[o] EXCEPT !.ok = TRUE]
  <1> PICK i : i = payments[o].link
    OBVIOUS
  <1> PICK v : v = evaluate(p, InvoiceView(i), expectedAsset(InvoiceCurrency))
    OBVIOUS
  <1>0. TypeInv /\ payments \in [OpIds -> PaymentRows]
        /\ invoice \in [Invoices -> InvoiceRows]
    BY TypeInvParts DEF SafetyInv, DBTypeOK, LifecycleTypeOK
  <1>1. payments[o].status \in {"pending", "detected"}
    BY DEF Finalize, Unfinished
  <1>2. /\ o \in Ops /\ chain[o].ok /\ chain[o].to \in Accounts
        /\ i \in Invoices /\ chain[o].memo = i /\ Exists(i)
        /\ Paid(i) \/ Addressed(o, i)
    BY <1>1, SettlementAssumption DEF RecordFits, RowFits, Recorded
  <1>3. /\ p.ok /\ p.to = chain[o].to /\ p.asset = chain[o].asset
        /\ p.memo = chain[o].memo /\ p.closed = chain[o].closed
        /\ p.stroops = chain[o].stroops /\ p.stroops \in Nat
    BY <1>0, <1>2, OperationTyped
  <1>4. /\ InvoiceView(i) # NoInvoice /\ InvoiceView(i).status = invoice[i].status
        /\ InvoiceView(i).recipient = Recipient[i]
        /\ InvoiceView(i).stroops = invoice[i].stroops
    BY <1>0, <1>2, ViewOf
  <1> HIDE DEF p
  <1>5. i # NoMemo
    BY <1>2, SettlementAssumption
  <1>6. InvoiceView(i).status = "paid" \/ ToRecipient(p, InvoiceView(i))
    BY <1>2, <1>3, <1>4 DEF Paid, Addressed, ToRecipient
  <1>7. /\ v.status \in {"verified", "invalid"}
        /\ v.code = "duplicate" => v.status = "invalid" /\ invoice[i].status = "paid"
    BY <1>2, <1>3, <1>4, <1>5, <1>6, Rules
  <1>8. v.status = "verified" =>
          /\ ToRecipient(p, InvoiceView(i)) /\ ~Late(p, InvoiceView(i))
          /\ p.asset = expectedAsset(InvoiceCurrency)
          /\ ~(p.stroops < InvoiceView(i).stroops)
          /\ ~(p.stroops > InvoiceView(i).stroops)
    BY Rules
  <1>9. v.status = "verified" =>
          /\ chain[o].to = Recipient[i] /\ ~Late(chain[o], InvoiceView(i))
          /\ chain[o].asset = expectedAsset(InvoiceCurrency)
          /\ chain[o].stroops = invoice[i].stroops
    <2>1. invoice[i].stroops \in Nat
      <3>1. invoice[i].stroops \in Totals \cup {0}
        BY <1>0, <1>2 DEF InvoiceRows
      <3>2. Totals \cup {0} \subseteq Nat
        BY LifecycleAssumption
      <3> QED BY <3>1, <3>2
    <2> QED BY <1>3, <1>4, <1>8, <2>1 DEF ToRecipient, Late
  <1>10. payments' = [payments EXCEPT ![o].status = v.status, ![o].code = v.code]
    BY DEF Finalize, Judge, p
  <1>11. payments'[o].status = v.status /\ payments'[o].code = v.code
         /\ payments'[o].link = i
    BY <1>0, <1>10 DEF PaymentRows
  <1> QED BY <1>2, <1>7, <1>9, <1>11 DEF Paid

-------------------------------------------------------------------------------
(***************************************************************************)
(* The tables: payment records, cursors, totals and due dates.             *)
(***************************************************************************)

(* What a row says stays true while others go on.                          *)
LEMMA RowStillFits ==
  ASSUME Onward, NEW o \in Ops, NEW r \in PaymentRows, RowFits(o, r)
  PROVE  RowFits(o, r)'
  <1>1. chain'[o] = chain[o] /\ \A i \in Invoices : Paid(i) => Paid(i)'
    BY DEF Onward
  <1> QED BY <1>1 DEF RowFits, Addressed

(* A record nobody writes keeps fitting, ...                               *)
LEMMA RecordStillFits ==
  ASSUME TypeInv, Onward, NEW o \in OpIds, RecordFits(o),
         payments'[o] = payments[o]
  PROVE  RecordFits(o)'
  <1>0. payments[o] \in PaymentRows
    BY TypeInvParts DEF DBTypeOK
  <1>1. CASE Recorded(o)
    <2> PICK r : r = payments[o]
      OBVIOUS
    <2>1. /\ o \in Ops /\ chain[o].to \in Accounts /\ RowFits(o, r)
          /\ r.link # NoInvoice => Exists(r.link)
      BY <1>1 DEF RecordFits
    <2>2. o \in Ops' /\ chain'[o] = chain[o] /\ Recorded(o)'
      <3>1. o \in Ops'
        BY <2>1 DEF Onward, Ops
      <3> QED BY <1>1, <2>1, <3>1 DEF Onward
    <2>3. RowFits(o, r)'
      BY <1>0, <2>1, RowStillFits
    <2>4. r.link # NoInvoice => Exists(r.link)'
      <3>1. r.link # NoInvoice => r.link \in Linked
        BY <1>0 DEF Linked, Links, PaymentRows
      <3> QED BY <2>1, <3>1 DEF Onward
    <2> QED BY <2>1, <2>2, <2>3, <2>4 DEF RecordFits, RowFits, Addressed, Paid, Exists
  <1>2. CASE ~Recorded(o)
    BY <1>2 DEF RecordFits, Recorded, NoPayment
  <1> QED BY <1>1, <1>2

(* ... one inserted fits because its row did, ...                          *)
LEMMA InsertedFits ==
  ASSUME TypeInv, Onward, NEW w \in Workers, NEW o \in OpIds, AtWork(w),
         InsertSettled(w, o) \/ InsertDetected(w, o)
  PROVE  /\ RecordFits(o)' /\ payments'[o].code # "duplicate"
         /\ payments'[o].status # "verified"
         /\ \A q \in OpIds \ {o} : payments'[q] = payments[q]
  <1> PICK r : r = row[w]
    OBVIOUS
  <1>0. /\ payments \in [OpIds -> PaymentRows] /\ r \in PaymentRows
        /\ r.status \in {"none", "failed", "unmatched", "detected"}
        /\ phase[w] = "insert" => r.status # "none"
    BY TypeInvParts DEF DBTypeOK, WorkInv, WorkTypeOK, RowsUnjudged
  <1>1. /\ At(w, o) /\ phase[w] = "insert" /\ ~Recorded(o) /\ LinkExists(w)
        /\ payments' = [payments EXCEPT ![o] = r]
        /\ UNCHANGED chain
        /\ UNCHANGED invoice \/ FlagDetected(r.link)
    BY DEF InsertSettled, InsertDetected, lifecycleVars
  <1>2. o \in Ops /\ chain[o].to \in Accounts /\ RowFits(o, r)
    BY <1>1 DEF AtWork, At
  <1>3. /\ payments'[o] = r
        /\ \A q \in OpIds \ {o} : payments'[q] = payments[q]
    BY <1>0, <1>1
  <1>4. RowFits(o, r)'
    BY <1>0, <1>2, RowStillFits
  <1>5. r.link # NoInvoice => Exists(r.link)'
    <2>1. r.link # NoInvoice => r.link \in Invoices /\ Exists(r.link)
      BY <1>0, <1>1 DEF LinkExists, PaymentRows, Links
    <2>2. invoice \in [Invoices -> InvoiceRows]
      BY TypeInvParts DEF LifecycleTypeOK
    <2> QED BY <1>1, <2>1, <2>2
            DEF FlagDetected, SetStatus, Exists, InvoiceStatuses, InvoiceRows
  <1>6. Recorded(o)' /\ o \in Ops' /\ chain'[o].to \in Accounts
    BY <1>0, <1>1, <1>2, <1>3 DEF Recorded, Ops
  <1>7. RecordFits(o)'
    BY <1>3, <1>4, <1>5, <1>6 DEF RecordFits, RowFits, Addressed, Paid, Exists
  <1> QED BY <1>0, <1>1, <1>2, <1>3, <1>7 DEF RowFits

(* ... and so does one that finalize judged.                               *)
LEMMA FinalizedFits ==
  ASSUME SafetyInv, Onward, NEW w \in Workers, NEW o \in OpIds, RecordFits(o),
         Finalize(w, o)
  PROVE  /\ RecordFits(o)'
         /\ payments[o].status # "verified"
         /\ \A q \in OpIds \ {o} : payments'[q] = payments[q]
  <1> PICK i : i = payments[o].link
    OBVIOUS
  <1>1. /\ o \in Ops /\ chain[o].ok /\ chain[o].to \in Accounts
        /\ chain[o].memo = i /\ i \in Invoices /\ Exists(i)
        /\ payments'[o].link = i
        /\ payments'[o].status \in {"verified", "invalid"}
        /\ payments'[o].code = "duplicate" => payments'[o].status = "invalid"
    BY FinalizeJudges
  <1>2. /\ payments[o].status \notin FinalStatuses
        /\ \A q \in OpIds \ {o} : payments'[q] = payments[q]
    BY FinalizeEffect DEF SafetyInv
  <1>3. Exists(i)'
    BY <1>1 DEF Onward, Linked
  <1>4. UNCHANGED chain
    BY DEF Finalize
  <1>5. RowFits(o, payments[o])'
    BY <1>1, <1>4 DEF RowFits
  <1>6. Recorded(o)' /\ o \in Ops'
    BY <1>1, <1>4 DEF Recorded, Ops
  <1>7. RecordFits(o)'
    BY <1>1, <1>3, <1>4, <1>5, <1>6 DEF RecordFits, Exists
  <1> QED BY <1>2, <1>7 DEF FinalStatuses

(* Every step keeps the records fitting and duplicates with an original.   *)
LEMMA RecordsKept ==
  ASSUME SafetyInv, RecordsFit, DuplicateOfAnother, WorkFits, [Next]_vars
  PROVE  RecordsFit' /\ DuplicateOfAnother'
  <1>0. TypeInv /\ PaidExactlyOnce /\ Onward
    BY Advances DEF SafetyInv
  <1>1. ASSUME NEW o \in OpIds, RecordFits(o)',
               \A q \in OpIds \ {o} : payments'[q] = payments[q]
        PROVE  RecordsFit'
    <2>1. ASSUME NEW q \in OpIds PROVE RecordFits(q)'
      <3>1. CASE q = o
        BY <1>1, <3>1
      <3>2. CASE q # o
        BY <1>0, <1>1, <3>2, RecordStillFits DEF RecordsFit
      <3> QED BY <3>1, <3>2
    <2> QED BY <2>1 DEF RecordsFit
  <1>2. ASSUME NEW o \in OpIds, payments[o].status # "verified",
               \A q \in OpIds \ {o} : payments'[q] = payments[q],
               payments'[o].code = "duplicate" =>
                 \E q \in OpIds \ {o} : q \in VerifiedFor(payments'[o].link)
        PROVE  DuplicateOfAnother'
    <2> SUFFICES ASSUME NEW q \in OpIds, payments'[q].code = "duplicate"
                 PROVE  \E p \in OpIds \ {q} : p \in VerifiedFor(payments[q].link)'
      BY DEF DuplicateOfAnother
    <2>1. PICK p \in OpIds \ {q} : p \in VerifiedFor(payments'[q].link)
      BY <1>2 DEF DuplicateOfAnother
    <2>2. p # o /\ payments'[p] = payments[p]
      BY <1>2, <2>1 DEF VerifiedFor
    <2> QED BY <2>1, <2>2 DEF VerifiedFor
  <1>3. CASE payments' = payments
    <2>1. RecordsFit'
      BY <1>0, <1>3, RecordStillFits DEF RecordsFit
    <2>2. DuplicateOfAnother'
      BY <1>3 DEF DuplicateOfAnother, VerifiedFor
    <2> QED BY <2>1, <2>2
  <1>4. CASE payments' # payments
    <2>1. PICK w \in Workers, o \in OpIds :
            InsertSettled(w, o) \/ InsertDetected(w, o) \/ Finalize(w, o)
      BY <1>4, PaymentsWriters
    <2>2. CASE InsertSettled(w, o) \/ InsertDetected(w, o)
      <3>1. /\ RecordFits(o)' /\ payments'[o].code # "duplicate"
            /\ \A q \in OpIds \ {o} : payments'[q] = payments[q]
        BY <1>0, <2>2, InsertedFits DEF WorkFits
      <3>2. payments[o].status # "verified"
        BY <2>2 DEF InsertSettled, InsertDetected, Recorded
      <3> QED BY <1>1, <1>2, <3>1, <3>2
    <2>3. CASE Finalize(w, o)
      <3>1. /\ RecordFits(o)' /\ payments[o].status # "verified"
            /\ \A q \in OpIds \ {o} : payments'[q] = payments[q]
        BY <1>0, <2>3, FinalizedFits DEF RecordsFit
      <3>2. payments'[o].code = "duplicate" =>
              \E q \in OpIds \ {o} : q \in VerifiedFor(payments'[o].link)
        <4> SUFFICES ASSUME payments'[o].code = "duplicate"
                     PROVE  \E q \in OpIds \ {o} : q \in VerifiedFor(payments'[o].link)
          OBVIOUS
        <4>1. /\ payments[o].link \in Invoices /\ Paid(payments[o].link)
              /\ payments'[o].link = payments[o].link
          BY <2>3, FinalizeJudges DEF RecordsFit
        <4>2. VerifiedFor(payments[o].link) # {}
          BY <1>0, <4>1 DEF PaidExactlyOnce, Paid
        <4> QED BY <3>1, <4>1, <4>2 DEF VerifiedFor
      <3> QED BY <1>1, <1>2, <3>1, <3>2
    <2> QED BY <2>1, <2>2, <2>3
  <1> QED BY <1>3, <1>4

(* Only SaveCursor moves a cursor.                                         *)
LEMMA CursorWriters ==
  ASSUME [Next]_vars
  PROVE  UNCHANGED cursor \/ \E s \in Servers : SaveCursor(s)
  <1> USE DEF dbVars
  <1>1. ASSUME NEW w \in Workers, ProcessPayment(w)
        PROVE  UNCHANGED cursor
    BY <1>1
    DEF ProcessPayment, LoadInvoice, InsertSettled, InsertDetected, InsertFails,
        InsertConflicts, Reflag, Finalize, FinalizeNothing
  <1>2. ASSUME NEW s \in Servers, Monitor(s)
        PROVE  UNCHANGED cursor \/ SaveCursor(s)
    BY <1>1, <1>2
    DEF Workers, Monitor, Poll, PollAccount, NextPage, EndPoll,
        RecoverUnfinished, EndRecover, ExpireInvoices
  <1> QED BY <1>1, <1>2
          DEF Workers, Next, SettlementNext, VerifyTransaction, SubmitTransaction,
              Fails, StageFails, Crash, LoseLock, vars, settlementVars

(* A cursor that stands covers what it did; what comes on the chain comes  *)
(* behind every cursor.                                                    *)
LEMMA CursorsKept ==
  ASSUME TypeInv, CursorsFit, WorkFits, [Next]_vars
  PROVE  CursorsFit'
  <1>0. /\ Onward /\ DBTypeOK /\ MaxOps \in Nat
        /\ \A s \in Servers : page[s] \in PollPages
    BY Advances, TypeInvParts, SettlementAssumption DEF PollInv, PollTypeOK
  <1>1. CASE UNCHANGED cursor
    <2>1. \A a \in Accounts : cursor[a] <= Len(chain')
      BY <1>0 DEF CursorsFit, Onward, DBTypeOK
    <2>2. ASSUME NEW a \in Accounts, NEW o \in Ops',
                 chain'[o].to = a, o <= cursor[a]
          PROVE  Recorded(o)'
      <3>1. o \in Ops
        BY <1>0, <2>2 DEF CursorsFit, Onward, DBTypeOK, Ops
      <3>2. Recorded(o) /\ o \in OpIds
        BY <1>0, <2>2, <3>1, ChainLength DEF Onward, CursorsFit, CursorCoversRecorded
      <3> QED BY <1>0, <3>2 DEF Onward
    <2> QED BY <1>1, <2>1, <2>2 DEF CursorsFit, CursorCoversRecorded
  <1>2. ASSUME NEW s \in Servers, SaveCursor(s)
        PROVE  CursorsFit'
    <2> PICK a, upto : a = page[s].account /\ upto = page[s].upto
      OBVIOUS
    <2>1. /\ page[s].pc = "page" /\ queue[s] = {}
          /\ UNCHANGED <<chain, payments>>
          /\ cursor' = [cursor EXCEPT ![a] = upto] \/ UNCHANGED cursor
      BY <1>2 DEF SaveCursor
    <2>2. /\ a \in Accounts /\ upto <= Len(chain)
          /\ \A o \in Ops : chain[o].to = a /\ o <= upto => Recorded(o)
      BY <2>1 DEF WorkFits, MonitorFits, PageFits
    <2>3. cursor' = [cursor EXCEPT ![a] = upto] => CursorsFit'
      BY <1>0, <2>1, <2>2
      DEF CursorsFit, CursorCoversRecorded, DBTypeOK, Ops, Recorded
    <2> QED BY <1>1, <2>1, <2>3
  <1> QED BY <1>1, <1>2, CursorWriters

(* An invoice that was created has a due date and one of the totals; every *)
(* writer keeps them or sets others.                                       *)
LEMMA TermsKept ==
  ASSUME TypeInv, TermsSet, [Next]_vars
  PROVE  TermsSet'
  <1>0. invoice \in [Invoices -> InvoiceRows]
    BY TypeInvParts DEF LifecycleTypeOK
  <1> DEFINE SameTerms == \A i \in Invoices :
               invoice'[i].status # "none" =>
                 /\ invoice[i].status # "none"
                 /\ invoice'[i].due = invoice[i].due
                 /\ invoice'[i].stroops = invoice[i].stroops
  <1>1. SameTerms => TermsSet'
    BY DEF TermsSet
  <1>2. UNCHANGED invoice => SameTerms
    OBVIOUS
  <1>3. ASSUME NEW i, NEW status, SetStatus(i, status),
               i \in Invoices => invoice[i].status # "none"
        PROVE  SameTerms
    BY <1>0, <1>3 DEF SetStatus, InvoiceRows
  <1>4. ASSUME NEW rows, NEW status, invoice' = UpdateRows(invoice, rows, status),
               \A i \in rows : invoice[i].status # "none"
        PROVE  SameTerms
    BY <1>0, <1>4 DEF UpdateRows, InvoiceRows
  <1>5. ASSUME NEW w \in Workers, ProcessPayment(w)
        PROVE  SameTerms
    <2>1. PICK o \in OpIds :
            \/ LoadInvoice(w, o) \/ InsertSettled(w, o) \/ InsertDetected(w, o)
            \/ InsertFails(w, o) \/ InsertConflicts(w, o) \/ Reflag(w, o)
            \/ Finalize(w, o) \/ FinalizeNothing(w, o)
      BY <1>5 DEF ProcessPayment
    <2>2. CASE Finalize(w, o)
      <3>1. \/ UNCHANGED invoice
            \/ \E status : /\ SetStatus(payments[o].link, status)
                           /\ invoice[payments[o].link].status # "none"
        BY <2>2, FinalizeEffect DEF PayableStatuses
      <3> QED BY <1>2, <1>3, <3>1
    <2>3. CASE ~Finalize(w, o)
      <3>1. UNCHANGED invoice \/ \E i : FlagDetected(i)
        BY <2>1, <2>3
        DEF LoadInvoice, InsertSettled, InsertDetected, InsertFails,
            InsertConflicts, Reflag, FinalizeNothing, lifecycleVars
      <3> QED BY <1>2, <1>3, <3>1 DEF FlagDetected, FlaggableStatuses, PayableStatuses
    <2> QED BY <2>2, <2>3
  <1>6. ASSUME NEW s \in Servers, Monitor(s)
        PROVE  SameTerms
    <2>1. CASE ExpireInvoices(s)
      BY <1>4, <2>1 DEF ExpireInvoices
    <2>2. CASE ProcessPayment(s)
      BY <1>5, <2>2 DEF Workers
    <2>3. CASE \/ Poll(s) \/ (\E a \in Accounts : PollAccount(s, a)) \/ NextPage(s)
               \/ SaveCursor(s) \/ EndPoll(s) \/ RecoverUnfinished(s) \/ EndRecover(s)
      BY <1>2, <2>3
      DEF Poll, PollAccount, NextPage, SaveCursor, EndPoll, RecoverUnfinished,
          EndRecover, lifecycleVars
    <2> QED BY <1>6, <2>1, <2>2, <2>3 DEF Monitor
  <1>7. CASE LifecycleNext(Linked)
    <2>1. ASSUME NEW i \in Invoices, NEW total \in Totals, NEW due \in Days,
                 GenerateNewInvoice(i, total, due)
          PROVE  TermsSet'
      BY <1>0, <2>1 DEF GenerateNewInvoice, TermsSet, InvoiceRows
    <2>2. ASSUME NEW i \in Invoices, SendInvoice(i) \/ DeleteInvoice(i, Linked)
          PROVE  SameTerms
      BY <1>3, <2>2 DEF SendInvoice, DeleteInvoice, Exists, InvoiceStatuses
    <2>3. ASSUME NEW i \in Invoices, NEW approve \in BOOLEAN,
                 ReviewInvoice(i, approve)
          PROVE  SameTerms
      BY <1>0, <2>3 DEF ReviewInvoice, InvoiceRows
    <2>4. ASSUME NEW i \in Invoices, NEW total \in Totals, NEW due \in Days,
                 UpdateInvoiceWrite(i, total, due)
          PROVE  TermsSet'
      BY <1>0, <2>4 DEF UpdateInvoiceWrite, TermsSet, InvoiceRows
    <2>5. CASE MarkOverdue
      BY <1>1, <1>4, <2>5 DEF MarkOverdue, Exists, InvoiceStatuses
    <2>6. CASE CancelUnapproved \/ OverdueApproved
      BY <1>1, <1>4, <2>6 DEF CancelUnapproved, OverdueApproved, OpenInvoices
    <2>7. CASE NextDay \/ \E i \in Invoices : UpdateInvoiceCheck(i)
      BY <1>1, <1>2, <2>7 DEF NextDay, UpdateInvoiceCheck
    <2> QED BY <1>1, <1>7, <2>1, <2>2, <2>3, <2>4, <2>5, <2>6, <2>7
            DEF LifecycleNext
  <1>8. CASE \/ \E r \in Requests, tx \in OpIds : VerifyTransaction(r, tx)
             \/ \E t \in Transactions : SubmitTransaction(t)
             \/ \E w \in Workers, o \in OpIds : Fails(w, o)
             \/ \E s \in Servers : StageFails(s)
             \/ \E s \in Servers : Crash(s)
             \/ LoseLock
             \/ UNCHANGED vars
    BY <1>1, <1>2, <1>8
    DEF VerifyTransaction, SubmitTransaction, Fails, StageFails, Crash, LoseLock,
        vars, lifecycleVars
  <1> QED BY <1>1, <1>5, <1>6, <1>7, <1>8 DEF Next, SettlementNext, Workers

-------------------------------------------------------------------------------
(***************************************************************************)
(* The processes: what each of them holds stays true while others go on,   *)
(* and whoever acts holds something true afterwards.                       *)
(***************************************************************************)
Still(w) ==
  /\ queue'[w] = queue[w] /\ phase'[w] = phase[w] /\ row'[w] = row[w]
  /\ w \in Servers => stage'[w] = stage[w] /\ page'[w] = page[w]

(* The functions of the processes' state, and the numbers in it.           *)
LEMMA LocalsTyped ==
  ASSUME TypeInv
  PROVE  /\ queue \in [Workers -> SUBSET OpIds]
         /\ phase \in [Workers -> {"load", "insert", "reflag", "settle"}]
         /\ row \in [Workers -> PaymentRows]
         /\ page \in [Servers -> PollPages]
         /\ stage \in [Servers -> {"idle", "poll", "recover", "recovering", "expire"}]
         /\ OpIds \subseteq Nat /\ \A s \in Servers : page[s].upto \in Nat
  <1>1. /\ queue \in [Workers -> SUBSET OpIds]
        /\ phase \in [Workers -> {"load", "insert", "reflag", "settle"}]
        /\ row \in [Workers -> PaymentRows]
        /\ page \in [Servers -> PollPages]
        /\ stage \in [Servers -> {"idle", "poll", "recover", "recovering", "expire"}]
    BY TypeInvParts DEF WorkInv, WorkTypeOK, PollInv, PollTypeOK
  <1>2. MaxOps \in Nat
    BY SettlementAssumption
  <1> QED BY <1>1, <1>2 DEF OpIds, PollPages

(* Outside recovery a process is at one operation.                         *)
LEMMA AtIsUnique ==
  ASSUME TypeInv, NEW w \in Workers, NEW o \in OpIds, NEW q \in OpIds,
         At(w, o), At(w, q), ~Recovering(w)
  PROVE  o = q
  BY LocalsTyped DEF At

(* A process nobody touches still has in hand what it had.                 *)
LEMMA StillAtWork ==
  ASSUME TypeInv, Onward, NEW w \in Workers, AtWork(w), Still(w)
  PROVE  AtWork(w)'
  <1> PICK r : r = row[w]
    OBVIOUS
  <1>0. /\ r \in PaymentRows /\ queue[w] \subseteq OpIds
        /\ queue'[w] = queue[w] /\ phase'[w] = phase[w] /\ row'[w] = r
    BY LocalsTyped DEF Still
  <1>1. /\ Recovering(w)' <=> Recovering(w)
        /\ \A o \in OpIds : At(w, o)' <=> At(w, o)
    BY DEF Still, Recovering, At
  <1>2. \A o \in queue[w] : o \in Ops' /\ chain'[o].to \in Accounts
    BY DEF AtWork, Onward, Ops
  <1>3. \A o \in OpIds : At(w, o) /\ phase[w] \in {"insert", "reflag"} =>
          RowFits(o, r)'
    <2> SUFFICES ASSUME NEW o \in OpIds, At(w, o), phase[w] \in {"insert", "reflag"}
                 PROVE  RowFits(o, r)'
      OBVIOUS
    <2>1. o \in Ops /\ RowFits(o, r)
      BY DEF AtWork, At
    <2> QED BY <1>0, <2>1, RowStillFits
  <1>4. \A o \in OpIds : Recorded(o) => Recorded(o)'
    BY DEF Onward
  <1> QED BY <1>0, <1>1, <1>2, <1>3, <1>4 DEF AtWork, RowFits, Addressed, Paid

(* A page nobody touches still has recorded or queued all up to its end.   *)
LEMMA StillMonitoring ==
  ASSUME TypeInv, Onward, NEW s \in Servers, MonitorFits(s),
         stage'[s] = stage[s], page'[s] = page[s], queue'[s] = queue[s]
  PROVE  MonitorFits(s)'
  <1> PICK p : p = page[s]
    OBVIOUS
  <1>0. p.upto \in Nat /\ Ops \subseteq OpIds
    BY LocalsTyped, ChainLength
  <1>1. CASE p.pc # "pick"
    <2>1. /\ stage[s] = "poll" /\ p.account \in Accounts /\ p.upto <= Len(chain)
          /\ \A o \in Ops : chain[o].to = p.account /\ o <= p.upto =>
               Recorded(o) \/ (p.pc = "page" /\ o \in queue[s])
      BY <1>1 DEF MonitorFits, PageFits
    <2>2. p.upto <= Len(chain')
      BY <1>0, <2>1 DEF Onward
    <2>3. ASSUME NEW o \in Ops', chain'[o].to = p.account, o <= p.upto
          PROVE  Recorded(o)' \/ (p.pc = "page" /\ o \in queue'[s])
      <3>1. o \in Ops
        BY <1>0, <2>1, <2>3 DEF Onward, Ops
      <3> QED BY <1>0, <2>1, <2>3, <3>1 DEF Onward
    <2>4. PageFits(s)'
      BY <2>1, <2>2, <2>3 DEF PageFits
    <2> QED BY <1>1, <2>1, <2>4 DEF MonitorFits, Recovering
  <1>2. CASE p.pc = "pick"
    BY <1>2 DEF MonitorFits, Recovering
  <1> QED BY <1>1, <1>2

(* Whoever is back at the start of what is left of its queue is fine.      *)
LEMMA BackAtWork ==
  ASSUME Onward, NEW w \in Workers, AtWork(w), queue[w] \subseteq OpIds,
         queue'[w] \subseteq queue[w], phase'[w] = "load",
         Recovering(w)' => Recovering(w)
  PROVE  AtWork(w)'
  <1>1. \A o \in queue'[w] : o \in Ops' /\ chain'[o].to \in Accounts
    BY DEF AtWork, Onward, Ops
  <1>2. Recovering(w)' => \A o \in queue'[w] : Recorded(o)'
    BY DEF AtWork, Onward
  <1> QED BY <1>1, <1>2 DEF AtWork

(* One process acts at a time.                                             *)
LEMMA OneActs ==
  ASSUME TypeInv, Onward, WorkFits, NEW w \in Workers,
         AtWork(w)', w \in Servers => MonitorFits(w)',
         \A v \in Workers \ {w} : Still(v)
  PROVE  WorkFits'
  <1>1. ASSUME NEW v \in Workers PROVE AtWork(v)'
    <2>1. CASE v = w
      BY <2>1
    <2>2. CASE v # w
      BY <2>2, StillAtWork DEF WorkFits
    <2> QED BY <2>1, <2>2
  <1>2. ASSUME NEW s \in Servers PROVE MonitorFits(s)'
    <2>1. CASE s = w
      BY <2>1
    <2>2. CASE s # w
      <3>1. s \in Workers
        BY DEF Workers
      <3> QED BY <2>2, <3>1, StillMonitoring DEF WorkFits, Still
    <2> QED BY <2>1, <2>2
  <1> QED BY <1>1, <1>2 DEF WorkFits

(* Done with an operation that is recorded.                                *)
LEMMA FinishFits ==
  ASSUME TypeInv, Onward, WorkFits, NEW w \in Workers, NEW o,
         Finish(w, o), Recorded(o)', UNCHANGED <<stage, page, chain>>
  PROVE  WorkFits'
  <1>0. /\ queue'[w] = queue[w] \ {o} /\ phase'[w] = "load"
        /\ queue[w] \subseteq OpIds /\ Ops \subseteq OpIds
        /\ \A v \in Workers \ {w} : Still(v)
    BY LocalsTyped, ChainLength DEF Finish, Still
  <1>1. AtWork(w)'
    BY <1>0, BackAtWork DEF WorkFits, Recovering
  <1>2. ASSUME w \in Servers PROVE MonitorFits(w)'
    <2>1. MonitorFits(w)
      BY <1>2 DEF WorkFits
    <2>2. PageFits(w) => PageFits(w)'
      BY <1>0, <1>2 DEF PageFits, Onward, Ops
    <2> QED BY <1>0, <1>2, <2>1, <2>2 DEF MonitorFits, Recovering
  <1> QED BY <1>0, <1>1, <1>2, OneActs

(* Giving up: a page is dropped with the rest of its queue.                *)
LEMMA GiveUpFits ==
  ASSUME TypeInv, Onward, WorkFits, NEW w \in Workers, NEW o, GiveUp(w, o)
  PROVE  WorkFits'
  <1>0. /\ queue[w] \subseteq OpIds
        /\ queue'[w] \subseteq queue[w]
        /\ ~Recovering(w) => queue'[w] = {}
        /\ phase'[w] = "load"
        /\ Recovering(w)' <=> Recovering(w)
        /\ w \in Servers => page'[w].pc = "pick"
        /\ \A v \in Workers \ {w} : Still(v)
    BY LocalsTyped DEF GiveUp, AbandonPage, Recovering, Still, NoPage
  <1>1. AtWork(w)'
    BY <1>0, BackAtWork DEF WorkFits
  <1>2. w \in Servers => MonitorFits(w)'
    BY <1>0 DEF MonitorFits
  <1> QED BY <1>0, <1>1, <1>2, OneActs

(* Every step of processPayment leaves the processes fit.                  *)
LEMMA ProcessFits ==
  ASSUME TypeInv, Onward, RecordsFit, WorkFits, NEW w \in Workers, ProcessPayment(w)
  PROVE  WorkFits'
  <1>0. /\ queue \in [Workers -> SUBSET OpIds] /\ row \in [Workers -> PaymentRows]
        /\ phase \in [Workers -> {"load", "insert", "reflag", "settle"}]
        /\ AtWork(w)
    BY LocalsTyped DEF WorkFits
  <1>1. PICK o \in OpIds :
          \/ LoadInvoice(w, o) \/ InsertSettled(w, o) \/ InsertDetected(w, o)
          \/ InsertFails(w, o) \/ InsertConflicts(w, o) \/ Reflag(w, o)
          \/ Finalize(w, o) \/ FinalizeNothing(w, o)
    BY DEF ProcessPayment
  <1>2. At(w, o)
    BY <1>1
    DEF LoadInvoice, InsertSettled, InsertDetected, InsertFails, InsertConflicts,
        Reflag, Finalize, FinalizeNothing
  <1>3. o \in queue[w] /\ o \in Ops /\ chain[o].to \in Accounts
    BY <1>0, <1>2 DEF At, AtWork
  (* The process goes on with the same operation, in another phase.        *)
  <1>4. ASSUME ~Recovering(w), UNCHANGED <<queue, pollVars, chain>>,
               NEW next \in {"insert", "reflag", "settle"},
               NEW r \in PaymentRows,
               phase' = [phase EXCEPT ![w] = next],
               row' = [row EXCEPT ![w] = r],
               next = "reflag" => r.status = "detected",
               next \in {"reflag", "settle"} => Recorded(o)',
               next \in {"insert", "reflag"} => RowFits(o, r)'
        PROVE  WorkFits'
    <2>1. /\ phase'[w] = next /\ row'[w] = r /\ queue'[w] = queue[w]
          /\ ~Recovering(w)'
          /\ \A v \in Workers \ {w} : Still(v)
      BY <1>0, <1>4 DEF Still, pollVars, Recovering
    <2>2. \A q \in OpIds : At(w, q)' => q = o
      BY <1>2, <1>4, <2>1, AtIsUnique DEF At
    <2>3. \A q \in queue'[w] : q \in Ops' /\ chain'[q].to \in Accounts
      BY <1>0, <1>4, <2>1 DEF AtWork, Ops
    <2>4. AtWork(w)'
      BY <1>3, <1>4, <2>1, <2>2, <2>3 DEF AtWork, RowFits, Addressed, Paid
    <2>5. w \in Servers => MonitorFits(w)'
      BY <1>4, StillMonitoring DEF WorkFits, pollVars
    <2> QED BY <2>1, <2>4, <2>5, OneActs
  <1>5. CASE LoadInvoice(w, o)
    <2>1. CASE GiveUp(w, o)
      BY <2>1, GiveUpFits
    <2>2. CASE ~GiveUp(w, o)
      <3> PICK r : r = RowFor(o)
        OBVIOUS
      <3>1. r \in PaymentRows /\ RowFits(o, r)
        BY <1>3, RowForTyped, RowForFits
      <3>2. RowFits(o, r)'
        BY <1>3, <3>1, RowStillFits
      <3>3. /\ ~Recovering(w) /\ UNCHANGED <<queue, pollVars, chain>>
            /\ phase' = [phase EXCEPT ![w] = "insert"]
            /\ row' = [row EXCEPT ![w] = r]
        BY <1>5, <2>2 DEF LoadInvoice
      <3> QED BY <1>4, <3>1, <3>2, <3>3
    <2> QED BY <2>1, <2>2
  <1>6. CASE InsertSettled(w, o) \/ Finalize(w, o)
    <2>1. Recorded(o)'
      <3>1. CASE InsertSettled(w, o)
        BY <3>1, TypeInvParts
        DEF InsertSettled, DBTypeOK, WorkInv, RowsUnjudged, Recorded
      <3>2. CASE Finalize(w, o)
        BY <3>2 DEF Finalize, Unfinished, Onward, Recorded
      <3> QED BY <1>6, <3>1, <3>2
    <2>2. Finish(w, o) /\ UNCHANGED <<stage, page, chain>>
      BY <1>6 DEF InsertSettled, Finalize, pollVars
    <2> QED BY <2>1, <2>2, FinishFits
  <1>7. CASE InsertDetected(w, o) \/ Reflag(w, o)
    <2>1. Recorded(o)'
      <3>1. CASE InsertDetected(w, o)
        BY <1>0, <3>1, TypeInvParts DEF InsertDetected, DBTypeOK, Recorded
      <3>2. CASE Reflag(w, o)
        BY <1>0, <1>2, <3>2 DEF Reflag, AtWork, Onward
      <3> QED BY <1>7, <3>1, <3>2
    <2>2. /\ ~Recovering(w) /\ UNCHANGED <<queue, pollVars, chain>>
          /\ phase' = [phase EXCEPT ![w] = "settle"]
          /\ row' = [row EXCEPT ![w] = NoPayment]
      BY <1>0, <1>7 DEF InsertDetected, Reflag, GoOn, AtWork, dbVars
    <2> QED BY <1>4, <2>1, <2>2, NoPaymentTyped
  <1>8. CASE InsertFails(w, o)
    BY <1>8, GiveUpFits DEF InsertFails
  <1>9. CASE InsertConflicts(w, o)
    <2>1. Recorded(o)' /\ ~Recovering(w) /\ UNCHANGED <<pollVars, chain>>
      BY <1>0, <1>9 DEF InsertConflicts, Onward, AtWork
    <2>2. CASE Finish(w, o)
      BY <2>1, <2>2, FinishFits DEF pollVars
    <2>3. CASE ~Finish(w, o)
      <3> PICK r : r = row[w]
        OBVIOUS
      <3>1. /\ r.status = "detected" /\ UNCHANGED <<queue, row>>
            /\ phase' = [phase EXCEPT ![w] = "reflag"]
        BY <1>9, <2>3 DEF InsertConflicts
      <3>2. r \in PaymentRows /\ row' = [row EXCEPT ![w] = r]
        BY <1>0, <3>1
      <3>3. RowFits(o, r)
        BY <1>0, <1>2, <1>9 DEF AtWork, InsertConflicts
      <3>4. RowFits(o, r)'
        BY <1>3, <3>2, <3>3, RowStillFits
      <3> QED BY <1>4, <2>1, <3>1, <3>2, <3>4
    <2> QED BY <2>2, <2>3
  <1>10. CASE FinalizeNothing(w, o)
    <2>1. CASE GiveUp(w, o)
      BY <2>1, GiveUpFits
    <2>2. CASE ~GiveUp(w, o)
      <3>1. Finish(w, o) /\ UNCHANGED <<stage, page, chain>>
        BY <1>10, <2>2 DEF FinalizeNothing, pollVars
      <3>2. Recorded(o)
        BY <1>0, <1>2, <1>3, <1>10 DEF FinalizeNothing, AtWork
      <3> QED BY <3>1, <3>2, FinishFits DEF Onward
    <2> QED BY <2>1, <2>2
  <1> QED BY <1>1, <1>5, <1>6, <1>7, <1>8, <1>9, <1>10

(* A page read on from where all is recorded: what it holds is queued.     *)
LEMMA FetchFits ==
  ASSUME TypeInv, Onward, WorkFits, NEW s \in Servers, NEW a \in Accounts,
         NEW since \in Nat, NEW pages,
         FetchPage(s, a, since, pages), UNCHANGED <<phase, row, stage, chain>>,
         stage[s] = "poll", phase[s] = "load", since <= Len(chain),
         \A o \in Ops : chain[o].to = a /\ o <= since => Recorded(o)
  PROVE  WorkFits'
  <1>0. /\ queue \in [Workers -> SUBSET OpIds] /\ page \in [Servers -> PollPages]
        /\ s \in Workers /\ Ops \subseteq OpIds /\ OpIds \subseteq Nat
        /\ Len(chain) \in Nat
    BY LocalsTyped, ChainLength DEF Workers
  <1>1. PICK upto \in {since} \cup Ops : \E full :
          /\ queue' = [queue EXCEPT ![s] =
               {o \in Ops : chain[o].to = a /\ o > since /\ o <= upto}]
          /\ page' = [page EXCEPT ![s] =
               [pc |-> "page", account |-> a, since |-> since, upto |-> upto,
                pages |-> pages, full |-> full]]
    BY DEF FetchPage
  <1> DEFINE ops == {o \in Ops : chain[o].to = a /\ o > since /\ o <= upto}
  <1>2. /\ queue'[s] = ops
        /\ page'[s].pc = "page" /\ page'[s].account = a /\ page'[s].upto = upto
        /\ \A v \in Workers \ {s} : Still(v)
    BY <1>0, <1>1 DEF Still
  <1>3. AtWork(s)'
    BY <1>2 DEF AtWork, Recovering, Ops
  <1>4. upto <= Len(chain)
    BY <1>0 DEF Ops
  <1>5. ASSUME NEW o \in Ops, chain[o].to = a, o <= upto
        PROVE  Recorded(o)' \/ o \in ops
    <2>1. CASE o <= since
      BY <1>0, <1>5, <2>1 DEF Onward
    <2>2. CASE ~(o <= since)
      <3>1. o \in Nat
        BY <1>0
      <3>2. o > since
        BY <2>2, <3>1
      <3> QED BY <1>5, <3>2
    <2> QED BY <2>1, <2>2
  <1>6. PageFits(s)'
    <2> HIDE DEF ops
    <2> QED BY <1>2, <1>4, <1>5 DEF PageFits, Ops
  <1>7. MonitorFits(s)'
    BY <1>2, <1>6 DEF MonitorFits
  <1> QED BY <1>0, <1>2, <1>3, <1>7, OneActs

(* Every step of a payment monitor leaves the processes fit.               *)
LEMMA MonitorFitsOn ==
  ASSUME TypeInv, Onward, RecordsFit, CursorsFit, WorkFits,
         NEW s \in Servers, Monitor(s)
  PROVE  WorkFits'
  <1>0. /\ queue \in [Workers -> SUBSET OpIds] /\ page \in [Servers -> PollPages]
        /\ stage \in [Servers -> {"idle", "poll", "recover", "recovering", "expire"}]
        /\ s \in Workers /\ AtWork(s) /\ MonitorFits(s) /\ OpIds \subseteq Nat
    BY LocalsTyped DEF Workers, WorkFits
  (* Only the stage changes, away from recovering, with nothing in hand.   *)
  <1>1. ASSUME NEW next \in {"poll", "recover", "expire", "idle"}, Goto(s, next),
               queue[s] = {}, page[s].pc = "pick", UNCHANGED <<page, workVars>>
        PROVE  WorkFits'
    <2>1. /\ stage'[s] = next /\ phase[s] = "load"
          /\ \A v \in Workers \ {s} : Still(v)
      BY <1>0, <1>1 DEF Goto, Still, workVars, AtWork
    <2>2. AtWork(s)'
      BY <1>1, <2>1 DEF AtWork, At, workVars
    <2>3. MonitorFits(s)'
      BY <1>1 DEF MonitorFits, workVars
    <2> QED BY <1>0, <2>1, <2>2, <2>3, OneActs
  <1>2. page[s].pc # "pick" => stage[s] = "poll"
    BY <1>0 DEF MonitorFits, PageFits
  <1>3. stage[s] # "recovering" /\ page[s].pc # "page" => queue[s] = {}
    BY <1>0 DEF MonitorFits, Recovering
  <1>4. queue[s] = {} => phase[s] = "load"
    BY <1>0 DEF AtWork
  <1>5. CASE Poll(s)
    BY <1>1, <1>2, <1>3, <1>5 DEF Poll
  <1>6. ASSUME NEW a \in Accounts, PollAccount(s, a)
        PROVE  WorkFits'
    <2>1. cursor[a] \in Nat
      BY TypeInvParts, SettlementAssumption DEF DBTypeOK
    <2>2. /\ cursor[a] <= Len(chain)
          /\ \A o \in Ops : chain[o].to = a /\ o <= cursor[a] => Recorded(o)
      BY DEF CursorsFit, CursorCoversRecorded
    <2> QED BY <1>3, <1>4, <1>6, <2>1, <2>2, FetchFits DEF PollAccount
  <1>7. CASE NextPage(s)
    <2>1. /\ page[s].account \in Accounts /\ page[s].upto \in Nat
          /\ page[s].upto <= Len(chain)
          /\ \A o \in Ops : chain[o].to = page[s].account /\ o <= page[s].upto =>
               Recorded(o)
      BY <1>0, <1>7, LocalsTyped DEF NextPage, MonitorFits, PageFits
    <2> QED BY <1>3, <1>4, <1>7, <2>1, FetchFits DEF NextPage
  <1>8. CASE SaveCursor(s)
    <2>1. /\ queue[s] = {} /\ page[s].pc = "page"
          /\ UNCHANGED <<workVars, stage, chain, payments>>
          /\ \A v \in Workers \ {s} : Still(v)
      BY <1>0, <1>8 DEF SaveCursor, Still, workVars
    <2>2. PageFits(s)
      BY <1>0, <2>1 DEF MonitorFits
    <2>3. \/ page'[s].pc = "pick"
          \/ /\ page'[s].pc = "next" /\ page'[s].account = page[s].account
             /\ page'[s].upto = page[s].upto
      <3>1. page[s] \in PollPages
        BY <1>0
      <3> QED BY <1>0, <1>8, <3>1 DEF SaveCursor, NoPage, PollPages
    <2>4. AtWork(s)'
      BY <1>4, <2>1 DEF AtWork, At, workVars
    <2>5. MonitorFits(s)'
      BY <2>1, <2>2, <2>3
      DEF MonitorFits, PageFits, Recovering, Recorded, Ops, workVars
    <2> QED BY <1>0, <2>1, <2>4, <2>5, OneActs
  <1>9. CASE EndPoll(s)
    BY <1>1, <1>3, <1>9 DEF EndPoll
  <1>10. CASE RecoverUnfinished(s)
    <2>1. /\ stage'[s] = "recovering" /\ phase'[s] = "load"
          /\ queue'[s] = {o \in OpIds : Unfinished(o)}
          /\ UNCHANGED <<page, chain, payments>>
          /\ page[s].pc = "pick"
          /\ \A v \in Workers \ {s} : Still(v)
      BY <1>0, <1>2, <1>3, <1>4, <1>10, LocalsTyped
      DEF RecoverUnfinished, Goto, Still, dbVars
    <2>2. \A o \in OpIds : Unfinished(o) =>
            Recorded(o)' /\ o \in Ops' /\ chain'[o].to \in Accounts
      BY <2>1 DEF Unfinished, RecordsFit, RecordFits, Recorded, Ops
    <2>3. AtWork(s)' /\ MonitorFits(s)'
      BY <2>1, <2>2 DEF AtWork, MonitorFits, Recovering
    <2> QED BY <1>0, <2>1, <2>3, OneActs
  <1>11. CASE EndRecover(s)
    BY <1>1, <1>2, <1>11 DEF EndRecover, Recovering
  <1>12. CASE ExpireInvoices(s)
    BY <1>1, <1>2, <1>3, <1>12 DEF ExpireInvoices
  <1>13. CASE ProcessPayment(s)
    BY <1>0, <1>13, ProcessFits
  <1> QED BY <1>5, <1>6, <1>7, <1>8, <1>9, <1>10, <1>11, <1>12, <1>13 DEF Monitor

(* Every step of the system leaves the processes fit.                      *)
LEMMA WorkKept ==
  ASSUME SafetyInv, RecordsFit, CursorsFit, WorkFits, [Next]_vars
  PROVE  WorkFits'
  <1>0. /\ TypeInv /\ Onward
        /\ queue \in [Workers -> SUBSET OpIds] /\ page \in [Servers -> PollPages]
        /\ stage \in [Servers -> {"idle", "poll", "recover", "recovering", "expire"}]
    BY Advances, LocalsTyped DEF SafetyInv
  <1>1. ASSUME UNCHANGED <<workVars, stage, page>>
        PROVE  WorkFits'
    <2>1. \A w \in Workers : Still(w)
      BY <1>1 DEF Still, workVars
    <2>2. \A s \in Servers : s \in Workers
      BY DEF Workers
    <2> QED BY <1>0, <2>1, <2>2, StillAtWork, StillMonitoring DEF WorkFits, Still
  (* A stage ends early or the server restarts: nothing is left in hand.   *)
  <1>2. ASSUME NEW s \in Servers,
               queue' = [queue EXCEPT ![s] = {}],
               phase' = [phase EXCEPT ![s] = "load"],
               row' = [row EXCEPT ![s] = NoPayment],
               page' = [page EXCEPT ![s] = NoPage],
               \A v \in Servers \ {s} : stage'[v] = stage[v]
        PROVE  WorkFits'
    <2>1. /\ s \in Workers /\ queue'[s] = {} /\ page'[s].pc = "pick"
          /\ phase'[s] = "load"
          /\ \A v \in Workers \ {s} : Still(v)
      BY <1>0, <1>2, LocalsTyped DEF Workers, Still, NoPage
    <2>2. AtWork(s)' /\ MonitorFits(s)'
      BY <2>1 DEF AtWork, MonitorFits
    <2> QED BY <1>0, <2>1, <2>2, OneActs
  <1>3. ASSUME NEW s \in Servers, Monitor(s)
        PROVE  WorkFits'
    BY <1>0, <1>3, MonitorFitsOn
  <1>4. ASSUME NEW r \in Requests, ProcessPayment(r)
        PROVE  WorkFits'
    BY <1>0, <1>4, ProcessFits DEF Workers
  <1>5. ASSUME NEW r \in Requests, NEW tx \in OpIds, VerifyTransaction(r, tx)
        PROVE  WorkFits'
    <2>0. r \in Workers /\ r \notin Servers
      BY SettlementAssumption DEF Workers
    <2>1. /\ queue[r] = {} /\ phase'[r] = phase[r]
          /\ UNCHANGED <<chain, stage>>
          /\ \A o \in queue'[r] : o \in Ops /\ chain[o].to \in Accounts
          /\ \A v \in Workers \ {r} : Still(v)
      BY <1>0, <1>5, <2>0 DEF VerifyTransaction, Still, pollVars
    <2>2. phase[r] = "load"
      BY <2>0, <2>1 DEF WorkFits, AtWork
    <2>3. AtWork(r)'
      BY <2>0, <2>1, <2>2 DEF AtWork, Recovering, Ops
    <2> QED BY <1>0, <2>0, <2>1, <2>3, OneActs
  <1>6. CASE (\E t \in Transactions : SubmitTransaction(t)) \/ LoseLock
    BY <1>1, <1>6 DEF SubmitTransaction, LoseLock, pollVars
  <1>7. ASSUME NEW w \in Workers, NEW o \in OpIds, Fails(w, o)
        PROVE  WorkFits'
    BY <1>0, <1>7, GiveUpFits DEF Fails
  <1>8. ASSUME NEW s \in Servers, StageFails(s) \/ Crash(s)
        PROVE  WorkFits'
    <2>1. \A v \in Servers \ {s} : stage'[v] = stage[v]
      <3>1. \E next : Goto(s, next)
        BY <1>8 DEF StageFails, Crash
      <3> QED BY <1>0, <3>1 DEF Goto
    <2> QED BY <1>2, <1>8, <2>1 DEF StageFails, Crash
  <1>9. CASE LifecycleNext(Linked) /\ UNCHANGED settlementVars
    BY <1>1, <1>9 DEF settlementVars, pollVars
  <1>10. CASE UNCHANGED vars
    BY <1>1, <1>10 DEF vars, settlementVars, pollVars
  <1> QED BY <1>3, <1>4, <1>5, <1>6, <1>7, <1>8, <1>9, <1>10
          DEF Next, SettlementNext

-------------------------------------------------------------------------------
(* The invariant holds at the start ...                                    *)
LEMMA RecordsInit == Init => RecordsInv
  <1> SUFFICES ASSUME Init PROVE RecordsInv
    OBVIOUS
  <1>1. SafetyInv
    BY SafetyInit
  <1>2. Len(chain) = 0 /\ Ops = {}
    <2>1. Len(chain) = 0
      BY DEF Init, SettlementInit
    <2> QED BY <2>1 DEF Ops
  <1>3. \A o \in OpIds : payments[o] = NoPayment /\ ~Recorded(o)
    BY DEF Init, SettlementInit, NoPayment, Recorded
  <1>4. RecordsFit /\ DuplicateOfAnother
    <2>1. NoPayment.code # "duplicate"
      BY DEF NoPayment, NoCode
    <2> QED BY <1>3, <2>1 DEF RecordsFit, RecordFits, DuplicateOfAnother
  <1>5. CursorsFit
    BY <1>2 DEF CursorsFit, CursorCoversRecorded, Init, SettlementInit
  <1>6. WorkFits
    <2>1. /\ \A w \in Workers : queue[w] = {} /\ phase[w] = "load"
          /\ \A s \in Servers : page[s].pc = "pick"
      BY DEF Init, SettlementInit, NoPage
    <2> QED BY <2>1 DEF WorkFits, AtWork, MonitorFits, Workers
  <1>7. TermsSet
    BY DEF Init, LifecycleInit, TermsSet
  <1> QED BY <1>1, <1>4, <1>5, <1>6, <1>7 DEF RecordsInv

(* ... and every step keeps it.                                            *)
LEMMA RecordsStep == RecordsInv /\ [Next]_vars => RecordsInv'
  <1> SUFFICES ASSUME RecordsInv, [Next]_vars PROVE RecordsInv'
    OBVIOUS
  <1>1. /\ SafetyInv /\ TypeInv /\ RecordsFit /\ DuplicateOfAnother
        /\ CursorsFit /\ WorkFits /\ TermsSet
    BY DEF RecordsInv, SafetyInv
  <1> QED BY <1>1, SafetyStep, RecordsKept, CursorsKept, WorkKept, TermsKept
          DEF RecordsInv

(* What the invariant says of a payment's link.                            *)
LEMMA RecordsMatch == RecordsInv => LinkedPaymentsStayMatched
  <1> SUFFICES ASSUME RecordsInv, NEW o \in OpIds, payments[o].link # NoInvoice
               PROVE  /\ o \in Ops /\ chain[o].memo = payments[o].link
                      /\ Exists(payments[o].link)
                      /\ payments[o].status # "unmatched"
    BY DEF LinkedPaymentsStayMatched
  <1>1. RecordFits(o)
    BY DEF RecordsInv, RecordsFit
  <1> QED BY <1>1 DEF RecordFits, RowFits, NoPayment

(* A payment that links an invoice names it in its memo, the invoice is    *)
(* never deleted under it, and it is never declared unmatched later on.    *)
THEOREM LinkedStayMatched == Spec => []LinkedPaymentsStayMatched
  BY RecordsInit, RecordsStep, RecordsMatch, PTL DEF Spec

(* Whatever failed on the way and however many pollers there were, nothing *)
(* before a saved cursor is missing.                                       *)
THEOREM CursorsCover == Spec => []CursorCoversRecorded
  <1>1. RecordsInv => CursorCoversRecorded
    BY DEF RecordsInv, CursorsFit
  <1> QED BY <1>1, RecordsInit, RecordsStep, PTL DEF Spec

(* A payment turned down as a duplicate has another payment that paid.     *)
THEOREM DuplicatesHaveOriginal == Spec => []DuplicateOfAnother
  <1>1. RecordsInv => DuplicateOfAnother
    BY DEF RecordsInv
  <1> QED BY <1>1, RecordsInit, RecordsStep, PTL DEF Spec

-------------------------------------------------------------------------------
(* What VerifiedOnTerms says of one step.                                  *)
VerifiedNow ==
  \A o \in OpIds :
    payments[o].status # "verified" /\ payments'[o].status = "verified" =>
    LET i == payments'[o].link
    IN /\ chain[o].ok /\ chain[o].memo = i /\ chain[o].to = Recipient[i]
       /\ chain[o].asset = expectedAsset(InvoiceCurrency)
       /\ chain[o].stroops = invoice[i].stroops
       /\ chain[o].closed <= invoice[i].due + GraceDays
       /\ invoice[i].status \in PayableStatuses
       /\ invoice'[i].status = "paid"

(* Only finalize verifies, and it has the invoice before it locked.        *)
LEMMA StepVerifiesOnTerms ==
  ASSUME RecordsInv, [Next]_vars
  PROVE  VerifiedNow
  <1>0. /\ SafetyInv /\ TypeInv /\ RecordsFit /\ WorkFits /\ TermsSet /\ Onward
        /\ invoice \in [Invoices -> InvoiceRows]
    BY Advances, TypeInvParts DEF RecordsInv, SafetyInv, LifecycleTypeOK
  <1> SUFFICES ASSUME NEW o \in OpIds, payments[o].status # "verified",
                      payments'[o].status = "verified"
               PROVE  /\ chain[o].ok /\ chain[o].memo = payments'[o].link
                      /\ chain[o].to = Recipient[payments'[o].link]
                      /\ chain[o].asset = expectedAsset(InvoiceCurrency)
                      /\ chain[o].stroops = invoice[payments'[o].link].stroops
                      /\ chain[o].closed
                           <= invoice[payments'[o].link].due + GraceDays
                      /\ invoice[payments'[o].link].status \in PayableStatuses
                      /\ invoice'[payments'[o].link].status = "paid"
    BY DEF VerifiedNow
  <1>1. PICK w \in Workers, q \in OpIds :
          InsertSettled(w, q) \/ InsertDetected(w, q) \/ Finalize(w, q)
    BY PaymentsWriters
  <1>2. ~(InsertSettled(w, q) \/ InsertDetected(w, q))
    BY <1>0, InsertedFits DEF WorkFits
  <1>3. Finalize(w, q) /\ RecordFits(q)
    BY <1>0, <1>1, <1>2 DEF RecordsFit
  <1>4. q = o
    BY <1>0, <1>3, FinalizedFits
  <1> PICK i : i = payments[o].link
    OBVIOUS
  <1>5. /\ o \in Ops /\ chain[o].ok /\ chain[o].memo = i
        /\ i \in Invoices /\ Exists(i) /\ payments'[o].link = i
        /\ chain[o].to = Recipient[i]
        /\ chain[o].asset = expectedAsset(InvoiceCurrency)
        /\ chain[o].stroops = invoice[i].stroops
        /\ ~Late(chain[o], InvoiceView(i))
    BY <1>0, <1>3, <1>4, FinalizeJudges
  <1>6. invoice[i].status \in PayableStatuses /\ SetStatus(i, "paid")
    BY <1>0, <1>3, <1>4, FinalizeEffect
  <1>7. invoice'[i].status = "paid"
    BY <1>0, <1>5, <1>6 DEF SetStatus, InvoiceRows
  <1>8. chain[o].closed <= invoice[i].due + GraceDays
    <2>1. invoice[i].due \in Days /\ chain[o].closed \in Days
      BY <1>0, <1>5, OperationTyped DEF TermsSet, Exists, InvoiceStatuses
    <2>2. InvoiceView(i).expiresAt = ExpiresAt(invoice[i].due)
      BY <1>0, <1>5, ViewOf
    <2>3. InvoiceView(i).expiresAt = invoice[i].due + GraceDays + 1
      BY <2>1, <2>2, LifecycleAssumption DEF ExpiresAt, Days
    <2>4. InvoiceView(i).expiresAt # 0 /\ ~(chain[o].closed >= InvoiceView(i).expiresAt)
      BY <1>5, <2>1, <2>3, LifecycleAssumption, GraceDaysAssumption DEF Late, Days
    <2> QED BY <2>1, <2>3, <2>4, LifecycleAssumption, GraceDaysAssumption DEF Days
  <1> QED BY <1>5, <1>6, <1>7, <1>8

(* A payment is verified only by an exact, successful USDC payment to the  *)
(* invoice's recipient, closed within the window, of the total the invoice *)
(* has at that very moment, and the invoice is paid in the same step.      *)
THEOREM VerifiedOnItsTerms == Spec => VerifiedOnTerms
  <1>1. RecordsInv /\ [Next]_vars => [VerifiedNow]_payments
    BY StepVerifiesOnTerms
  <1>2. Spec => []RecordsInv
    BY RecordsInit, RecordsStep, PTL DEF Spec
  <1>3. Spec => [][VerifiedNow]_payments
    BY <1>1, <1>2, PTL DEF Spec
  <1> QED BY <1>3 DEF VerifiedOnTerms, VerifiedNow

-------------------------------------------------------------------------------
(***************************************************************************)
(* The wallet history.                                                     *)
(***************************************************************************)
KnownPayee(o) == chain[o].to \in Accounts /\ chain[o].asset.code \in {"USDC", "XLM"}

OnChainResult(o) == IF chain[o].ok THEN "confirmed" ELSE "failed"

HistoryRowFits(t) ==
  ledger[t].status # "none" =>
    /\ ledger[t].op \in Ops /\ chain[ledger[t].op].tx = t /\ Settled(ledger[t].op)
    /\ ledger[t].status = OnChainResult(ledger[t].op)
    /\ ledger[t].link = payments[ledger[t].op].link

InHistory(o) == Settled(o) /\ KnownPayee(o) => ledger[chain[o].tx].status # "none"

(* Both directions of HistoryAgrees.                                       *)
LEMMA HistoryParts ==
  HistoryAgrees <=> /\ \A t \in OpIds : HistoryRowFits(t)
                    /\ \A o \in Ops : InHistory(o)
  BY DEF HistoryAgrees, HistoryRowFits, InHistory, KnownPayee, OnChainResult

(* A payment settled together with its history row, unless its transaction *)
(* has one already or the wallet or the asset is not known.                *)
LEMMA HistoryAdded ==
  ASSUME TypeInv, HistoryAgrees, NEW o \in Ops, ~Settled(o),
         UNCHANGED chain, \A q \in OpIds \ {o} : payments'[q] = payments[q],
         payments'[o].status \in FinalStatuses,
         \/ AddTransaction(o, payments'[o].link, OnChainResult(o))
         \/ UNCHANGED ledger /\ ~KnownPayee(o)
  PROVE  HistoryAgrees'
  <1> PICK tx : tx = chain[o].tx
    OBVIOUS
  <1> PICK new : new = [status |-> OnChainResult(o), op |-> o,
                        link |-> payments'[o].link]
    OBVIOUS
  <1>0. /\ o \in OpIds /\ tx \in OpIds /\ ledger \in [OpIds -> LedgerRows]
        /\ Ops \subseteq OpIds /\ Ops' = Ops
        /\ \A t \in OpIds : HistoryRowFits(t)
        /\ \A q \in Ops : InHistory(q)
    BY TypeInvParts, OperationTyped, ChainLength, HistoryParts DEF DBTypeOK, Ops
  <1>1. Settled(o)' /\ \A q \in OpIds \ {o} : Settled(q)' <=> Settled(q)
    BY <1>0 DEF Settled
  <1>2. \/ UNCHANGED ledger
        \/ ledger' = [ledger EXCEPT ![tx] = new] /\ ledger[tx].status = "none"
    BY DEF AddTransaction
  <1>3. ledger'[tx].status = "none" => ~KnownPayee(o)
    BY <1>0 DEF AddTransaction, OnChainResult
  <1>4. ASSUME NEW t \in OpIds PROVE HistoryRowFits(t)'
    <2>1. CASE ledger'[t] = ledger[t]
      <3>1. ledger[t].status # "none" => ledger[t].op \in OpIds \ {o}
        BY <1>0 DEF HistoryRowFits
      <3> QED BY <1>0, <1>1, <2>1, <3>1 DEF HistoryRowFits, OnChainResult
    <2>2. CASE ledger'[t] # ledger[t]
      <3>1. t = tx /\ ledger'[t] = new
        BY <1>0, <1>2, <2>2
      <3> QED BY <1>0, <1>1, <3>1 DEF HistoryRowFits, OnChainResult
    <2> QED BY <2>1, <2>2
  <1>5. ASSUME NEW q \in Ops' PROVE InHistory(q)'
    <2>1. CASE q = o
      BY <1>3, <2>1 DEF InHistory, KnownPayee
    <2>2. CASE q # o
      <3>1. InHistory(q) /\ (Settled(q)' <=> Settled(q)) /\ chain[q].tx \in OpIds
        BY <1>0, <1>1, <2>2, OperationTyped
      <3>2. \A t \in OpIds : ledger[t].status # "none" => ledger'[t] = ledger[t]
        BY <1>0, <1>2
      <3> QED BY <3>1, <3>2 DEF InHistory, KnownPayee
    <2> QED BY <2>1, <2>2
  <1> QED BY <1>4, <1>5, HistoryParts DEF HistoryAgrees, HistoryRowFits, InHistory,
             KnownPayee, OnChainResult

(* Only finalize and the insert of a settled payment write the history.    *)
LEMMA LedgerWriters ==
  ASSUME [Next]_vars
  PROVE  \/ UNCHANGED ledger
         \/ \E w \in Workers, o \in OpIds : InsertSettled(w, o) \/ Finalize(w, o)
  <1> USE DEF dbVars
  <1>1. ASSUME NEW w \in Workers, ProcessPayment(w)
        PROVE  \/ UNCHANGED ledger
               \/ \E o \in OpIds : InsertSettled(w, o) \/ Finalize(w, o)
    BY <1>1
    DEF ProcessPayment, LoadInvoice, InsertDetected, InsertFails, InsertConflicts,
        Reflag, FinalizeNothing
  <1>2. ASSUME NEW s \in Servers, Monitor(s)
        PROVE  UNCHANGED ledger \/ ProcessPayment(s)
    BY <1>2
    DEF Monitor, Poll, PollAccount, NextPage, SaveCursor, EndPoll,
        RecoverUnfinished, EndRecover, ExpireInvoices
  <1> QED BY <1>1, <1>2
          DEF Workers, Next, SettlementNext, VerifyTransaction, SubmitTransaction,
              Fails, StageFails, Crash, LoseLock, vars, settlementVars

(* Every step of the payments package keeps history and records agreeing.  *)
LEMMA HistoryStep ==
  ASSUME RecordsInv, HistoryAgrees, [Next]_vars
  PROVE  HistoryAgrees'
  <1>0. /\ SafetyInv /\ TypeInv /\ RecordsFit /\ WorkFits /\ Onward
        /\ \A t \in OpIds : HistoryRowFits(t)
        /\ \A o \in Ops : InHistory(o)
        /\ Ops \subseteq OpIds
    BY Advances, HistoryParts, ChainLength DEF RecordsInv, SafetyInv
  <1>1. ASSUME NEW w \in Workers, NEW o \in OpIds, InsertSettled(w, o)
        PROVE  HistoryAgrees'
    <2> PICK r : r = row[w]
      OBVIOUS
    <2>1. /\ At(w, o) /\ phase[w] = "insert" /\ ~Recorded(o) /\ UNCHANGED chain
          /\ payments' = [payments EXCEPT ![o] = r]
          /\ r.status \in {"failed", "unmatched"}
          /\ recordRejectedTransaction(o, r.link, r.status)
      BY <1>0, <1>1, TypeInvParts
      DEF InsertSettled, WorkInv, WorkTypeOK, RowsUnjudged
    <2>2. o \in Ops /\ RowFits(o, r)
      BY <1>0, <2>1 DEF WorkFits, AtWork, At
    <2>3. payments'[o] = r /\ \A q \in OpIds \ {o} : payments'[q] = payments[q]
      BY <2>1, <1>0, TypeInvParts DEF DBTypeOK
    <2>4. (IF r.status = "failed" THEN "failed" ELSE "confirmed") = OnChainResult(o)
      BY <2>1, <2>2 DEF RowFits, OnChainResult
    <2>5. \/ AddTransaction(o, r.link, OnChainResult(o))
          \/ UNCHANGED ledger /\ ~KnownPayee(o)
      BY <2>1, <2>4 DEF recordRejectedTransaction, KnownPayee
    <2>6. ~Settled(o) /\ r.status \in FinalStatuses
      BY <2>1 DEF Settled, Recorded, FinalStatuses
    <2> QED BY <1>0, <2>1, <2>2, <2>3, <2>5, <2>6, HistoryAdded
  <1>2. ASSUME NEW w \in Workers, NEW o \in OpIds, Finalize(w, o)
        PROVE  HistoryAgrees'
    <2> PICK i : i = payments[o].link
      OBVIOUS
    <2> PICK v : v = Judge([chain[o] EXCEPT !.ok = TRUE], i)
      OBVIOUS
    <2>1. /\ payments' = [payments EXCEPT ![o].status = v.status, ![o].code = v.code]
          /\ UNCHANGED chain
          /\ \/ AddTransaction(o, i, "confirmed")
             \/ recordRejectedTransaction(o, i, v.status)
      BY <1>2 DEF Finalize
    <2>2. /\ o \in Ops /\ chain[o].ok /\ payments'[o].link = i
          /\ payments'[o].status \in {"verified", "invalid"}
      BY <1>0, <1>2, FinalizeJudges DEF RecordsFit
    <2>3. /\ payments[o].status \notin FinalStatuses
          /\ \A q \in OpIds \ {o} : payments'[q] = payments[q]
      BY <1>0, <1>2, FinalizeEffect
    <2>4. payments'[o].status = v.status
      <3>1. payments[o] \in PaymentRows /\ payments \in [OpIds -> PaymentRows]
        BY <1>0, TypeInvParts DEF DBTypeOK
      <3> QED BY <2>1, <3>1 DEF PaymentRows
    <2>5. \/ AddTransaction(o, i, OnChainResult(o))
          \/ UNCHANGED ledger /\ ~KnownPayee(o)
      BY <2>1, <2>2, <2>4 DEF recordRejectedTransaction, KnownPayee, OnChainResult
    <2> QED BY <1>0, <2>1, <2>2, <2>3, <2>5, HistoryAdded DEF Settled, FinalStatuses
  (* What settles nothing and writes no history keeps both directions.     *)
  <1>3. ASSUME UNCHANGED ledger,
               \A o \in OpIds : Settled(o) <=> Settled(o)',
               \A o \in OpIds : Settled(o) => payments'[o] = payments[o]
        PROVE  HistoryAgrees'
    <2>1. \A o \in Ops : o \in Ops' /\ chain'[o] = chain[o]
      BY <1>0 DEF Onward, Ops
    <2>2. ASSUME NEW t \in OpIds PROVE HistoryRowFits(t)'
      BY <1>0, <1>3, <2>1 DEF HistoryRowFits, OnChainResult
    <2>3. ASSUME NEW o \in Ops' PROVE InHistory(o)'
      <3>1. o \in OpIds
        BY <1>0, ChainLengthNext
      <3>2. Settled(o) => o \in Ops
        BY <1>0, <3>1 DEF RecordsFit, RecordFits, Settled, FinalStatuses, NoPayment
      <3> QED BY <1>0, <1>3, <2>1, <3>1, <3>2 DEF InHistory, KnownPayee
    <2> QED BY <2>2, <2>3, HistoryParts
            DEF HistoryAgrees, HistoryRowFits, InHistory, KnownPayee, OnChainResult
  <1>4. CASE ~\E w \in Workers, o \in OpIds : InsertSettled(w, o) \/ Finalize(w, o)
    <2>1. UNCHANGED ledger
      BY <1>4, LedgerWriters
    <2>2. CASE UNCHANGED payments
      BY <1>3, <2>1, <2>2 DEF Settled
    <2>3. CASE payments' # payments
      <3>1. PICK w \in Workers, o \in OpIds : InsertDetected(w, o)
        BY <1>4, <2>3, PaymentsWriters
      <3>2. /\ payments' = [payments EXCEPT ![o] = row[w]]
            /\ row[w].status = "detected" /\ ~Recorded(o)
            /\ payments \in [OpIds -> PaymentRows]
        BY <1>0, <3>1, TypeInvParts DEF InsertDetected, DBTypeOK
      <3> QED BY <1>3, <2>1, <3>2 DEF Settled, Recorded, FinalStatuses
    <2> QED BY <2>2, <2>3
  <1> QED BY <1>1, <1>2, <1>4

(* The wallet history and the payment records agree, in both directions,   *)
(* as long as only the payments package writes the history.                *)
THEOREM HistoryInAgreement == Spec => []HistoryAgrees
  <1>1. Init => HistoryAgrees
    <2> SUFFICES ASSUME Init PROVE HistoryAgrees
      OBVIOUS
    <2>1. Len(chain) = 0 /\ \A t \in OpIds : ledger[t].status = "none"
      BY DEF Init, SettlementInit, NoTransaction
    <2>2. Ops = {}
      BY <2>1 DEF Ops
    <2> QED BY <2>1, <2>2 DEF HistoryAgrees
  <1>2. RecordsInv /\ HistoryAgrees /\ [Next]_vars => HistoryAgrees'
    BY HistoryStep
  <1> QED BY <1>1, <1>2, RecordsInit, RecordsStep, PTL DEF Spec
=============================================================================
