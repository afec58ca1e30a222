-------------------------- MODULE PaymentSettlement ---------------------------
(***************************************************************************)
(* The payments package: payments seen on Stellar are recorded, judged     *)
(* against the invoice their memo names and settled.  Three kinds of       *)
(* process do this at the same time, over one Postgres database:           *)
(*                                                                         *)
(*   - the payment monitor of every server (poll, recover, expire, ...),   *)
(*   - VerifyTransaction requests (MarkInvoicePaid, PayInvoice and the     *)
(*     verify endpoint all end there),                                     *)
(*   - the writers of the invoice table in InvoiceLifecycle.               *)
(*                                                                         *)
(* One action is what commits at once.  Postgres runs READ COMMITTED, so a *)
(* read outside a transaction and the write that follows are two actions.  *)
(* Two transactions are single actions: the one that inserts a new payment *)
(* row (nobody sees the row before the commit, and a second insert of the  *)
(* operation waits for it on the unique index), and finalize (it locks the *)
(* payment row, then the invoice row, and decides under both locks).       *)
(* insertDetected finding the row already there is two: it reads without a *)
(* lock, and the invoice may have been settled before its UPDATE.          *)
(***************************************************************************)
EXTENDS InvoiceLifecycle, FiniteSets, Sequences

CONSTANTS
  Accounts,      \* addresses of the active Stellar wallets
  UnknownMemo,   \* a memo that is no invoice's payment reference
  Transactions,  \* the transactions payers may submit: sequences of payments
                 \* that share the memo and the result
  MaxOps,        \* the bound on payment operations on the chain
  MaxStroops,    \* the largest total amount.ParseInt64 accepts
  Servers,       \* server instances, each with one payment monitor
  Requests,      \* VerifyTransaction requests
  PageLimit,     \* operations per Horizon page
  MaxPages,      \* maxPagesPerAccount
  NoServer,      \* the poll lock is free
  MaxFaults      \* the bound on errors, crashes and lost connections

(* What loadInvoice returns of an invoice; NoInvoice is none of these.      *)
InvoiceViews ==
  [status: InvoiceStatuses, recipient: {Recipient[i] : i \in Invoices},
   stroops: Totals \cup {0}, expiresAt: Nat]

ASSUME SettlementAssumption ==
  /\ MaxOps \in Nat /\ MaxStroops \in Nat /\ MaxFaults \in Nat
  /\ PageLimit \in Nat \ {0} /\ MaxPages \in Nat \ {0}
  /\ Servers \cap Requests = {}
  /\ NoServer \notin Servers
  /\ NoInvoice \notin Invoices \cup InvoiceViews
  /\ NoMemo \notin Invoices
  /\ \A t \in Transactions :
       /\ Len(t) \in Nat /\ DOMAIN t = 1..Len(t)
       /\ \A k \in DOMAIN t : t[k].stroops \in Nat

VARIABLES
  chain,      \* payment operations on Stellar, in ledger order
  payments,   \* the payments table, by operation id
  ledger,     \* the transactions table, by transaction hash
  cursor,     \* the payment_cursors table, by account
  pollLock,   \* who holds the Postgres advisory lock of Poll
  stage,      \* the stage each payment monitor is in
  todo,       \* accounts a running Poll has still to read
  page,       \* the page of pollAccount
  queue,      \* operations a process has still to settle
  phase,      \* where a process is with the first of them
  row,        \* the payment row a process is about to insert
  faults      \* errors and crashes so far

dbVars == <<payments, ledger, cursor>>
pollVars == <<pollLock, stage, todo, page>>
workVars == <<queue, phase, row>>
settlementVars == <<chain, dbVars, pollVars, workVars, faults>>
vars == <<lifecycleVars, settlementVars>>

Workers == Servers \cup Requests
OpIds == 1..MaxOps

Operations ==
  UNION {{[tx |-> n, closed |-> d, to |-> t[k].to, asset |-> t[k].asset,
           stroops |-> t[k].stroops, memo |-> t[k].memo, ok |-> t[k].ok] :
             n \in OpIds, d \in Days, k \in DOMAIN t} : t \in Transactions}

Links == Invoices \cup {NoInvoice}
NoCode == ""

PaymentRows ==
  [status: VerificationStatuses \cup {"none"},
   code: FailureCodes \cup {NoCode}, link: Links]
NoPayment == [status |-> "none", code |-> NoCode, link |-> NoInvoice]

LedgerRows ==
  [status: {"none", "confirmed", "failed"}, op: 0..MaxOps, link: Links]
NoTransaction == [status |-> "none", op |-> 0, link |-> NoInvoice]

PollPages ==
  [pc: {"pick", "page", "next"}, account: Accounts \cup {NoRecipient},
   since: 0..MaxOps, upto: 0..MaxOps, pages: 0..MaxPages, full: BOOLEAN]
NoPage == [pc |-> "pick", account |-> NoRecipient, since |-> 0, upto |-> 0,
           pages |-> 0, full |-> FALSE]

DBTypeOK ==
  /\ payments \in [OpIds -> PaymentRows]
  /\ ledger \in [OpIds -> LedgerRows]
  /\ cursor \in [Accounts -> 0..MaxOps]

PollTypeOK ==
  /\ pollLock \in Servers \cup {NoServer}
  /\ stage \in [Servers -> {"idle", "poll", "recover", "recovering", "expire"}]
  /\ todo \in [Servers -> SUBSET Accounts]
  /\ page \in [Servers -> PollPages]

WorkTypeOK ==
  /\ queue \in [Workers -> SUBSET OpIds]
  /\ phase \in [Workers -> {"load", "insert", "reflag", "settle"}]
  /\ row \in [Workers -> PaymentRows]

SettlementTypeOK ==
  /\ chain \in Seq(Operations) /\ Len(chain) <= MaxOps
  /\ DBTypeOK
  /\ PollTypeOK
  /\ WorkTypeOK
  /\ faults \in 0..MaxFaults

TypeOK == LifecycleTypeOK /\ SettlementTypeOK

SettlementInit ==
  /\ chain = << >>
  /\ payments = [o \in OpIds |-> NoPayment]
  /\ ledger = [o \in OpIds |-> NoTransaction]
  /\ cursor = [a \in Accounts |-> 0]
  /\ pollLock = NoServer
  /\ stage = [s \in Servers |-> "idle"]
  /\ todo = [s \in Servers |-> {}]
  /\ page = [s \in Servers |-> NoPage]
  /\ queue = [w \in Workers |-> {}]
  /\ phase = [w \in Workers |-> "load"]
  /\ row = [w \in Workers |-> NoPayment]
  /\ faults = 0

Init == LifecycleInit /\ SettlementInit
-------------------------------------------------------------------------------
Ops == 1..Len(chain)

Recorded(o) == payments[o].status # "none"

(* Mutated form of Unfinished: the verification_status filter is missing.  *)
UnfinishedAnyStatus(o) == Recorded(o)

Unfinished(o) == payments[o].status \in {"pending", "detected"}

(* loadInvoice for a memo or an id: NoInvoice when no row has it.          *)
InvoiceView(m) ==
  IF m \in Invoices /\ Exists(m)
  THEN [status |-> invoice[m].status, recipient |-> Recipient[m],
        stroops |-> invoice[m].stroops, expiresAt |-> ExpiresAt(invoice[m].due)]
  ELSE NoInvoice

(* amount.ParseInt64 rejects the total: loadInvoice returns an error.      *)
Unreadable(m) ==
  m \in Invoices /\ Exists(m) /\ invoice[m].stroops > MaxStroops

Judge(p, m) == evaluate(p, InvoiceView(m), expectedAsset(InvoiceCurrency))

(* INSERT INTO transactions ... ON CONFLICT (transaction_hash) DO NOTHING  *)
AddTransaction(o, link, status) ==
  LET tx == chain[o].tx
  IN  ledger' = IF ledger[tx].status = "none"
                THEN [ledger EXCEPT ![tx] =
                       [status |-> status, op |-> o, link |-> link]]
                ELSE ledger

(* Mutated form of recordRejectedTransaction: the ledger status is the     *)
(* verification result, not the on-chain one.                              *)
recordVerificationResult(o, link, status) ==
  IF chain[o].asset.code \in {"USDC", "XLM"} /\ chain[o].to \in Accounts
  THEN AddTransaction(o, link, IF status = "verified" THEN "confirmed" ELSE "failed")
  ELSE UNCHANGED ledger

(* A payment that settled nothing goes to the history of the wallet it     *)
(* reached, in the currencies the history knows.                           *)
recordRejectedTransaction(o, link, status) ==
  IF chain[o].asset.code \in {"USDC", "XLM"} /\ chain[o].to \in Accounts
  THEN AddTransaction(o, link, IF status = "failed" THEN "failed" ELSE "confirmed")
  ELSE UNCHANGED ledger

FlaggableStatuses == PayableStatuses \ {"payment_detected"}

(* Mutated form of FlagDetected: whatever the status of the invoice.       *)
FlagDetectedAlways(i) == SetStatus(i, "payment_detected")

(* The invoice is being paid: UPDATE ... WHERE status IN (...).            *)
FlagDetected(i) ==
  IF invoice[i].status \in FlaggableStatuses
  THEN SetStatus(i, "payment_detected") ELSE UNCHANGED invoice

Recovering(w) == w \in Servers /\ stage[w] = "recovering"

(* The operation a process is at: a page and a transaction are settled in  *)
(* ledger order, recovery in the order the payments were detected.         *)
At(w, o) ==
  /\ o \in queue[w]
  /\ Recovering(w) \/ \A q \in queue[w] : o <= q

(* The process is through with o.                                          *)
Finish(w, o) ==
  /\ queue' = [queue EXCEPT ![w] = @ \ {o}]
  /\ phase' = [phase EXCEPT ![w] = "load"]
  /\ row' = [row EXCEPT ![w] = NoPayment]

GoOn(w, next) ==
  /\ phase' = [phase EXCEPT ![w] = next]
  /\ row' = [row EXCEPT ![w] = NoPayment]
  /\ UNCHANGED queue

(* Mutated form of AbandonPage: the failed operation is skipped.           *)
SkipOperation(w) == page' = page

AbandonPage(w) ==
  page' = IF w \in Servers THEN [page EXCEPT ![w] = NoPage] ELSE page

(* An error at o: recovery goes on with the next payment, a request ends   *)
(* and Poll gives the account up without moving its cursor.                *)
GiveUp(w, o) ==
  /\ queue' = [queue EXCEPT ![w] = IF Recovering(w) THEN @ \ {o} ELSE {}]
  /\ phase' = [phase EXCEPT ![w] = "load"]
  /\ row' = [row EXCEPT ![w] = NoPayment]
  /\ AbandonPage(w)
  /\ UNCHANGED <<pollLock, stage, todo>>
-------------------------------------------------------------------------------
(***************************************************************************)
(* processPayment, one operation.                                          *)
(***************************************************************************)

(* Mutated form of RowFor: the verdict of the unlocked read is final.      *)
RowAsJudged(o) ==
  LET v == Judge(chain[o], chain[o].memo)
  IN  [status |-> v.status, code |-> v.code,
       link |-> IF v.status = "unmatched" THEN NoInvoice ELSE chain[o].memo]

(* The row to insert: a failed or unmatched payment is recorded as it is,  *)
(* every other one as detected, to be judged again under locks.            *)
RowFor(o) ==
  LET inv == InvoiceView(chain[o].memo)
      v   == Judge(chain[o], chain[o].memo)
      mine == v.status = "failed" /\ inv # NoInvoice /\ inv.recipient = chain[o].to
  IN  IF v.status \in {"failed", "unmatched"}
      THEN [status |-> v.status, code |-> v.code,
            link |-> IF mine THEN chain[o].memo ELSE NoInvoice]
      ELSE [status |-> "detected", code |-> NoCode, link |-> chain[o].memo]

(* The invoice is read outside any transaction.                            *)
LoadInvoice(w, o) ==
  /\ At(w, o) /\ ~Recovering(w) /\ phase[w] = "load"
  /\ IF Unreadable(chain[o].memo)
     THEN GiveUp(w, o)
     ELSE /\ row' = [row EXCEPT ![w] = RowFor(o)]
          /\ phase' = [phase EXCEPT ![w] = "insert"]
          /\ UNCHANGED <<queue, pollVars>>
  /\ UNCHANGED <<lifecycleVars, chain, dbVars, faults>>

(* Mutated form of LinkExists: no foreign key.                             *)
LinkUnchecked(w) == TRUE

(* payments.invoice_id references invoice(id).                             *)
LinkExists(w) == row[w].link # NoInvoice => Exists(row[w].link)

InsertSettled(w, o) ==
  /\ At(w, o) /\ phase[w] = "insert" /\ row[w].status # "detected"
  /\ ~Recorded(o) /\ LinkExists(w)
  /\ payments' = [payments EXCEPT ![o] = row[w]]
  /\ recordRejectedTransaction(o, row[w].link, row[w].status)
  /\ Finish(w, o)
  /\ UNCHANGED <<lifecycleVars, chain, cursor, pollVars, faults>>

InsertDetected(w, o) ==
  /\ At(w, o) /\ phase[w] = "insert" /\ row[w].status = "detected"
  /\ ~Recorded(o) /\ LinkExists(w)
  /\ payments' = [payments EXCEPT ![o] = row[w]]
  /\ FlagDetected(row[w].link)
  /\ GoOn(w, "settle")
  /\ UNCHANGED <<today, updating, dailyRun, chain, ledger, cursor, pollVars, faults>>

(* The invoice was deleted since it was read: the foreign key fails.       *)
InsertFails(w, o) ==
  /\ At(w, o) /\ phase[w] = "insert" /\ ~Recorded(o) /\ ~LinkExists(w)
  /\ GiveUp(w, o)
  /\ UNCHANGED <<lifecycleVars, chain, dbVars, faults>>

(* ON CONFLICT DO NOTHING: somebody recorded the operation before.  Only a *)
(* payment to be judged looks whether that row is still unfinished, without *)
(* locking it.                                                             *)
InsertConflicts(w, o) ==
  /\ At(w, o) /\ phase[w] = "insert" /\ Recorded(o)
  /\ IF row[w].status = "detected" /\ Unfinished(o)
     THEN /\ phase' = [phase EXCEPT ![w] = "reflag"]
          /\ UNCHANGED <<queue, row>>
     ELSE Finish(w, o)
  /\ UNCHANGED <<lifecycleVars, chain, dbVars, pollVars, faults>>

(* The second statement of insertDetected after a conflict, and its commit. *)
Reflag(w, o) ==
  /\ At(w, o) /\ phase[w] = "reflag"
  /\ FlagDetected(row[w].link)
  /\ GoOn(w, "settle")
  /\ UNCHANGED <<today, updating, dailyRun, chain, dbVars, pollVars, faults>>

(* finalize: judge a payment not yet settled against the invoice as it is  *)
(* now, with both rows locked.  The payment comes from its row, which does *)
(* not say whether the transaction succeeded: finalize assumes it did.     *)
Finalize(w, o) ==
  LET i == payments[o].link
      v == Judge([chain[o] EXCEPT !.ok = TRUE], i)
  IN /\ At(w, o)
     /\ phase[w] = "settle" \/ Recovering(w)
     /\ Unfinished(o) /\ ~Unreadable(i)
     /\ payments' = [payments EXCEPT ![o].status = v.status, ![o].code = v.code]
     /\ IF v.status = "verified"
        THEN /\ SetStatus(i, "paid")
             /\ AddTransaction(o, i, "confirmed")
        ELSE /\ recordRejectedTransaction(o, i, v.status)
             /\ IF v.status = "invalid" /\ invoice[i].status = "payment_detected"
                THEN SetStatus(i, "invalid_payment") ELSE UNCHANGED invoice
     /\ Finish(w, o)
     /\ UNCHANGED <<today, updating, dailyRun, chain, cursor, pollVars, faults>>

(* Somebody else settled it first, or the invoice's total is unreadable.   *)
FinalizeNothing(w, o) ==
  /\ At(w, o)
  /\ phase[w] = "settle" \/ Recovering(w)
  /\ IF Unfinished(o)
     THEN Unreadable(payments[o].link) /\ GiveUp(w, o)
     ELSE Finish(w, o) /\ UNCHANGED pollVars
  /\ UNCHANGED <<lifecycleVars, chain, dbVars, faults>>

ProcessPayment(w) ==
  \E o \in OpIds :
    \/ LoadInvoice(w, o)
    \/ InsertSettled(w, o)
    \/ InsertDetected(w, o)
    \/ InsertFails(w, o)
    \/ InsertConflicts(w, o)
    \/ Reflag(w, o)
    \/ Finalize(w, o)
    \/ FinalizeNothing(w, o)
-------------------------------------------------------------------------------
(***************************************************************************)
(* The payment monitor: startPaymentMonitor runs poll, recover and expire  *)
(* one after the other on every tick, whatever the one before returned.    *)
(***************************************************************************)
Goto(s, next) == stage' = [stage EXCEPT ![s] = next]

(* pg_try_advisory_lock: whoever does not get it does not poll.            *)
Poll(s) ==
  /\ stage[s] = "idle"
  /\ IF pollLock = NoServer
     THEN /\ pollLock' = s
          /\ todo' = [todo EXCEPT ![s] = Accounts]
          /\ Goto(s, "poll")
     ELSE /\ Goto(s, "recover")
          /\ UNCHANGED <<pollLock, todo>>
  /\ UNCHANGED <<lifecycleVars, chain, dbVars, page, workVars, faults>>

(* One page of Horizon: the account's operations after a cursor, up to the *)
(* page limit.                                                             *)
IsPage(ops, a, since, upto) ==
  LET new == {o \in Ops : chain[o].to = a /\ o > since}
  IN /\ ops = {o \in new : o <= upto}
     /\ IF Cardinality(new) >= PageLimit
        THEN Cardinality(ops) = PageLimit /\ upto \in ops
        ELSE upto \in new \cup {since} /\ ops = new

FetchPage(s, a, since, pages) ==
  \E upto \in {since} \cup Ops :
    LET ops == {o \in Ops : chain[o].to = a /\ o > since /\ o <= upto}
    IN /\ IsPage(ops, a, since, upto)
       /\ queue' = [queue EXCEPT ![s] = ops]
       /\ page' = [page EXCEPT ![s] =
            [pc |-> "page", account |-> a, since |-> since, upto |-> upto,
             pages |-> pages, full |-> Cardinality(ops) = PageLimit]]

(* pollAccount starts: it reads the saved cursor and the first page.       *)
PollAccount(s, a) ==
  /\ stage[s] = "poll" /\ page[s].pc = "pick" /\ a \in todo[s]
  /\ todo' = [todo EXCEPT ![s] = @ \ {a}]
  /\ FetchPage(s, a, cursor[a], 1)
  /\ UNCHANGED <<lifecycleVars, chain, dbVars, pollLock, stage, phase, row, faults>>

NextPage(s) ==
  /\ stage[s] = "poll" /\ page[s].pc = "next"
  /\ FetchPage(s, page[s].account, page[s].upto, page[s].pages + 1)
  /\ UNCHANGED <<lifecycleVars, chain, dbVars, pollLock, stage, todo, phase, row, faults>>

(* Mutated form of MorePages: one page too many.                           *)
MorePagesByOne(p) == p.full /\ p.pages <= MaxPages

MorePages(p) == p.full /\ p.pages < MaxPages

(* The whole page is processed: its last operation becomes the cursor.     *)
SaveCursor(s) ==
  LET p == page[s]
  IN /\ stage[s] = "poll" /\ p.pc = "page" /\ queue[s] = {}
     /\ cursor' = IF p.upto # p.since
                  THEN [cursor EXCEPT ![p.account] = p.upto] ELSE cursor
     /\ page' = [page EXCEPT ![s] =
          IF MorePages(p) THEN [p EXCEPT !.pc = "next"] ELSE NoPage]
     /\ UNCHANGED <<lifecycleVars, chain, payments, ledger, pollLock, stage,
                    todo, workVars, faults>>

(* Mutated form of Unlock: the lock is kept with the pooled connection.    *)
UnlockForgotten(s) == pollLock' = pollLock

Unlock(s) == pollLock' = IF pollLock = s THEN NoServer ELSE pollLock

EndPoll(s) ==
  /\ stage[s] = "poll" /\ page[s].pc = "pick" /\ todo[s] = {}
  /\ Goto(s, "recover")
  /\ Unlock(s)
  /\ UNCHANGED <<lifecycleVars, chain, dbVars, todo, page, workVars, faults>>

(* Every unfinished payment counts as older than staleDetectedAfter: a     *)
(* process may take longer than that between two of its steps.             *)
RecoverUnfinished(s) ==
  /\ stage[s] = "recover"
  /\ queue' = [queue EXCEPT ![s] = {o \in OpIds : Unfinished(o)}]
  /\ Goto(s, "recovering")
  /\ UNCHANGED <<lifecycleVars, chain, dbVars, pollLock, todo, page, phase, row, faults>>

EndRecover(s) ==
  /\ Recovering(s) /\ queue[s] = {}
  /\ Goto(s, "expire")
  /\ UNCHANGED <<lifecycleVars, chain, dbVars, pollLock, todo, page, workVars, faults>>

(* The payment window ended and nothing is being settled.                  *)
ExpireInvoices(s) ==
  LET rows == {i \in Invoices :
                 /\ invoice[i].status \in
                      {"sent", "viewed", "overdue", "invalid_payment"}
                 /\ invoice[i].due # 0
                 /\ invoice[i].due + GraceDays < today}
  IN /\ stage[s] = "expire"
     /\ invoice' = UpdateRows(invoice, rows, "expired")
     /\ Goto(s, "idle")
     /\ UNCHANGED <<today, updating, dailyRun, chain, dbVars, pollLock, todo, page,
                    workVars, faults>>

Monitor(s) ==
  \/ Poll(s)
  \/ \E a \in Accounts : PollAccount(s, a)
  \/ NextPage(s)
  \/ SaveCursor(s)
  \/ EndPoll(s)
  \/ RecoverUnfinished(s)
  \/ EndRecover(s)
  \/ ExpireInvoices(s)
  \/ ProcessPayment(s)
-------------------------------------------------------------------------------
(* VerifyTransaction: the payments of one transaction that reach a wallet  *)
(* this server knows.                                                      *)
VerifyTransaction(r, tx) ==
  LET known == {o \in Ops : chain[o].tx = tx /\ chain[o].to \in Accounts}
  IN /\ queue[r] = {} /\ known # {}
     /\ queue' = [queue EXCEPT ![r] = known]
     /\ UNCHANGED <<lifecycleVars, chain, dbVars, pollVars, phase, row, faults>>

(* A ledger closes with a transaction of a payer in it.                    *)
SubmitTransaction(t) ==
  /\ Len(chain) + Len(t) <= MaxOps
  /\ chain' = chain \o
       [k \in 1..Len(t) |->
          [tx |-> Len(chain) + 1, closed |-> today, to |-> t[k].to,
           asset |-> t[k].asset, stroops |-> t[k].stroops, memo |-> t[k].memo,
           ok |-> t[k].ok]]
  /\ UNCHANGED <<lifecycleVars, dbVars, pollVars, workVars, faults>>
-------------------------------------------------------------------------------
(***************************************************************************)
(* Faults, at most MaxFaults of them.                                      *)
(***************************************************************************)
Fault == faults < MaxFaults /\ faults' = faults + 1

(* Horizon or the database returns an error, or the stage's context ends.  *)
Fails(w, o) ==
  /\ Fault
  /\ queue[w] # {} \/ (w \in Servers /\ page[w].pc # "pick")
  /\ GiveUp(w, o)
  /\ UNCHANGED <<lifecycleVars, chain, dbVars>>

(* A stage of the monitor returns an error: the next one runs all the same. *)
StageFails(s) ==
  /\ Fault
  /\ stage[s] # "idle"
  /\ Goto(s, CASE stage[s] = "poll" -> "recover"
               [] stage[s] \in {"recover", "recovering"} -> "expire"
               [] stage[s] = "expire" -> "idle")
  /\ queue' = [queue EXCEPT ![s] = {}]
  /\ phase' = [phase EXCEPT ![s] = "load"]
  /\ row' = [row EXCEPT ![s] = NoPayment]
  /\ page' = [page EXCEPT ![s] = NoPage]
  /\ todo' = [todo EXCEPT ![s] = {}]
  /\ Unlock(s)
  /\ UNCHANGED <<lifecycleVars, chain, dbVars>>

(* The server stops and starts again: what it held in memory is gone, and  *)
(* its database session with the advisory lock.                            *)
Crash(s) ==
  /\ Fault
  /\ queue' = [queue EXCEPT ![s] = {}]
  /\ phase' = [phase EXCEPT ![s] = "load"]
  /\ row' = [row EXCEPT ![s] = NoPayment]
  /\ page' = [page EXCEPT ![s] = NoPage]
  /\ todo' = [todo EXCEPT ![s] = {}]
  /\ Goto(s, "idle")
  /\ Unlock(s)
  /\ UNCHANGED <<lifecycleVars, chain, dbVars>>

(* Only the connection that holds the lock is lost: Poll works on other    *)
(* connections of the pool and does not notice.                            *)
LoseLock ==
  /\ Fault
  /\ pollLock # NoServer
  /\ pollLock' = NoServer
  /\ UNCHANGED <<lifecycleVars, chain, dbVars, stage, todo, page, workVars>>

-------------------------------------------------------------------------------
Linked == {i \in Invoices : \E o \in OpIds : payments[o].link = i}

SettlementNext ==
  \/ \E s \in Servers : Monitor(s)
  \/ \E r \in Requests : ProcessPayment(r)
  \/ \E r \in Requests, tx \in OpIds : VerifyTransaction(r, tx)
  \/ \E t \in Transactions : SubmitTransaction(t)
  \/ \E w \in Workers, o \in OpIds : Fails(w, o)
  \/ \E s \in Servers : StageFails(s)
  \/ \E s \in Servers : Crash(s)
  \/ LoseLock

Next ==
  \/ SettlementNext
  \/ LifecycleNext(Linked) /\ UNCHANGED settlementVars

Spec == Init /\ [][Next]_vars

(* The ticks keep coming and a started request runs on: every monitor and  *)
(* every request keeps taking steps.  Payers, owners and faults need not.  *)
Fairness ==
  /\ \A s \in Servers : WF_vars(Monitor(s))
  /\ \A r \in Requests : WF_vars(ProcessPayment(r))

FairSpec == Spec /\ Fairness
=============================================================================
