# Verification of stellance-backend

Stellance is an invoicing backend in Go. Its users send invoices, and clients
pay them in USDC on the Stellar network. Two processes (`cmd/server`, `cmd/api`)
and any number of their instances share one Postgres database and one Redis;
nothing but the database keeps them from stepping on each other. This directory
holds TLA+ models of that code, the TLC runs that check them on small
instances, and TLAPS proofs of what matters most.

Contents: [inventory](#inventory) - [models](#the-models) - [runs](#the-runs) -
[fairness](#fairness) - [proofs](#the-proofs) - [findings](#what-the-code-does-not-keep) -
[left out](#what-the-models-leave-out) - [plan](#plan).

## Inventory

| Component (code under `internal/` unless said) | State | Operations | What makes it correct |
|---|---|---|---|
| **payment rules** - `payments/verify.go`, `chain.go` | none | `evaluate`, `computeChecks`, `PaymentStatusFor` | the verdict and the checks shown to the merchant, two pieces of code, never contradict each other |
| **payment settlement** - `payments/service.go` | tables `payments`, `payment_cursors`, `transactions`, column `invoice.status` | `processPayment`, `insertSettled`, `insertDetected`, `finalize`, `Poll`, `pollAccount`, `RecoverUnfinished`, `ExpireInvoices`, `VerifyTransaction` | an invoice is paid exactly when one payment is verified for it; verdicts are final; no payment on the chain is skipped; every payment is settled in the end; the row the wallet history has of a transaction agrees with the payment records |
| **monitor and schedulers** - `cmd/server/http.go`, `tasks/task.go`, `cmd/api` | ticks; the Postgres advisory lock of `Poll` | 15-second payment monitor, hourly overdue ticker, hourly recurring generation, daily asynq task | one poller at a time is an optimisation, not an assumption: safety must survive two |
| **invoice service** - `invoice/service.go` | tables `invoice`, `invoice_items`, `clients`, `invoice_counters` | create, send, review, update, delete, list, cards, the daily task | a paid, expired or cancelled invoice is never reopened; an invoice is not deleted under a payment and is judged on the terms it has at that moment; the months of a year show each invoice once |
| **payments API** - `payments/api.go`, `queries.go`, `handler.go` | `invoice.recipient_address` | payment request, status, `MarkInvoicePaid`, `VerifyTransaction` endpoint | the address a payer is shown is the one the payment is judged against |
| **wallet service** - `wallet/service.go` | `wallets`, PIN attempts in Redis, submitted transactions | create, `PayInvoice`, `Transfer`, export, PIN | one wallet per user; an invoice is not paid twice from here; the PIN lock cannot be outrun |
| **transaction history** - `transactions/service.go` | `transactions` | list, cash flow, delete a row | each incoming payment once (not kept: one row per transaction); the cash flow and the card of paid invoices agree |
| **recurring invoices** - `recurring/service.go` | `recurring_invoices.next_run_at` | create, update, pause, delete, `GenerateDue` | each interval yields one invoice; none is held up for good |
| **authentication, users** - `auth/`, `user/`, `middleware/auth.go`, `pkg/jwt` | `users`; links and codes in Redis; nothing of a session | sign-up, Google, verification, sign-in, reset, profile | one account per address; only the last code resets; a deactivated account is written no more |
| **admin** - `admin/service.go` | `system_config` (the network), `users` | switch network, (de)activate, reset and delete users, lists | a switch neither skips nor replays payments, nor lets test money count |
| **rate limits** - `pkg/ratelimits`, `middleware` | a token bucket per client in Redis | `CheckStore` | the budget holds across concurrent requests and servers with different clocks; a refused client recovers |
| **invoice cache** - in `invoice/service.go` | Redis keys `invoice:<id>`, `invoice_search:...`, `invoice-search:...` | read through, delete on write | what is served is never older than a known bound |
| **invoice comments** - `invoice_comments/service.go` | `invoice_comments`, `comment_reactions` | comment, reply, edit, delete (no route), react, page | no reaction without its comment; a reader of the pages misses few |
| **notifications, activity log** - `notifications/`, `activitylog/` | their tables | insert after a payment, mark viewed, delete, list | a merchant is told once of each payment |
| **logo and storage** - `logo/`, `storage/` | `logos`, the object store | upload with an invoice, default logo | every logo has its file; the default is the one made so last |
| **connection pool** - `db/database.go` | 25 connections, a queue | acquire, release | handlers that need two at once do not hold up the server for ever; no handler returns with a connection |
| mail and PDF, configuration, API documentation | - | formatting, pure I/O, generated code | - |

How they interact:

* Payers submit transactions to Stellar; nothing of the backend is involved.
  Horizon, Stellar's API, pages through the operations of an account.
* The **payment monitor** of every server polls Horizon for every known wallet,
  and **requests** (verify endpoint, `MarkInvoicePaid`, `PayInvoice`) process
  one transaction at once. Both end in `processPayment`, so the same operation
  may be processed by several of them at the same time.
* `processPayment` reads the invoice outside any transaction, inserts the
  payment row (`ON CONFLICT DO NOTHING`), flags the invoice
  `payment_detected`, and calls `finalize`, which judges again under row locks.
* The **invoice service**, the overdue ticker, the daily task and
  `ExpireInvoices` write `invoice.status` from elsewhere, each with its own
  idea of which statuses it may replace.
* The wallet history (`transactions`) is written by `finalize` and by
  `insertSettled`, keyed by transaction hash, while payments are keyed by operation.
* The other services meet the payments only in few places: the network the admin
  sets is read at the start of each stage of a monitor; creating a wallet, sending
  an invoice and asking for a payment request each may fix the recipient; a
  goroutine tells the merchant after the commit that settles a payment; writers
  of invoices delete the cached copies. All of them share the connection pool.

Hard behaviours: READ COMMITTED interleavings of these writers, status read
before a lock and used after it, a crash between the commit that records a
payment and `finalize`, the advisory lock lost while its holder goes on, pages
and cursors with a failure in the middle, expiry against settlement, numeric
edges of amounts and dates; around them, requests that look in one statement and
write in another, goroutines nobody waits for, pages taken while rows come and
go, clocks that differ, and connections asked for while one is held. `PROJECT.json` lists every hazard with its line and
the property that covers it, or why none does yet.

## The models

```
PaymentRules            verify.go, chain.go: pure operators
 ├─ PaymentJudgement    one judgement of one payment ── ServiceSafety_proofs
 └─ InvoiceLifecycle    the invoice table and its writers outside payments
     └─ PaymentSettlement        the payments package, composed with it
         ├─ SettlementProperties properties; refinement of SettlementContract
         │   ├─ MCSettlement     instances for TLC
         │   └─ WalletPayments   requests of the wallet service, composed with it ── MCWallet
         └─ PaymentSettlement_proofs ─ SettlementRecords_proofs
                                                        └─ WalletPayments_proofs
SettlementContract      what the payments package promises (abstract)

RecurringInvoices  RateLimiter  Reports ── ServiceBounds_proofs
Listings (and Reports, over ServiceBounds_proofs) ── ListingsReports_proofs
InvoiceCache  PaymentRequests  Notices  Logos  InvoiceComments ── ServiceSafety_proofs
ConnectionPool
NetworkSwitch ── NetworkSwitch_proofs
Accounts ── Accounts_proofs
 └─ all of these and PaymentJudgement ── MCServices     instances for TLC
```

**PaymentRules** translates `evaluate`, `computeChecks`, `expectedAsset`,
`ExpiresAt`, `graceDays`, `PaymentStatusFor`. Amounts are stroops (integers), a
day is a number, a payment is the record `toChainPayment` makes. `ExpiresAt` is
exclusive midnight after the due date plus the grace days; since a payment's
close time is known by its day, `closed < expiresAt` is a comparison of days.

**InvoiceLifecycle** is the `invoice` table: one row per id with status, review
flags, total and due date. `GenerateNewInvoice`, `SendInvoice`,
`ReviewInvoice`, `DeleteInvoice` and `MarkOverdue` (the hourly ticker) are one
transaction or one statement each, so one action each. Three operations are not:
`UpdateInvoice` checks the status in a query of its own and writes later
(`UpdateInvoiceCheck`, `UpdateInvoiceWrite`, with `updating` between them);
`EditInvoice` does the same in one transaction without a lock, for drafts only, so
that its steps are among those of the same two actions; and the daily task runs
two statements with no transaction (`CancelUnapproved`, `OverdueApproved`, with `dailyRun` between them; the second may never run).
`trackInvoiceView` has no action because nothing calls it: the status `viewed`
comes from approval only.

**PaymentSettlement** adds the chain, the tables `payments`, `transactions`
(`ledger`) and `payment_cursors` (`cursor`), the advisory lock and the
processes. `Workers` are server monitors and requests; each has a `queue` of
operations still to settle and a `phase` for the first of them:

| Code | Actions |
|---|---|
| `processPayment`: `loadInvoice`, `evaluate` | `LoadInvoice` (reads without a lock; remembers the row to insert) |
| `insertSettled` / `insertDetected` | `InsertSettled`, `InsertDetected`, `InsertFails` (foreign key), `InsertConflicts` |
| the `UPDATE` of `insertDetected` after a conflict | `Reflag` |
| `finalize` | `Finalize`, `FinalizeNothing` |
| `Poll`, `pollAccount`, `AccountPayments` | `Poll`, `PollAccount`, `NextPage`, `SaveCursor`, `EndPoll` |
| `RecoverUnfinished`, `ExpireInvoices` | `RecoverUnfinished`, `EndRecover`, `ExpireInvoices` |
| `VerifyTransaction` | `VerifyTransaction` |
| errors, restarts, lost sessions | `Fails`, `StageFails`, `Crash`, `LoseLock` |

One action is what commits at once. Two transactions are single actions, and
this is sound: the one that inserts a new payment row holds the unique index
entry until it commits, so a second insert of the operation waits; and
`finalize` locks the payment row and then the invoice row and decides under
both locks. `insertDetected` that meets a conflict locks nothing and is two
actions. `finalize` takes the payment from its row, which does not say whether
the transaction succeeded (failed ones are never recorded as detected).

**SettlementContract** is the abstract specification: a payment is unseen, then
open, then accepted or rejected for good; accepting it and paying the invoice
is one step. `SettlementProperties` maps it: `outcome` from the `payments`
table, `paid` from the `invoice` table. Because the two are different tables,
the refinement says they never disagree, even halfway through a process.

**PaymentJudgement** applies the rules to every payment and every view of an
invoice in one step and keeps both results, verdict and checks.

**WalletPayments** is the wallet service's `PayInvoice` and `Transfer`, next to
all of PaymentSettlement. `Payers` are requests, each used again and again, and
`request` says what each is at. Its variables are the PIN counter of each wallet in Redis
(`attempts`), the sequence number of its account and the operations `PayInvoice`
submitted (a history variable). Payments go to `chain`, where the monitors see them.

| Code | Actions |
|---|---|
| `verifyPin` | `ReadAttempts`, `ComparePin`, `AttemptsExpire` (the key's lifetime), `RedisFails` (its errors are ignored: an unreadable counter is 0, an unwritten one stays) |
| `EnsurePaymentRequest`, the status check of `PayInvoice` | `EnsurePaymentRequest` |
| `Transfer` up to the submission; its history row | `PrepareTransfer`; `RecordTransfer` |
| `buildAndSubmit` | `LoadAccount`, `Submit` (accepted in sequence; may fail in the ledger, and the answer may be lost), `SubmitRejected` |
| errors, restarts | `RequestFails` |

The verification that ends `PayInvoice` is a `VerifyTransaction` request. A path
payment delivers exactly the destination amount, so on the recipient's side it is
the payment of a direct one; `findPaths` only says that there may be no path.

### The services around the payments

Twelve modules, each with the tables, keys and requests of one service. A request
that looks first and writes later is two actions with the request's variable
between them; a transaction whose statements wait for each other is one action
per statement. Counters and the calendar have named bounds.

| Module | Code and its actions |
|---|---|
| **RecurringInvoices** | `Create`, `Update` (`UpdateScheduleRead`, `UpdateSchedule`: it writes back the `next_run_at` it has read), `Delete`; `GenerateDue` (`SelectDue`, `EndRun`), for each schedule it selected `GenerateNewInvoice` (`GenerateInvoiceNumber`, `RejectRow`, `InsertInvoice`, `InsertCollides`, `MoveNextRun`); errors, time-outs and crashes (`RowFails`, `RunStops`) |
| **RateLimiter** | `CheckStore`: `ReadClock` on the server, `RunScript` on Redis; `FallBack` without Redis; the expiry of the key in `ClockTick` |
| **InvoiceCache** | readers: `getFromCache`, `CacheMiss`, `getInvoiceById` and `getInvoiceSearch` (`ReadRow`), the goroutine `cacheInvoice`; writers that delete the key after their commit (`CommitWrite`, `DeleteFromRedisCache`, `DeleteFails`) and those that do not (`CommitSilently`: `UpdateInvoice` deletes the key `invoice:invoice:<id>`) |
| **NetworkSwitch** | `EnsureNetworkConfig`, `SetStellarNetwork`; the stages of the monitor with the network each asked for at its start, down to the page and the cursor; `VerifyTransaction`; `finalize` under the stage's network; `Interrupt` |
| **Accounts** | sign-up and Google sign-in (look, then insert), links that verify an address, `Login`, `ResendEmail`; `Authenticate`, then profile and password requests; reset codes of the auth and of the admin service under one key; activation, deactivation, deletion |
| **InvoiceComments** | `CreateComment`, `UpdateComment`, `DeleteComment`, `AddReaction`, each with its query as a second action; `RemoveReaction`; deletion of an account and of the invoice with its comments. `DeleteComment` has a handler but no route; what is checked holds with it and without |
| **Listings** | thirteen paged listings, comments among them: count in one statement, `OFFSET`/`LIMIT` in the next, while rows join and leave; the traits of each (orders, clamping of the page, which rows move) are data |
| **Reports** | the invoices of each month, the card of what is paid and the cash flow, over the same rows, while a month ends |
| **ConnectionPool** | a handler takes a connection by `Begin`, `Query`, `Acquire` or `Exec`, some a second one while they hold it (`GenerateNewInvoice`, `GetManyInvoice`, `GetInvoiceBySearchOnUser`, `Poll`). What it does with each at its end, and what it has deferred, is data of the handler, and gives the connection back or does not: `Commit`, the last row, `Close`, `Release`; on an early return only what was deferred is done (`HandlerEnds`, `HandlerFails`, `CutOff`) |
| **PaymentRequests** | `CreateWallet` (count, insert under a unique tag, commit), `SendInvoice` (`LookForWallet`), payers and merchant: `GetPublicRequest`, `GetInvoicePayments`, `EnsurePaymentRequest`, `paymentRequest` |
| **Notices** | `insertDetected`, `insertSettled`, `finalize`'s lock and commit, recovery; `notifyPaid`/`notifyReview` in a goroutine (`LooksUp`, `CreateNewNotification`); viewing and deleting |
| **Logos** | the upload, the insert with the trigger's snapshot and its locks, the commit or rollback of the invoice's transaction |

Five of them repeat a part of PaymentSettlement (NetworkSwitch the stages, Notices
the two transactions, PaymentRequests the statuses, Reports and Listings the
writers of the rows they read) instead of being composed with the whole of it:
what they are about, the network, the goroutine, the address, the reports, is
independent of the verdicts, which are chosen freely there.

**MCServices** puts the twelve and PaymentJudgement side by side. Each of them is
closed: what other services do to its rows and keys is among its own actions
(`InvoiceMoves`, `ChangeStatus`, `RowLeaves`, `CommitWrite`, `DeleteCommenter`), so
in each behaviour a single one moves, `atWork`, and the states add instead of
multiplying.

## The runs

"Faults" are errors, crashes and lost connections at any point. The `services` runs
turn TLC's deadlock check off because a service may come to its end there (a
judgement is made once, uploads and wallets are finite); all others keep it.

| Run | Instance | What it shows |
|---|---|---|
| `settle` | 1 sent invoice, 2 servers, 2 payment operations of any kind: right, short, failed, two in one transaction, no memo, false issuer; pages of 1, 2 days, 2 faults | `TypeOK`, `PaidExactlyOnce`, `DuplicateOfAnother`, `HistoryAgrees`, `CursorCoversRecorded`, `VerdictsAreFinal`, `ImplementsContract` |
| `lifecycle` | the whole invoice life, 1 payment, 1 monitor, 1 request, 2 days, 1 fault, three totals of which one is out of range | `LinkedPaymentsStayMatched`, `ClosedInvoicesStayClosed`, `VerifiedOnTerms` |
| `liveness` | 1 monitor, 1 request, 2 payments, pages of 1, 1 page per poll, 1 fault | `EveryPaymentSettled` |
| `wallet` | 1 sent invoice, 1 wallet, 2 requests with PINs right or wrong and 2 attempts before the lock, an invoice payment or a transfer with either result, 1 monitor, 2 days, 1 fault (requests are symmetric, and the properties are invariants, so the reduction is sound) | `WalletTypeOK`, `PinGuessesBounded`, `InvoicePaymentsCount` |
| `services` | one of thirteen instances at work in each behaviour (603,231 states together), see below | the eighteen properties of the table below |
| `services_liveness` | six of them and the pool: 2 connections, 2 callers of any of the nine handlers and the activity log, one second connection each, errors and cancelled contexts at any point; under the fairness of the next section | `DueSchedulesAreInvoiced`, `RefusedClientRecovers`, `JudgedAfterSwitch`, `VerifiedInTheEnd`, `EveryCallerEnds`, `ToldInTheEnd` |

| At work in `services` | Instance | Properties |
|---|---|---|
| rules | every payment against every invoice view, amounts and days on both sides of each boundary, grace of 1 day | `VerifiedIffChecksPass`, `CodeNamesFailedCheck` |
| one schedule | intervals of 1 and 2 days, 1 scheduler, 1 mishap (error, crash or owner's update) | `RepeatsBounded` |
| two schedules | of two owners whose invoice numbers collide, no mishap | `RepeatsBounded` |
| limiter | 2 requests, bucket of 2, rates 1 and 2 per period of 3 ticks, clocks up to 1 behind | `AdmittedWithinBudget` |
| cache | 2 readers, 2 writers, lifetime 3, a fill of up to 2 ticks, 1 fault | `ServedWithinLifetime`, `DeletedAfterWrite` |
| network | 1 monitor, 1 request, 1 payment on each network, 2 switches, 1 crash | `CursorsPerNetwork`, `IssuerTellsTheNetwork` |
| accounts | 1 address, 2 accounts, 2 requests, 2 codes, 2 calls of an administrator | `OneAccountPerEmail`, `LatestCodeResets`, `SessionsEnd` |
| comments | 2 people, 2 comments, 2 requests | `ReactionsHaveComments` |
| listings | each of 13 listings in each order, 3 rows, pages of 1 and 2, 2 moves, 1 failure | `PagesBounded` (`MissedBounded` and `RepeatedBounded`) |
| reports | 2 invoices, a year of 2 months of 2 days, 4 days, totals of 4 tenths of a cent (one rounds down to nothing, two up to a cent) | `MonthsShowAll`, `CashFlowAgrees` |
| requests | 2 requests for a wallet, 2 payers, 1 fault | `AddressShownIsJudged` |
| notices | 2 processes, 1 payment of each verdict, 1 fault | `ToldOnce` |
| logos | 3 uploads, 1 fault | `DefaultLogoIsLatest` |

Why the bounds are enough to be worth something:

* *One invoice.* The invoices meet only in statements that treat each row alike,
  and no operation relates two. The proofs are for any number.
* *Two payments* are what it takes to pay twice, and to have one duplicate of
  the other; with pages of 1 a poll saves a cursor between them.
* *Two days* with a due date on the first: in the window and past it.
* *Two processes.* `settle` has two monitors, `lifecycle` and `liveness` a monitor
  and a request. Requests run part of what monitors run; recovery, cursors and
  the lock are the monitors' own.
* *One or two faults.* A fault loses what a process had in memory. The second
  one of `settle` lets one server lose the lock and the other fail on a page.
* *Two requests, two attempts* in `wallet`: one more request under way than
  attempts left is what it takes to outrun the lock, and two requests pay twice.
  The invoice is sent from the start and nobody edits it meanwhile: what an
  edit does to a payment is the subject of `lifecycle`.
* `MaxStroops = 8` with a total of 9 stands for `amount.ParseInt64` refusing
  totals above 2^63 - 1 stroops, which `NUMERIC(20,6)` can hold.
* *The services.* Two of everything that competes (requests, readers, writers,
  settlers, creators), and a third where a pair is not the interesting case: two
  callers on two connections can wait for each other in a circle with the activity
  log, which nobody cuts off, behind them in the queue;
  three uploads have one default to replace while two race.
  The short year, interval, lifetime and period are the smallest with a day, tick
  or month on each side of every comparison. Two switches go there and back.
  One address is enough for accounts, whose operations never relate two.

Each property is checked against a mutant of the code in `PROJECT.json` that
breaks it; the operators named "Mutated form of ..." in the modules are those.

## Fairness

`FairSpec` assumes weak fairness of every monitor and of every started request,
nothing else: payers, owners, the calendar and faults may or may not act. The
code justifies it: `startPaymentMonitor` runs on a 15-second ticker for as long
as the server lives and calls poll, recover and expire one after the other
whatever the one before returned; a stage has a timeout, so none holds up
the next for ever; a crashed server is started again (`Crash` returns it to
idle); and a handler runs until it returns. Faults are bounded by `MaxFaults`:
with errors for ever nothing can be promised. The run checks that the lock never
stays with nobody working (`Unlock` on every path) and that pages, cursors and
recovery together reach every payment to a polled wallet.

`ServicesFairness` of `services_liveness` assumes, service by service:

* *recurring*: a run of `GenerateDue` is started again and again (the hourly ticker,
  the daily task) and goes on until it is done or cut off. Owners and faults are free.
* *limiter*: time passes, the client keeps asking, and a request that was asked is
  answered, by Redis or by the fallback.
* *network*: weak fairness of a monitor's stages and strong fairness of recovery
  taking a detected payment: a single recovery may be interrupted or find nothing,
  but the stage runs every 15 seconds. That a monitor takes any of the detected
  payments is where `LIMIT 100` is abstracted. Switches are free, so
  `JudgedAfterSwitch` is about a network the servers stay on.
* *accounts*: the user follows the link in an email she has, and asks for a new one
  only when none ever came; strong fairness says that she is not too late every
  time. Without it the link may expire before each click.
* *pool*: the queue is served, handlers proceed, and whoever waits with a context
  that ends is cut off in the end: by `ReadTimeout`, the client's leaving, or a
  job's own timeout. The activity log waits with `context.Background()` and gets
  its connection only because the others are cut off, and because none returns
  without giving back what it holds: the mutant forgets one deferred rollback.
* *notices*: a goroutine that was started goes on, unless a fault ends it.

## The proofs

TLAPS checks these for every value of the constants: any number of invoices,
wallets, payments, servers, requests, pages, faults and PIN attempts, accounts,
codes, comments, readers, uploads. They assume the named assumption
of each module: bounds are naturals, pages hold at least one operation, servers
and requests are different, requests to the wallet are finitely many and send
transactions the chain may see, `NoX` is none of the X. A few say a little more about
the data, and why they may: an amount on the chain is a natural number of stroops
(Horizon reports no negative payment); `NoInvoice` and `NoMemo` are told apart from an
invoice and from what `loadInvoice` returns of one (`nil` and the empty string in the
code); one of the configured rates is the highest; `none`, the status of a row that is
not there, is no status of an open invoice; there is an interval to choose from, and a
first day; the invoices of one merchant are finitely many, and `paid` is no status of
an open invoice. TLC evaluates all of these on the runs.

| Theorem | States |
|---|---|
| `TypeCorrect` (`PaymentSettlement_proofs`) | `Spec => []TypeOK` |
| `PaidOnce` | `Spec => []PaidExactlyOnce` |
| `VerdictsFinal` | `Spec => VerdictsAreFinal` |
| `ClosedStayClosed` | `Spec => ClosedInvoicesStayClosed` |
| `Implements` | `Spec => ImplementsContract` |
| `LinkedStayMatched`, `DuplicatesHaveOriginal`, `CursorsCover` (`SettlementRecords_proofs`) | `Spec => []LinkedPaymentsStayMatched`, `[]DuplicateOfAnother`, `[]CursorCoversRecorded` |
| `VerifiedOnItsTerms`, `HistoryInAgreement` | `Spec => VerifiedOnTerms`, `Spec => []HistoryAgrees` |
| `WalletTypeCorrect`, `PinBound` (`WalletPayments_proofs`) | `WalletSpec => []WalletTypeOK`, `WalletSpec => []PinGuessesBounded` |
| `WalletPaidOnce`, `WalletImplements` | `WalletSpec => []PaidExactlyOnce`, `WalletSpec => ImplementsContract` |
| `WalletKeepsRecords`, `WalletVerifiedOnTerms` | the same of `WalletSpec`, the history excepted |
| `InvoicePaymentsGoThrough` | `WalletSpec /\ [][TermsStand]_allVars => []InvoicePaymentsCount`, where no total is zero |
| `CursorNeverSkips`, `VerdictTellsNetwork` (`NetworkSwitch_proofs`) | `NetworkSpec => []CursorsPerNetwork`, `NetworkSpec => []IssuerTellsTheNetwork` |
| `AddressHasOneAccount`, `OnlyLatestCodeResets`, `SessionsEndWithAccount` (`Accounts_proofs`) | `AccountsSpec => []OneAccountPerEmail`, `[]LatestCodeResets`, `SessionsEnd` |
| `VerifiedMeansChecked`, `CodesNameFailures` (`ServiceSafety_proofs`) | the two rules properties, for all payments and invoices |
| `CacheServesWithinLifetime`, `CopyDeletedAfterWrite` | `CacheSpec => []ServedWithinLifetime`, `[]DeletedAfterWrite` |
| `UserHasOneWallet`, `ShownAddressIsJudged` | `RequestsSpec => []OneWalletPerUser`, `[]AddressShownIsJudged` |
| `MerchantToldOnce` | `NoticesSpec => []ToldOnce` |
| `LatestLogoIsDefault` | `LogosSpec => []DefaultLogoIsLatest` |
| `NoReactionLeftBehind` | `CommentsSpec => []ReactionsHaveComments` |
| `TokensWithinBudget` (`ServiceBounds_proofs`) | `LimiterSpec => []AdmittedWithinBudget` |
| `MonthsComplete` | `ReportsSpec => []MonthsShowAll` |
| `RepeatsWithinFaults` | `RecurringSpec => []RepeatsBounded` |
| `PagesMissAndRepeatFew` (`ListingsReports_proofs`) | `ListingsSpec => []PagesBounded` |
| `CashFlowFitsCard` | `ReportsSpec => []CashFlowAgrees` |

*Types.* `TypeOK` is not inductive: the page counter is only bounded because a
next page is asked for when fewer than `MaxPages` were read, and the row a
process is about to insert is only well-formed because it was made by `RowFor`.
`TypeInv` adds `PagesLeft` (a page in state "next" has pages left) and
`RowsUnjudged` (the row in flight is never *verified*: only `finalize` may
verify). Each action has a step; the table-by-table facts are lemmas.

*Paid exactly once.* `SafetyInv == TypeInv /\ PaidExactlyOnce`. The argument:
only `Finalize` makes a payment verified (`RecordingVerifiesNothing` needs
`RowsUnjudged`), it does so only if the invoice it has locked is payable, hence
not paid (`VerifiedIsPayable`), hence by the invariant no payment was verified for
it before, and it sets the invoice paid in the same step. `LifecycleKeepsPaid`
and `FlagKeepsPaid` show that no other writer sets or removes *paid*: this is
where the status lists in the `WHERE` clauses of ten statements matter. The
database also has a unique index on verified payments per invoice
(`uq_payments_one_verified_per_invoice`); the model does not enforce it, so the
theorem shows that no process ever runs into it.

*Finality, closed invoices.* `PaymentsWriters` lists the only three ways a
payment row changes; `StepKeepsClosed` goes through every writer of `invoice.status`.

*Refinement.* `Record`, `Reject` and `Accept` are matched by `InsertDetected`,
`InsertSettled` or `Finalize`, and `Finalize`; everything else stutters. The
guards of `Accept` come from `SafetyInv`.

*The records.* What the rows say cannot be kept by looking at the tables: between its
statements a process carries an operation, a row or a page, and by the time it writes
the others have gone on. `RecordsInv` therefore says of everything that is carried what
it still stands for.
`RecordsFit`: a row names the invoice its memo names, a row that is not settled yet has
an invoice it is addressed to or one that is paid, and only an invalid payment is a duplicate.
The same `RowFits` holds of the row in the hands of a process (`AtWork`); it survives
the steps of the others because the chain only grows (`ChainGrows`), an invoice that a
row is linked to is not deleted (`LinkedKept`) and an invoice that is paid stays so
(`RowStillFits`). `CursorsFit` needs the bookkeeping of the monitors (`MonitorFits`):
up to the end of its page every payment is in the table or in the queue, so that the
cursor saved when the queue is empty has nothing behind it; that two monitors may work
on one account, and one fail in the middle, takes nothing away from what is recorded.
`DuplicateOfAnother` is where `PaidExactlyOnce` is used, `VerifiedOnTerms` where
`Finalize` reads the invoice again under the lock: no part of the proof refers to the
invoice that was read first. `HistoryAgrees` is inductive next to `RecordsInv`, since
each step that settles a payment writes its row of the history in the same transaction.

*The wallet service.* `WalletInv` adds to `SafetyInv` the types of the requests,
`ReadyToSend` (a request at a submission has something a payer may send, so
`Submit` is a step of `Next`: `SubmitIsPayment`; and no account has more
transactions than the chain) and the PIN bound itself, which is inductive once
the requests about to compare a PIN are counted with the wrong ones: a
comparison moves one from the one to the other (`PinCompared`), and a start adds
one only when the counter is below the lock or Redis failed (`PinStarted`). The
theorems about payments follow because every step of the wallet service is a
step of a payer or leaves payments and invoices alone (`WalletStepEffect`, `WalletWriteSafe`).
That a payment of `PayInvoice` is only turned down for what arose elsewhere is the
longest argument. `CountInv` follows it: the request asks for the terms the invoice has
(`AsksForTerms`), so the operation is on its terms (`SentOnTerms`), so the unlocked read
finds it detected (`RowDetected`), so `Finalize` may hold against it only that the
invoice is paid, closed, or past its window. Two hypotheses are stated, not hidden.
`TermsStand`: no owner edits or deletes the invoice meanwhile; the run
`edited_after_send` shows that the code lets them. And no total is zero: `evaluate` turns
down every payment of such an invoice (`invalid_invoice_total`). The run `wallet` has both.

*The network switch.* `CursorsPerNetwork` and `IssuerTellsTheNetwork` become
inductive in `NetworkInv`: a monitor that is on a page has left nothing unrecorded
before the place it is at (`NothingSkipped`), no worker is past the end of the ledger
of the network *it* started with (`WithinLedger`), and no verdict is older than its
payment (`VerdictOK`). Verify requests are not in `NothingSkipped`, since they start in
the middle; they are harmless because only a monitor saves a cursor, and two monitors
may save an older one over a newer. `resolveNetwork` may change between any two
steps: the argument never uses it, only the network a stage was given.

*Accounts.* `OneAccountPerEmail` is kept by the unique index alone (`EmailsUnique`);
`LatestCodeResets` because both services write one key and number their codes in one
sequence (`LastCodeKept`); `SessionsEnd` because a request that is let through works
for an account that is active, and keeps its address, until an administrator
overtakes it (`AdmittedKnown`). `CompleteUserProfile` writes by address and not
by id: that it cannot hit another account needs `EmailsUnique`.

*The other services.*
`CopiesAge`: a copy has been outdated no longer than its age and the longest fill.
`FirstWalletOnly`: whoever counted wallets found none, so all try the tag 1, and the
index lets one in; then `AddressIsWallet`. `LockHeldOnce` and `OneTells`: one process
at a time holds a payment that is not settled, and the commit that settles it is the
only one to start a goroutine. `AloneClearsAll`: an insert of a default logo that runs alone
sees all the marks there are. That no reaction is left behind is inductive with the shape of the tables
alone: a deletion takes the reactions with it, and the foreign key judges at the insert. `NoneCarried`: no reader carries a copy that a writer had to delete, so after the
deletion there is none.

*Counting.* Each proof of `ServiceBounds_proofs` keeps an account of two things that
move at different times, and its invariant says by how much one may be ahead.
The bucket in Redis is refilled late and by the clocks of the servers: some number `k`
of whole periods has not been made up yet, and with them it holds no more than a bucket
that follows true time (`Behind`). The proof found that the age of a bucket, which the
model had bounded by three periods, may be larger when the lag of a request is three
or more: the bound is four now.
`MonthsShowAll` is inductive once it is said for each invoice that it was shown exactly
when its month was asked for (`ShownOnce`), where the month of an invoice less than a
year old tells its year, also when the year ends in between (`YearOfMonth`).
`RepeatsBounded`: a schedule is *loose* while its next invoice would come too soon.
`RepeatsPaid` says that the repeats and the loose schedules together are no more than
the faults and updates so far: a fault between the insert and the move of `next_run_at`,
or an update, makes one schedule loose, and the invoice that comes too soon makes it
firm again. With two processes that is false (`recurring_overlap`).

*Listings.* The comments of an invoice are one of them, the search is not. A client that turns the pages of a list that changes misses some rows and gets
some twice. The two bounds say that a row is missed only for a row that left meanwhile, or
came between the last count and the page, and repeated only for one that came. `ListingsInv`
keeps the account at the place where the next page begins (`Skipped`): `Unseen` are the rows
before it that were there all the time and were on no page, `Pushed` those after it that
were on one. A row that leaves pulls at most one row forward over that place (`RowGone`), a
row that comes pushes at most one back (`RowPut`), and fetching a page moves the place over
rows that are then seen (`PageFetched`). The client stops at the page the last count allows; what
the list has beyond is no more than what came since that count (`AheadBounded`).

*Sums.* `CashFlowAgrees` compares the card of what is paid with the chart of it by months, and
adjoining ranges of days with the whole. Induction over finite sets would take the
library's theorem with its operator parameter. `SubsetInduction` says the same with a *set* of good subsets, and is
proved by the smallest counterexample (`WFMin` on the cardinalities). With it a sum is any
function that adds one element at a time (`Adds`); it exists, is the same for every order
of the elements (`AddsAnyOrder`) and is what `SumFunction` returns (`SumIs`). It splits over
the months or days (`AddsByPart`) and, rounded part by part, is off by at most half a cent for each
part (`AddsRounded`). `PaidInv` gives the days: an invoice that is paid was paid between the
day it was created and today, and created since its merchant signed up, so the chart of the
first year leaves no payment out.

Checked by TLC only: the liveness properties (`EveryPaymentSettled` and the six of
`services_liveness`, with the connection pool: fairness is out of the prover's reach). Every safety property of a
passing run is a theorem. No module declares a RECURSIVE operator.

## What the code does not keep

Six runs end in a counterexample: a document, a comment or an API description
says one thing and the code does another.

| Run | What happens |
|---|---|
| `stuck_detected` | Two requests process one short payment. The slower one found the row unfinished, the faster settles it (invoice `invalid_payment`), then the slower flags the invoice `payment_detected` again and its `finalize` has nothing to do. No statement takes the flag back, and `ExpireInvoices` skips that status. |
| `late_processing` | A payment closed within the window, but processed after `ExpireInvoices` ran, is `invoice_not_payable`; the comment on `ExpiresAt` says processing time does not count. |
| `double_payment` | Two `PayInvoice` requests read the invoice before either submits; the second pays an invoice whose first payment is being verified, although the API has an answer for that. |
| `edited_after_send` | `UpdateInvoice` checks the status before its transaction: an invoice sent in between is edited. `EditInvoice` does the same with a read that takes no lock. |
| `recurring_overlap` | Two schedulers run `GenerateDue` at the same time, with no error and no owner's update (`MaxMishaps = 0`): both select the due schedule before either has moved its `next_run_at`, and the interval is invoiced twice. What errors, crashes and updates do to one scheduler is `RepeatsBounded`. |
| `one_row_per_transaction` | Two payments in one transaction to one wallet are settled one after the other: the history has one row per transaction hash (`ON CONFLICT DO NOTHING`), so the second is not listed, although `docs/payment-status-model.md:44` says that every incoming payment is listed once. `HistoryAgrees` is what remains true: about the row there is. |

Three more, against a line of the repository, that need no interleaving of many steps and
have no run of their own:

* `CreateComment` fills `ParentID`, the insert takes `ParentCommentID` (`StoredParent`):
  every reply is stored as a comment of its own, though `invoice_comments/dto.go:17` has a
  "Parent comment when this is a reply".
* `GetInvoiceBySearchOnUser` stores the page it tells for 90 seconds and reads it back with
  `getFromCache` as one invoice: who asks for the page again is told of an empty one, though
  `invoice/handler.go:356` promises a search over the user's invoices.
* Two uploads at the same time leave two default logos, although the trigger's function is
  named `ensure_single_default_logo`: its UPDATE does not see the row the other transaction
  has not committed. The step is in Logos (`together`), and `DefaultLogoIsLatest` excuses it.

Met while modelling, with no statement of the repository that says otherwise, and
hence without a run:

* The daily task cancels every open invoice with `approved = false`, the column's
  default, whatever its due date (`CancelUnapproved`).
* A total beyond int64 stroops makes `loadInvoice` fail on every payment that names the
  invoice; the wallet's cursor never moves again (`Unreadable`).
* `seedStellarNetworkConfig` passes the empty string as a UUID and ignores the error;
  `EnsureNetworkConfig` seeds `STELLAR_STAGE`, where `admin/handler.go:336` says `testnet`.
* `ResetPassword` neither deletes the code nor looks at `is_active`; `Login` does not look
  at `is_active` either, and dereferences the password a Google account does not have.
* Deleting a user who reacted to a comment fails: `user_id` would become NULL
  against `chk_reactor`.
* Replies to replies would not be listed: `GetComments` shows one level.
* Listings that do not clamp the page send a negative OFFSET for page 0, and PostgreSQL
  refuses it; counting before listing may end the pages one row early.
* `GetInvoicesByStatus` is documented with months like 2025-01 (`invoice/handler.go:587`)
  and parses names, abbreviations and 1 to 12.
* All connections in the hands of handlers that wait for a second one hold up every
  request until a context ends.
* Setting up a new wallet on testnet (funding, the USDC trustline) is a goroutine nobody
  retries.

## What the models leave out

* *Horizon.* Operations that are not payments, and outgoing payments, are not in
  `chain`; a page therefore holds fewer of them than the code's 200. Operations
  arrive in ledger order, as Horizon's cursor guarantees. An operation reaches
  one account.
* *Time* is a day. The 30 seconds of `staleDetectedAfter` are abstracted:
  any unfinished payment may be stale, since a process may take longer than that
  between two steps. `LIMIT 100` of recovery is left out (a listed hazard).
* *One network, static wallets* in PaymentSettlement: `network`, `stage`, `Recipient`
  and `Accounts` are constants there. NetworkSwitch has the switch and PaymentRequests
  the wallets and the recipient, each without the rest. `Poll` also reads
  invoice recipients with recent invoices; here all accounts are polled.
* *Deleting history.* `DeleteTransactionByID` lets a user delete a row of
  `transactions`; `HistoryAgrees` is about what the payments package writes.
* *Sender data, amounts as text, names, items, fees, texts, mails and
  PDFs* carry no control and are not modelled. `MarkInvoicePaid` and the
  verification that ends `PayInvoice` are `VerifyTransaction` requests.
* *The rest of the wallet service*: setting up an account on the chain, setting a
  PIN, the wallet cache. `HistoryAgrees` is checked without `Transfer`,
  whose history row has no operation of its own.
* *The services.* Ids, texts, roles and fields that no property tells apart are one
  value. A session's token does not expire in the model (nothing is kept of it, so
  expiry only takes away). Comments are
  read as one of the listings: the replies shown with a comment, its reactions and the
  statistics are further statements without pages. `GetInvoiceBySearchOnUser` is
  neither a listing nor a reader of InvoiceCache, for the answer it gives from its cache
  (see above). Redis is one server. The handlers of the pool are told apart only by what
  they do to it: how they take a connection and a second one, what gives each back,
  and whether their waiting ends.
* *Not to be modelled*: mail, PDF, configuration, encryption, validation and the read of
  a balance (pure I/O or stateless checks), and the generated API documentation, a third
  of the lines of the implementation.

## Plan

Done: the core (PaymentRules, InvoiceLifecycle, PaymentSettlement, its properties,
contract and proofs), WalletPayments, the twelve services, and a theorem for every
safety property of the runs. Next, most important first:

1. **The limit of a recovery**: a constant below the number of unfinished payments in
   PaymentSettlement's `RecoverUnfinished`: do a hundred that fail every time keep the
   younger ones out?
2. **Wallet set-up**: the funding and trustline goroutines of `CreateWallet` and what
   `PayInvoice` does meanwhile; `SetPin` against `verifyPin`; the wallet cache.
3. **Composition**: PaymentSettlement with NetworkSwitch's setting in place of its constant
   network.
4. **An abstract specification of the cache**: a register that may be read late, and the
   refinement.

Proofs next: the refinement of the cache, once it is stated; the types of the
services, as far as their invariants do not contain them already.
