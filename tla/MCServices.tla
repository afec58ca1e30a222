------------------------------ MODULE MCServices ------------------------------
(***************************************************************************)
(* Instances for TLC of the services around the payments.  Each module is  *)
(* closed: what another service does to the rows and keys it reads is one  *)
(* of its own actions (InvoiceMoves, ChangeStatus, RowLeaves, CommitWrite, *)
(* DeleteCommenter), so in each behaviour a single one is at work.         *)
(***************************************************************************)
EXTENDS PaymentJudgement, RecurringInvoices, RateLimiter, InvoiceCache,
        NetworkSwitch, Accounts, InvoiceComments, Listings, Reports, ConnectionPool,
        PaymentRequests, Notices, Logos

CONSTANTS s1, s2     \* two schedules

CONSTANT Services    \* the services of the run
VARIABLE atWork      \* the one at work
-------------------------------------------------------------------------------
(* Every payment and every invoice view over small sets: amounts around    *)
(* the total, closing days around the end of the window, three assets, all *)
(* the invoice statuses.                                                   *)
Assets ==
  {[code |-> "USDC", issuer |-> USDCIssuer], [code |-> "USDC", issuer |-> "other"],
   [code |-> "XLM", issuer |-> ""]}

MCPayments ==
  [to: {"gm", "gx"}, asset: Assets, stroops: 0..2, closed: 1..2,
   memo: {NoMemo, "ref"}, ok: BOOLEAN]

MCInvoices ==
  [status: InvoiceStatuses, recipient: {NoRecipient, "gm"}, stroops: 0..1,
   expiresAt: {0, 2}]

OwnOwner == [s \in Schedules |-> s]
-------------------------------------------------------------------------------
ServicesInit ==
  /\ atWork \in Services
  /\ JudgementInit
  /\ atWork # "rules" => payment = (CHOOSE p \in MCPayments : TRUE) /\ found = NoInvoice
  /\ RecurringInit /\ LimiterInit /\ CacheInit /\ NetworkInit /\ AccountsInit
  /\ CommentsInit /\ ListingsInit /\ ReportsInit /\ PoolInit /\ RequestsInit
  /\ NoticesInit /\ LogosInit
  /\ atWork # "comments" => registered = People
  /\ atWork # "listings" => listing = [traits |-> ListUsers, order |-> "newest"]
  /\ atWork # "notices" =>
       arrived = [p \in Arrivals |-> [row |-> "none", verdict |-> "verified", owned |-> TRUE]]

(* One schedule and every mishap, or two of different owners and none.     *)
OneSchedule == RecurringNext /\ schedule'[s2].status = "none"
TwoSchedules == RecurringNext /\ snapshot' = snapshot /\ edits' = edits /\ runFaults' = runFaults

(* Handlers of any kind, and next to them the activity log.                *)
Logger == CHOOSE c \in Callers : TRUE
PoolAndLog == PoolNext /\ caller'[Logger].handler = WritesLog

ServicesNext ==
  /\ UNCHANGED atWork
  /\ IF atWork = "rules" THEN Judge ELSE UNCHANGED judgementVars
  /\ CASE atWork = "one schedule"  -> OneSchedule
       [] atWork = "two schedules" -> TwoSchedules
       [] OTHER                    -> UNCHANGED recurringVars
  /\ IF atWork = "limiter" THEN LimiterNext ELSE UNCHANGED limiterVars
  /\ IF atWork = "cache" THEN CacheNext ELSE UNCHANGED cacheVars
  /\ IF atWork = "network" THEN NetworkNext ELSE UNCHANGED networkVars
  /\ IF atWork = "accounts" THEN AccountsNext ELSE UNCHANGED accountsVars
  /\ IF atWork = "comments" THEN CommentsNext ELSE UNCHANGED commentsVars
  /\ IF atWork = "listings" THEN ListingsNext ELSE UNCHANGED listingsVars
  /\ IF atWork = "reports" THEN ReportsNext ELSE UNCHANGED reportsVars
  /\ IF atWork = "pool" THEN PoolAndLog ELSE UNCHANGED poolVars
  /\ IF atWork = "requests" THEN RequestsNext ELSE UNCHANGED requestsVars
  /\ IF atWork = "notices" THEN NoticesNext ELSE UNCHANGED noticesVars
  /\ IF atWork = "logos" THEN LogosNext ELSE UNCHANGED logosVars

servicesVars ==
  <<atWork, judgementVars, recurringVars, limiterVars, cacheVars, networkVars,
    accountsVars, commentsVars, listingsVars, reportsVars, poolVars, requestsVars,
    noticesVars, logosVars>>

ServicesSpec == ServicesInit /\ [][ServicesNext]_servicesVars
-------------------------------------------------------------------------------
(* Tickers and the asynq scheduler start GenerateDue again and again, and  *)
(* a run of it goes on until it is done or cut off.                        *)
RecurringAtWork(w) == atWork \in {"one schedule", "two schedules"} /\ GenerateDue(w)

(* Time passes, requests are answered, and the client keeps asking.        *)
TimePasses == atWork = "limiter" /\ ClockTick
ClientAsks(q) == atWork = "limiter" /\ Asks(q)
ClientAnswered(q) == atWork = "limiter" /\ Answers(q)

(* The ticker and the stages go on, and recovery takes what it finds       *)
(* unfinished, unless it is interrupted.                                   *)
MonitorAtWork(m) == atWork = "network" /\ MonitorStep(m)
RecoveryAtWork(m) == atWork = "network" /\ Recovers(m)

(* A new user follows the links in the emails she got, not always too      *)
(* late, and asks for one only when none ever came.                        *)
FollowsLink(e) == atWork = "accounts" /\ ValidateEmail(e)
FollowsLinkInTime(e) == FollowsLink(e) /\ e \in links
AsksForLink(e) == atWork = "accounts" /\ e \notin mailed /\ ResendEmail(e)

(* The pool serves its queue, handlers go on, and those that wait are cut  *)
(* off in the end: by ReadTimeout if the client stays, by a job's timeout. *)
CallerProceeds(c) == atWork = "pool" /\ Proceeds(c)
CallerCutOff(c) == atWork = "pool" /\ CutOff(c)

(* A goroutine that was started goes on.                                   *)
TellsOf(p) == atWork = "notices" /\ \E g \in telling : g.of = p /\ TellingStep(g)

ServicesFairness ==
  /\ \A w \in Runs : WF_recurringVars(RecurringAtWork(w))
  /\ WF_limiterVars(TimePasses)
  /\ \A q \in Requests : WF_limiterVars(ClientAsks(q)) /\ WF_limiterVars(ClientAnswered(q))
  /\ \A m \in Monitors :
       WF_networkVars(MonitorAtWork(m)) /\ SF_networkVars(RecoveryAtWork(m))
  /\ \A e \in Emails :
       /\ WF_accountsVars(FollowsLink(e)) /\ SF_accountsVars(FollowsLinkInTime(e))
       /\ WF_accountsVars(AsksForLink(e))
  /\ \A c \in Callers : WF_poolVars(CallerProceeds(c)) /\ WF_poolVars(CallerCutOff(c))
  /\ \A p \in Arrivals : WF_noticesVars(TellsOf(p))

ServicesFairSpec == ServicesSpec /\ ServicesFairness
=============================================================================
