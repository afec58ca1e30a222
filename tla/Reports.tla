-------------------------------- MODULE Reports --------------------------------
(***************************************************************************)
(* What a merchant is told of a whole period: the invoices of each month,  *)
(* the card of what is paid, and the cash flow between two days.  They are *)
(* separate queries over the invoice table, asked while invoices come, are *)
(* paid and are deleted, and while a month ends.                           *)
(***************************************************************************)
EXTENDS Integers, FiniteSets, Functions

CONSTANTS
  Billed,         \* the merchant's invoices
  OpenStatuses,   \* statuses an unpaid invoice goes through
  Totals,         \* totals an invoice may have, in tenths of a cent
  MonthsPerYear, DaysPerMonth,
  LastReportDay   \* the clock stops here

ASSUME ReportsAssumption ==
  /\ IsFiniteSet(Billed) /\ OpenStatuses \subseteq STRING \ {"none", "paid"}
  /\ Totals \subseteq Nat /\ LastReportDay \in Nat
  /\ MonthsPerYear \in Nat \ {0} /\ DaysPerMonth \in Nat \ {0}

VARIABLES
  today,      \* days since the beginning of some year
  signedUp,   \* the day the merchant signed up
  billed,     \* the merchant's rows of the table invoice
  overview    \* a client asking for the months, one request after the other

reportsVars == <<today, signedUp, billed, overview>>
-------------------------------------------------------------------------------
PayableNow == {"sent", "viewed", "overdue", "pending", "payment_detected", "invalid_payment"}

NotIssued == [status |-> "none", created |-> 0, paidAt |-> -1, total |-> 0]
NoMonth == -1   \* a request that names no month
Is(status) == {i \in Billed : billed[i].status = status}
NoOverview == [phase |-> "idle", toAsk |-> {}, since |-> {}, times |-> [i \in Billed |-> 0]]

ReportsInit ==
  /\ today = 0 /\ signedUp = -1
  /\ billed = [i \in Billed |-> NotIssued]
  /\ overview = NoOverview

MonthOf(day) == day \div DaysPerMonth
-------------------------------------------------------------------------------
(***************************************************************************)
(* The writers: what InvoiceLifecycle and PaymentSettlement do to the      *)
(* columns the reports read.                                               *)
(***************************************************************************)
NextReportDay ==
  /\ today < LastReportDay
  /\ today' = today + 1
  /\ UNCHANGED <<signedUp, billed, overview>>

SignUp ==
  /\ signedUp = -1 /\ signedUp' = today
  /\ UNCHANGED <<today, billed, overview>>

IssueInvoice(i, total) ==
  /\ signedUp # -1 /\ billed[i].status = "none"
  /\ billed' = [billed EXCEPT ![i] =
       [status |-> "sent", created |-> today, paidAt |-> -1, total |-> total]]
  /\ UNCHANGED <<today, signedUp, overview>>

(* paid_at is the time finalize's transaction began, maybe before midnight.*)
PayInvoice(i) ==
  /\ billed[i].status \in PayableNow
  /\ \E day \in {today, today - 1} :
       /\ day >= billed[i].created
       /\ billed' = [billed EXCEPT ![i].status = "paid", ![i].paidAt = day]
  /\ UNCHANGED <<today, signedUp, overview>>

ChangeStatus(i, status) ==
  /\ billed[i].status \in PayableNow \cup {"draft"}
  /\ billed' = [billed EXCEPT ![i].status = status]
  /\ UNCHANGED <<today, signedUp, overview>>

(* DeleteInvoice takes unpaid invoices only.                               *)
RemoveInvoice(i) ==
  /\ billed[i].status \in OpenStatuses
  /\ billed' = [billed EXCEPT ![i] = NotIssued]
  /\ overview' = [overview EXCEPT !.since = @ \ {i}, !.times[i] = 0]
  /\ UNCHANGED <<today, signedUp>>
-------------------------------------------------------------------------------
(***************************************************************************)
(* The invoices of a month.                                                *)
(***************************************************************************)
ThisMonth == (MonthOf(today) % MonthsPerYear) + 1
ThisYear == MonthOf(today) \div MonthsPerYear

(* A name, an abbreviation or a number; 0 is none of them.                 *)
ParseMonthString(asked) == IF asked \in 1..MonthsPerYear THEN asked ELSE 0

(* Mutated form of targetYear: the current month is last year's.           *)
lastYears(month) == IF month >= ThisMonth THEN ThisYear - 1 ELSE ThisYear

targetYear(month) == IF month > ThisMonth THEN ThisYear - 1 ELSE ThisYear

InMonth(i, year, month) ==
  LET startDate == (year * MonthsPerYear + month - 1) * DaysPerMonth
      endDate == startDate + DaysPerMonth IN
  billed[i].created >= startDate /\ billed[i].created < endDate

(* With no month asked for it is the current one.                          *)
GetInvoicesByStatus(asked) ==
  IF asked = NoMonth THEN {i \in Billed : InMonth(i, ThisYear, ThisMonth)}
                ELSE {i \in Billed : InMonth(i, targetYear(asked), asked)}

Present == {i \in Billed : billed[i].status # "none"}

StartOverview ==
  /\ overview.phase = "idle" /\ signedUp # -1
  /\ overview' = [NoOverview EXCEPT !.phase = "asking", !.toAsk = 1..MonthsPerYear,
                                   !.since = Present]
  /\ UNCHANGED <<today, signedUp, billed>>

AskMonth(month) ==
  /\ overview.phase = "asking" /\ month \in overview.toAsk
  /\ ParseMonthString(month) # 0
  /\ \E asked \in {month} \cup (IF month = ThisMonth THEN {NoMonth} ELSE {}) :
       LET answer == GetInvoicesByStatus(asked) \cap Present IN
       overview' = [overview EXCEPT
         !.toAsk = @ \ {month},
         !.phase = IF overview.toAsk = {month} THEN "done" ELSE @,
         !.times = [i \in Billed |-> IF i \in answer THEN @[i] + 1 ELSE @[i]]]
  /\ UNCHANGED <<today, signedUp, billed>>

EndOverview ==
  /\ overview.phase = "done" /\ overview' = NoOverview
  /\ UNCHANGED <<today, signedUp, billed>>
-------------------------------------------------------------------------------
(***************************************************************************)
(* Cards and cash flow.                                                    *)
(***************************************************************************)
ConvertUSDCToCents(tenths) == (tenths + 5) \div 10

Sum(invoices) == SumFunction([i \in invoices |-> billed[i].total])

Bucket(invoices) == [amount |-> ConvertUSDCToCents(Sum(invoices)), count |-> Cardinality(invoices)]

CardStatuses(card) ==
  CASE card = "pending" -> {"pending", "draft", "sent", "viewed", "payment_detected"}
    [] OTHER            -> {card}

(* The query groups by status and the handler rounds each group.           *)
GetTransactionCard(card) ==
  [amount |-> SumFunction([s \in CardStatuses(card) |-> Bucket(Is(s)).amount]),
   count |-> SumFunction([s \in CardStatuses(card) |-> Bucket(Is(s)).count])]

GetTransactionCashFlowQuery(fromDate, toDate) ==
  {i \in Is("paid") : billed[i].paidAt >= fromDate /\ billed[i].paidAt < toDate}

(* Mutated form of ToDate: the last day itself is left out.                *)
UpTo(day) == day

ToDate(day) == day + 1

CashFlow(fromDate, toDate) ==
  LET found == GetTransactionCashFlowQuery(fromDate, toDate) IN
  [m \in {MonthOf(billed[i].paidAt) : i \in found} |->
     Bucket({i \in found : MonthOf(billed[i].paidAt) = m})]

DefaultFrom ==
  LET oneYearAgo == today - MonthsPerYear * DaysPerMonth IN
  IF signedUp > oneYearAgo THEN signedUp ELSE oneYearAgo

GetTransactionCashFlow == CashFlow(DefaultFrom, ToDate(today))
-------------------------------------------------------------------------------
ReportsNext ==
  \/ NextReportDay \/ SignUp \/ StartOverview \/ EndOverview
  \/ \E i \in Billed :
       \/ \E total \in Totals : IssueInvoice(i, total)
       \/ \E status \in OpenStatuses : ChangeStatus(i, status)
       \/ PayInvoice(i) \/ RemoveInvoice(i)
  \/ \E month \in 1..MonthsPerYear : AskMonth(month)

ReportsSpec == ReportsInit /\ [][ReportsNext]_reportsVars
-------------------------------------------------------------------------------
(* The months a client asks for one after the other show every invoice     *)
(* that was there when it began once, though a month may end in between,   *)
(* and none twice; only those that became a year old meanwhile are missed. *)
MonthsShowAll ==
  overview.phase = "done" =>
    \A i \in Present :
      /\ overview.times[i] <= 1
      /\ i \in overview.since /\ MonthOf(today) - MonthOf(billed[i].created) < MonthsPerYear
           => overview.times[i] = 1

CashFlowCount(flow) == SumFunction([m \in DOMAIN flow |-> flow[m].count])
CashFlowAmount(flow) == SumFunction([m \in DOMAIN flow |-> flow[m].amount])

(* The cash flow of a merchant's first year counts the invoices on the     *)
(* paid card, and their amounts differ by half a cent for each rounding;   *)
(* adjoining ranges of days count each paid invoice once.                  *)
CashFlowAgrees ==
  /\ DefaultFrom = signedUp =>
       LET flow == GetTransactionCashFlow
           card == GetTransactionCard("paid")
           error == 10 * (card.amount - CashFlowAmount(flow))
           bound == 5 * (Cardinality(DOMAIN flow) + 1) IN
       /\ CashFlowCount(flow) = card.count
       /\ error \in (-bound)..bound
  /\ \A last \in 0..today :
       CashFlowCount(CashFlow(0, ToDate(last)))
         + CashFlowCount(CashFlow(last + 1, ToDate(today)))
       = CashFlowCount(CashFlow(0, ToDate(today)))
=============================================================================
