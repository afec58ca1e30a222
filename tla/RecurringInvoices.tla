--------------------------- MODULE RecurringInvoices ---------------------------
(***************************************************************************)
(* Recurring invoices: schedules their owners create, edit and delete, and *)
(* GenerateDue, run by the hourly ticker of every server and by the daily  *)
(* asynq task (internal/recurring, cmd/server/http.go, cmd/api/main.go).   *)
(*                                                                         *)
(* GenerateDue is not one transaction.  It selects the due rows, and for   *)
(* each of them has the invoice service number and insert an invoice, and  *)
(* then moves next_run_at; anything may happen in between.  Time is counted *)
(* in days and an interval is its length in days.                          *)
(***************************************************************************)
EXTENDS Naturals, FiniteSets

CONSTANTS
  Schedules,     \* the ids schedules may get
  Owner,         \* Owner[s]: the user who creates schedule s
  Lengths,       \* the intervals a schedule may have, in days
  Runs,          \* the processes that run GenerateDue
  LastDay,       \* the bound on the calendar
  MaxMishaps,    \* the bound on owners' updates, errors and crashes
  NoSchedule

ASSUME RecurringAssumption ==
  /\ Lengths \subseteq Nat \ {0} /\ Lengths # {}
  /\ LastDay \in Nat \ {0} /\ MaxMishaps \in Nat
  /\ NoSchedule \notin Schedules
  /\ IsFiniteSet(Runs)

VARIABLES
  date,          \* the current date
  schedule,      \* the table recurring_invoices
  snapshot,      \* the row an Update has read and not written yet
  edits,         \* the number of updates written
  ready,         \* users who may create invoices: active, verified, with a name
  counter,       \* invoice_counters: the last number given to each user
  issued,        \* the invoices generated, and their numbers
  run,           \* what each process is at
  runFaults      \* errors and crashes so far

recurringVars ==
  <<date, schedule, snapshot, edits, ready, counter, issued, run, runFaults>>

Users == {Owner[s] : s \in Schedules}
Calendar == 1..LastDay
NumberBound == 2 * Cardinality(Runs) * Cardinality(Schedules) * (LastDay + 1)

(* "sound": every item's amount is its quantity times its price.           *)
ScheduleRows ==
  [status: {"none", "active", "paused", "deleted"}, length: Lengths,
   next: Nat, sound: BOOLEAN]

InvoicesIssued ==
  [schedule: Schedules, day: Calendar, length: Lengths, number: Calendar \X Nat]

(* due[s] is the interval GenerateDue read in the row of s, 0 for the rows *)
(* it did not select or is done with.                                      *)
RunStates ==
  [phase: {"idle", "rows", "insert", "move"}, due: [Schedules -> Lengths \cup {0}],
   at: Schedules \cup {NoSchedule}, number: (0..LastDay) \X Nat, began: 0..LastDay]

RecurringTypeOK ==
  /\ date \in Calendar
  /\ schedule \in [Schedules -> ScheduleRows]
  /\ snapshot \in [Schedules -> ScheduleRows \cup {NoSchedule}]
  /\ edits \in Nat
  /\ ready \subseteq Users
  /\ counter \in [Users -> Nat]
  /\ issued \subseteq InvoicesIssued
  /\ run \in [Runs -> RunStates]
  /\ runFaults \in Nat /\ runFaults + edits <= MaxMishaps

NoRun == [phase |-> "idle", due |-> [s \in Schedules |-> 0], at |-> NoSchedule,
          number |-> <<0, 0>>, began |-> 0]

AnyLength == CHOOSE n \in Lengths : TRUE

RecurringInit ==
  /\ date = 1
  /\ schedule \in [Schedules -> [status: {"none"}, length: {AnyLength}, next: {0}, sound: {TRUE}]]
  /\ snapshot = [s \in Schedules |-> NoSchedule]
  /\ edits = 0
  /\ ready = Users
  /\ counter = [u \in Users |-> 0]
  /\ issued = {}
  /\ run = [w \in Runs |-> NoRun]
  /\ runFaults = 0

RowExists(s) == schedule[s].status \in {"active", "paused"}
DueRow(s) == schedule[s].status = "active" /\ schedule[s].next <= date

nextRunTime(length, from) == from + length
-------------------------------------------------------------------------------
(***************************************************************************)
(* Requests of the owner.                                                  *)
(***************************************************************************)

(* The start date may be any day, also one in the past, and nothing checks *)
(* the amounts of the items.                                               *)
CreateSchedule(s, length, start, sound) ==
  /\ schedule[s].status = "none"
  /\ schedule' = [schedule EXCEPT ![s] =
       [status |-> "active", length |-> length, next |-> start, sound |-> sound]]
  /\ UNCHANGED <<date, snapshot, edits, ready, counter, issued, run, runFaults>>

(* Update reads the row ...                                                *)
UpdateScheduleRead(s) ==
  /\ RowExists(s) /\ snapshot[s] = NoSchedule /\ runFaults + edits < MaxMishaps
  /\ snapshot' = [snapshot EXCEPT ![s] = schedule[s]]
  /\ UNCHANGED <<date, schedule, edits, ready, counter, issued, run, runFaults>>

(* ... and later writes status, interval and next_run_at, those the        *)
(* request does not name as they were read.                                *)
UpdateScheduleWrite(s, status, length, next) ==
  /\ runFaults + edits < MaxMishaps
  /\ schedule' = IF RowExists(s)
                 THEN [schedule EXCEPT ![s] =
                        [@ EXCEPT !.status = status, !.length = length, !.next = next]]
                 ELSE schedule
  /\ snapshot' = [snapshot EXCEPT ![s] = NoSchedule]
  /\ edits' = edits + 1
  /\ UNCHANGED <<date, ready, counter, issued, run, runFaults>>

UpdateSchedule(s) ==
  LET read == snapshot[s] IN
  /\ read # NoSchedule
  /\ \/ \E status \in {"active", "paused"} :
          UpdateScheduleWrite(s, status, read.length, read.next)
     \/ \E length \in Lengths : UpdateScheduleWrite(s, read.status, length, read.next)
     \/ \E start \in Calendar : UpdateScheduleWrite(s, read.status, read.length, start)

DeleteSchedule(s) ==
  /\ RowExists(s)
  /\ schedule' = [schedule EXCEPT ![s].status = "deleted"]
  /\ UNCHANGED <<date, snapshot, edits, ready, counter, issued, run, runFaults>>

(* An admin deactivates an owner, or activates them again.                 *)
SetOwnerActive(u) ==
  /\ ready' = IF u \in ready THEN ready \ {u} ELSE ready \cup {u}
  /\ UNCHANGED <<date, schedule, snapshot, edits, counter, issued, run, runFaults>>
-------------------------------------------------------------------------------
(***************************************************************************)
(* GenerateDue in process w.                                               *)
(***************************************************************************)
Working(w, phase) == run[w].phase = phase

SelectDue(w) ==
  /\ Working(w, "idle")
  /\ \E s \in Schedules : DueRow(s)
  /\ run' = [run EXCEPT ![w] =
       [NoRun EXCEPT !.phase = "rows", !.began = date,
                     !.due = [s \in Schedules |-> IF DueRow(s) THEN schedule[s].length ELSE 0]]]
  /\ UNCHANGED <<date, schedule, snapshot, edits, ready, counter, issued, runFaults>>

(* What is left of a run once the row of s is done with, whatever came of it. *)
RowDone(w, s) ==
  [run[w] EXCEPT !.phase = "rows", !.at = NoSchedule, !.number = <<0, 0>>,
                 !.due = [@ EXCEPT ![s] = 0]]

(* Mutated form of LastNumber: the update is undone when the invoice is.   *)
LastNumberInTransaction(u) ==
  1 + Cardinality({x \in issued : Owner[x.schedule] = u})

(* The number of the last invoice stays counted whatever becomes of the    *)
(* invoice: the counter is not updated in its transaction.                 *)
LastNumber(u) == counter[u] + 1

(* GenerateNewInvoice up to the number: the items must add up and the      *)
(* owner may create invoices.                                              *)
GenerateInvoiceNumber(w, s) ==
  LET u == Owner[s] IN
  /\ Working(w, "rows") /\ run[w].due[s] # 0
  /\ schedule[s].sound /\ u \in ready
  /\ LastNumber(u) <= NumberBound
  /\ counter' = [counter EXCEPT ![u] = LastNumber(u)]
  /\ run' = [run EXCEPT ![w] =
       [@ EXCEPT !.phase = "insert", !.at = s, !.number = <<date, LastNumber(u)>>]]
  /\ UNCHANGED <<date, schedule, snapshot, edits, ready, issued, runFaults>>

RejectRow(w, s) ==
  /\ Working(w, "rows") /\ run[w].due[s] # 0
  /\ ~ (schedule[s].sound /\ Owner[s] \in ready)
  /\ run' = [run EXCEPT ![w] = RowDone(w, s)]
  /\ UNCHANGED <<date, schedule, snapshot, edits, ready, counter, issued, runFaults>>

(* invoice_number is unique in the table, and holds the date and the       *)
(* owner's counter but not the owner: two owners may hold the same one.    *)
NumberTaken(number) == \E x \in issued : x.number = number

InsertInvoice(w) ==
  LET s == run[w].at IN
  /\ Working(w, "insert")
  /\ ~ NumberTaken(run[w].number)
  /\ issued' = issued \cup
       {[schedule |-> s, day |-> date, length |-> run[w].due[s], number |-> run[w].number]}
  /\ run' = [run EXCEPT ![w].phase = "move"]
  /\ UNCHANGED <<date, schedule, snapshot, edits, ready, counter, runFaults>>

InsertCollides(w) ==
  /\ Working(w, "insert")
  /\ NumberTaken(run[w].number)
  /\ run' = [run EXCEPT ![w] = RowDone(w, run[w].at)]
  /\ UNCHANGED <<date, schedule, snapshot, edits, ready, counter, issued, runFaults>>

(* Mutated form of NextRunAt: counted from the run that was due.           *)
NextRunFromDue(w, s) == nextRunTime(run[w].due[s], schedule[s].next)

(* The next run is counted from now, not from the run that was due.        *)
NextRunAt(w, s) == nextRunTime(run[w].due[s], date)

MoveNextRun(w) ==
  LET s == run[w].at IN
  /\ Working(w, "move")
  /\ schedule' = IF RowExists(s)
                 THEN [schedule EXCEPT ![s].next = NextRunAt(w, s)]
                 ELSE schedule
  /\ run' = [run EXCEPT ![w] = RowDone(w, s)]
  /\ UNCHANGED <<date, snapshot, edits, ready, counter, issued, runFaults>>

EndRun(w) ==
  /\ Working(w, "rows") /\ run[w].due = NoRun.due
  /\ run' = [run EXCEPT ![w] = NoRun]
  /\ UNCHANGED <<date, schedule, snapshot, edits, ready, counter, issued, runFaults>>
-------------------------------------------------------------------------------
RunFault == runFaults + edits < MaxMishaps /\ runFaults' = runFaults + 1

(* Creating the invoice fails, or moving next_run_at does, which nobody    *)
(* looks at; the run goes on with the next row.                            *)
RowFails(w) ==
  /\ RunFault
  /\ run[w].phase \in {"insert", "move"}
  /\ run' = [run EXCEPT ![w] = RowDone(w, run[w].at)]
  /\ UNCHANGED <<date, schedule, snapshot, edits, ready, counter, issued>>

(* The query fails, the run times out or its process stops.                *)
RunStops(w) ==
  /\ RunFault
  /\ ~ Working(w, "idle")
  /\ run' = [run EXCEPT ![w] = NoRun]
  /\ UNCHANGED <<date, schedule, snapshot, edits, ready, counter, issued>>

(* A run is cut off long before it could see two midnights.                *)
NextDate ==
  /\ date < LastDay
  /\ \A w \in Runs : Working(w, "idle") \/ run[w].began = date
  /\ date' = date + 1
  /\ UNCHANGED <<schedule, snapshot, edits, ready, counter, issued, run, runFaults>>
-------------------------------------------------------------------------------
GenerateDue(w) ==
  \/ SelectDue(w)
  \/ \E s \in Schedules : GenerateInvoiceNumber(w, s) \/ RejectRow(w, s)
  \/ InsertInvoice(w) \/ InsertCollides(w)
  \/ MoveNextRun(w) \/ EndRun(w)

RecurringNext ==
  \/ \E s \in Schedules :
       \/ \E length \in Lengths, start \in Calendar, sound \in BOOLEAN :
            CreateSchedule(s, length, start, sound)
       \/ UpdateScheduleRead(s) \/ UpdateSchedule(s) \/ DeleteSchedule(s)
  \/ \E u \in Users : SetOwnerActive(u)
  \/ \E w \in Runs : GenerateDue(w) \/ RowFails(w) \/ RunStops(w)
  \/ NextDate

RecurringSpec == RecurringInit /\ [][RecurringNext]_recurringVars
-------------------------------------------------------------------------------
Follows(y, x) ==
  /\ y.schedule = x.schedule /\ y.number[2] > x.number[2]
  /\ \A z \in issued : z.schedule = x.schedule =>
       z.number[2] <= x.number[2] \/ z.number[2] >= y.number[2]

(* The invoices that came before the interval of the one before was over.  *)
Repeats == {y \in issued : \E x \in issued : Follows(y, x) /\ y.day < x.day + x.length}

(* GenerateDue creates the invoice and moves next_run_at in separate       *)
(* statements.  Where a single process runs it, what that may cost is      *)
(* bounded: a repeated invoice takes an error or a crash in between, or an *)
(* update of the owner, which writes back the next_run_at it has read, be  *)
(* it moved since.                                                         *)
RepeatsBounded ==
  Cardinality(Runs) = 1 => Cardinality(Repeats) <= runFaults + edits

(* A schedule that is due, and could be invoiced, is: a row that fails or  *)
(* whose number another owner's invoice has does not hold it up for good.  *)
DueSchedulesAreInvoiced ==
  \A s \in Schedules :
    LET waiting == DueRow(s) /\ schedule[s].sound /\ Owner[s] \in ready
    IN waiting ~> ~ waiting

(* recurring/handler.go:22: "Create a schedule that generates an invoice   *)
(* at each interval."                                                      *)
OncePerInterval == Repeats = {}
=============================================================================
