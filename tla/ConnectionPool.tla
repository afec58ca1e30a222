---------------------------- MODULE ConnectionPool ----------------------------
(***************************************************************************)
(* The pool of connections to PostgreSQL that all requests and jobs of a   *)
(* server share.  Some handlers ask for a second connection while they     *)
(* hold one: in a transaction, with rows still open, or with the advisory  *)
(* lock of the poller.                                                     *)
(***************************************************************************)
EXTENDS Integers, Sequences

CONSTANTS
  Conns,      \* the connections; the code has 25
  Callers,    \* goroutines that ask for one
  MaxInner    \* times a handler asks for its second connection

ASSUME PoolAssumption == MaxInner \in Nat \ {0}

VARIABLES
  caller,   \* what each goroutine runs, and how far it is
  holder,   \* whose each connection is, and whether it is that one's first
  queue     \* those that wait: the pool serves them in order

poolVars == <<caller, holder, queue>>
-------------------------------------------------------------------------------
(***************************************************************************)
(* A handler takes a connection in one of four ways, which differ in what  *)
(* gives it back: the last thing the handler does with it when all goes    *)
(* well, and what it has deferred, which runs whatever way it returns.     *)
(***************************************************************************)
GivesBack ==
  [Begin   |-> {"Commit", "Rollback"},
   Query   |-> {"last row", "Close"},
   Acquire |-> {"Release"},
   Exec    |-> {"its end"}]          \* Exec, and QueryRow with its Scan

Use(way, last, deferred) == [way |-> way, last |-> last, deferred |-> deferred]

Statement == Use("Exec", "its end", "its end")
Fetched   == Use("Query", "last row", "Close")
Committed == Use("Begin", "Commit", "Rollback")
Unused    == Use("Exec", "nothing", "nothing")

(***************************************************************************)
(* The handlers: the connection they begin with, the one they ask for      *)
(* while they hold it, and whether waiting ends when the client goes,      *)
(* ReadTimeout passes or the job's time is up, which all cancel the        *)
(* context.                                                                *)
(***************************************************************************)
Handler(first, second, cancelled) ==
  [first |-> first, second |-> second, cancelled |-> cancelled]

(* Mutated form of DrawsNumber: the rollback is not deferred.              *)
ForgetsRollback == Handler(Use("Begin", "Commit", "nothing"), Statement, TRUE)

(* GenerateNewInvoice: GenerateInvoiceNumber in its transaction.           *)
DrawsNumber == Handler(Committed, Statement, TRUE)

(* GetManyInvoice: GetSignedDownloadURL and fetchAllInvoiceItems in a      *)
(* transaction it never commits.                                           *)
ReadsItems == Handler(Use("Begin", "nothing", "Rollback"), Fetched, TRUE)

(* GetInvoiceBySearchOnUser: GetSignedDownloadURL with its rows open.      *)
SignsLogos == Handler(Fetched, Statement, TRUE)

(* Poll: the advisory lock's connection, and those that pollAccount and    *)
(* the transactions of insertSettled, insertDetected and finalize take.    *)
HoldsPollLock == Handler(Use("Acquire", "nothing", "Release"), Committed, TRUE)

(* EditInvoice, CreateWallet, CreateNewTransaction; GetReactions, whose    *)
(* first rows are read to the end before it asks again; Log, with a        *)
(* context nobody cancels.                                                 *)
EditsInvoice    == Handler(Committed, Unused, TRUE)
InsertsWallet   == Handler(Committed, Unused, TRUE)
InsertsHistory  == Handler(Committed, Unused, TRUE)
CountsReactions == Handler(Fetched, Unused, TRUE)
WritesLog       == Handler(Statement, Unused, FALSE)

Handlers == {DrawsNumber, ReadsItems, SignsLogos, HoldsPollLock, EditsInvoice,
             InsertsWallet, InsertsHistory, CountsReactions, WritesLog}

Resting == [handler |-> WritesLog, phase |-> "resting", todo |-> 0]

PoolInit ==
  /\ caller = [c \in Callers |-> Resting]
  /\ holder = [k \in Conns |-> <<>>]
  /\ queue = <<>>

Free == {k \in Conns : holder[k] = <<>>}
-------------------------------------------------------------------------------
Begins(c, h) ==
  /\ caller[c].phase = "resting"
  /\ \E times \in IF h.second = Unused THEN {0} ELSE 1..MaxInner :
       caller' = [caller EXCEPT ![c] = [handler |-> h, phase |-> "waiting", todo |-> times]]
  /\ queue' = Append(queue, c)
  /\ UNCHANGED holder

(* The first in the queue gets a free connection.                          *)
Acquire(c) ==
  /\ queue # <<>> /\ Head(queue) = c
  /\ queue' = Tail(queue)
  /\ \E k \in Free :
       \/ /\ caller[c].phase = "waiting"
          /\ holder' = [holder EXCEPT ![k] = <<c, "first">>]
          /\ caller' = [caller EXCEPT ![c].phase = "holding"]
       \/ /\ caller[c].phase = "waitingAgain"
          /\ holder' = [holder EXCEPT ![k] = <<c, "second">>]
          /\ caller' = [caller EXCEPT ![c].phase = "holdingBoth"]

AcquireSecond(c) ==
  /\ caller[c].phase = "holding" /\ caller[c].todo > 0
  /\ caller' = [caller EXCEPT ![c].phase = "waitingAgain"]
  /\ queue' = Append(queue, c)
  /\ UNCHANGED holder

(* What is given back when these are done with a connection used so.       *)
Returns(use, done) == done \cap GivesBack[use.way] # {}

(* The handler's first connection, its second one or both, as far as what  *)
(* it does with each gives it back.                                        *)
Released(c, firstDone, secondDone) ==
  LET h == caller[c].handler
      back == {k \in Conns : \/ holder[k] = <<c, "first">> /\ Returns(h.first, firstDone)
                             \/ holder[k] = <<c, "second">> /\ Returns(h.second, secondDone)}
  IN holder' = [k \in Conns |-> IF k \in back THEN <<>> ELSE holder[k]]

ReleaseSecond(c) ==
  LET second == caller[c].handler.second IN
  /\ caller[c].phase = "holdingBoth"
  /\ caller' = [caller EXCEPT ![c].phase = "holding", ![c].todo = @ - 1]
  /\ Released(c, {}, {second.last, second.deferred})
  /\ UNCHANGED queue

HandlerEnds(c) ==
  LET first == caller[c].handler.first IN
  /\ caller[c].phase = "holding" /\ caller[c].todo = 0
  /\ caller' = [caller EXCEPT ![c] = Resting]
  /\ Released(c, {first.last, first.deferred}, {})
  /\ UNCHANGED queue

(* The handler returns early: only what it deferred is done.               *)
ReturnsEarly(c) ==
  LET h == caller[c].handler IN
  /\ caller' = [caller EXCEPT ![c] = Resting]
  /\ Released(c, {h.first.deferred}, {h.second.deferred})

(* A statement fails, or the handler refuses what it has read.             *)
HandlerFails(c) ==
  /\ caller[c].phase \in {"holding", "holdingBoth"}
  /\ ReturnsEarly(c) /\ UNCHANGED queue

(* Its context is cancelled while it waits.                                *)
CutOff(c) ==
  /\ caller[c].handler.cancelled
  /\ caller[c].phase \in {"waiting", "waitingAgain"}
  /\ ReturnsEarly(c)
  /\ queue' = SelectSeq(queue, LAMBDA d : d # c)

Proceeds(c) == Acquire(c) \/ AcquireSecond(c) \/ ReleaseSecond(c) \/ HandlerEnds(c)

PoolNext ==
  \E c \in Callers :
    \/ \E h \in Handlers : Begins(c, h)
    \/ Proceeds(c) \/ HandlerFails(c) \/ CutOff(c)

PoolSpec == PoolInit /\ [][PoolNext]_poolVars
-------------------------------------------------------------------------------
(* Every request and job comes to its end, also when each connection is in *)
(* the hands of a handler that waits for a second one, and whichever ways  *)
(* the handlers before it returned: some context is cancelled and frees    *)
(* the rest, the log writes without one among them, and no handler has a   *)
(* way out that keeps its connection from the others.                      *)
EveryCallerEnds ==
  \A c \in Callers : caller[c].phase # "resting" ~> caller[c].phase = "resting"
=============================================================================
