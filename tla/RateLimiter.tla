------------------------------ MODULE RateLimiter ------------------------------
(***************************************************************************)
(* The token bucket every request passes, one client's key of it           *)
(* (pkg/ratelimits, internal/middleware).                                  *)
(*                                                                         *)
(* A server reads its clock, then runs a script on Redis, which is one     *)
(* step; the scripts of two requests may run in the other order than their *)
(* clocks were read in, and servers' clocks differ.  Times are kept        *)
(* relative to the present: how long ago the bucket was filled, and how    *)
(* far the clock a request has read is behind.                             *)
(***************************************************************************)
EXTENDS Integers

CONSTANTS
  Capacity,      \* the tokens a full bucket holds
  Rates,         \* tokens added in a period, by the path of the request
  Period,        \* the length of a period
  Requests,      \* requests of the client that may be under way at once
  MaxSkew,       \* how far behind a server's clock may be
  MaxLag,        \* how far behind it may be when the script runs
  MaxOvertakes   \* the bound on scripts that run out of order

ASSUME LimiterAssumption ==
  /\ {Capacity, Period} \subseteq Nat \ {0}
  /\ Rates \subseteq Nat \ {0} /\ \E r \in Rates : \A q \in Rates : q <= r
  /\ {MaxSkew, MaxLag, MaxOvertakes} \subseteq Nat
  /\ MaxSkew < MaxLag /\ MaxLag < Period

VARIABLES
  bucket,        \* the value of the key in Redis
  asking,        \* the requests under way
  lastAnswer,    \* what the last request was told
  overtakes,     \* how often a script ran before one that had read an earlier time
  credit         \* the tokens left in a bucket that follows true time

limiterVars == <<bucket, asking, lastAnswer, overtakes, credit>>

HighestRate == CHOOSE r \in Rates : \A q \in Rates : q <= r

(* What may be saved up at most: a request whose clock is behind takes from *)
(* a full bucket just before its refill.                                   *)
Burst == Capacity + HighestRate

(* age: since last_refill; idle: since the key's expiry was set.           *)
Buckets == [tokens: Int, age: 0..(4 * Period), idle: 0..(2 * Period)]
NoBucket == [tokens |-> 0, age |-> 0, idle |-> 2 * Period]
NotAsking == -1

LimiterTypeOK ==
  /\ bucket \in Buckets /\ bucket.tokens <= Capacity
  /\ asking \in [Requests -> NotAsking..MaxLag]
  /\ lastAnswer \in {"none", "admitted", "refused"}
  /\ overtakes \in 0..MaxOvertakes
  /\ credit \in [tokens: Int, phase: 0..(Period - 1)]

LimiterInit ==
  /\ bucket = NoBucket
  /\ asking = [q \in Requests |-> NotAsking]
  /\ lastAnswer = "none"
  /\ overtakes = 0
  /\ credit = [tokens |-> Capacity, phase |-> 0]

AtMost(n, bound) == IF n < bound THEN n ELSE bound

(* The key is gone two periods after the last request.                     *)
BucketExists == bucket.idle < 2 * Period
-------------------------------------------------------------------------------
(* CheckStore: the server reads its clock ...                              *)
ReadClock(q, skew) ==
  /\ asking[q] = NotAsking
  /\ asking' = [asking EXCEPT ![q] = skew]
  /\ UNCHANGED <<bucket, lastAnswer, overtakes, credit>>

PeriodsPassed(age) == age \div Period

(* Mutated form of Refilled: the period under way counts as passed.        *)
RefilledEarly(tokens, periods, rate) == AtMost(tokens + (periods + 1) * rate, Capacity)

Refilled(tokens, periods, rate) == AtMost(tokens + periods * rate, Capacity)

(* Mutated form of AgeAfter: last_refill is set on every request.          *)
AgeReset(age, periods) == 0

(* last_refill moves by whole periods, and only forwards.                  *)
AgeAfter(age, periods) == IF periods > 0 THEN age - periods * Period ELSE age

(* ... and runs the script with the time it read.  An earlier time than    *)
(* last_refill gives a negative number of periods, rounded down.           *)
RunScript(q, rate) ==
  LET lag == asking[q]
      old == IF BucketExists THEN bucket ELSE [tokens |-> Capacity, age |-> lag, idle |-> 0]
      periods == PeriodsPassed(old.age - lag)
      tokens == Refilled(old.tokens, periods, rate)
      allowed == tokens >= 1
  IN
  /\ lag # NotAsking
  /\ periods < 0 => overtakes < MaxOvertakes
  /\ overtakes' = IF periods < 0 THEN overtakes + 1 ELSE overtakes
  /\ bucket' = [tokens |-> IF allowed THEN tokens - 1 ELSE tokens,
                age |-> AgeAfter(old.age, periods), idle |-> 0]
  /\ lastAnswer' = IF allowed THEN "admitted" ELSE "refused"
  /\ LET owed == IF BucketExists THEN credit ELSE [tokens |-> Capacity, phase |-> lag]
     IN credit' = IF allowed THEN [owed EXCEPT !.tokens = @ - 1] ELSE owed
  /\ asking' = [asking EXCEPT ![q] = NotAsking]

(* Without Redis every request is let through, uncounted.                  *)
FallBack(q) ==
  /\ asking[q] # NotAsking
  /\ asking' = [asking EXCEPT ![q] = NotAsking]
  /\ lastAnswer' = "admitted"
  /\ UNCHANGED <<bucket, overtakes, credit>>

(* Time passes.  A call to Redis is given up before its clock is MaxLag    *)
(* behind.                                                                 *)
ClockTick ==
  /\ \A q \in Requests : asking[q] < MaxLag
  /\ asking' = [q \in Requests |-> IF asking[q] = NotAsking THEN NotAsking ELSE asking[q] + 1]
  /\ bucket' = IF bucket.idle + 1 < 2 * Period
               THEN [bucket EXCEPT !.age = @ + 1, !.idle = @ + 1]
               ELSE NoBucket
  /\ credit' = IF credit.phase + 1 < Period
               THEN [credit EXCEPT !.phase = @ + 1]
               ELSE [tokens |-> AtMost(credit.tokens + HighestRate, Burst), phase |-> 0]
  /\ UNCHANGED <<lastAnswer, overtakes>>
-------------------------------------------------------------------------------
CheckStore(q) == \E rate \in Rates : RunScript(q, rate)

Asks(q) == \E skew \in 0..MaxSkew : ReadClock(q, skew)
Answers(q) == CheckStore(q) \/ FallBack(q)

LimiterNext ==
  \/ \E q \in Requests : Asks(q) \/ Answers(q)
  \/ ClockTick

LimiterSpec == LimiterInit /\ [][LimiterNext]_limiterVars
-------------------------------------------------------------------------------
(* However the scripts of concurrent requests are ordered and whichever    *)
(* path they take, the bucket admits no more than one that refills by true *)
(* time at the highest rate.                                               *)
AdmittedWithinBudget == credit.tokens >= 0

(* A refused client that keeps asking is admitted again, although every    *)
(* request puts off the expiry of its bucket.                              *)
RefusedClientRecovers == lastAnswer = "refused" ~> lastAnswer = "admitted"
=============================================================================
