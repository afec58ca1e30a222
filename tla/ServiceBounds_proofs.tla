-------------------------- MODULE ServiceBounds_proofs --------------------------
(***************************************************************************)
(* What the services promise in numbers: tokens a client may use, months   *)
(* that show everything once, invoices repeated by a schedule.             *)
(* Each of these is an account of two things that move at different times, *)
(* and its invariant says by how much one may be ahead of the other.       *)
(***************************************************************************)
EXTENDS RateLimiter, Reports, RecurringInvoices, FiniteSetTheorems, TLAPS

(* Whole periods in a span of time.                                        *)
LEMMA WholePeriods ==
  ASSUME NEW x \in Int, NEW p \in Nat \ {0}, NEW d, d = x \div p
  PROVE  d \in Int /\ p * d <= x /\ x < p * d + p
  BY SMT

LEMMA Product ==
  ASSUME NEW a \in Int, NEW b \in Int
  PROVE  a * b \in Int /\ b * a = a * b
         /\ (a + 1) * b = a * b + b /\ (a - 1) * b = a * b - b
  BY SMT

(* A product is positive only if both factors are.                         *)
LEMMA PositiveFactor ==
  ASSUME NEW p \in Nat \ {0}, NEW n \in Int, p * n > 0
  PROVE  n > 0
  BY SMT

LEMMA PeriodsGrow ==
  ASSUME NEW a \in Int, NEW b \in Int, NEW p \in Nat \ {0}, a <= b
  PROVE  a \div p \in Int /\ b \div p \in Int /\ a \div p <= b \div p
  <1> PICK da, db : da = a \div p /\ db = b \div p
    OBVIOUS
  <1>1. /\ da \in Int /\ db \in Int /\ p * da <= a /\ b < p * db + p
    BY WholePeriods
  <1>2. p * (db + 1 - da) = p * db + p - p * da /\ p * db \in Int /\ p * da \in Int
    BY <1>1, SMT
  <1>3. p * (db + 1 - da) > 0
    BY <1>1, <1>2
  <1>4. db + 1 - da > 0
    BY <1>1, <1>3, PositiveFactor
  <1> QED BY <1>1, <1>4

LEMMA OneOfTwo ==
  ASSUME NEW n \in Int, NEW k \in Int, k + 1 - n > 0, n - k + 2 > 0
  PROVE  n = k \/ n = k - 1
  OBVIOUS

LEMMA SmallerFactor ==
  ASSUME NEW n \in Nat, NEW a \in Nat, NEW b \in Nat, a <= b
  PROVE  n * a <= n * b /\ n * a \in Nat /\ n * b \in Nat
  BY SMT

-------------------------------------------------------------------------------
(***************************************************************************)
(* The rate limiter.  The bucket in Redis lags behind one that follows     *)
(* true time: it has still to be refilled for some whole periods, and      *)
(* never holds more than the true one does once those are made up.         *)
(***************************************************************************)

(* k periods the bucket has not been refilled for.                         *)
Behind(k) ==
  /\ bucket.age = credit.phase + k * Period
  /\ credit.tokens >= Burst \/ credit.tokens >= bucket.tokens + k * HighestRate

LimiterInv ==
  /\ LimiterTypeOK
  /\ AdmittedWithinBudget
  /\ BucketExists =>
       /\ bucket.age <= bucket.idle + Period + MaxLag
       /\ \E k \in Nat : Behind(k)

LEMMA RatesBounded ==
  /\ HighestRate \in Nat \ {0} /\ \A r \in Rates : r \in Nat \ {0} /\ r <= HighestRate
  /\ Capacity \in Nat \ {0} /\ Period \in Nat \ {0} /\ MaxLag \in Nat /\ MaxLag < Period
  /\ MaxSkew \in Nat /\ MaxOvertakes \in Nat /\ MaxSkew < MaxLag
  /\ Burst = Capacity + HighestRate
  BY LimiterAssumption DEF HighestRate, Burst

LEMMA LimiterTyped ==
  ASSUME LimiterInv
  PROVE  /\ bucket \in Buckets /\ bucket.tokens <= Capacity
         /\ asking \in [Requests -> NotAsking..MaxLag]
         /\ overtakes \in 0..MaxOvertakes
         /\ credit \in [tokens: Int, phase: 0..(Period - 1)]
         /\ credit.tokens >= 0
  BY DEF LimiterInv, LimiterTypeOK, AdmittedWithinBudget

LEMMA LimiterBegins == LimiterInit => LimiterInv
  BY RatesBounded
  DEF LimiterInit, LimiterInv, LimiterTypeOK, Buckets, NoBucket, NotAsking,
      AdmittedWithinBudget, BucketExists

(* A period of the true bucket ends, or not yet.                           *)
LEMMA TickKeepsBudget ==
  ASSUME LimiterInv, ClockTick
  PROVE  LimiterInv'
  <1>0. /\ bucket \in Buckets /\ bucket.tokens <= Capacity
        /\ asking \in [Requests -> NotAsking..MaxLag]
        /\ overtakes \in 0..MaxOvertakes
        /\ credit \in [tokens: Int, phase: 0..(Period - 1)]
        /\ credit.tokens >= 0
    BY LimiterTyped
  <1>1. asking' \in [Requests -> NotAsking..MaxLag]
    BY <1>0, RatesBounded DEF ClockTick, NotAsking
  <1> DEFINE c == credit.tokens
             longer == [credit EXCEPT !.phase = @ + 1]
             refilled == [tokens |-> AtMost(c + HighestRate, Burst), phase |-> 0]
  <1>2. /\ credit.phase + 1 < Period => credit' = longer
        /\ credit.phase + 1 >= Period => credit' = refilled
    BY <1>0, RatesBounded DEF ClockTick
  <1>3. /\ credit' \in [tokens: Int, phase: 0..(Period - 1)]
        /\ \/ credit'.phase = credit.phase + 1 /\ credit'.tokens = c
           \/ /\ credit'.phase = 0 /\ credit.phase = Period - 1
              /\ credit'.tokens = Burst \/ credit'.tokens = c + HighestRate
        /\ credit'.tokens >= 0
    BY <1>0, <1>2, RatesBounded DEF AtMost
  <1>4. CASE bucket.idle + 1 < 2 * Period
    <2>1. /\ bucket' = [bucket EXCEPT !.age = @ + 1, !.idle = @ + 1]
          /\ BucketExists
      BY <1>0, <1>4, RatesBounded DEF ClockTick, BucketExists, Buckets
    <2>2. PICK k \in Nat : Behind(k)
      BY <2>1 DEF LimiterInv
    <2>3. /\ bucket'.age = bucket.age + 1 /\ bucket'.idle = bucket.idle + 1
          /\ bucket'.tokens = bucket.tokens
          /\ bucket.age <= bucket.idle + Period + MaxLag
      BY <1>0, <2>1 DEF LimiterInv, Buckets
    <2>4. bucket' \in Buckets /\ bucket'.tokens <= Capacity
      <3>1. /\ bucket.age \in Nat /\ bucket.idle \in Nat /\ bucket.tokens \in Int
            /\ Period \in Nat /\ MaxLag \in Nat
        BY <1>0, RatesBounded DEF Buckets
      <3>2. bucket.age + 1 <= 4 * Period /\ bucket.idle + 1 <= 2 * Period
        BY <1>4, <2>3, <3>1, RatesBounded
      <3>3. bucket.age + 1 \in 0..(4 * Period) /\ bucket.idle + 1 \in 0..(2 * Period)
        BY <3>1, <3>2
      <3> QED BY <1>0, <2>1, <3>3 DEF Buckets
    <2> PICK kp \in Int, kr \in Int : kp = k * Period /\ kr = k * HighestRate
      BY RatesBounded, Product
    <2>5. /\ bucket.age = credit.phase + kp
          /\ c >= Burst \/ c >= bucket.tokens + kr
      BY <2>2 DEF Behind
    <2>6. (k + 1) * Period = kp + Period /\ (k + 1) * HighestRate = kr + HighestRate
      BY RatesBounded, Product
    <2> HIDE DEF c, longer, refilled
    <2>7. Behind(k)' \/ Behind(k + 1)'
      <3>1. CASE credit'.phase = credit.phase + 1 /\ credit'.tokens = c
        BY <1>0, <1>3, <2>3, <2>5, <3>1, RatesBounded DEF Behind, Burst, Buckets
      <3>2. CASE /\ credit'.phase = 0 /\ credit.phase = Period - 1
                 /\ credit'.tokens = Burst \/ credit'.tokens = c + HighestRate
        BY <1>0, <1>3, <2>3, <2>5, <2>6, <3>2, RatesBounded DEF Behind, Burst, Buckets, c
      <3> QED BY <1>3, <3>1, <3>2
    <2>8. \E n \in Nat : Behind(n)'
      BY <2>7
    <2>9. bucket'.age <= bucket'.idle + Period + MaxLag
      BY <1>0, <2>3, RatesBounded DEF Buckets
    <2> QED BY <1>0, <1>1, <1>3, <2>4, <2>8, <2>9
            DEF LimiterInv, LimiterTypeOK, AdmittedWithinBudget, ClockTick
  <1>5. CASE ~(bucket.idle + 1 < 2 * Period)
    <2>1. bucket' = NoBucket
      BY <1>5 DEF ClockTick
    <2>2. bucket' \in Buckets /\ bucket'.tokens <= Capacity /\ ~BucketExists'
      BY <2>1, RatesBounded DEF NoBucket, Buckets, BucketExists
    <2> QED BY <1>0, <1>1, <1>3, <2>2
            DEF LimiterInv, LimiterTypeOK, AdmittedWithinBudget, ClockTick
  <1> QED BY <1>4, <1>5

(* The script refills for all the periods the bucket is behind but one at  *)
(* most: a whole one may be hidden by the clock's lag.                     *)
LEMMA PeriodsMadeUp ==
  ASSUME NEW k \in Nat, NEW phase \in 0..(Period - 1), NEW lag \in 0..MaxLag,
         NEW age, age = phase + k * Period,
         NEW periods, periods = PeriodsPassed(age - lag)
  PROVE  /\ periods = k \/ (periods = k - 1 /\ phase < lag)
         /\ AgeAfter(age, periods) = phase + (IF periods = k \/ k = 0 THEN 0 ELSE Period)
  <1>0. /\ Period \in Nat \ {0} /\ MaxLag < Period /\ MaxLag \in Nat
        /\ age \in Int /\ phase \in Int /\ lag \in Int
    BY RatesBounded, Product
  <1>a. PICK kp \in Int : kp = k * Period
    BY <1>0, Product
  <1>1. periods \in Int /\ Period * periods <= age - lag
        /\ age - lag < Period * periods + Period
    BY <1>0, WholePeriods DEF PeriodsPassed
  <1>b. PICK pp \in Int : pp = Period * periods /\ pp = periods * Period
    BY <1>0, <1>1, Product
  <1>2. pp <= phase + kp - lag /\ phase + kp - lag < pp + Period
    BY <1>1, <1>a, <1>b
  <1>3. k + 1 - periods > 0
    <2>1. Period * (k + 1 - periods) = kp + Period - pp
      BY <1>0, <1>1, <1>a, <1>b
    <2>2. Period * (k + 1 - periods) > 0
      BY <1>0, <1>2, <2>1
    <2> QED BY <1>0, <1>1, <2>2, PositiveFactor
  <1>4. periods - k + 2 > 0
    <2>1. Period * (periods - k + 2) = pp - kp + Period + Period
      BY <1>0, <1>1, <1>a, <1>b
    <2>2. Period * (periods - k + 2) > 0
      BY <1>0, <1>2, <2>1
    <2> QED BY <1>0, <1>1, <2>2, PositiveFactor
  <1>5. periods = k \/ periods = k - 1
    <2>1. periods \in Int /\ k \in Int
      BY <1>1
    <2> QED BY <1>3, <1>4, <2>1, OneOfTwo
  <1>6. periods = k => pp = kp
    BY <1>a, <1>b
  <1>7. periods = k - 1 => pp = kp - Period
    <2>1. (k - 1) * Period = k * Period - Period
      BY <1>0, Product
    <2> QED BY <1>a, <1>b, <2>1
  <1>8. periods = k - 1 => phase < lag
    BY <1>0, <1>2, <1>7
  <1>9. k = 0 => kp = 0
    BY <1>0, <1>a
  <1>10. k = 1 => kp = Period
    BY <1>0, <1>a
  <1>11. AgeAfter(age, periods) = IF periods > 0 THEN phase + kp - pp ELSE phase + kp
    BY <1>0, <1>a, <1>b DEF AgeAfter
  <1>12. AgeAfter(age, periods) = phase + (IF periods = k \/ k = 0 THEN 0 ELSE Period)
    <2>1. CASE periods = k
      BY <1>0, <1>6, <1>9, <1>11, <2>1
    <2>2. CASE periods = k - 1 /\ k = 0
      BY <1>0, <1>9, <1>11, <2>2
    <2>3. CASE periods = k - 1 /\ k # 0
      <3>1. phase + kp - pp = phase + Period
        BY <1>0, <1>7, <2>3
      <3>2. periods > 0 \/ k = 1
        BY <2>3
      <3>3. AgeAfter(age, periods) = phase + Period
        BY <1>0, <1>10, <1>11, <3>1, <3>2
      <3>4. ~(periods = k \/ k = 0)
        BY <2>3
      <3> QED BY <3>3, <3>4
    <2> QED BY <1>5, <2>1, <2>2, <2>3
  <1> QED BY <1>5, <1>8, <1>12
(* What the bucket gives out it has, and the true bucket has as much.      *)
LEMMA ScriptKeepsBudget ==
  ASSUME LimiterInv, NEW q \in Requests, NEW rate \in Rates, RunScript(q, rate)
  PROVE  LimiterInv'
  <1>0. /\ bucket \in Buckets /\ bucket.tokens \in Int /\ bucket.tokens <= Capacity
        /\ asking \in [Requests -> NotAsking..MaxLag]
        /\ overtakes \in 0..MaxOvertakes
        /\ credit \in [tokens: Int, phase: 0..(Period - 1)]
        /\ credit.tokens \in Int /\ credit.phase \in 0..(Period - 1)
        /\ credit.tokens >= 0
    BY LimiterTyped DEF Buckets
  <1>c. /\ HighestRate \in Nat \ {0} /\ rate \in Nat \ {0} /\ rate <= HighestRate
        /\ Capacity \in Nat \ {0} /\ Period \in Nat \ {0}
        /\ MaxLag \in Nat /\ MaxLag < Period /\ MaxOvertakes \in Nat
        /\ Burst = Capacity + HighestRate
    BY RatesBounded
  <1> DEFINE held == [tokens |-> Capacity, age |-> asking[q], idle |-> 0]
             owing == [tokens |-> Capacity, phase |-> asking[q]]
  <1>1. PICK lag : lag = asking[q]
    OBVIOUS
  <1>2. PICK old : old = IF BucketExists THEN bucket ELSE held
    OBVIOUS
  <1>3. PICK owed : owed = IF BucketExists THEN credit ELSE owing
    OBVIOUS
  <1>4. PICK periods : periods = PeriodsPassed(old.age - lag)
    OBVIOUS
  <1>5. PICK tokens : tokens = Refilled(old.tokens, periods, rate)
    OBVIOUS
  <1>6. /\ lag \in 0..MaxLag
        /\ periods < 0 => overtakes < MaxOvertakes
        /\ overtakes' = IF periods < 0 THEN overtakes + 1 ELSE overtakes
        /\ bucket' = [tokens |-> IF tokens >= 1 THEN tokens - 1 ELSE tokens,
                      age |-> AgeAfter(old.age, periods), idle |-> 0]
        /\ credit' = IF tokens >= 1 THEN [owed EXCEPT !.tokens = @ - 1] ELSE owed
        /\ asking' = [asking EXCEPT ![q] = NotAsking]
    <2>1. lag # NotAsking /\ lag \in NotAsking..MaxLag
      BY <1>0, <1>1 DEF RunScript
    <2>2. lag \in 0..MaxLag
      BY <1>c, <2>1 DEF NotAsking
    <2> QED BY <1>1, <1>2, <1>3, <1>4, <1>5, <2>2, Zenon DEF RunScript
  (* Old and owed are what they are, or full when there was no bucket.     *)
  <1>7. /\ owed \in [tokens: Int, phase: 0..(Period - 1)]
        /\ old.tokens \in Int /\ old.tokens <= Capacity
        /\ owed.tokens \in Int /\ owed.tokens >= 0 /\ owed.phase \in 0..(Period - 1)
        /\ \E k \in Nat : /\ old.age = owed.phase + k * Period
                          /\ \/ owed.tokens >= Burst
                             \/ owed.tokens >= old.tokens + k * HighestRate
    <2>1. CASE BucketExists
      <3>1. old = bucket /\ owed = credit
        BY <1>2, <1>3, <2>1
      <3> QED BY <1>0, <2>1, <3>1 DEF LimiterInv, Behind
    <2>2. CASE ~BucketExists
      <3>1. /\ old.tokens = Capacity /\ old.age = lag
            /\ owed = [tokens |-> Capacity, phase |-> lag]
        BY <1>1, <1>2, <1>3, <2>2
      <3>2. 0 * Period = 0 /\ 0 * HighestRate = 0 /\ lag \in 0..(Period - 1)
        BY <1>c, <1>6
      <3>3. /\ old.age = owed.phase + 0 * Period
            /\ owed.tokens >= old.tokens + 0 * HighestRate
        BY <1>c, <1>6, <3>1, <3>2
      <3> QED BY <1>c, <3>1, <3>2, <3>3
    <2> QED BY <2>1, <2>2
  <1>8. PICK k \in Nat : /\ old.age = owed.phase + k * Period
                         /\ \/ owed.tokens >= Burst
                            \/ owed.tokens >= old.tokens + k * HighestRate
    BY <1>7
  <1>9. /\ periods = k \/ (periods = k - 1 /\ owed.phase < lag)
        /\ AgeAfter(old.age, periods)
             = owed.phase + (IF periods = k \/ k = 0 THEN 0 ELSE Period)
    BY <1>4, <1>6, <1>7, <1>8, PeriodsMadeUp
  (* n periods are left, one at most.                                      *)
  <1>10. PICK n \in {0, 1} :
           /\ n = IF periods = k \/ k = 0 THEN 0 ELSE 1
           /\ AgeAfter(old.age, periods) = owed.phase + n * Period
           /\ n = 1 => owed.phase < lag
    BY <1>9, <1>c
  <1>11. /\ tokens \in Int /\ tokens <= Capacity
         /\ owed.tokens >= tokens + n * HighestRate
    <2>1. PICK kr \in Int, kh \in Int :
            /\ kr = periods * rate /\ kh = k * HighestRate
            /\ kr + n * HighestRate <= kh
      <3>1. CASE periods = k
        <4>1. k * rate <= k * HighestRate /\ k * rate \in Nat /\ k * HighestRate \in Nat
          BY <1>c, SmallerFactor
        <4> QED BY <1>10, <1>c, <3>1, <4>1
      <3>2. CASE periods = k - 1 /\ k # 0
        <4>1. /\ k - 1 \in Nat /\ (k - 1) * HighestRate = k * HighestRate - HighestRate
          BY <1>c, <3>2, Product
        <4>2. /\ (k - 1) * rate <= (k - 1) * HighestRate /\ (k - 1) * rate \in Nat
              /\ k * HighestRate \in Int
          BY <1>c, <4>1, SmallerFactor, Product
        <4>3. n = 1
          BY <1>10, <3>2
        <4> QED BY <1>c, <3>2, <4>1, <4>2, <4>3
      <3>3. CASE periods = -1 /\ k = 0
        BY <1>10, <1>c, <3>3
      <3> QED BY <1>9, <3>1, <3>2, <3>3
    <2>2. tokens = IF old.tokens + kr < Capacity THEN old.tokens + kr ELSE Capacity
      BY <1>5, <2>1 DEF Refilled, AtMost
    <2>3. tokens \in Int /\ tokens <= Capacity /\ tokens <= old.tokens + kr
      BY <1>7, <1>c, <2>2
    <2>4. owed.tokens >= Burst \/ owed.tokens >= old.tokens + kh
      BY <1>8, <2>1
    <2>5. n * HighestRate = 0 \/ n * HighestRate = HighestRate
      BY <1>c
    <2> QED BY <1>7, <1>c, <2>1, <2>3, <2>4, <2>5
  <1>12. /\ credit' \in [tokens: Int, phase: 0..(Period - 1)]
         /\ credit'.phase = owed.phase
         /\ credit'.tokens = IF tokens >= 1 THEN owed.tokens - 1 ELSE owed.tokens
    BY <1>6, <1>7, <1>11
  <1>13. /\ bucket'.tokens = IF tokens >= 1 THEN tokens - 1 ELSE tokens
         /\ bucket'.age = owed.phase + n * Period /\ bucket'.idle = 0
    BY <1>6, <1>10
  <1>14. /\ Behind(n)' /\ bucket'.age <= bucket'.idle + Period + MaxLag
         /\ bucket' \in Buckets /\ bucket'.tokens <= Capacity
         /\ credit'.tokens >= 0
    <2>1. PICK np \in {0, Period}, nh \in {0, HighestRate} :
            np = n * Period /\ nh = n * HighestRate /\ (n = 0 => np = 0)
      BY <1>c
    <2>2. Behind(n)'
      <3>1. credit'.tokens >= bucket'.tokens + nh
        BY <1>7, <1>11, <1>12, <1>13, <1>c, <2>1
      <3> QED BY <1>12, <1>13, <2>1, <3>1 DEF Behind
    <2>3. owed.phase + np <= Period + MaxLag
      BY <1>6, <1>7, <1>10, <1>c, <2>1
    <2>4. credit'.tokens >= 0
      BY <1>7, <1>11, <1>12, <1>c, <2>1
    <2>5. owed.phase + np \in 0..(4 * Period)
      BY <1>7, <1>c, <2>1, <2>3
    <2>6. bucket' \in Buckets
      BY <1>6, <1>10, <1>11, <1>c, <2>1, <2>5 DEF Buckets
    <2> QED BY <1>11, <1>13, <1>c, <2>1, <2>2, <2>3, <2>4, <2>6
  <1>15. /\ asking' \in [Requests -> NotAsking..MaxLag]
         /\ overtakes' \in 0..MaxOvertakes
         /\ lastAnswer' \in {"none", "admitted", "refused"}
    <2>1. periods \in Int
      BY <1>9
    <2>2. lastAnswer' = "admitted" \/ lastAnswer' = "refused"
      BY DEF RunScript
    <2> QED BY <1>0, <1>6, <1>c, <2>1, <2>2 DEF NotAsking
  <1> QED BY <1>12, <1>14, <1>15 DEF LimiterInv, LimiterTypeOK, AdmittedWithinBudget

LEMMA LimiterStep == LimiterInv /\ [LimiterNext]_limiterVars => LimiterInv'
  <1> SUFFICES ASSUME LimiterInv, [LimiterNext]_limiterVars PROVE LimiterInv'
    OBVIOUS
  <1>1. ASSUME NEW q \in Requests, Asks(q) \/ FallBack(q)
        PROVE  LimiterInv'
    <2>1. UNCHANGED <<bucket, overtakes, credit>>
      BY <1>1 DEF Asks, ReadClock, FallBack
    <2>2. asking' \in [Requests -> NotAsking..MaxLag]
      BY <1>1, LimiterTyped, RatesBounded DEF Asks, ReadClock, FallBack, NotAsking
    <2>3. lastAnswer' \in {"none", "admitted", "refused"}
      BY <1>1 DEF Asks, ReadClock, FallBack, LimiterInv, LimiterTypeOK
    <2> QED BY <2>1, <2>2, <2>3
            DEF LimiterInv, LimiterTypeOK, AdmittedWithinBudget, BucketExists, Behind
  <1>2. CASE UNCHANGED limiterVars
    BY <1>2
    DEF limiterVars, LimiterInv, LimiterTypeOK, AdmittedWithinBudget, BucketExists, Behind
  <1> QED BY <1>1, <1>2, TickKeepsBudget, ScriptKeepsBudget
          DEF LimiterNext, Answers, CheckStore

(* Whatever the servers' clocks say and in whichever order their scripts   *)
(* run, a client gets no more than a bucket in true time has for it.       *)
THEOREM TokensWithinBudget == LimiterSpec => []AdmittedWithinBudget
  <1>1. LimiterInv => AdmittedWithinBudget
    BY DEF LimiterInv
  <1> QED BY <1>1, LimiterBegins, LimiterStep, PTL DEF LimiterSpec
-------------------------------------------------------------------------------
(***************************************************************************)
(* The months of a merchant's invoices.  A client asks for all the months  *)
(* of the calendar, one request after the other; the year each answer is   *)
(* about follows from the day of that request.                             *)
(***************************************************************************)

LEMMA DivIs ==
  ASSUME NEW x \in Int, NEW p \in Nat \ {0}, NEW d \in Int
  PROVE  x \div p = d <=> d * p <= x /\ x < d * p + p
  BY SMT

LEMMA DivMod ==
  ASSUME NEW x \in Int, NEW p \in Nat \ {0}
  PROVE  /\ x \div p \in Int /\ x % p \in 0..(p - 1)
         /\ x = p * (x \div p) + (x % p)
  BY SMT

LEMMA ModIs ==
  ASSUME NEW p \in Nat \ {0}, NEW d \in Int, NEW r \in 0..(p - 1)
  PROVE  (d * p + r) % p = r
  BY SMT

(* A month of the last twelve is asked for by its name.                    *)
LEMMA YearOfMonth ==
  ASSUME NEW n \in Nat \ {0}, NEW t \in Int, NEW c \in Int, c <= t, t - c < n,
         NEW m \in 1..n, c % n = m - 1,
         NEW y \in Int, IF m > (t % n) + 1 THEN y = t \div n - 1 ELSE y = t \div n
  PROVE  c = y * n + m - 1
  <1>1. PICK qc \in Int, qt \in Int, rt \in 0..(n - 1) :
          /\ qc = c \div n /\ qt = t \div n /\ rt = t % n
          /\ c = n * qc + (m - 1) /\ t = n * qt + rt
    <2>1. c \div n \in Int /\ c = n * (c \div n) + (m - 1)
      BY DivMod
    <2>2. t \div n \in Int /\ t % n \in 0..(n - 1) /\ t = n * (t \div n) + (t % n)
      BY DivMod
    <2> QED BY <2>1, <2>2
  <1>2. n * (qt - qc) = n * qt - n * qc
    BY <1>1, SMT
  <1>3. n * (qt - qc) = t - c - rt + m - 1
    BY <1>1, <1>2
  <1>4. n * (qt - qc + 1) = n * (qt - qc) + n /\ n * (1 - (qt - qc)) = n - n * (qt - qc)
        /\ n * (2 - (qt - qc)) = n + n - n * (qt - qc)
    BY <1>1, SMT
  <1>0. c = qc * n + m - 1
    BY <1>1, Product
  <1>5. CASE m - 1 <= rt
    <2>1. n * (qt - qc + 1) > 0 /\ n * (1 - (qt - qc)) > 0
      BY <1>1, <1>3, <1>4, <1>5
    <2>2. qt - qc + 1 > 0 /\ 1 - (qt - qc) > 0
      BY <1>1, <2>1, PositiveFactor
    <2>3. qt = qc
      <3>1. qc \in Int /\ qt \in Int
        BY <1>1
      <3> QED BY <2>2, <3>1
    <2>4. y = qc
      <3>1. t % n = rt /\ t \div n = qc /\ rt \in Int
        BY <1>1, <2>3
      <3>2. ~(m > (t % n) + 1)
        BY <1>5, <3>1
      <3> QED BY <3>1, <3>2
    <2> QED BY <1>0, <2>4
  <1>6. CASE m - 1 > rt
    <2>1. n * (qt - qc) > 0 /\ n * (2 - (qt - qc)) > 0
      BY <1>1, <1>3, <1>4, <1>6
    <2>2. qt - qc > 0 /\ 2 - (qt - qc) > 0
      BY <1>1, <2>1, PositiveFactor
    <2>3. qt - 1 = qc
      <3>1. qc \in Int /\ qt \in Int
        BY <1>1
      <3> QED BY <2>2, <3>1
    <2>4. y = qc
      <3>1. t % n = rt /\ t \div n - 1 = qc /\ rt \in Int
        BY <1>1, <2>3
      <3>2. m > (t % n) + 1
        BY <1>6, <3>1
      <3> QED BY <3>1, <3>2
    <2> QED BY <1>0, <2>4
  <1> QED BY <1>1, <1>5, <1>6

(* The month of the calendar an invoice was created in.                    *)
CalendarMonth(i) == (MonthOf(billed[i].created) % MonthsPerYear) + 1
LastYear(i) == MonthOf(today) - MonthOf(billed[i].created) < MonthsPerYear

(* An invoice is shown when its month is asked for, and not before.        *)
ShownOnce(i) ==
  IF i \in Present
  THEN /\ overview.times[i] \in {0, 1}
       /\ overview.times[i] = 1 => CalendarMonth(i) \notin overview.toAsk
       /\ i \in overview.since /\ LastYear(i) /\ CalendarMonth(i) \notin overview.toAsk
            => overview.times[i] = 1
  ELSE overview.times[i] = 0

BilledStatuses == {"none", "sent", "paid"} \cup OpenStatuses
BilledRows == [status: BilledStatuses, created: Nat, paidAt: Int, total: Totals \cup {0}]

ReportsInv ==
  /\ today \in Nat /\ signedUp \in Int
  /\ billed \in [Billed -> BilledRows] /\ \A i \in Billed : billed[i].created <= today
  /\ overview \in [phase: {"idle", "asking", "done"}, toAsk: SUBSET (1..MonthsPerYear),
                   since: SUBSET Present, times: [Billed -> Nat]]
  /\ overview.phase # "asking" => overview.toAsk = {}
  /\ \A i \in Billed : ShownOnce(i)

LEMMA CalendarMonths ==
  ASSUME ReportsInv, NEW i \in Billed
  PROVE  /\ MonthOf(today) \in Int /\ MonthOf(billed[i].created) \in Int
         /\ MonthOf(billed[i].created) <= MonthOf(today)
         /\ CalendarMonth(i) \in 1..MonthsPerYear
  <1> PICK a \in Int, b \in Int : a = billed[i].created /\ b = today
    BY DEF ReportsInv, BilledRows
  <1>1. a <= b
    BY DEF ReportsInv
  <1>2. /\ DaysPerMonth \in Nat \ {0} /\ MonthsPerYear \in Nat \ {0}
    BY ReportsAssumption
  <1> PICK ma, mb : ma = a \div DaysPerMonth /\ mb = b \div DaysPerMonth
    OBVIOUS
  <1>3. ma \in Int /\ mb \in Int /\ ma <= mb
    BY <1>1, <1>2, PeriodsGrow
  <1>7. ma % MonthsPerYear \in 0..(MonthsPerYear - 1)
    BY <1>2, <1>3, DivMod
  <1>8. MonthOf(billed[i].created) = ma /\ MonthOf(today) = mb
    BY DEF MonthOf
  <1> QED BY <1>2, <1>3, <1>7, <1>8 DEF CalendarMonth

(* The answer for a month has the invoices created in it, and all of them  *)
(* that are less than a year old.                                          *)
LEMMA MonthAnswered ==
  ASSUME ReportsInv, NEW i \in Billed, NEW month \in 1..MonthsPerYear,
         NEW asked \in {month} \cup (IF month = ThisMonth THEN {NoMonth} ELSE {})
  PROVE  /\ i \in GetInvoicesByStatus(asked) => CalendarMonth(i) = month
         /\ CalendarMonth(i) = month /\ LastYear(i) => i \in GetInvoicesByStatus(asked)
  <1>0. /\ DaysPerMonth \in Nat \ {0} /\ MonthsPerYear \in Nat \ {0}
        /\ MonthOf(today) \in Int /\ MonthOf(billed[i].created) \in Int
        /\ MonthOf(billed[i].created) <= MonthOf(today)
        /\ billed[i].created \in Int
    BY ReportsAssumption, CalendarMonths DEF ReportsInv, BilledRows
  <1>p. PICK n \in Nat \ {0}, d \in Nat \ {0}, t \in Int, c \in Int :
        n = MonthsPerYear /\ d = DaysPerMonth /\ t = MonthOf(today)
        /\ c = MonthOf(billed[i].created)
    BY <1>0
  <1>1. t \div n \in Int /\ t % n \in 0..(n - 1)
    BY DivMod
  <1>y. PICK year \in Int : year = IF month > (t % n) + 1 THEN t \div n - 1 ELSE t \div n
    BY <1>1
  <1>2. year = targetYear(month)
    BY <1>p, <1>y DEF targetYear, ThisMonth, ThisYear
  <1>3. i \in GetInvoicesByStatus(asked) <=> InMonth(i, year, month)
    <2>1. CASE asked = NoMonth /\ asked # month
      <3>1. month = ThisMonth /\ year = ThisYear
        <4>1. month = ThisMonth
          BY <1>p, <1>y, <2>1
        <4>2. ThisMonth = (t % n) + 1 /\ ThisYear = t \div n
          BY <1>p, <1>y DEF ThisMonth, ThisYear
        <4>3. ~(month > (t % n) + 1)
          BY <1>p, <1>y, <1>1, <4>1, <4>2
        <4> QED BY <1>p, <1>y, <4>1, <4>2, <4>3
      <3> QED BY <1>p, <1>y, <2>1, <3>1 DEF GetInvoicesByStatus
    <2>2. CASE asked = month
      <3>1. asked # NoMonth
        BY <1>p, <1>y, <1>0, <2>2 DEF NoMonth
      <3> QED BY <1>p, <1>y, <1>2, <2>2, <3>1 DEF GetInvoicesByStatus
    <2> QED BY <1>p, <1>y, <2>1, <2>2
  <1>4. InMonth(i, year, month) <=> c = year * n + month - 1
    <2>1. PICK k \in Int : k = year * n + month - 1
      <3>1. year * n \in Int
        BY Product
      <3> QED BY <1>p, <1>y, <1>0, <3>1
    <2>2. /\ billed[i].created \div d = k
             <=> k * d <= billed[i].created /\ billed[i].created < k * d + d
      BY <1>p, <1>y, <1>0, DivIs
    <2>3. c = billed[i].created \div d
      BY <1>p, <1>y DEF MonthOf
    <2> QED BY <1>p, <1>y, <2>1, <2>2, <2>3 DEF InMonth
  <1>5. c = year * n + month - 1 => c % n = month - 1
    <2>0. month - 1 \in 0..(n - 1)
      BY <1>p
    <2>1. (year * n + (month - 1)) % n = month - 1
      BY <1>p, <1>y, <2>0, ModIs
    <2>2. year * n \in Int
      BY Product
    <2> QED BY <1>p, <1>y, <1>0, <2>1, <2>2
  <1>6. CalendarMonth(i) = month <=> c % n = month - 1
    <2>1. c % n \in Int
      BY DivMod
    <2> QED BY <1>p, <1>y, <1>0, <2>1 DEF CalendarMonth
  <1>7. LastYear(i) <=> t - c < n
    BY <1>p, <1>y DEF LastYear
  <1>8. c % n = month - 1 /\ t - c < n => c = year * n + month - 1
    <2> SUFFICES ASSUME c % n = month - 1, t - c < n PROVE c = year * n + month - 1
      OBVIOUS
    <2>1. month \in 1..n /\ c <= t
      BY <1>0, <1>p
    <2>2. IF month > (t % n) + 1 THEN year = t \div n - 1 ELSE year = t \div n
      BY <1>y
    <2> QED BY ZenonT(40), <2>1, <2>2, YearOfMonth
  <1> QED BY <1>3, <1>4, <1>5, <1>6, <1>7, <1>8

LEMMA ReportsBegin == ReportsInit => ReportsInv
  BY DEF ReportsInit, ReportsInv, NotIssued, NoOverview, BilledRows, BilledStatuses,
         ShownOnce, Present

LEMMA MonthAsked ==
  ASSUME ReportsInv, NEW month \in 1..MonthsPerYear, AskMonth(month)
  PROVE  ReportsInv'
  <1>0. /\ overview \in [phase: {"idle", "asking", "done"},
                         toAsk: SUBSET (1..MonthsPerYear),
                         since: SUBSET Present, times: [Billed -> Nat]]
        /\ month \in overview.toAsk /\ overview.phase = "asking"
        /\ UNCHANGED <<today, signedUp, billed>>
    BY DEF ReportsInv, AskMonth
  <1>1. PICK asked \in {month} \cup (IF month = ThisMonth THEN {NoMonth} ELSE {}) :
          LET answer == GetInvoicesByStatus(asked) \cap Present IN
          overview' = [overview EXCEPT
            !.toAsk = @ \ {month},
            !.phase = IF overview.toAsk = {month} THEN "done" ELSE @,
            !.times = [i \in Billed |-> IF i \in answer THEN @[i] + 1 ELSE @[i]]]
    BY DEF AskMonth
  <1> DEFINE answer == GetInvoicesByStatus(asked) \cap Present
             times == [i \in Billed |-> IF i \in answer THEN overview.times[i] + 1
                                                        ELSE overview.times[i]]
             last == overview.toAsk = {month}
  <1>2. overview' = [overview EXCEPT !.toAsk = @ \ {month},
                                     !.phase = IF last THEN "done" ELSE @,
                                     !.times = times]
    BY <1>1
  <1>3. times \in [Billed -> Nat]
    <2> HIDE DEF answer
    <2> QED BY <1>0
  <1>4. ASSUME NEW i \in Billed
        PROVE  times[i] = IF i \in answer THEN overview.times[i] + 1 ELSE overview.times[i]
    <2> HIDE DEF answer
    <2> QED BY <1>4
  <1> HIDE DEF answer, times, last
  <1>5. /\ overview' \in [phase: {"idle", "asking", "done"},
                          toAsk: SUBSET (1..MonthsPerYear),
                          since: SUBSET Present, times: [Billed -> Nat]]
        /\ overview'.toAsk = overview.toAsk \ {month}
        /\ overview'.since = overview.since /\ overview'.times = times
        /\ overview'.phase = IF last THEN "done" ELSE overview.phase
    BY <1>0, <1>2, <1>3
  <1>6. overview'.phase # "asking" => overview'.toAsk = {}
    BY <1>0, <1>5 DEF last
  <1>7. Present' = Present /\ \A i \in Billed : CalendarMonth(i)' = CalendarMonth(i)
                                              /\ LastYear(i)' = LastYear(i)
    BY <1>0 DEF Present, CalendarMonth, LastYear
  <1>8. ASSUME NEW i \in Billed
        PROVE  ShownOnce(i)'
    <2>1. ShownOnce(i)
      BY DEF ReportsInv
    <2>2. i \in answer <=> i \in GetInvoicesByStatus(asked) /\ i \in Present
      BY DEF answer
    <2>3. /\ i \in answer => CalendarMonth(i) = month
          /\ i \in Present /\ CalendarMonth(i) = month /\ LastYear(i) => i \in answer
      BY <2>2, MonthAnswered
    <2>4. CASE i \notin Present
      BY <1>4, <1>5, <1>7, <2>1, <2>2, <2>4 DEF ShownOnce
    <2>5. CASE i \in Present /\ i \in answer
      BY <1>0, <1>4, <1>5, <1>7, <2>1, <2>3, <2>5 DEF ShownOnce
    <2>6. CASE i \in Present /\ i \notin answer
      BY <1>0, <1>4, <1>5, <1>7, <2>1, <2>3, <2>6 DEF ShownOnce
    <2> QED BY <2>4, <2>5, <2>6
  <1> QED BY <1>0, <1>5, <1>6, <1>7, <1>8 DEF ReportsInv

LEMMA ReportsStep == ReportsInv /\ [ReportsNext]_reportsVars => ReportsInv'
  <1> SUFFICES ASSUME ReportsInv, [ReportsNext]_reportsVars PROVE ReportsInv'
    OBVIOUS
  <1>0. /\ today \in Nat /\ signedUp \in Int /\ billed \in [Billed -> BilledRows]
        /\ \A i \in Billed : billed[i].created <= today /\ ShownOnce(i)
        /\ overview \in [phase: {"idle", "asking", "done"},
                         toAsk: SUBSET (1..MonthsPerYear),
                         since: SUBSET Present, times: [Billed -> Nat]]
        /\ overview.phase # "asking" => overview.toAsk = {}
    BY DEF ReportsInv
  (* The overview does not notice that an invoice, of the same day, is     *)
  (* open or paid now, or that a day has passed.                           *)
  <1>1. ASSUME UNCHANGED overview, today' \in Nat, today' >= today, signedUp' \in Int,
               billed' \in [Billed -> BilledRows], Present' = Present,
               \A i \in Billed : billed'[i].created = billed[i].created
        PROVE  ReportsInv'
    <2>1. MonthOf(today) \in Int /\ MonthOf(today)' \in Int
          /\ MonthOf(today) <= MonthOf(today)'
      <3> PICK d \in Nat \ {0}, a \in Int, b \in Int :
            d = DaysPerMonth /\ a = today /\ b = today' /\ a <= b
        BY <1>0, <1>1, ReportsAssumption
      <3>1. a \div d \in Int /\ b \div d \in Int /\ a \div d <= b \div d
        BY PeriodsGrow
      <3>2. MonthOf(today) = a \div d /\ MonthOf(today)' = b \div d
        BY DEF MonthOf
      <3> QED BY <3>1, <3>2
    <2>2. ASSUME NEW i \in Billed
          PROVE  /\ CalendarMonth(i)' = CalendarMonth(i) /\ (LastYear(i)' => LastYear(i))
                 /\ ShownOnce(i)'
      <3>1. CalendarMonth(i)' = CalendarMonth(i)
        BY <1>1 DEF CalendarMonth
      <3>2. LastYear(i)' => LastYear(i)
        <4>1. /\ MonthOf(billed[i].created) \in Int
              /\ MonthOf(billed[i].created)' = MonthOf(billed[i].created)
          BY <1>1, CalendarMonths DEF MonthOf
        <4> QED BY <2>1, <4>1, ReportsAssumption DEF LastYear
      <3> QED BY <1>0, <1>1, <3>1, <3>2 DEF ShownOnce
    <2>3. \A i \in Billed : billed'[i].created <= today'
      BY <1>0, <1>1 DEF BilledRows
    <2> QED BY <1>0, <1>1, <2>2, <2>3 DEF ReportsInv
  <1>2. CASE NextReportDay \/ SignUp \/ UNCHANGED reportsVars
    <2>1. /\ UNCHANGED <<overview, billed>> /\ today' \in Nat /\ today' >= today
          /\ signedUp' \in Int
      BY <1>0, <1>2 DEF NextReportDay, SignUp, reportsVars
    <2> QED BY <1>0, <1>1, <2>1 DEF Present
  <1>3. ASSUME NEW i \in Billed, NEW status \in OpenStatuses, ChangeStatus(i, status)
        PROVE  ReportsInv'
    <2>1. status \in BilledStatuses /\ status # "none" /\ billed[i].status # "none"
      BY <1>3, ReportsAssumption DEF ChangeStatus, PayableNow, BilledStatuses
    <2>2. /\ UNCHANGED <<overview, today, signedUp>>
          /\ billed' = [billed EXCEPT ![i].status = status]
      BY <1>3 DEF ChangeStatus
    <2>3. billed' \in [Billed -> BilledRows] /\ Present' = Present
          /\ \A j \in Billed : billed'[j].created = billed[j].created
      BY <1>0, <2>1, <2>2 DEF BilledRows, Present
    <2> QED BY <1>0, <1>1, <2>2, <2>3
  <1>4. ASSUME NEW i \in Billed, PayInvoice(i)
        PROVE  ReportsInv'
    <2>1. PICK day \in {today, today - 1} :
            billed' = [billed EXCEPT ![i].status = "paid", ![i].paidAt = day]
      BY <1>4 DEF PayInvoice
    <2>2. /\ UNCHANGED <<overview, today, signedUp>> /\ billed[i].status # "none"
          /\ day \in Int /\ "paid" \in BilledStatuses
      BY <1>0, <1>4 DEF PayInvoice, PayableNow, BilledStatuses
    <2>3. billed' \in [Billed -> BilledRows] /\ Present' = Present
          /\ \A j \in Billed : billed'[j].created = billed[j].created
      BY ZenonT(40), <1>0, <2>1, <2>2 DEF BilledRows, Present
    <2> QED BY <1>0, <1>1, <2>2, <2>3
  (* A row comes or goes: the others are shown as before.                  *)
  <1>5. ASSUME NEW i \in Billed, NEW new \in BilledRows, new.created <= today,
               billed' = [billed EXCEPT ![i] = new],
               UNCHANGED <<today, signedUp>>, ShownOnce(i)',
               overview' \in [phase: {"idle", "asking", "done"},
                              toAsk: SUBSET (1..MonthsPerYear),
                              since: SUBSET Present', times: [Billed -> Nat]],
               UNCHANGED <<overview.phase, overview.toAsk>>,
               \A j \in Billed \ {i} : /\ overview'.times[j] = overview.times[j]
                                       /\ j \in overview'.since <=> j \in overview.since
        PROVE  ReportsInv'
    <2>1. billed' \in [Billed -> BilledRows]
          /\ \A j \in Billed \ {i} : billed'[j] = billed[j]
      BY <1>0, <1>5
    <2>2. ASSUME NEW j \in Billed \ {i}
          PROVE  ShownOnce(j)'
      BY <1>0, <1>5, <2>1 DEF ShownOnce, Present, CalendarMonth, LastYear
    <2>3. \A j \in Billed : billed'[j].created <= today'
      BY <1>0, <1>5, <2>1
    <2> QED BY <1>0, <1>5, <2>1, <2>2, <2>3 DEF ReportsInv
  <1>6. ASSUME NEW i \in Billed, NEW total \in Totals, IssueInvoice(i, total)
        PROVE  ReportsInv'
    <2> DEFINE new == [status |-> "sent", created |-> today, paidAt |-> -1,
                       total |-> total]
    <2>1. new \in BilledRows /\ new.created <= today /\ new.status # "none"
      BY <1>0 DEF BilledRows, BilledStatuses
    <2>2. /\ UNCHANGED <<overview, today, signedUp>>
          /\ billed' = [billed EXCEPT ![i] = new] /\ billed[i].status = "none"
      BY <1>6 DEF IssueInvoice
    <2> HIDE DEF new
    <2>3. Present' = Present \cup {i} /\ i \notin Present
      BY <1>0, <2>1, <2>2 DEF Present
    <2>4. ShownOnce(i)'
      BY <1>0, <2>2, <2>3 DEF ShownOnce
    <2> QED BY <1>0, <1>5, <2>1, <2>2, <2>3, <2>4
  <1>7. ASSUME NEW i \in Billed, RemoveInvoice(i)
        PROVE  ReportsInv'
    <2>1. NotIssued \in BilledRows /\ NotIssued.created <= today
          /\ NotIssued.status = "none"
      BY <1>0 DEF NotIssued, BilledRows, BilledStatuses
    <2>2. /\ UNCHANGED <<today, signedUp>> /\ billed' = [billed EXCEPT ![i] = NotIssued]
          /\ overview' = [overview EXCEPT !.since = @ \ {i}, !.times[i] = 0]
      BY <1>7 DEF RemoveInvoice
    <2>3. Present' = Present \ {i}
      BY <1>0, <2>1, <2>2 DEF Present
    <2>4. /\ overview' \in [phase: {"idle", "asking", "done"},
                            toAsk: SUBSET (1..MonthsPerYear),
                            since: SUBSET Present', times: [Billed -> Nat]]
          /\ overview'.times[i] = 0 /\ UNCHANGED <<overview.phase, overview.toAsk>>
          /\ \A j \in Billed \ {i} : /\ overview'.times[j] = overview.times[j]
                                     /\ j \in overview'.since <=> j \in overview.since
      BY <1>0, <2>2, <2>3
    <2>5. ShownOnce(i)'
      BY <2>3, <2>4 DEF ShownOnce
    <2> QED BY <1>5, <2>1, <2>2, <2>4, <2>5
  <1>8. CASE EndOverview
    BY <1>0, <1>8 DEF EndOverview, NoOverview, ReportsInv, ShownOnce, Present
  <1>9. CASE StartOverview
    <2>1. /\ overview' = [phase |-> "asking", toAsk |-> 1..MonthsPerYear,
                          since |-> Present, times |-> [i \in Billed |-> 0]]
          /\ UNCHANGED <<today, signedUp, billed>>
      BY <1>9 DEF StartOverview, NoOverview
    <2>2. Present' = Present
      BY <2>1 DEF Present
    <2>3. ASSUME NEW i \in Billed
          PROVE  ShownOnce(i)'
      <3>1. CalendarMonth(i) \in 1..MonthsPerYear /\ CalendarMonth(i)' = CalendarMonth(i)
        BY <2>1, CalendarMonths DEF CalendarMonth
      <3> QED BY <2>1, <3>1 DEF ShownOnce
    <2> QED BY <1>0, <2>1, <2>2, <2>3 DEF ReportsInv
  <1> QED BY <1>2, <1>3, <1>4, <1>6, <1>7, <1>8, <1>9, MonthAsked DEF ReportsNext

(* Twelve requests show a year of invoices, each of them once, though      *)
(* months may end between one request and the next.                        *)
THEOREM MonthsComplete == ReportsSpec => []MonthsShowAll
  <1>1. ReportsInv => MonthsShowAll
    BY DEF ReportsInv, MonthsShowAll, ShownOnce, LastYear, Present
  <1> QED BY <1>1, ReportsBegin, ReportsStep, PTL DEF ReportsSpec

-------------------------------------------------------------------------------
(***************************************************************************)
(* Recurring invoices.  A schedule is loose while its next invoice would   *)
(* come too soon.  Nothing but an error, a crash or an update makes one     *)
(* loose, and the invoice that comes too soon makes it firm again.         *)
(***************************************************************************)
Latest(x) ==
  x \in issued /\ \A z \in issued : z.schedule = x.schedule => z.number[2] <= x.number[2]

(* Its row will be moved next, or has still to be done.                    *)
Moving(s) == \E w \in Runs : Working(w, "move") /\ run[w].at = s
Selected(s) == \E w \in Runs : run[w].due[s] # 0

TooSoon(s, x) ==
  /\ date < x.day + x.length
  /\ \/ Selected(s)
     \/ schedule[s].status # "deleted" /\ schedule[s].next < x.day + x.length

Loose ==
  {s \in Schedules :
     ~ Moving(s) /\ \E x \in issued : Latest(x) /\ x.schedule = s /\ TooSoon(s, x)}

(* Types, and what a run knows of the row it is at.                        *)
RecurringShape ==
  /\ RecurringTypeOK
  /\ \A w \in Runs : run[w].phase \in {"insert", "move"} =>
       /\ run[w].at \in Schedules /\ run[w].due[run[w].at] # 0
       /\ run[w].number \in Calendar \X Nat

(* Numbers grow, and a row to be moved has just been invoiced.             *)
NumbersGrow ==
  /\ \A x \in issued : /\ x.number[2] <= counter[Owner[x.schedule]]
                       /\ schedule[x.schedule].status # "none"
  /\ \A s \in Schedules :
       snapshot[s] # NoSchedule => snapshot[s].status \in {"active", "paused"}
  /\ \A w \in Runs : \A s \in Schedules :
       run[w].due[s] # 0 => schedule[s].status # "none"
  /\ \A w \in Runs : Working(w, "insert") =>
       /\ run[w].number[2] <= counter[Owner[run[w].at]]
       /\ \A x \in issued : x.schedule = run[w].at => x.number[2] < run[w].number[2]
  /\ \A w \in Runs : Working(w, "move") =>
       \A x \in issued : Latest(x) /\ x.schedule = run[w].at =>
         x.day <= date /\ x.length = run[w].due[run[w].at]

RepeatsPaid ==
  /\ IsFiniteSet(Repeats) /\ IsFiniteSet(Loose)
  /\ Cardinality(Repeats) + Cardinality(Loose) <= runFaults + edits

LEMMA RecurringBegins == RecurringInit => RecurringShape /\ NumbersGrow /\ RepeatsPaid
  <1> SUFFICES ASSUME RecurringInit
               PROVE  RecurringShape /\ NumbersGrow /\ RepeatsPaid
    OBVIOUS
  <1>0. AnyLength \in Lengths
    <2>1. \E n \in Lengths : TRUE
      BY RecurringAssumption
    <2> QED BY <2>1, Zenon DEF AnyLength
  <1>1. \A s \in Schedules : schedule[s] \in ScheduleRows
    <2>1. {"none"} \subseteq {"none", "active", "paused", "deleted"}
          /\ {AnyLength} \subseteq Lengths /\ {0} \subseteq Nat /\ {TRUE} \subseteq BOOLEAN
      BY <1>0
    <2>2. [status: {"none"}, length: {AnyLength}, next: {0}, sound: {TRUE}]
            \subseteq ScheduleRows
      BY <2>1 DEF ScheduleRows
    <2> QED BY <2>2 DEF RecurringInit
  <1>2. NoRun \in RunStates
    BY RecurringAssumption DEF NoRun, RunStates
  <1>3. RecurringTypeOK
    <2>1. schedule \in [Schedules -> ScheduleRows]
      BY <1>1 DEF RecurringInit
    <2>2. run \in [Runs -> RunStates]
      BY <1>2 DEF RecurringInit
    <2>3. date \in Calendar /\ 0 <= MaxMishaps
      BY RecurringAssumption DEF RecurringInit, Calendar
    <2> QED BY <2>1, <2>2, <2>3 DEF RecurringInit, RecurringTypeOK
  <1>4. RecurringShape
    BY <1>3 DEF RecurringShape, RecurringInit, NoRun
  <1>5. NumbersGrow
    BY DEF RecurringInit, NumbersGrow, NoRun, Working
  <1>6. Repeats = {} /\ Loose = {}
    BY DEF RecurringInit, Repeats, Loose
  <1>7. runFaults + edits = 0
    BY DEF RecurringInit
  <1> QED BY <1>4, <1>5, <1>6, <1>7, FS_EmptySet DEF RepeatsPaid

(* Requests of the owner of a schedule.                                    *)
OwnerRequest(s) ==
  \/ \E length \in Lengths, start \in Calendar, sound \in BOOLEAN :
       CreateSchedule(s, length, start, sound)
  \/ UpdateScheduleRead(s) \/ UpdateSchedule(s) \/ DeleteSchedule(s)

LEMMA OwnersKeepShape ==
  ASSUME RecurringShape, NEW s \in Schedules, OwnerRequest(s)
  PROVE  RecurringTypeOK' /\ UNCHANGED <<date, run, issued, counter>>
  <1>0. /\ schedule \in [Schedules -> ScheduleRows]
        /\ snapshot \in [Schedules -> ScheduleRows \cup {NoSchedule}]
        /\ edits \in Nat /\ runFaults \in Nat /\ runFaults + edits <= MaxMishaps
        /\ MaxMishaps \in Nat
    BY RecurringAssumption DEF RecurringShape, RecurringTypeOK
  <1>1. CASE \E length \in Lengths, start \in Calendar, sound \in BOOLEAN :
               CreateSchedule(s, length, start, sound)
    <2>1. PICK length \in Lengths, start \in Calendar, sound \in BOOLEAN :
            CreateSchedule(s, length, start, sound)
      BY <1>1
    <2>2. start \in Nat
      BY RecurringAssumption DEF Calendar
    <2>3. [status |-> "active", length |-> length, next |-> start, sound |-> sound]
            \in ScheduleRows
      BY <2>2 DEF ScheduleRows
    <2>4. schedule' \in [Schedules -> ScheduleRows]
      BY <1>0, <2>1, <2>3 DEF CreateSchedule
    <2> QED BY <1>0, <2>1, <2>4
            DEF CreateSchedule, RecurringShape, RecurringTypeOK, RunStates
  <1>2. CASE UpdateScheduleRead(s)
    BY <1>0, <1>2 DEF UpdateScheduleRead, RecurringShape, RecurringTypeOK
  <1>3. CASE UpdateSchedule(s)
    <2>1. PICK status \in {"active", "paused", "none", "deleted"}, length \in Lengths, next \in Nat :
            UpdateScheduleWrite(s, status, length, next)
      <3>1. snapshot[s] \in ScheduleRows
        BY <1>0, <1>3 DEF UpdateSchedule
      <3>2. Calendar \subseteq Nat
        BY RecurringAssumption DEF Calendar
      <3> QED BY <1>3, <3>1, <3>2 DEF UpdateSchedule, ScheduleRows
    <2>2. schedule' \in [Schedules -> ScheduleRows]
      <3>1. [schedule[s] EXCEPT !.status = status, !.length = length, !.next = next]
              \in ScheduleRows
        BY <1>0 DEF ScheduleRows
      <3> QED BY <1>0, <2>1, <3>1 DEF UpdateScheduleWrite
    <2>3. snapshot' \in [Schedules -> ScheduleRows \cup {NoSchedule}]
      BY <1>0, <2>1 DEF UpdateScheduleWrite
    <2> QED BY <1>0, <2>1, <2>2, <2>3
            DEF UpdateScheduleWrite, RecurringShape, RecurringTypeOK
  <1>4. CASE DeleteSchedule(s)
    <2>1. [schedule[s] EXCEPT !.status = "deleted"] \in ScheduleRows
      BY <1>0 DEF ScheduleRows
    <2>2. schedule' \in [Schedules -> ScheduleRows]
      BY <1>0, <1>4, <2>1 DEF DeleteSchedule
    <2> QED BY <1>0, <1>4, <2>2 DEF DeleteSchedule, RecurringShape, RecurringTypeOK
  <1> QED BY <1>1, <1>2, <1>3, <1>4 DEF OwnerRequest

(* A row is done with.                                                     *)
LEMMA RowDoneTyped ==
  ASSUME RecurringShape, NEW w \in Runs, NEW s \in Schedules
  PROVE  /\ RowDone(w, s) \in RunStates /\ RowDone(w, s).phase = "rows"
         /\ \A z \in Schedules :
              RowDone(w, s).due[z] = IF z = s THEN 0 ELSE run[w].due[z]
  <1>1. run[w] \in RunStates
    BY DEF RecurringShape, RecurringTypeOK
  <1>2. <<0, 0>> \in (0..LastDay) \X Nat
    BY RecurringAssumption
  <1>3. [run[w].due EXCEPT ![s] = 0] \in [Schedules -> Lengths \cup {0}]
    BY <1>1 DEF RunStates
  <1>4. /\ RowDone(w, s) \in RunStates
        /\ RowDone(w, s).phase = "rows"
        /\ RowDone(w, s).due = [run[w].due EXCEPT ![s] = 0]
    BY <1>1, <1>2, <1>3 DEF RowDone, RunStates
  <1> QED BY <1>1, <1>4 DEF RunStates

(* One process changes what it is at, and no other process does.           *)
LEMMA RunMovesOn ==
  ASSUME RecurringShape, NEW w \in Runs, NEW row \in RunStates,
         run' = [run EXCEPT ![w] = row],
         UNCHANGED <<date, ready, snapshot, edits>>,
         schedule' \in [Schedules -> ScheduleRows],
         counter' \in [Users -> Nat], issued' \subseteq InvoicesIssued,
         runFaults' \in Nat, runFaults' + edits <= MaxMishaps,
         row.phase \in {"insert", "move"} =>
           row.at \in Schedules /\ row.due[row.at] # 0 /\ row.number \in Calendar \X Nat
  PROVE  RecurringShape'
  <1>1. run' \in [Runs -> RunStates] /\ \A v \in Runs : run'[v] = IF v = w THEN row ELSE run[v]
    BY DEF RecurringShape, RecurringTypeOK
  <1>2. RecurringTypeOK'
    BY <1>1 DEF RecurringShape, RecurringTypeOK
  <1> QED BY <1>1, <1>2 DEF RecurringShape

LEMMA RunsKeepShape ==
  ASSUME RecurringShape, NEW w \in Runs,
         GenerateDue(w) \/ RowFails(w) \/ RunStops(w)
  PROVE  RecurringShape'
  <1>0. /\ schedule \in [Schedules -> ScheduleRows] /\ run[w] \in RunStates
        /\ run \in [Runs -> RunStates]
        /\ counter \in [Users -> Nat] /\ issued \subseteq InvoicesIssued
        /\ runFaults \in Nat /\ edits \in Nat /\ runFaults + edits <= MaxMishaps
        /\ MaxMishaps \in Nat /\ date \in Calendar /\ Calendar \subseteq Nat
        /\ run[w].phase \in {"insert", "move"} =>
             /\ run[w].at \in Schedules /\ run[w].due[run[w].at] # 0
             /\ run[w].number \in Calendar \X Nat
    BY RecurringAssumption DEF RecurringShape, RecurringTypeOK, Calendar
  <1>7. NoRun \in RunStates /\ NoRun.phase = "idle"
    BY RecurringAssumption DEF NoRun, RunStates
  <1>1. CASE SelectDue(w)
    <2> DEFINE due == [s \in Schedules |-> IF DueRow(s) THEN schedule[s].length ELSE 0]
               row == [NoRun EXCEPT !.phase = "rows", !.began = date, !.due = due]
    <2>2. run' = [run EXCEPT ![w] = row]
      BY <1>1 DEF SelectDue
    <2>3. due \in [Schedules -> Lengths \cup {0}]
      BY <1>0 DEF ScheduleRows
    <2> HIDE DEF due
    <2>5. date \in 0..LastDay
      BY <1>0, RecurringAssumption DEF Calendar
    <2>4. row \in RunStates /\ row.phase = "rows"
      BY <1>7, <2>3, <2>5 DEF RunStates
    <2> HIDE DEF row
    <2> QED BY <1>0, <1>1, <2>2, <2>4, RunMovesOn DEF SelectDue
  <1>2. ASSUME NEW s \in Schedules, GenerateInvoiceNumber(w, s)
        PROVE  RecurringShape'
    <2> DEFINE number == LastNumber(Owner[s])
               row == [run[w] EXCEPT !.phase = "insert", !.at = s,
                                     !.number = <<date, number>>]
    <2>1. Owner[s] \in Users /\ number \in Nat /\ counter' \in [Users -> Nat]
      BY <1>0, <1>2 DEF GenerateInvoiceNumber, LastNumber, Users
    <2>2. run' = [run EXCEPT ![w] = row]
      BY <1>2 DEF GenerateInvoiceNumber
    <2>3. <<date, number>> \in Calendar \X Nat /\ <<date, number>> \in (0..LastDay) \X Nat
      BY <1>0, <2>1, RecurringAssumption DEF Calendar
    <2>0. run[w].due[s] # 0
      BY <1>2 DEF GenerateInvoiceNumber
    <2> HIDE DEF number
    <2>4. row \in RunStates
      BY <1>0, <2>3 DEF RunStates
    <2>5. row.at = s /\ row.due[s] # 0 /\ row.number \in Calendar \X Nat
      BY <1>0, <2>0, <2>3 DEF RunStates
    <2> HIDE DEF row
    <2> QED BY <1>0, <1>2, <2>1, <2>2, <2>4, <2>5, RunMovesOn DEF GenerateInvoiceNumber
  <1>3. ASSUME NEW s \in Schedules, RejectRow(w, s)
        PROVE  RecurringShape'
    <2>1. RowDone(w, s) \in RunStates /\ RowDone(w, s).phase = "rows"
      BY RowDoneTyped
    <2> QED BY <1>0, <1>3, <2>1, RunMovesOn DEF RejectRow
  <1>4. CASE InsertInvoice(w)
    <2> DEFINE s == run[w].at
               row == [run[w] EXCEPT !.phase = "move"]
               x == [schedule |-> s, day |-> date, length |-> run[w].due[s],
                     number |-> run[w].number]
    <2>1. run[w].phase = "insert"
      BY <1>4 DEF InsertInvoice, Working
    <2>2. run[w].due[s] \in Lengths
      BY <1>0, <2>1 DEF RunStates
    <2>3. x \in InvoicesIssued
      BY <1>0, <2>1, <2>2 DEF InvoicesIssued
    <2>4. issued' \subseteq InvoicesIssued
      BY <1>0, <1>4, <2>3 DEF InsertInvoice
    <2>5. run' = [run EXCEPT ![w] = row]
      BY <1>0, <1>4 DEF InsertInvoice
    <2>6. /\ row \in RunStates
          /\ row.at = s /\ row.due = run[w].due /\ row.number = run[w].number
      BY <1>0 DEF RunStates
    <2>7. UNCHANGED <<date, schedule, snapshot, edits, ready, counter, runFaults>>
      BY <1>4 DEF InsertInvoice
    <2> HIDE DEF row, x
    <2> QED BY <1>0, <2>1, <2>4, <2>5, <2>6, <2>7, RunMovesOn
  <1>5. CASE InsertCollides(w)
    <2>1. run[w].at \in Schedules
      BY <1>0, <1>5 DEF InsertCollides, Working
    <2>2. RowDone(w, run[w].at) \in RunStates /\ RowDone(w, run[w].at).phase = "rows"
      BY <2>1, RowDoneTyped
    <2> QED BY <1>0, <1>5, <2>2, RunMovesOn DEF InsertCollides
  <1>6. CASE MoveNextRun(w)
    <2> DEFINE s == run[w].at
    <2>1. s \in Schedules
      BY <1>0, <1>6 DEF MoveNextRun, Working
    <2>2. RowDone(w, s) \in RunStates /\ RowDone(w, s).phase = "rows"
      BY <2>1, RowDoneTyped
    <2>3. NextRunAt(w, s) \in Nat
      <3>1. run[w].due[s] \in Lengths \cup {0}
        BY <1>0, <2>1 DEF RunStates
      <3>2. run[w].due[s] \in Nat /\ date \in Nat
        <4>1. \A n \in Lengths : n \in Nat
          BY RecurringAssumption
        <4> QED BY <1>0, <3>1, <4>1
      <3> QED BY <3>2 DEF NextRunAt, nextRunTime
    <2>4. [schedule[s] EXCEPT !.next = NextRunAt(w, s)] \in ScheduleRows
      BY <1>0, <2>1, <2>3 DEF ScheduleRows
    <2>5. schedule' \in [Schedules -> ScheduleRows]
      BY <1>0, <1>6, <2>1, <2>4 DEF MoveNextRun
    <2> QED BY <1>0, <1>6, <2>2, <2>5, RunMovesOn DEF MoveNextRun
  <1>8. CASE EndRun(w)
    BY <1>0, <1>7, <1>8, RunMovesOn DEF EndRun
  <1>9. CASE RowFails(w)
    <2>1. run[w].at \in Schedules
      BY <1>0, <1>9 DEF RowFails
    <2>2. RowDone(w, run[w].at) \in RunStates /\ RowDone(w, run[w].at).phase = "rows"
      BY <2>1, RowDoneTyped
    <2>3. runFaults' \in Nat /\ runFaults' + edits <= MaxMishaps
      BY <1>0, <1>9 DEF RowFails, RunFault
    <2> QED BY <1>0, <1>9, <2>2, <2>3, RunMovesOn DEF RowFails
  <1>10. CASE RunStops(w)
    <2>1. runFaults' \in Nat /\ runFaults' + edits <= MaxMishaps
      BY <1>0, <1>10 DEF RunStops, RunFault
    <2> QED BY <1>0, <1>7, <1>10, <2>1, RunMovesOn DEF RunStops
  <1> QED BY <1>1, <1>2, <1>3, <1>4, <1>5, <1>6, <1>8, <1>9, <1>10 DEF GenerateDue

(* The same of every step.                                                 *)
LEMMA RecurringKeepsShape ==
  ASSUME RecurringShape, [RecurringNext]_recurringVars
  PROVE  RecurringShape'
  <1>1. ASSUME NEW s \in Schedules, OwnerRequest(s)
        PROVE  RecurringShape'
    BY <1>1, OwnersKeepShape DEF RecurringShape
  <1>2. ASSUME NEW u \in Users, SetOwnerActive(u)
        PROVE  RecurringShape'
    BY <1>2 DEF SetOwnerActive, RecurringShape, RecurringTypeOK
  <1>3. CASE NextDate
    BY <1>3, RecurringAssumption DEF NextDate, RecurringShape, RecurringTypeOK, Calendar
  <1>4. CASE UNCHANGED recurringVars
    BY <1>4 DEF recurringVars, RecurringShape, RecurringTypeOK
  <1> QED BY <1>1, <1>2, <1>3, <1>4, RunsKeepShape DEF RecurringNext, OwnerRequest

-------------------------------------------------------------------------------
(* With a single process a step keeps the account of repeats and loose     *)
(* schedules: nothing gets worse, or a mishap makes one schedule loose.    *)
LEMMA NothingSpent ==
  ASSUME NEW R, NEW L, NEW n \in Nat, IsFiniteSet(R), IsFiniteSet(L),
         Cardinality(R) + Cardinality(L) <= n,
         NEW R1, NEW L1, NEW n1 \in Nat, R1 \subseteq R, L1 \subseteq L, n1 >= n
  PROVE  IsFiniteSet(R1) /\ IsFiniteSet(L1) /\ Cardinality(R1) + Cardinality(L1) <= n1
  <1>1. /\ IsFiniteSet(R1) /\ IsFiniteSet(L1)
        /\ Cardinality(R1) <= Cardinality(R) /\ Cardinality(L1) <= Cardinality(L)
    BY FS_Subset
  <1>2. /\ Cardinality(R) \in Nat /\ Cardinality(L) \in Nat
        /\ Cardinality(R1) \in Nat /\ Cardinality(L1) \in Nat
    BY <1>1, FS_CardinalityType
  <1> QED BY <1>1, <1>2

LEMMA MishapSpent ==
  ASSUME NEW R, NEW L, NEW n \in Nat, IsFiniteSet(R), IsFiniteSet(L),
         Cardinality(R) + Cardinality(L) <= n,
         NEW R1, NEW L1, NEW s, R1 \subseteq R, L1 \subseteq L \cup {s}
  PROVE  IsFiniteSet(R1) /\ IsFiniteSet(L1) /\ Cardinality(R1) + Cardinality(L1) <= n + 1
  <1>1. Cardinality(R) \in Nat /\ Cardinality(L) \in Nat
    BY FS_CardinalityType
  <1>2. /\ IsFiniteSet(L \cup {s})
        /\ Cardinality(L \cup {s}) \in {Cardinality(L), Cardinality(L) + 1}
    BY FS_AddElement
  <1>3. Cardinality(R) + Cardinality(L \cup {s}) <= n + 1
    BY <1>1, <1>2
  <1> QED BY <1>2, <1>3, NothingSpent

(* Where no invoice is issued the repeats and the latest stay as they are. *)
LEMMA NothingIssued ==
  ASSUME issued' = issued
  PROVE  Repeats' = Repeats /\ \A x : Latest(x)' <=> Latest(x)
  BY DEF Repeats, Latest, Follows

LEMMA RecurringTyped ==
  ASSUME RecurringShape
  PROVE  /\ schedule \in [Schedules -> ScheduleRows] /\ run \in [Runs -> RunStates]
         /\ runFaults \in Nat /\ edits \in Nat /\ runFaults + edits \in Nat
         /\ date \in Nat /\ counter \in [Users -> Nat]
         /\ \A x \in issued : /\ x.schedule \in Schedules /\ x.day \in Nat
                              /\ x.length \in Nat /\ x.number[2] \in Nat
         /\ \A s \in Schedules : Owner[s] \in Users
         /\ \A w \in Runs : run[w].number[2] \in Nat
         /\ \A w \in Runs, s \in Schedules : run[w].due[s] \in Nat
         /\ \A s \in Schedules : schedule[s].next \in Nat
  <1>1. Lengths \subseteq Nat /\ Calendar \subseteq Nat
    BY RecurringAssumption DEF Calendar
  <1>2. \A x \in issued : /\ x.schedule \in Schedules /\ x.day \in Nat
                          /\ x.length \in Nat /\ x.number[2] \in Nat
    BY <1>1 DEF RecurringShape, RecurringTypeOK, InvoicesIssued
  <1>3. \A w \in Runs : run[w].number[2] \in Nat
    BY DEF RecurringShape, RecurringTypeOK, RunStates
  <1>4. \A w \in Runs, s \in Schedules : run[w].due[s] \in Nat
    <2>1. \A w \in Runs, s \in Schedules : run[w].due[s] \in Lengths \cup {0}
      BY DEF RecurringShape, RecurringTypeOK, RunStates
    <2>2. Lengths \cup {0} \subseteq Nat
      BY <1>1
    <2> QED BY <2>1, <2>2
  <1>5. \A s \in Schedules : schedule[s].next \in Nat /\ Owner[s] \in Users
    BY DEF RecurringShape, RecurringTypeOK, ScheduleRows, Users
  <1> QED BY <1>1, <1>2, <1>3, <1>4, <1>5 DEF RecurringShape, RecurringTypeOK

(* Whoever owns the schedule: an update may make its own loose, and costs  *)
(* one; the others leave them alone.                                       *)
LEMMA OwnersPay ==
  ASSUME RecurringShape, NumbersGrow, NEW s \in Schedules, OwnerRequest(s)
  PROVE  /\ NumbersGrow'
         /\ \/ Loose' \subseteq Loose /\ runFaults' + edits' = runFaults + edits
            \/ /\ Loose' \subseteq Loose \cup {s}
               /\ runFaults' + edits' = runFaults + edits + 1
  <1>0. UNCHANGED <<date, run, issued, counter>>
    BY OwnersKeepShape
  <1>1. /\ \A z \in Schedules : z # s => schedule'[z] = schedule[z]
        /\ schedule'[s].status = "none" => schedule[s].status = "none"
        /\ schedule[s].status # "none" =>
             \/ schedule'[s].next = schedule[s].next
                /\ schedule'[s].status \in {schedule[s].status, "deleted"}
                /\ runFaults' + edits' = runFaults + edits
             \/ runFaults' + edits' = runFaults + edits + 1
        /\ runFaults' + edits' \in {runFaults + edits, runFaults + edits + 1}
    <2>0. /\ schedule \in [Schedules -> ScheduleRows] /\ runFaults \in Nat /\ edits \in Nat
          /\ snapshot \in [Schedules -> ScheduleRows \cup {NoSchedule}]
          /\ snapshot[s] # NoSchedule => snapshot[s].status \in {"active", "paused"}
      BY DEF RecurringShape, RecurringTypeOK, NumbersGrow
    <2>1. CASE \E length \in Lengths, start \in Calendar, sound \in BOOLEAN :
                 CreateSchedule(s, length, start, sound)
      BY <2>0, <2>1 DEF CreateSchedule
    <2>2. CASE UpdateScheduleRead(s)
      BY <2>0, <2>2 DEF UpdateScheduleRead
    <2>3. CASE UpdateSchedule(s)
      <3>1. PICK status, length, next :
              /\ UpdateScheduleWrite(s, status, length, next)
              /\ status \in {"active", "paused"}
        BY <2>0, <2>3 DEF UpdateSchedule
      <3>2. RowExists(s) => schedule'[s].status = status
        BY <2>0, <3>1 DEF UpdateScheduleWrite, ScheduleRows
      <3>3. /\ \A z \in Schedules : z # s => schedule'[z] = schedule[z]
            /\ ~ RowExists(s) => schedule' = schedule
        BY <2>0, <3>1 DEF UpdateScheduleWrite
      <3>4. runFaults' + edits' = runFaults + edits + 1
        BY <2>0, <3>1 DEF UpdateScheduleWrite
      <3> QED BY <3>1, <3>2, <3>3, <3>4
    <2>4. CASE DeleteSchedule(s)
      BY <2>0, <2>4 DEF DeleteSchedule, ScheduleRows, RowExists
    <2> QED BY <2>1, <2>2, <2>3, <2>4 DEF OwnerRequest
  <1>2. \A x : Latest(x)' <=> Latest(x)
    BY <1>0, NothingIssued
  <1>a. \A z \in Schedules :
          snapshot'[z] # NoSchedule => snapshot'[z].status \in {"active", "paused"}
    <2>0. snapshot \in [Schedules -> ScheduleRows \cup {NoSchedule}]
      BY DEF RecurringShape, RecurringTypeOK
    <2>1. CASE UpdateScheduleRead(s)
      BY <2>0, <2>1 DEF UpdateScheduleRead, RowExists, NumbersGrow
    <2>2. CASE UpdateSchedule(s)
      BY <2>0, <2>2 DEF UpdateSchedule, UpdateScheduleWrite, NumbersGrow
    <2> QED BY <2>1, <2>2 DEF OwnerRequest, CreateSchedule, DeleteSchedule, NumbersGrow
  <1>3. NumbersGrow'
    BY <1>0, <1>a, <1>1, <1>2, RecurringTyped DEF NumbersGrow, Working
  <1>4. \A z : (Moving(z)' <=> Moving(z)) /\ (Selected(z)' <=> Selected(z))
    BY <1>0 DEF Moving, Selected, Working
  <1>5. \A z \in Schedules : z # s => (z \in Loose' <=> z \in Loose)
    BY <1>0, <1>1, <1>2, <1>4 DEF Loose, TooSoon
  <1>6. CASE schedule[s].status = "none"
    <2>1. s \notin Loose'
      BY <1>0, <1>6 DEF Loose, NumbersGrow
    <2> QED BY <1>1, <1>3, <1>5, <2>1 DEF Loose
  <1>7. CASE schedule[s].status # "none" /\ runFaults' + edits' = runFaults + edits + 1
    BY <1>3, <1>5, <1>7 DEF Loose
  <1>8. CASE /\ schedule'[s].next = schedule[s].next
             /\ schedule'[s].status \in {schedule[s].status, "deleted"}
             /\ runFaults' + edits' = runFaults + edits
    <2>1. s \in Loose' => s \in Loose
      BY <1>0, <1>2, <1>4, <1>8 DEF Loose, TooSoon
    <2> QED BY <1>3, <1>5, <1>8, <2>1 DEF Loose
  <1> QED BY <1>1, <1>6, <1>7, <1>8

(* The only process there is.                                              *)
LEMMA OnlyRun ==
  ASSUME NEW w, Runs = {w}
  PROVE  \A s : /\ Moving(s) <=> run[w].phase = "move" /\ run[w].at = s
                /\ Selected(s) <=> run[w].due[s] # 0
                /\ Moving(s)' <=> run'[w].phase = "move" /\ run'[w].at = s
                /\ Selected(s)' <=> run'[w].due[s] # 0
  BY DEF Moving, Selected, Working

(* It leaves a row, or all of them; one it should have moved stays loose.  *)
LEMMA RunLeavesRow ==
  ASSUME RecurringShape, NumbersGrow, NEW w, Runs = {w}, NEW row,
         run' = [run EXCEPT ![w] = row], row.phase \in {"idle", "rows"},
         \A s \in Schedules : row.due[s] # 0 => run[w].due[s] # 0,
         UNCHANGED <<date, schedule, snapshot, counter, issued>>
  PROVE  /\ NumbersGrow'
         /\ Loose' \subseteq Loose \cup {run[w].at}
         /\ run[w].phase # "move" => Loose' \subseteq Loose
  <1>1. run'[w] = row /\ DOMAIN run = Runs
    BY RecurringTyped
  <1>2. \A x : Latest(x)' <=> Latest(x)
    BY NothingIssued
  <1>3. NumbersGrow'
    BY <1>1, <1>2 DEF NumbersGrow, Working
  <1>4. ASSUME NEW s \in Loose', ~ Moving(s)
        PROVE  s \in Loose
    <2>1. PICK x \in issued : Latest(x) /\ x.schedule = s /\ TooSoon(s, x)' /\ s \in Schedules
      BY <1>2, <1>4 DEF Loose
    <2>2. Selected(s)' => Selected(s)
      BY <1>1, <2>1, OnlyRun
    <2>3. TooSoon(s, x)
      BY <2>1, <2>2 DEF TooSoon
    <2> QED BY <1>4, <2>1, <2>3 DEF Loose
  <1> QED BY <1>3, <1>4, OnlyRun

LEMMA SelectingPays ==
  ASSUME RecurringShape, NumbersGrow, NEW w, Runs = {w}, SelectDue(w)
  PROVE  NumbersGrow' /\ Loose' \subseteq Loose
  <1>0. DOMAIN run = Runs /\ run[w].phase = "idle"
        /\ UNCHANGED <<date, schedule, snapshot, edits, counter, issued, runFaults>>
    BY RecurringTyped DEF SelectDue, Working
  <1>1. /\ run'[w].phase = "rows"
        /\ \A s \in Schedules : run'[w].due[s] # 0 => DueRow(s)
    BY <1>0 DEF SelectDue, NoRun
  <1>2. \A x : Latest(x)' <=> Latest(x)
    BY <1>0, NothingIssued
  <1>3. NumbersGrow'
    BY <1>0, <1>1, <1>2 DEF NumbersGrow, Working, DueRow
  <1>4. \A s \in Loose' : s \in Loose
    <2> SUFFICES ASSUME NEW s \in Loose' PROVE s \in Loose
      OBVIOUS
    <2>1. PICK x \in issued : Latest(x) /\ x.schedule = s /\ TooSoon(s, x)' /\ s \in Schedules
      BY <1>0, <1>2 DEF Loose
    <2>2. date < x.day + x.length
      BY <1>0, <2>1 DEF TooSoon
    <2>3. CASE Selected(s)'
      <3>1. schedule[s].status = "active" /\ schedule[s].next <= date
        BY <1>1, <2>1, <2>3, OnlyRun DEF DueRow
      <3>2. schedule[s].next < x.day + x.length
        BY <2>1, <2>2, <3>1, RecurringTyped
      <3> QED BY <1>0, <2>1, <2>2, <3>1, <3>2, OnlyRun DEF Loose, TooSoon
    <2>4. CASE ~ Selected(s)'
      BY <1>0, <2>1, <2>4, OnlyRun DEF Loose, TooSoon
    <2> QED BY <2>3, <2>4
  <1> QED BY <1>3, <1>4

LEMMA NumberingPays ==
  ASSUME RecurringShape, NumbersGrow, NEW w, Runs = {w}, NEW s \in Schedules,
         GenerateInvoiceNumber(w, s)
  PROVE  NumbersGrow' /\ Loose' \subseteq Loose
  <1>0. /\ run \in [Runs -> RunStates] /\ run[w].phase = "rows"
        /\ UNCHANGED <<date, schedule, snapshot, edits, issued, runFaults>>
    BY RecurringTyped DEF GenerateInvoiceNumber, Working
  <1>1. /\ run'[w].phase = "insert" /\ run'[w].at = s /\ run'[w].due = run[w].due
        /\ run'[w].number[2] = counter[Owner[s]] + 1
    BY <1>0 DEF GenerateInvoiceNumber, LastNumber, RunStates
  <1>2. \A x : Latest(x)' <=> Latest(x)
    BY <1>0, NothingIssued
  <1>3. /\ counter' = [counter EXCEPT ![Owner[s]] = @ + 1]
        /\ counter \in [Users -> Nat] /\ \A z \in Schedules : Owner[z] \in Users
    BY RecurringTyped DEF GenerateInvoiceNumber, LastNumber
  <1>4. \A x \in issued : /\ x.schedule \in Schedules /\ x.number[2] \in Nat
                          /\ x.number[2] <= counter[Owner[x.schedule]]
    BY RecurringTyped DEF NumbersGrow
  <1>5. \A x \in issued : x.number[2] <= counter'[Owner[x.schedule]]
    BY <1>3, <1>4
  <1>6. /\ run'[w].number[2] <= counter'[Owner[run'[w].at]]
        /\ \A x \in issued : x.schedule = run'[w].at => x.number[2] < run'[w].number[2]
    BY <1>1, <1>3, <1>4
  <1>7. NumbersGrow'
    BY <1>0, <1>1, <1>5, <1>6 DEF NumbersGrow, Working
  <1>8. Loose' \subseteq Loose
    BY <1>0, <1>1, <1>2, OnlyRun DEF Loose, TooSoon
  <1> QED BY <1>7, <1>8

(* An invoice that comes too soon takes a loose schedule.                  *)
LEMMA InsertingPays ==
  ASSUME RecurringShape, NumbersGrow, NEW w, Runs = {w}, InsertInvoice(w)
  PROVE  /\ NumbersGrow'
         /\ \/ Repeats' \subseteq Repeats /\ Loose' \subseteq Loose
            \/ \E y : \E s \in Loose :
                 Repeats' \subseteq Repeats \cup {y} /\ Loose' \subseteq Loose \ {s}
  <1> PICK s : s = run[w].at
    OBVIOUS
  <1> PICK y : y = [schedule |-> s, day |-> date, length |-> run[w].due[s],
                    number |-> run[w].number]
    OBVIOUS
  <1>0. /\ run \in [Runs -> RunStates] /\ run[w].phase = "insert"
        /\ s \in Schedules /\ run[w].due[s] # 0
        /\ UNCHANGED <<date, schedule, snapshot, edits, counter, runFaults>>
        /\ issued' = issued \cup {y}
    BY RecurringTyped DEF InsertInvoice, Working, RecurringShape
  <1>1. /\ run'[w].phase = "move" /\ run'[w].at = s /\ run'[w].due = run[w].due
    BY <1>0 DEF InsertInvoice, RunStates
  <1>2. /\ y.schedule = s /\ y.day = date /\ y.length = run[w].due[s]
        /\ y.number[2] = run[w].number[2] /\ y.number[2] \in Nat
    BY <1>0, RecurringTyped
  <1>3. /\ \A x \in issued : x.schedule = s => x.number[2] < y.number[2]
        /\ y.number[2] <= counter[Owner[s]]
        /\ \A x \in issued : x.number[2] \in Nat
    BY <1>0, <1>2, RecurringTyped DEF NumbersGrow, Working
  <1>4. /\ \A x \in issued : x.schedule # s => (Latest(x)' <=> Latest(x))
        /\ \A x \in issued' : x.schedule = s /\ Latest(x)' => x = y
    <2>1. \A x \in issued : x.schedule # s => (Latest(x)' <=> Latest(x))
      BY <1>0, <1>2 DEF Latest
    <2>2. ASSUME NEW x \in issued, x.schedule = s, Latest(x)'
          PROVE  FALSE
      <3>1. y.number[2] <= x.number[2]
        BY <1>0, <1>2, <2>2 DEF Latest
      <3>2. x.number[2] < y.number[2] /\ x.number[2] \in Nat
        BY <1>3, <2>2
      <3> QED BY <1>2, <3>1, <3>2
    <2> QED BY <1>0, <2>1, <2>2
  <1>5. NumbersGrow'
    <2>1. \A x \in issued' : /\ x.number[2] <= counter[Owner[x.schedule]]
                             /\ schedule[x.schedule].status # "none"
      BY <1>0, <1>2, <1>3 DEF NumbersGrow
    <2>2. \A x \in issued' : Latest(x)' /\ x.schedule = s =>
            x.day <= date /\ x.length = run[w].due[s]
      BY <1>2, <1>4, RecurringTyped
    <2> QED BY <1>0, <1>1, <2>1, <2>2 DEF NumbersGrow, Working
  <1>6. Loose' \subseteq Loose \ {s}
    <2>1. s \notin Loose'
      BY <1>1, OnlyRun DEF Loose
    <2>2. ASSUME NEW z \in Loose'
          PROVE  z \in Loose
      <3>1. z # s /\ z \in Schedules
        BY <2>1, <2>2 DEF Loose
      <3>2. PICK x \in issued : Latest(x) /\ x.schedule = z /\ TooSoon(z, x)'
        BY <1>0, <1>2, <1>4, <2>2, <3>1 DEF Loose
      <3>3. TooSoon(z, x) /\ ~ Moving(z)
        BY <1>0, <1>1, <3>2, OnlyRun DEF TooSoon
      <3> QED BY <3>1, <3>2, <3>3 DEF Loose
    <2> QED BY <2>1, <2>2
  <1>7. ASSUME NEW z \in Repeats'
        PROVE  z \in Repeats \/ (z = y /\ s \in Loose)
    <2>1. PICK x \in issued' : Follows(z, x)' /\ z.day < x.day + x.length /\ z \in issued'
      BY <1>7 DEF Repeats
    <2>2. z.schedule = x.schedule /\ z.number[2] > x.number[2]
      BY <2>1 DEF Follows
    <2>3. x # y
      <3>1. CASE z = y
        BY <2>2, <3>1, <1>2
      <3>2. CASE z \in issued
        BY <2>2, <3>2, <1>2, <1>3
      <3> QED BY <1>0, <2>1, <3>1, <3>2
    <2>4. x \in issued
      BY <1>0, <2>1, <2>3
    <2>5. CASE z \in issued
      <3>1. Follows(z, x)
        BY <1>0, <2>1 DEF Follows
      <3> QED BY <2>1, <2>4, <2>5, <3>1 DEF Repeats
    <2>6. CASE z = y
      <3>1. Latest(x) /\ x.schedule = s
        <4>1. ASSUME NEW v \in issued, v.schedule = x.schedule
              PROVE  v.number[2] <= x.number[2]
          <5>1. v.number[2] <= x.number[2] \/ v.number[2] >= y.number[2]
            BY <1>0, <2>1, <2>6, <4>1 DEF Follows
          <5>2. v.number[2] < y.number[2] /\ v.number[2] \in Nat
            BY <1>2, <1>3, <2>2, <2>6, <4>1
          <5> QED BY <1>2, <5>1, <5>2
        <4> QED BY <1>2, <2>2, <2>4, <2>6, <4>1 DEF Latest
      <3>2. date < x.day + x.length
        BY <1>2, <2>1, <2>6
      <3>3. ~ Moving(s) /\ Selected(s)
        BY <1>0, OnlyRun
      <3> QED BY <1>0, <2>4, <2>6, <3>1, <3>2, <3>3 DEF Loose, TooSoon
    <2> QED BY <1>0, <2>1, <2>5, <2>6
  <1>8. CASE s \in Loose
    BY <1>5, <1>6, <1>7, <1>8
  <1>9. CASE s \notin Loose
    BY <1>5, <1>6, <1>7, <1>9
  <1> QED BY <1>8, <1>9

(* The next run is counted from the day the invoice was issued, or later.  *)
LEMMA MovingPays ==
  ASSUME RecurringShape, NumbersGrow, NEW w, Runs = {w}, MoveNextRun(w)
  PROVE  NumbersGrow' /\ Loose' \subseteq Loose
  <1> PICK s : s = run[w].at
    OBVIOUS
  <1>0. /\ run \in [Runs -> RunStates] /\ run[w].phase = "move" /\ w \in Runs
        /\ s \in Schedules /\ run[w].due[s] # 0 /\ schedule[s].status # "none"
        /\ UNCHANGED <<date, snapshot, edits, counter, runFaults, issued>>
        /\ schedule \in [Schedules -> ScheduleRows]
    BY RecurringTyped DEF MoveNextRun, Working, RecurringShape, NumbersGrow
  <1>1. /\ run'[w].phase = "rows" /\ run'[w].due[s] = 0
        /\ \A z \in Schedules : z # s => run'[w].due[z] = run[w].due[z]
    <2>1. run'[w] = RowDone(w, s)
      BY <1>0 DEF MoveNextRun
    <2> QED BY <1>0, <2>1, RowDoneTyped
  <1>2. /\ \A z \in Schedules : z # s => schedule'[z] = schedule[z]
        /\ schedule'[s].status = schedule[s].status
        /\ schedule[s].status # "deleted" => schedule'[s].next = date + run[w].due[s]
    BY <1>0 DEF MoveNextRun, RowExists, ScheduleRows, NextRunAt, nextRunTime
  <1>3. \A x : Latest(x)' <=> Latest(x)
    BY <1>0, NothingIssued
  <1>4. NumbersGrow'
    BY <1>0, <1>1, <1>2, RecurringTyped DEF NumbersGrow, Working
  <1>5. s \notin Loose'
    <2> SUFFICES ASSUME NEW x \in issued, Latest(x), x.schedule = s, TooSoon(s, x)'
                 PROVE  FALSE
      BY <1>0, <1>3 DEF Loose
    <2>1. x.day <= date /\ x.length = run[w].due[s]
      BY <1>0 DEF NumbersGrow, Working
    <2>2. schedule[s].status # "deleted" /\ schedule'[s].next < x.day + x.length
      BY <1>1, <1>2, OnlyRun DEF TooSoon
    <2> QED BY <1>0, <1>2, <2>1, <2>2, RecurringTyped
  <1>6. ASSUME NEW z \in Loose'
        PROVE  z \in Loose
    <2>1. z \in Schedules /\ z # s
      BY <1>5, <1>6 DEF Loose
    <2> QED BY <1>0, <1>1, <1>2, <1>3, <1>6, <2>1, OnlyRun DEF Loose, TooSoon
  <1> QED BY <1>4, <1>6

(* A fault while a row is to be moved is what makes its schedule loose.    *)
LEMMA FaultsPay ==
  ASSUME RecurringShape, NumbersGrow, NEW w, Runs = {w}, RowFails(w) \/ RunStops(w)
  PROVE  /\ NumbersGrow' /\ issued' = issued
         /\ Loose' \subseteq Loose \cup {run[w].at}
         /\ runFaults' + edits' = runFaults + edits + 1
  <1>1. /\ UNCHANGED <<date, schedule, snapshot, edits, counter, issued>>
        /\ runFaults' + edits' = runFaults + edits + 1
    BY RecurringTyped DEF RowFails, RunStops, RunFault
  <1>2. CASE RowFails(w)
    <2>1. run[w].at \in Schedules /\ w \in Runs
      BY <1>2 DEF RowFails, RecurringShape
    <2> PICK row : row = RowDone(w, run[w].at)
      OBVIOUS
    <2>2. /\ row.phase = "rows"
          /\ \A z \in Schedules : row.due[z] # 0 => run[w].due[z] # 0
      BY <2>1, RowDoneTyped
    <2>3. run' = [run EXCEPT ![w] = row]
      BY <1>2 DEF RowFails
    <2> QED BY <1>1, <2>2, <2>3, RunLeavesRow
  <1>3. CASE RunStops(w)
    <2> PICK row : row = NoRun
      OBVIOUS
    <2>1. /\ row.phase = "idle"
          /\ \A z \in Schedules : row.due[z] # 0 => run[w].due[z] # 0
      BY DEF NoRun
    <2>2. run' = [run EXCEPT ![w] = row]
      BY <1>3 DEF RunStops
    <2> QED BY <1>1, <2>1, <2>2, RunLeavesRow
  <1> QED BY <1>2, <1>3

LEMMA RunPays ==
  ASSUME RecurringShape, NumbersGrow, NEW w, Runs = {w}, GenerateDue(w)
  PROVE  /\ NumbersGrow' /\ UNCHANGED <<runFaults, edits>>
         /\ \/ Repeats' \subseteq Repeats /\ Loose' \subseteq Loose
            \/ \E y : \E s \in Loose :
                 Repeats' \subseteq Repeats \cup {y} /\ Loose' \subseteq Loose \ {s}
  <1>1. UNCHANGED <<runFaults, edits>>
    BY DEF GenerateDue, SelectDue, GenerateInvoiceNumber, RejectRow, InsertInvoice,
           InsertCollides, MoveNextRun, EndRun
  <1>2. CASE SelectDue(w)
    BY <1>1, <1>2, SelectingPays, NothingIssued DEF SelectDue
  <1>3. ASSUME NEW s \in Schedules, GenerateInvoiceNumber(w, s)
        PROVE  NumbersGrow' /\ Loose' \subseteq Loose /\ Repeats' = Repeats
    BY <1>3, NumberingPays, NothingIssued DEF GenerateInvoiceNumber
  <1>4. ASSUME NEW s \in Schedules,
               \/ RejectRow(w, s)
               \/ InsertCollides(w) /\ s = run[w].at
        PROVE  NumbersGrow' /\ Loose' \subseteq Loose /\ Repeats' = Repeats
    <2> PICK row : row = RowDone(w, s)
      OBVIOUS
    <2>1. /\ row.phase = "rows"
          /\ \A z \in Schedules : row.due[z] # 0 => run[w].due[z] # 0
      BY RowDoneTyped
    <2>2. /\ run' = [run EXCEPT ![w] = row] /\ run[w].phase # "move"
          /\ UNCHANGED <<date, schedule, snapshot, counter, issued>>
      BY <1>4 DEF RejectRow, InsertCollides, Working
    <2> QED BY <2>1, <2>2, RunLeavesRow, NothingIssued
  <1>5. CASE InsertInvoice(w)
    BY <1>1, <1>5, InsertingPays
  <1>6. CASE InsertCollides(w)
    <2>1. run[w].at \in Schedules
      BY <1>6 DEF InsertCollides, Working, RecurringShape
    <2> QED BY <1>1, <1>4, <1>6, <2>1
  <1>7. CASE MoveNextRun(w)
    BY <1>1, <1>7, MovingPays, NothingIssued DEF MoveNextRun
  <1>8. CASE EndRun(w)
    <2> PICK row : row = NoRun
      OBVIOUS
    <2>1. /\ row.phase = "idle"
          /\ \A z \in Schedules : row.due[z] # 0 => run[w].due[z] # 0
      BY DEF NoRun
    <2>2. /\ run' = [run EXCEPT ![w] = row] /\ run[w].phase # "move"
          /\ UNCHANGED <<date, schedule, snapshot, counter, issued>>
      BY <1>8 DEF EndRun, Working
    <2> QED BY <1>1, <2>1, <2>2, RunLeavesRow, NothingIssued
  <1> QED BY <1>1, <1>2, <1>3, <1>4, <1>5, <1>6, <1>7, <1>8 DEF GenerateDue

LEMMA RecurringStep ==
  ASSUME RecurringShape, NumbersGrow, RepeatsPaid, NEW w, Runs = {w},
         [RecurringNext]_recurringVars
  PROVE  NumbersGrow' /\ RepeatsPaid'
  <1>0. RecurringShape'
    BY RecurringKeepsShape
  <1> PICK n \in Nat, n1 \in Nat : n = runFaults + edits /\ n1 = runFaults' + edits'
    <2>1. runFaults' + edits' \in Nat
      <3>1. PICK f, e : f = runFaults' /\ e = edits'
        OBVIOUS
      <3>2. f \in Nat /\ e \in Nat
        BY <1>0, <3>1 DEF RecurringShape, RecurringTypeOK
      <3>3. f + e \in Nat
        BY <3>2
      <3> QED BY <3>1, <3>3
    <2>2. runFaults + edits \in Nat
      BY RecurringTyped
    <2> QED BY <2>1, <2>2
  <1> DEFINE Paying ==
        \/ Repeats' \subseteq Repeats /\ Loose' \subseteq Loose /\ n1 >= n
        \/ \E s : /\ Repeats' \subseteq Repeats /\ Loose' \subseteq Loose \cup {s}
                  /\ n1 = n + 1
        \/ \E y : \E s \in Loose :
             /\ Repeats' \subseteq Repeats \cup {y} /\ Loose' \subseteq Loose \ {s}
             /\ n1 = n
  <1>1. NumbersGrow' /\ Paying
    <2>1. ASSUME NEW s \in Schedules, OwnerRequest(s)
          PROVE  NumbersGrow' /\ Paying
      <3>1. Repeats' = Repeats
        BY <2>1, OwnersKeepShape, NothingIssued
      <3> QED BY <2>1, <3>1, OwnersPay
    <2>2. CASE RowFails(w) \/ RunStops(w)
      BY <2>2, FaultsPay, NothingIssued
    <2>3. CASE GenerateDue(w)
      BY <2>3, RunPays
    <2>4. CASE /\ UNCHANGED <<schedule, snapshot, edits, counter, issued, run, runFaults>>
               /\ date' = date \/ date' = date + 1
      <3>1. Repeats' = Repeats /\ \A x : Latest(x)' <=> Latest(x)
        BY <2>4, NothingIssued
      <3>2. NumbersGrow'
        BY <2>4, <3>1, RecurringTyped DEF NumbersGrow, Working
      <3>3. Loose' \subseteq Loose
        BY <2>4, <3>1, RecurringTyped DEF Loose, TooSoon, Moving, Selected, Working
      <3>4. n1 = n
        BY <2>4
      <3> QED BY <3>1, <3>2, <3>3, <3>4
    <2>5. \/ \E s \in Schedules : OwnerRequest(s)
          \/ RowFails(w) \/ RunStops(w) \/ GenerateDue(w)
          \/ \E u \in Users : SetOwnerActive(u)
          \/ NextDate \/ UNCHANGED recurringVars
      BY DEF RecurringNext, OwnerRequest
    <2> HIDE DEF Paying
    <2>6. ASSUME NEW u \in Users, SetOwnerActive(u)
          PROVE  NumbersGrow' /\ Paying
      BY <2>4, <2>6 DEF SetOwnerActive
    <2>7. CASE NextDate
      BY <2>4, <2>7 DEF NextDate
    <2>8. CASE UNCHANGED recurringVars
      BY <2>4, <2>8 DEF recurringVars
    <2> QED BY <2>1, <2>2, <2>3, <2>5, <2>6, <2>7, <2>8
  <1> PICK R, L, R1, L1 : R = Repeats /\ L = Loose /\ R1 = Repeats' /\ L1 = Loose'
    OBVIOUS
  <1>2. IsFiniteSet(R) /\ IsFiniteSet(L) /\ Cardinality(R) + Cardinality(L) <= n
    BY DEF RepeatsPaid
  <1>3. \/ R1 \subseteq R /\ L1 \subseteq L /\ n1 >= n
        \/ \E s : R1 \subseteq R /\ L1 \subseteq L \cup {s} /\ n1 = n + 1
        \/ \E y : \E s \in L : R1 \subseteq R \cup {y} /\ L1 \subseteq L \ {s} /\ n1 = n
    BY <1>1
  <1>4. IsFiniteSet(R1) /\ IsFiniteSet(L1) /\ Cardinality(R1) + Cardinality(L1) <= n1
    <2>1. CASE R1 \subseteq R /\ L1 \subseteq L /\ n1 >= n
      BY <1>2, <2>1, NothingSpent
    <2>2. ASSUME NEW s, R1 \subseteq R, L1 \subseteq L \cup {s}, n1 = n + 1
          PROVE  IsFiniteSet(R1) /\ IsFiniteSet(L1)
                 /\ Cardinality(R1) + Cardinality(L1) <= n1
      <3>1. IsFiniteSet(R1) /\ IsFiniteSet(L1) /\ Cardinality(R1) + Cardinality(L1) <= n + 1
        BY <1>2, <2>2, MishapSpent, Zenon
      <3> QED BY <2>2, <3>1
    <2>3. ASSUME NEW y, NEW s \in L, R1 \subseteq R \cup {y}, L1 \subseteq L \ {s}, n1 = n
          PROVE  IsFiniteSet(R1) /\ IsFiniteSet(L1)
                 /\ Cardinality(R1) + Cardinality(L1) <= n1
      <3>1. Cardinality(R) \in Nat /\ Cardinality(L) \in Nat
        BY <1>2, FS_CardinalityType
      <3>2. /\ IsFiniteSet(R \cup {y}) /\ IsFiniteSet(L \ {s})
            /\ Cardinality(R \cup {y}) \in {Cardinality(R), Cardinality(R) + 1}
            /\ Cardinality(L \ {s}) = Cardinality(L) - 1
        BY <1>2, FS_AddElement, FS_RemoveElement
      <3> PICK ry, ls : ry = R \cup {y} /\ ls = L \ {s}
        OBVIOUS
      <3>3. IsFiniteSet(ry) /\ IsFiniteSet(ls) /\ Cardinality(ry) + Cardinality(ls) <= n
        BY <1>2, <3>1, <3>2
      <3>4. R1 \subseteq ry /\ L1 \subseteq ls /\ n1 >= n
        BY <2>3
      <3> QED BY <3>3, <3>4, NothingSpent
    <2> QED BY <1>3, <2>1, <2>2, <2>3
  <1> QED BY <1>1, <1>4 DEF RepeatsPaid

(* Where one process generates the invoices, as many come too soon as      *)
(* errors and crashes and the owners' updates may have made so.            *)
THEOREM RepeatsWithinFaults == RecurringSpec => []RepeatsBounded
  <1>1. CASE Cardinality(Runs) # 1
    <2>1. RepeatsBounded
      BY <1>1 DEF RepeatsBounded
    <2> QED BY <2>1, PTL
  <1>2. CASE Cardinality(Runs) = 1
    <2>0. PICK w : Runs = {w}
      BY <1>2, RecurringAssumption, FS_Singleton
    <2> DEFINE Paid == RecurringShape /\ NumbersGrow /\ RepeatsPaid
    <2>1. RecurringInit => Paid
      BY RecurringBegins
    <2>2. Paid /\ [RecurringNext]_recurringVars => Paid'
      BY <2>0, RecurringKeepsShape, RecurringStep
    <2>3. Paid => RepeatsBounded
      <3> SUFFICES ASSUME Paid
                   PROVE  Cardinality(Repeats) <= runFaults + edits
        BY DEF RepeatsBounded
      <3>1. Cardinality(Repeats) \in Nat /\ Cardinality(Loose) \in Nat
        BY FS_CardinalityType DEF RepeatsPaid
      <3> QED BY <3>1, RecurringTyped DEF RepeatsPaid
    <2> QED BY <2>1, <2>2, <2>3, PTL DEF RecurringSpec
  <1> QED BY <1>1, <1>2
=============================================================================
