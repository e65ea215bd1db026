------------------------ MODULE CronSchedule_proofs ------------------------
(***************************************************************************)
(* For every interval a user may ask for and every random draw: the types  *)
(* of CronSchedule, that a job below a day runs evenly and that there is   *)
(* always something to draw.  For intervals below 16 days also that a job  *)
(* runs as configured and stays where it is.                               *)
(***************************************************************************)
EXTENDS CronSchedule, TLAPS

LEMMA LargestOf ==
  ASSUME NEW S, NEW x \in S, \A y \in S : y <= x
  PROVE  Largest(S) \in S
  BY DEF Largest

\* An interval up to an hour becomes a divisor of the hour.
LEMMA HourAdjusted ==
  ASSUME NEW i \in Nat, 1 <= i, i <= 60
  PROVE  Largest({d \in HourDivisors : d <= i}) \in {d \in HourDivisors : d <= i}
<1> DEFINE S == {d \in HourDivisors : d <= i}
<1>1. \E x \in S : \A y \in S : y <= x
  <2>1. CASE i < 10
    BY <2>1 DEF HourDivisors
  <2>2. CASE 10 <= i
    BY <2>2 DEF HourDivisors
  <2>3. QED
    BY <2>1, <2>2
<1> HIDE DEF S
<1>2. Largest(S) \in S
  BY <1>1, LargestOf
<1>3. QED
  BY <1>2 DEF S

\* An interval up to a day becomes a divisor of the day.
LEMMA DayAdjusted ==
  ASSUME NEW i \in Nat, 60 <= i, i <= 1440
  PROVE  Largest({d \in DayDivisors : d <= i}) \in {d \in DayDivisors : d <= i}
<1> DEFINE S == {d \in DayDivisors : d <= i}
<1>1. \E x \in S : \A y \in S : y <= x
  BY DEF DayDivisors
<1> HIDE DEF S
<1>2. Largest(S) \in S
  BY <1>1, LargestOf
<1>3. QED
  BY <1>2 DEF S

\* The intervals that an expression can have.
Adjusted ==
  {i \in Nat :
     \/ i \in HourDivisors \/ i \in DayDivisors
     \/ 1440 <= i /\ i \div 1440 \in 1..31}

LEMMA MinutesAre ==
  MinutesPerHour = 60 /\ MinutesPerDay = 1440 /\ MinutesPerWeek = 10080
  BY DEF MinutesPerHour, MinutesPerDay, MinutesPerWeek

LEMMA AdjustedRange ==
  ASSUME NEW i \in Nat, i \div 1440 <= 31
  PROVE  adjust_interval(i) \in Adjusted
<1> DEFINE ai == adjust_interval(i)
           hd == Largest({d \in HourDivisors : d <= i})
           dd == Largest({d \in DayDivisors : d <= i})
           days == (i \div 1440) * 1440
<1>1. ai = IF i = 0 THEN 1
           ELSE IF i <= MinutesPerHour THEN hd
           ELSE IF i <= MinutesPerDay THEN dd
           ELSE IF MinutesPerWeek <= i /\ i < 8 * MinutesPerDay THEN MinutesPerWeek
           ELSE days
  BY MinutesAre DEF adjust_interval
<1>2. 1 <= i /\ i <= 60 => hd \in HourDivisors
  BY HourAdjusted
<1>3. 60 <= i /\ i <= 1440 => dd \in DayDivisors
  BY DayAdjusted
<1> HIDE DEF ai, hd, dd, days
<1>4. ai = IF i = 0 THEN 1
           ELSE IF i <= 60 THEN hd
           ELSE IF i <= 1440 THEN dd
           ELSE IF 10080 <= i /\ i < 11520 THEN 10080
           ELSE days
  <2>1. 8 * 1440 = 11520
    OBVIOUS
  <2>2. QED
    BY <1>1, <2>1, MinutesAre
<1>5. ASSUME i = 0 PROVE ai \in Adjusted
  BY <1>4, <1>5 DEF Adjusted, HourDivisors
<1>6. ASSUME 0 < i /\ i <= 60 PROVE ai \in Adjusted
  BY <1>2, <1>4, <1>6 DEF Adjusted, HourDivisors
<1>7. ASSUME 60 < i /\ i <= 1440 PROVE ai \in Adjusted
  BY <1>3, <1>4, <1>7 DEF Adjusted, DayDivisors
<1>8. ASSUME 10080 <= i /\ i < 11520 PROVE ai \in Adjusted
  BY <1>4, <1>8 DEF Adjusted
<1>9. ASSUME 1440 < i /\ ~(10080 <= i /\ i < 11520) PROVE ai \in Adjusted
  <2>1. ai = days
    BY <1>4, <1>9
  <2>2. i \div 1440 \in 1..31
    BY <1>9
  <2>3. ASSUME NEW k \in 1..31 PROVE k * 1440 \in Adjusted
    <3>1. k * 1440 \in Nat /\ 1440 <= k * 1440 /\ (k * 1440) \div 1440 = k
      OBVIOUS
    <3>2. QED
      BY <3>1 DEF Adjusted
  <2>4. QED
    BY <2>1, <2>2, <2>3 DEF days
<1>10. ai \in Adjusted
  BY <1>5, <1>6, <1>7, <1>8, <1>9
<1>11. QED
  BY <1>10 DEF ai

LEMMA AdjustedInterval ==
  ASSUME NEW i \in Intervals
  PROVE  adjust_interval(i) \in Adjusted
<1>1. i \in Nat /\ i \div 1440 <= 31
  BY CronAssumption, MinutesAre
<1>2. QED
  BY <1>1, AdjustedRange

(***************************************************************************)
(* An expression whose step divides the hour, or the day, and whose base   *)
(* comes before the first step: its runs are even.                         *)
(***************************************************************************)
MinuteSteps == {1, 2, 3, 4, 5, 6, 10, 12, 15, 20, 30}
HourSteps == {1, 2, 3, 4, 6, 8, 12}

Regular(e) ==
  /\ e \in Expr
  /\ e.kind = "minutes" => e.step \in MinuteSteps /\ e.m < e.step
  /\ e.kind = "hours" => e.step \in HourSteps /\ e.h < e.step

\* What randint draws lies between its limits.
LEMMA Drawn ==
  ASSUME NEW a \in Int, NEW b \in Int, NEW x \in randint(a, b)
  PROVE  x \in Int /\ a <= x /\ x <= b
<1>1. a <= b /\ x \in {a, b} \cup {y \in Samples : a <= y /\ y <= b}
  BY DEF randint
<1>2. QED
  BY <1>1, CronAssumption

LEMMA BaseMinute ==
  ASSUME NEW i \in Nat, NEW x \in new_base_minute(i)
  PROVE  x \in 0..59 /\ (0 < i /\ i \notin 31..59 => x < i)
<1>1. CASE i = 0
  BY <1>1 DEF new_base_minute
<1>2. CASE 30 < i /\ i < 60
  <2>1. x \in randint(0, (60 % i) - 1)
    BY <1>2 DEF new_base_minute
  <2>2. 60 % i \in 0..(i - 1)
    BY <1>2
  <2>3. (60 % i) - 1 \in Int /\ (60 % i) - 1 <= 59
    BY <1>2, <2>2
  <2> DEFINE b == (60 % i) - 1
  <2> HIDE DEF b
  <2>4. x \in Int /\ 0 <= x /\ x <= b
    BY <2>1, <2>3, Drawn DEF b
  <2>5. b \in Int /\ b <= 59
    BY <2>3 DEF b
  <2>6. QED
    BY <1>2, <2>4, <2>5
<1>3. CASE i # 0 /\ ~(30 < i /\ i < 60)
  <2>1. x \in randint(0, AtMost(i - 1, 59))
    BY <1>3 DEF new_base_minute
  <2>2. AtMost(i - 1, 59) \in Int /\ AtMost(i - 1, 59) <= 59 /\ AtMost(i - 1, 59) <= i - 1
    BY DEF AtMost
  <2>3. x \in Int /\ 0 <= x /\ x <= AtMost(i - 1, 59)
    BY <2>1, <2>2, Drawn
  <2>4. QED
    BY <2>2, <2>3
<1>4. QED
  BY <1>1, <1>2, <1>3

LEMMA BaseHour ==
  ASSUME NEW i \in Nat, NEW x \in new_base_hour(i)
  PROVE  x \in 0..23 /\ (60 <= i => x < i \div 60)
<1>1. CASE i < 60
  BY <1>1, MinutesAre DEF new_base_hour
<1>2. CASE 60 <= i
  <2> DEFINE q == i \div 60
  <2>1. q \in Nat
    OBVIOUS
  <2>2. x \in randint(0, AtMost(q - 1, 23))
    BY <1>2, MinutesAre DEF new_base_hour
  <2> HIDE DEF q
  <2>3. AtMost(q - 1, 23) \in Int /\ AtMost(q - 1, 23) <= 23 /\ AtMost(q - 1, 23) <= q - 1
    BY <2>1 DEF AtMost
  <2>4. x \in Int /\ 0 <= x /\ x <= AtMost(q - 1, 23)
    BY <2>2, <2>3, Drawn
  <2>5. x \in 0..23 /\ x < q
    BY <2>1, <2>3, <2>4
  <2>6. QED
    BY <2>5 DEF q
<1>3. QED
  BY <1>1, <1>2

LEMMA BaseDom ==
  ASSUME NEW i \in Nat, NEW x \in new_base_dom(i)
  PROVE  x \in 1..31
<1>1. CASE i < 2 * MinutesPerDay
  BY <1>1 DEF new_base_dom
<1>2. CASE ~(i < 2 * MinutesPerDay)
  <2> DEFINE q == i \div MinutesPerDay
  <2>1. q \in Nat
    BY MinutesAre
  <2>2. x \in randint(1, AtMost(q - 1, 28))
    BY <1>2 DEF new_base_dom
  <2> HIDE DEF q
  <2>3. AtMost(q - 1, 28) \in Int /\ AtMost(q - 1, 28) <= 28
    BY <2>1 DEF AtMost
  <2>4. x \in Int /\ 1 <= x /\ x <= AtMost(q - 1, 28)
    BY <2>2, <2>3, Drawn
  <2>5. QED
    BY <2>3, <2>4
<1>3. QED
  BY <1>1, <1>2

\* The four forms, with fields that are right.
LEMMA MinutelyRegular ==
  ASSUME NEW i \in MinuteSteps, NEW m \in 0..59, m < i
  PROVE  Regular(Minutely(m, i))
<1>1. i \in 0..31
  BY DEF MinuteSteps
<1>2. Minutely(m, i) \in Expr
  BY <1>1 DEF Minutely, Expr, Kinds
<1>3. QED
  BY <1>2 DEF Regular, Minutely

LEMMA HourlyRegular ==
  ASSUME NEW m \in 0..59, NEW h \in 0..23, NEW step \in HourSteps, h < step
  PROVE  Regular(Hourly(m, h, step))
<1>1. step \in 0..31
  BY DEF HourSteps
<1>2. Hourly(m, h, step) \in Expr
  BY <1>1 DEF Hourly, Expr, Kinds
<1>3. QED
  BY <1>2 DEF Regular, Hourly

LEMMA WeeklyRegular ==
  ASSUME NEW m \in 0..59, NEW h \in 0..23, NEW dow \in randint(0, 6)
  PROVE  Regular(Weekly(m, h, dow))
<1>1. dow \in 0..31
  BY Drawn
<1>2. Weekly(m, h, dow) \in Expr
  BY <1>1 DEF Weekly, Expr, Kinds
<1>3. QED
  BY <1>2 DEF Regular, Weekly

LEMMA DailyRegular ==
  ASSUME NEW m \in 0..59, NEW h \in 0..23, NEW dom \in 1..31, NEW step \in 1..31
  PROVE  Regular(Daily(m, h, dom, step))
<1>1. Daily(m, h, dom, step) \in Expr
  BY DEF Daily, Expr, Kinds
<1>2. QED
  BY <1>1 DEF Regular, Daily

(***************************************************************************)
(* Regular expressions run evenly: also from the last run before the turn  *)
(* of the hour, or the day, to the first one after it.                     *)
(***************************************************************************)
LEMMA EvenInHour ==
  ASSUME NEW b \in 0..59, NEW k \in MinuteSteps, b < k
  PROVE  Even({x \in 0..59 : x >= b /\ (x - b) % k = 0}, 60, k)
<1> DEFINE fired == {x \in 0..59 : x >= b /\ (x - b) % k = 0}
<1>1. b \in fired
  BY DEF MinuteSteps
<1>2. ASSUME NEW x \in fired PROVE (x + k) % 60 \in fired
  <2>1. CASE k = 1
    BY <1>2, <2>1
  <2>2. CASE k = 2
    BY <1>2, <2>2
  <2>3. CASE k = 3
    BY <1>2, <2>3
  <2>4. CASE k = 4
    BY <1>2, <2>4
  <2>5. CASE k = 5
    BY <1>2, <2>5
  <2>6. CASE k = 6
    BY <1>2, <2>6
  <2>7. CASE k = 10
    BY <1>2, <2>7
  <2>8. CASE k = 12
    BY <1>2, <2>8
  <2>9. CASE k = 15
    BY <1>2, <2>9
  <2>10. CASE k = 20
    BY <1>2, <2>10
  <2>11. CASE k = 30
    BY <1>2, <2>11
  <2>12. QED
    BY <2>1, <2>2, <2>3, <2>4, <2>5, <2>6, <2>7, <2>8, <2>9, <2>10, <2>11 DEF MinuteSteps
<1>3. QED
  BY <1>1, <1>2 DEF Even

LEMMA EvenInDay ==
  ASSUME NEW b \in 0..23, NEW k \in HourSteps, b < k
  PROVE  Even({x \in 0..23 : x >= b /\ (x - b) % k = 0}, 24, k)
<1> DEFINE fired == {x \in 0..23 : x >= b /\ (x - b) % k = 0}
<1>1. b \in fired
  BY DEF HourSteps
<1>2. ASSUME NEW x \in fired PROVE (x + k) % 24 \in fired
  <2>1. CASE k = 1
    BY <1>2, <2>1
  <2>2. CASE k = 2
    BY <1>2, <2>2
  <2>3. CASE k = 3
    BY <1>2, <2>3
  <2>4. CASE k = 4
    BY <1>2, <2>4
  <2>5. CASE k = 6
    BY <1>2, <2>5
  <2>6. CASE k = 8
    BY <1>2, <2>6
  <2>7. CASE k = 12
    BY <1>2, <2>7
  <2>8. QED
    BY <2>1, <2>2, <2>3, <2>4, <2>5, <2>6, <2>7 DEF HourSteps
<1>3. QED
  BY <1>1, <1>2 DEF Even

LEMMA RegularIsEven ==
  ASSUME NEW e, Regular(e)
  PROVE  /\ e.kind = "minutes" => Even(FiredMinutes(e), 60, e.step)
         /\ e.kind = "hours" => Even(FiredHours(e), 24, e.step)
<1>1. e.m \in 0..59 /\ e.h \in 0..23
  BY DEF Regular, Expr
<1>2. ASSUME e.kind = "minutes" PROVE Even(FiredMinutes(e), 60, e.step)
  <2>1. e.step \in MinuteSteps /\ e.m < e.step
    BY <1>2 DEF Regular
  <2>2. QED
    BY <1>1, <2>1, EvenInHour DEF FiredMinutes
<1>3. ASSUME e.kind = "hours" PROVE Even(FiredHours(e), 24, e.step)
  <2>1. e.step \in HourSteps /\ e.h < e.step
    BY <1>3 DEF Regular
  <2>2. QED
    BY <1>1, <2>1, EvenInDay DEF FiredHours
<1>4. QED
  BY <1>2, <1>3

(***************************************************************************)
(* The expressions the handler makes of an adjusted interval are regular.  *)
(***************************************************************************)
LEMMA AdjustedParts ==
  ASSUME NEW i \in Adjusted
  PROVE  /\ i \in Nat /\ i > 0
         /\ i < 60 => i \in MinuteSteps
         /\ 60 <= i /\ i < 1440 => i \div 60 \in HourSteps
         /\ 1440 <= i => i \div 1440 \in 1..31
<1>1. i \in Nat /\ (i \in HourDivisors \/ i \in DayDivisors
                      \/ (1440 <= i /\ i \div 1440 \in 1..31))
  BY DEF Adjusted
<1>2. CASE i \in HourDivisors
  BY <1>2 DEF HourDivisors, MinuteSteps, HourSteps
<1>3. CASE i \in DayDivisors
  BY <1>3 DEF DayDivisors, MinuteSteps, HourSteps
<1>4. CASE 1440 <= i /\ i \div 1440 \in 1..31
  BY <1>1, <1>4
<1>5. QED
  BY <1>1, <1>2, <1>3, <1>4

LEMMA NewIsRegular ==
  ASSUME NEW i \in Adjusted, NEW e \in new_schedule(i)
  PROVE  Regular(e)
<1>1. i \in Nat /\ i > 0
  BY AdjustedParts
<1>2. CASE i < MinutesPerHour
  <2>1. PICK m \in new_base_minute(i) : e = Minutely(m, i)
    BY <1>2 DEF new_schedule
  <2>2. i \in MinuteSteps
    BY <1>2, AdjustedParts, MinutesAre
  <2>3. i \notin 31..59
    BY <2>2 DEF MinuteSteps
  <2>4. m \in 0..59 /\ m < i
    BY <1>1, <2>3, BaseMinute
  <2>5. QED
    BY <2>1, <2>2, <2>4, MinutelyRegular
<1>3. CASE ~(i < MinutesPerHour) /\ i < MinutesPerDay
  <2> DEFINE step == i \div MinutesPerHour
  <2>1. PICK m \in new_base_minute(i), h \in new_base_hour(i) : e = Hourly(m, h, step)
    BY <1>3 DEF new_schedule
  <2>2. step \in HourSteps
    BY <1>1, <1>3, AdjustedParts, MinutesAre
  <2>3. m \in 0..59
    BY <1>1, BaseMinute
  <2>4. h \in 0..23 /\ h < step
    BY <1>1, <1>3, BaseHour, MinutesAre
  <2> HIDE DEF step
  <2>5. QED
    BY <2>1, <2>2, <2>3, <2>4, HourlyRegular
<1>4. CASE ~(i < MinutesPerHour) /\ ~(i < MinutesPerDay) /\ i = MinutesPerWeek
  <2>1. PICK m \in new_base_minute(i), h \in new_base_hour(i), dow \in randint(0, 6) :
          e = Weekly(m, h, dow)
    BY <1>4 DEF new_schedule
  <2>2. m \in 0..59 /\ h \in 0..23
    BY <1>1, BaseMinute, BaseHour
  <2>3. QED
    BY <2>1, <2>2, WeeklyRegular
<1>5. CASE ~(i < MinutesPerHour) /\ ~(i < MinutesPerDay) /\ i # MinutesPerWeek
  <2> DEFINE step == i \div MinutesPerDay
  <2>1. PICK m \in new_base_minute(i), h \in new_base_hour(i), dom \in new_base_dom(i) :
          e = Daily(m, h, dom, step)
    BY <1>5 DEF new_schedule
  <2>2. step \in 1..31
    BY <1>1, <1>5, AdjustedParts, MinutesAre
  <2>3. m \in 0..59 /\ h \in 0..23 /\ dom \in 1..31
    BY <1>1, BaseMinute, BaseHour, BaseDom
  <2> HIDE DEF step
  <2>4. QED
    BY <2>1, <2>2, <2>3, DailyRegular
<1>6. QED
  BY <1>2, <1>3, <1>4, <1>5

LEMMA UpdatedIsRegular ==
  ASSUME NEW e, Regular(e), NEW i \in Adjusted, NEW f \in update_cron_expression(e, i)
  PROVE  Regular(f)
<1>1. i \in Nat /\ i > 0 /\ e.m \in 0..59 /\ e.h \in 0..23
  BY AdjustedParts DEF Regular, Expr
<1>2. CASE get_current_interval(e) = i
  BY <1>2 DEF update_cron_expression
<1>3. CASE get_current_interval(e) # i /\ i < MinutesPerHour
  <2>1. PICK m \in kept_minute(e, i) : f = Minutely(m, i)
    BY <1>3 DEF update_cron_expression
  <2>2. i \in MinuteSteps
    BY <1>3, AdjustedParts, MinutesAre
  <2>3. m \in 0..59 /\ m < i
    <3>1. CASE e.m >= i
      <4>1. m \in new_base_minute(i)
        BY <3>1 DEF kept_minute
      <4>2. i \notin 31..59
        BY <2>2 DEF MinuteSteps
      <4>3. QED
        BY <1>1, <4>1, <4>2, BaseMinute
    <3>2. CASE ~(e.m >= i)
      BY <1>1, <3>2 DEF kept_minute
    <3>3. QED
      BY <3>1, <3>2
  <2>4. QED
    BY <2>1, <2>2, <2>3, MinutelyRegular
<1>4. CASE get_current_interval(e) # i /\ ~(i < MinutesPerHour) /\ i < MinutesPerDay
  <2> DEFINE step == i \div MinutesPerHour
  <2>1. f = Hourly(e.m, 0, step)
    BY <1>4 DEF update_cron_expression
  <2>2. step \in HourSteps
    BY <1>1, <1>4, AdjustedParts, MinutesAre
  <2> HIDE DEF step
  <2>3. 0 < step /\ 0 \in 0..23
    BY <2>2 DEF HourSteps
  <2>4. QED
    BY <1>1, <2>1, <2>2, <2>3, HourlyRegular
<1>5. CASE /\ get_current_interval(e) # i /\ ~(i < MinutesPerHour)
           /\ ~(i < MinutesPerDay) /\ i = MinutesPerWeek
  <2>1. PICK dow \in randint(0, 6) : f = Weekly(e.m, e.h, dow)
    BY <1>5 DEF update_cron_expression
  <2>2. QED
    BY <1>1, <2>1, WeeklyRegular
<1>6. CASE /\ get_current_interval(e) # i /\ ~(i < MinutesPerHour)
           /\ ~(i < MinutesPerDay) /\ i # MinutesPerWeek
  <2> DEFINE step == i \div MinutesPerDay
  <2>1. f = Daily(e.m, e.h, 1, step)
    BY <1>6 DEF update_cron_expression
  <2>2. step \in 1..31
    BY <1>1, <1>6, AdjustedParts, MinutesAre
  <2> HIDE DEF step
  <2>3. 1 \in 1..31
    OBVIOUS
  <2>4. QED
    BY <1>1, <2>1, <2>2, <2>3, DailyRegular
<1>7. QED
  BY <1>2, <1>3, <1>4, <1>5, <1>6

(***************************************************************************)
(* The steps of the handler.                                               *)
(***************************************************************************)
Inv ==
  /\ TypeOK
  /\ \A t \in Things : job[t] # None => Regular(job[t])

LEMMA SyncParts ==
  ASSUME NEW c \in Config, SyncOf(c) # None
  PROVE  /\ SyncOf(c) \in Sync
         /\ SyncOf(c).interval \in Intervals /\ SyncOf(c).enabled \in BOOLEAN
<1>1. SyncOf(c) \in Sync
  BY DEF Config, SyncOf
<1>2. QED
  BY <1>1 DEF Sync

\* A regular expression is set.
LEMMA ApplyInv ==
  ASSUME Inv, NEW t \in Things, SyncOf(conf[t]) # None,
         NEW e, Regular(e), Apply(t, e)
  PROVE  Inv'
<1>1. conf[t] \in Config
  BY DEF Inv, TypeOK
<1>2. SyncOf(conf[t]) \in Sync /\ SyncOf(conf[t]).enabled \in BOOLEAN
  BY <1>1, SyncParts
<1>3. e \in Expr /\ e # None
  BY CronAssumption DEF Regular
<1>4. conf' \in [Things -> Config]
  BY DEF Apply, Inv, TypeOK
<1>5. job' \in [Things -> Expr \cup {None}]
  BY <1>3 DEF Apply, Inv, TypeOK
<1>6. enabled' \in [Things -> BOOLEAN]
  BY <1>2 DEF Apply, Inv, TypeOK
<1>7. applied' \in [Things -> Sync \cup {None}]
  BY <1>2 DEF Apply, Inv, TypeOK
<1>8. \A u \in Things : (job'[u] = None) <=> (applied'[u] = None)
  BY <1>3 DEF Apply, Inv, TypeOK
<1>9. \A u \in Things : job'[u] # None => Regular(job'[u])
  BY DEF Apply, Inv, TypeOK
<1>10. QED
  BY <1>4, <1>5, <1>6, <1>7, <1>8, <1>9 DEF Inv, TypeOK

LEMMA InitInv == Init => Inv
<1>. SUFFICES ASSUME Init PROVE Inv
  OBVIOUS
<1>1. [sftp |-> None, api |-> None] \in Config
  BY DEF Config
<1>2. QED
  BY <1>1 DEF Init, Inv, TypeOK

LEMMA NextInv == Inv /\ [Next]_vars => Inv'
<1>. SUFFICES ASSUME Inv, [Next]_vars PROVE Inv'
  OBVIOUS
<1>1. ASSUME NEW t \in Things, NEW c \in Config, Configure(t, c) PROVE Inv'
  <2>1. conf' \in [Things -> Config]
    BY <1>1 DEF Configure, Inv, TypeOK
  <2>2. UNCHANGED <<job, enabled, applied>>
    BY <1>1 DEF Configure
  <2>3. QED
    BY <2>1, <2>2 DEF Inv, TypeOK
<1>2. ASSUME NEW t \in Things, Create(t) PROVE Inv'
  <2> DEFINE i == adjust_interval(SyncOf(conf[t]).interval)
  <2>1. SyncOf(conf[t]) # None
    BY <1>2 DEF Create
  <2>2. PICK e \in new_schedule(i) : Apply(t, e)
    BY <1>2 DEF Create
  <2>3. i \in Adjusted
    BY <2>1, SyncParts, AdjustedInterval DEF Inv, TypeOK
  <2> HIDE DEF i
  <2>4. Regular(e)
    BY <2>3, NewIsRegular
  <2>5. QED
    BY <2>1, <2>2, <2>4, ApplyInv
<1>3. ASSUME NEW t \in Things, Update(t) PROVE Inv'
  <2> DEFINE i == adjust_interval(SyncOf(conf[t]).interval)
  <2>1. SyncOf(conf[t]) # None /\ job[t] # None
    BY <1>3 DEF Update
  <2>2. PICK e \in update_cron_expression(job[t], i) : Apply(t, e)
    BY <1>3 DEF Update
  <2>3. i \in Adjusted
    BY <2>1, SyncParts, AdjustedInterval DEF Inv, TypeOK
  <2>4. Regular(job[t])
    BY <2>1 DEF Inv
  <2> HIDE DEF i
  <2>5. Regular(e)
    BY <2>3, <2>4, UpdatedIsRegular
  <2>6. QED
    BY <2>1, <2>2, <2>5, ApplyInv
<1>4. ASSUME NEW t \in Things, Ignore(t) PROVE Inv'
  BY <1>4 DEF Ignore, vars, Inv, TypeOK
<1>5. CASE UNCHANGED vars
  BY <1>5 DEF vars, Inv, TypeOK
<1>6. QED
  BY <1>1, <1>2, <1>3, <1>4, <1>5 DEF Next

LEMMA Invariance == Spec => []Inv
  BY InitInv, NextInv, PTL DEF Spec

\* The types of the state: every expression can be written to a crontab.
THEOREM TypeCorrect == Spec => []TypeOK
<1>1. Inv => TypeOK
  BY DEF Inv
<1>2. QED
  BY <1>1, Invariance, PTL

(***************************************************************************)
(* Whatever intervals a thing is given, in whatever order, and whatever is *)
(* drawn: a job that runs more often than daily runs evenly.               *)
(***************************************************************************)
THEOREM JobsRunEvenly == Spec => []RunsEvenly
<1>1. Inv => RunsEvenly
  BY RegularIsEven DEF Inv, RunsEvenly
<1>2. QED
  BY <1>1, Invariance, PTL

(***************************************************************************)
(* There is always something to draw.                                      *)
(***************************************************************************)
LEMMA SomethingDrawn ==
  ASSUME NEW a \in Int, NEW b \in Int, a <= b
  PROVE  a \in randint(a, b)
  BY DEF randint

LEMMA SomeMinute ==
  ASSUME NEW i \in Adjusted
  PROVE  new_base_minute(i) # {}
<1>1. i \in Nat /\ i > 0 /\ ~(30 < i /\ i < 60)
  BY AdjustedParts DEF MinuteSteps
<1>2. AtMost(i - 1, 59) \in Int /\ 0 <= AtMost(i - 1, 59)
  BY <1>1 DEF AtMost
<1>3. new_base_minute(i) = randint(0, AtMost(i - 1, 59))
  BY <1>1 DEF new_base_minute
<1>4. QED
  BY <1>2, <1>3, SomethingDrawn

LEMMA SomeHour ==
  ASSUME NEW i \in Adjusted
  PROVE  new_base_hour(i) # {}
<1>1. i \in Nat
  BY AdjustedParts
<1>2. CASE i < 60
  BY <1>2, MinutesAre DEF new_base_hour
<1>3. CASE 60 <= i
  <2> DEFINE q == i \div 60
  <2>1. q \in Nat /\ 1 <= q
    BY <1>1, <1>3
  <2>2. new_base_hour(i) = randint(0, AtMost(q - 1, 23))
    BY <1>1, <1>3, MinutesAre DEF new_base_hour
  <2> HIDE DEF q
  <2>3. AtMost(q - 1, 23) \in Int /\ 0 <= AtMost(q - 1, 23)
    BY <2>1 DEF AtMost
  <2>4. QED
    BY <2>2, <2>3, SomethingDrawn
<1>4. QED
  BY <1>1, <1>2, <1>3

LEMMA SomeDom ==
  ASSUME NEW i \in Adjusted
  PROVE  new_base_dom(i) # {}
<1>1. i \in Nat
  BY AdjustedParts
<1>2. CASE i < 2 * MinutesPerDay
  BY <1>2 DEF new_base_dom
<1>3. CASE ~(i < 2 * MinutesPerDay)
  <2> DEFINE q == i \div MinutesPerDay
  <2>1. q \in Nat /\ 2 <= q
    BY <1>1, <1>3, MinutesAre
  <2>2. new_base_dom(i) = randint(1, AtMost(q - 1, 28))
    BY <1>3 DEF new_base_dom
  <2> HIDE DEF q
  <2>3. AtMost(q - 1, 28) \in Int /\ 1 <= AtMost(q - 1, 28)
    BY <2>1 DEF AtMost
  <2>4. QED
    BY <2>2, <2>3, SomethingDrawn
<1>4. QED
  BY <1>2, <1>3

LEMMA SomeSchedule ==
  ASSUME NEW i \in Adjusted
  PROVE  new_schedule(i) # {}
<1>1. PICK m \in new_base_minute(i), h \in new_base_hour(i), dom \in new_base_dom(i) : TRUE
  BY SomeMinute, SomeHour, SomeDom
<1>2. 0 \in randint(0, 6)
  BY SomethingDrawn
<1>3. CASE i < MinutesPerHour
  <2>1. Minutely(m, i) \in new_schedule(i)
    BY <1>1, <1>3 DEF new_schedule
  <2>2. QED
    BY <2>1
<1>4. CASE ~(i < MinutesPerHour) /\ i < MinutesPerDay
  <2>1. Hourly(m, h, i \div MinutesPerHour) \in new_schedule(i)
    BY <1>1, <1>4 DEF new_schedule
  <2>2. QED
    BY <2>1
<1>5. CASE ~(i < MinutesPerHour) /\ ~(i < MinutesPerDay) /\ i = MinutesPerWeek
  <2>1. Weekly(m, h, 0) \in new_schedule(i)
    BY <1>1, <1>2, <1>5 DEF new_schedule
  <2>2. QED
    BY <2>1
<1>6. CASE ~(i < MinutesPerHour) /\ ~(i < MinutesPerDay) /\ i # MinutesPerWeek
  <2>1. Daily(m, h, dom, i \div MinutesPerDay) \in new_schedule(i)
    BY <1>1, <1>6 DEF new_schedule
  <2>2. QED
    BY <2>1
<1>7. QED
  BY <1>3, <1>4, <1>5, <1>6

LEMMA SomeUpdate ==
  ASSUME NEW e, NEW i \in Adjusted
  PROVE  update_cron_expression(e, i) # {}
<1>1. 0 \in randint(0, 6)
  BY SomethingDrawn
<1>2. kept_minute(e, i) # {}
  BY SomeMinute DEF kept_minute
<1>3. PICK m \in kept_minute(e, i) : TRUE
  BY <1>2
<1>4. CASE get_current_interval(e) = i
  BY <1>4 DEF update_cron_expression
<1>5. CASE get_current_interval(e) # i /\ i < MinutesPerHour
  <2>1. Minutely(m, i) \in update_cron_expression(e, i)
    BY <1>3, <1>5 DEF update_cron_expression
  <2>2. QED
    BY <2>1
<1>6. CASE get_current_interval(e) # i /\ ~(i < MinutesPerHour) /\ i < MinutesPerDay
  BY <1>6 DEF update_cron_expression
<1>7. CASE /\ get_current_interval(e) # i /\ ~(i < MinutesPerHour)
           /\ ~(i < MinutesPerDay) /\ i = MinutesPerWeek
  <2>1. Weekly(e.m, e.h, 0) \in update_cron_expression(e, i)
    BY <1>1, <1>7 DEF update_cron_expression
  <2>2. QED
    BY <2>1
<1>8. CASE /\ get_current_interval(e) # i /\ ~(i < MinutesPerHour)
           /\ ~(i < MinutesPerDay) /\ i # MinutesPerWeek
  BY <1>8 DEF update_cron_expression
<1>9. QED
  BY <1>4, <1>5, <1>6, <1>7, <1>8

(***************************************************************************)
(* act() finds something to draw for every interval: the limits of randint *)
(* that the handler computes are never the wrong way round.                *)
(***************************************************************************)
THEOREM HandlerNeverRaises == Spec => []NeverRaises
<1>1. Inv => NeverRaises
  <2>1. ASSUME Inv, NEW t \in Things, SyncOf(conf[t]) # None
        PROVE  LET i == adjust_interval(SyncOf(conf[t]).interval)
               IN  IF job[t] = None THEN new_schedule(i) # {}
                   ELSE update_cron_expression(job[t], i) # {}
    <3>1. adjust_interval(SyncOf(conf[t]).interval) \in Adjusted
      BY <2>1, SyncParts, AdjustedInterval DEF Inv, TypeOK
    <3>2. QED
      BY <3>1, SomeSchedule, SomeUpdate
  <2>2. QED
    BY <2>1 DEF NeverRaises
<1>2. QED
  BY <1>1, Invariance, PTL

(***************************************************************************)
(* A job that runs as configured.  get_current_interval measures a job by  *)
(* two of its runs.  With a step of less than 16 days these two are in one *)
(* month and the measure is right; with 16 days or more it is not: a job   *)
(* on the days 1 and 17 seems to run every 15 days.  The theorems of this  *)
(* part are therefore about intervals below 16 days, all that are.         *)
(***************************************************************************)
Below16Days == \A i \in Intervals : i < 16 * 1440

\* The days of a schedule that is not a week.
DaySteps == (1..15) \ {7}

\* The intervals below 16 days that an expression can have.
Periods == HourDivisors \cup DayDivisors \cup {10080} \cup {k * 1440 : k \in DaySteps}

\* The minutes between two runs of an expression that runs evenly.
Period(e) ==
  CASE e.kind = "minutes" -> e.step
    [] e.kind = "hours" -> e.step * 60
    [] e.kind = "week" -> 10080
    [] e.kind = "days" -> e.step * 1440

\* An expression whose first two runs are a period apart.
Exact(e) ==
  /\ Regular(e)
  /\ e.kind = "week" => e.step = 0
  /\ e.kind = "days" => e.step \in DaySteps /\ e.d >= 1 /\ (e.d = 1 \/ e.d < e.step)

LEMMA PeriodOf ==
  ASSUME NEW e
  PROVE  /\ e.kind = "minutes" => Period(e) = e.step
         /\ e.kind = "hours" => Period(e) = e.step * 60
         /\ e.kind = "week" => Period(e) = 10080
         /\ e.kind = "days" => Period(e) = e.step * 1440
  BY DEF Period

LEMMA PeriodRange ==
  ASSUME NEW i \in Nat, i < 16 * 1440
  PROVE  adjust_interval(i) \in Periods
<1> DEFINE ai == adjust_interval(i)
           hd == Largest({d \in HourDivisors : d <= i})
           dd == Largest({d \in DayDivisors : d <= i})
           days == (i \div 1440) * 1440
<1>1. ai = IF i = 0 THEN 1
           ELSE IF i <= 60 THEN hd
           ELSE IF i <= 1440 THEN dd
           ELSE IF 10080 <= i /\ i < 8 * 1440 THEN 10080
           ELSE days
  BY MinutesAre DEF adjust_interval
<1>2. 1 <= i /\ i <= 60 => hd \in HourDivisors
  BY HourAdjusted
<1>3. 60 <= i /\ i <= 1440 => dd \in DayDivisors
  BY DayAdjusted
<1> HIDE DEF ai, hd, dd, days
<1>4. CASE i = 0
  <2>1. ai = 1
    BY <1>1, <1>4
  <2>2. QED
    BY <2>1 DEF Periods, HourDivisors, ai
<1>5. CASE 1 <= i /\ i <= 60
  <2>1. ai = hd
    BY <1>1, <1>5
  <2>2. QED
    BY <1>2, <1>5, <2>1 DEF Periods, ai
<1>6. CASE 60 < i /\ i <= 1440
  <2>1. ai = dd
    BY <1>1, <1>6
  <2>2. QED
    BY <1>3, <1>6, <2>1 DEF Periods, ai
<1>7. CASE 10080 <= i /\ i < 8 * 1440
  <2>1. ai = 10080
    BY <1>1, <1>7
  <2>2. QED
    BY <2>1 DEF Periods, ai
<1>8. CASE 1440 < i /\ ~(10080 <= i /\ i < 8 * 1440)
  <2>1. ai = days
    BY <1>1, <1>8
  <2>2. i \div 1440 \in 1..15 /\ i \div 1440 # 7
    BY <1>8
  <2>3. i \div 1440 \in DaySteps
    BY <2>2 DEF DaySteps
  <2>4. \E k \in DaySteps : ai = k * 1440
    BY <2>1, <2>3 DEF days
  <2>5. QED
    BY <2>4 DEF Periods, ai
<1>9. QED
  BY <1>4, <1>5, <1>6, <1>7, <1>8

\* A period by its size.
LEMMA PeriodParts ==
  ASSUME NEW i \in Periods
  PROVE  /\ i \in Nat /\ i > 0 /\ i \in Adjusted
         /\ i < 60 => i \in MinuteSteps
         /\ 60 <= i /\ i < 1440 => i \div 60 \in HourSteps /\ (i \div 60) * 60 = i
         /\ 1440 <= i /\ i # 10080 => i \div 1440 \in DaySteps /\ (i \div 1440) * 1440 = i
<1>1. CASE i \in HourDivisors
  BY <1>1 DEF HourDivisors, MinuteSteps, HourSteps, Adjusted
<1>2. CASE i \in DayDivisors
  BY <1>2 DEF DayDivisors, HourSteps, DaySteps, Adjusted
<1>3. CASE i = 10080
  BY <1>3 DEF Adjusted
<1>4. CASE i \in {k * 1440 : k \in DaySteps}
  <2>1. PICK k \in DaySteps : i = k * 1440
    BY <1>4
  <2>2. k \in 1..15
    BY DEF DaySteps
  <2>3. i \in Nat /\ 1440 <= i /\ i \div 1440 = k
    BY <2>1, <2>2
  <2>4. i \in Adjusted
    BY <2>2, <2>3 DEF Adjusted
  <2>5. QED
    BY <2>1, <2>3, <2>4
<1>5. QED
  BY <1>1, <1>2, <1>3, <1>4 DEF Periods

(***************************************************************************)
(* The first two runs of a job that runs on days.                          *)
(***************************************************************************)
LEMMA SmallestIs ==
  ASSUME NEW S, NEW x \in S, x \in Int, S \subseteq Int, \A y \in S : x <= y
  PROVE  Smallest(S) = x
<1>1. Smallest(S) \in S /\ \A y \in S : Smallest(S) <= y
  BY DEF Smallest
<1>2. Smallest(S) <= x /\ x <= Smallest(S) /\ Smallest(S) \in Int
  BY <1>1
<1> DEFINE s == Smallest(S)
<1> HIDE DEF s
<1>3. s <= x /\ x <= s /\ s \in Int
  BY <1>2 DEF s
<1>4. s = x
  BY <1>3
<1>5. QED
  BY <1>4 DEF s

\* Two days of a month that a step reaches lie a step apart, or more.
LEMMA StepsApart ==
  ASSUME NEW k \in DaySteps, NEW a \in 0..31, NEW b \in 0..31,
         a % k = 0, b % k = 0, a < b
  PROVE  a + k <= b
<1>1. k \in 1..15
  BY DEF DaySteps
<1>2. PICK p \in Int : a = k * p
  <2>1. a = k * (a \div k) /\ a \div k \in Int
    BY <1>1
  <2>2. QED
    BY <2>1
<1>3. PICK q \in Int : b = k * q
  <2>1. b = k * (b \div k) /\ b \div k \in Int
    BY <1>1
  <2>2. QED
    BY <2>1
<1>4. p < q
  BY <1>1, <1>2, <1>3
<1>5. k * (p + 1) <= k * q
  BY <1>1, <1>4
<1>6. k * (p + 1) = a + k
  BY <1>1, <1>2
<1>7. QED
  BY <1>3, <1>5, <1>6

LEMMA DayOfMonthIs ==
  ASSUME NEW x \in Int
  PROVE  /\ DayOfMonth(x) \in Int
         /\ x <= 31 => DayOfMonth(x) = x
  BY DEF DayOfMonth

\* From the second of January on: the first run, and the one after it.
LEMMA FirstRuns ==
  ASSUME NEW e, Exact(e), e.kind = "days", NEW n, n = IF e.d = 1 THEN 1 + e.step ELSE e.d
  PROVE  Smallest(RunDays(e)) = n /\ Smallest(RunDays(e) \ {n}) = n + e.step
<1> DEFINE k == e.step
           b == e.d
           S == RunDays(e)
           T == S \ {n}
<1>1. k \in DaySteps /\ k \in 1..15
  BY DEF Exact, DaySteps
<1>2. b \in 1..31 /\ (b = 1 \/ b < k)
  BY DEF Exact, Regular, Expr
<1>3. S = {x \in 2..91 : DayOfMonth(x) >= b /\ (DayOfMonth(x) - b) % k = 0}
  BY DEF RunDays
<1>4. n = IF b = 1 THEN 1 + k ELSE b
  OBVIOUS
<1> HIDE DEF k, b, S, T
<1>5. n \in 2..16 /\ n + k \in 2..31 /\ b <= n
  BY <1>1, <1>2, <1>4
<1>6. (n - b) % k = 0 /\ (n + k - b) % k = 0
  <2>1. CASE b = 1
    <3>1. n - b = k /\ n + k - b = 2 * k
      BY <1>1, <1>4, <2>1
    <3>2. k % k = 0 /\ (2 * k) % k = 0
      BY <1>1
    <3>3. QED
      BY <3>1, <3>2
  <2>2. CASE b # 1
    <3>1. n - b = 0 /\ n + k - b = k
      BY <1>1, <1>2, <1>4, <2>2
    <3>2. k % k = 0 /\ 0 % k = 0
      BY <1>1
    <3>3. QED
      BY <3>1, <3>2
  <2>3. QED
    BY <2>1, <2>2
<1>7. DayOfMonth(n) = n /\ DayOfMonth(n + k) = n + k
  BY <1>1, <1>5, DayOfMonthIs
<1>8. n \in S
  <2>1. n \in 2..91 /\ DayOfMonth(n) >= b /\ (DayOfMonth(n) - b) % k = 0
    BY <1>2, <1>5, <1>6, <1>7
  <2>2. QED
    BY <1>3, <2>1
<1>9. n + k \in S
  <2>1. n + k \in 2..91 /\ DayOfMonth(n + k) >= b
    BY <1>1, <1>2, <1>5, <1>7
  <2>2. DayOfMonth(n + k) - b = n + k - b
    BY <1>1, <1>2, <1>5, <1>7
  <2>3. (DayOfMonth(n + k) - b) % k = 0
    BY <1>6, <2>2
  <2>4. QED
    BY <1>3, <2>1, <2>3
<1>10. ASSUME NEW y \in S, y <= 31 PROVE y \in 2..31 /\ y >= b /\ (y - b) % k = 0
  <2>1. y \in 2..91 /\ DayOfMonth(y) >= b /\ (DayOfMonth(y) - b) % k = 0
    BY <1>3
  <2>2. DayOfMonth(y) = y
    BY <1>10, <2>1, DayOfMonthIs
  <2>3. QED
    BY <1>10, <2>1, <2>2
<1>11. S \subseteq Int
  BY <1>3
<1>12. ASSUME NEW y \in S PROVE n <= y
  <2>1. CASE y <= 31
    <3>1. y \in 2..31 /\ y >= b /\ (y - b) % k = 0
      BY <1>10, <2>1
    <3>2. CASE b = 1
      <4>1. 0 % k = 0 /\ 0 \in 0..31 /\ y - b \in 0..31 /\ 0 < y - b
        BY <1>1, <3>1, <3>2
      <4>2. 0 + k <= y - b
        BY <1>1, <3>1, <4>1, StepsApart
      <4>3. QED
        BY <1>1, <1>4, <3>1, <3>2, <4>2
    <3>3. CASE b # 1
      BY <1>4, <3>1, <3>3
    <3>4. QED
      BY <3>2, <3>3
  <2>2. CASE ~(y <= 31)
    BY <1>5, <1>11, <2>2
  <2>3. QED
    BY <2>1, <2>2
<1>13. Smallest(S) = n
  BY <1>5, <1>8, <1>11, <1>12, SmallestIs
<1>14. ASSUME NEW y \in T PROVE n + k <= y
  <2>1. y \in S /\ y # n /\ y \in Int
    BY <1>11 DEF T
  <2>2. n < y
    BY <1>5, <1>12, <2>1
  <2>3. CASE y <= 31
    <3>1. y \in 2..31 /\ y >= b /\ (y - b) % k = 0
      BY <1>10, <2>1, <2>3
    <3>2. n - b \in 0..31 /\ y - b \in 0..31 /\ n - b < y - b
      BY <1>2, <1>5, <2>2, <3>1
    <3>3. (n - b) + k <= y - b
      BY <1>1, <1>6, <3>1, <3>2, StepsApart
    <3>4. QED
      BY <1>1, <1>2, <1>5, <3>1, <3>3
  <2>4. CASE ~(y <= 31)
    BY <1>5, <2>1, <2>4
  <2>5. QED
    BY <2>3, <2>4
<1>15. n + k \in T /\ n + k \in Int /\ T \subseteq Int
  <2>1. n + k # n /\ n + k \in Int
    BY <1>1, <1>5
  <2>2. QED
    BY <1>9, <1>11, <2>1 DEF T
<1>16. Smallest(T) = n + k
  BY <1>14, <1>15, SmallestIs
<1>17. QED
  BY <1>13, <1>16 DEF S, T, k

(***************************************************************************)
(* get_current_interval measures an exact expression right.                *)
(***************************************************************************)
LEMMA Measured ==
  ASSUME NEW e, Exact(e)
  PROVE  get_current_interval(e) = Period(e)
<1>1. e \in Expr /\ e.kind \in Kinds /\ e.m \in 0..59 /\ e.h \in 0..23 /\ e.step \in 0..31
  BY DEF Exact, Regular, Expr
<1>2. CASE e.kind = "minutes"
  <2>1. e.step \in MinuteSteps /\ e.m < e.step
    BY <1>2 DEF Exact, Regular
  <2>2. e.m + e.step <= 59
    BY <1>1, <2>1 DEF MinuteSteps
  <2>3. QED
    BY <1>2, <2>2, PeriodOf DEF get_current_interval
<1>3. CASE e.kind = "hours"
  <2>1. e.step \in HourSteps /\ e.h < e.step
    BY <1>3 DEF Exact, Regular
  <2>2. e.h + e.step <= 23
    BY <1>1, <2>1 DEF HourSteps
  <2>3. get_current_interval(e) = e.step * MinutesPerHour
    BY <1>3, <2>2 DEF get_current_interval
  <2>4. QED
    BY <1>3, <2>3, PeriodOf, MinutesAre
<1>4. CASE e.kind = "week"
  BY <1>4, PeriodOf, MinutesAre DEF get_current_interval
<1>5. CASE e.kind = "days"
  <2> DEFINE n == IF e.d = 1 THEN 1 + e.step ELSE e.d
  <2>1. n \in Int
    BY DEF Exact, Regular, Expr
  <2> HIDE DEF n
  <2>2. Smallest(RunDays(e)) = n /\ Smallest(RunDays(e) \ {n}) = n + e.step
    BY <1>5, FirstRuns DEF n
  <2>3. get_current_interval(e) = ((n + e.step) - n) * MinutesPerDay
    BY <1>5, <2>2 DEF get_current_interval
  <2>4. (n + e.step) - n = e.step
    BY <1>1, <2>1
  <2>5. QED
    BY <1>5, <2>3, <2>4, PeriodOf, MinutesAre
<1>6. QED
  BY <1>1, <1>2, <1>3, <1>4, <1>5 DEF Kinds

\* Its kind and step are those that its period means.
LEMMA PeriodMeans ==
  ASSUME NEW e, Exact(e)
  PROVE  <<e.kind, e.step>> = Meant(Period(e))
<1>1. e.kind \in Kinds
  BY DEF Exact, Regular, Expr
<1>2. CASE e.kind = "minutes"
  <2>1. e.step \in MinuteSteps
    BY <1>2 DEF Exact, Regular
  <2>2. e.step < MinutesPerHour
    BY <2>1, MinutesAre DEF MinuteSteps
  <2>3. QED
    BY <1>2, <2>2, PeriodOf DEF Meant
<1>3. CASE e.kind = "hours"
  <2> DEFINE i == Period(e)
  <2>1. e.step \in HourSteps /\ i = e.step * 60
    BY <1>3, PeriodOf DEF Exact, Regular
  <2> HIDE DEF i
  <2>2. i \in Nat /\ ~(i < 60) /\ i < 1440 /\ i \div 60 = e.step
    <3>1. e.step \in 1..12
      BY <2>1 DEF HourSteps
    <3>2. PICK k \in 1..12 : e.step = k /\ i = k * 60
      BY <2>1, <3>1
    <3>3. i \in Nat /\ ~(i < 60) /\ i < 1440 /\ i \div 60 = k
      BY <3>2
    <3>4. QED
      BY <3>2, <3>3
  <2>3. ~(i < MinutesPerHour) /\ i < MinutesPerDay /\ i \div MinutesPerHour = e.step
    BY <2>2, MinutesAre
  <2>4. Meant(i) = <<"hours", i \div MinutesPerHour>>
    BY <2>3 DEF Meant
  <2>5. QED
    BY <1>3, <2>3, <2>4 DEF i
<1>4. CASE e.kind = "week"
  <2>1. e.step = 0 /\ Period(e) = 10080
    BY <1>4, PeriodOf DEF Exact
  <2>2. ~(10080 < MinutesPerHour) /\ ~(10080 < MinutesPerDay) /\ 10080 = MinutesPerWeek
    BY MinutesAre
  <2>3. QED
    BY <1>4, <2>1, <2>2 DEF Meant
<1>5. CASE e.kind = "days"
  <2> DEFINE i == Period(e)
  <2>1. e.step \in DaySteps /\ i = e.step * 1440
    BY <1>5, PeriodOf DEF Exact
  <2> HIDE DEF i
  <2>2. /\ ~(i < MinutesPerHour) /\ ~(i < MinutesPerDay) /\ i # MinutesPerWeek
        /\ i \div MinutesPerDay = e.step
    BY <2>1, MinutesAre DEF DaySteps
  <2>3. Meant(i) = <<"days", i \div MinutesPerDay>>
    BY <2>2 DEF Meant
  <2>4. QED
    BY <1>5, <2>2, <2>3 DEF i
<1>6. QED
  BY <1>1, <1>2, <1>3, <1>4, <1>5 DEF Kinds

(***************************************************************************)
(* What the handler makes of a period is exact and has this period.        *)
(***************************************************************************)
LEMMA NewHasPeriod ==
  ASSUME NEW i \in Periods, NEW e \in new_schedule(i)
  PROVE  Exact(e) /\ Period(e) = i
<1>1. i \in Nat /\ i > 0 /\ i \in Adjusted
  BY PeriodParts
<1>2. Regular(e)
  BY <1>1, NewIsRegular
<1>3. CASE i < MinutesPerHour
  <2>1. PICK m \in new_base_minute(i) : e = Minutely(m, i)
    BY <1>3 DEF new_schedule
  <2>2. e.kind = "minutes" /\ e.step = i
    BY <2>1 DEF Minutely
  <2>3. QED
    BY <1>2, <2>2, PeriodOf DEF Exact
<1>4. CASE ~(i < MinutesPerHour) /\ i < MinutesPerDay
  <2>1. PICK m \in new_base_minute(i), h \in new_base_hour(i) :
          e = Hourly(m, h, i \div MinutesPerHour)
    BY <1>4 DEF new_schedule
  <2>2. e.kind = "hours" /\ e.step = i \div 60
    BY <2>1, MinutesAre DEF Hourly
  <2>3. (i \div 60) * 60 = i
    BY <1>1, <1>4, PeriodParts, MinutesAre
  <2>4. QED
    BY <1>2, <2>2, <2>3, PeriodOf DEF Exact
<1>5. CASE ~(i < MinutesPerHour) /\ ~(i < MinutesPerDay) /\ i = MinutesPerWeek
  <2>1. PICK m \in new_base_minute(i), h \in new_base_hour(i), dow \in randint(0, 6) :
          e = Weekly(m, h, dow)
    BY <1>5 DEF new_schedule
  <2>2. e.kind = "week" /\ e.step = 0
    BY <2>1 DEF Weekly
  <2>3. QED
    BY <1>2, <1>5, <2>2, PeriodOf, MinutesAre DEF Exact
<1>6. CASE ~(i < MinutesPerHour) /\ ~(i < MinutesPerDay) /\ i # MinutesPerWeek
  <2> DEFINE step == i \div 1440
  <2>1. PICK m \in new_base_minute(i), h \in new_base_hour(i), dom \in new_base_dom(i) :
          e = Daily(m, h, dom, step)
    BY <1>6, MinutesAre DEF new_schedule
  <2>2. e.kind = "days" /\ e.step = step /\ e.d = dom
    BY <2>1 DEF Daily
  <2>3. step \in DaySteps /\ step * 1440 = i
    BY <1>1, <1>6, PeriodParts, MinutesAre
  <2>4. dom >= 1 /\ (dom = 1 \/ dom < step)
    <3>1. CASE i < 2 * MinutesPerDay
      BY <3>1 DEF new_base_dom
    <3>2. CASE ~(i < 2 * MinutesPerDay)
      <4>1. dom \in randint(1, AtMost(step - 1, 28))
        BY <3>2, MinutesAre DEF new_base_dom
      <4>2. step \in 1..15
        BY <2>3 DEF DaySteps
      <4> HIDE DEF step
      <4>3. AtMost(step - 1, 28) = step - 1 /\ step - 1 \in Int
        BY <4>2 DEF AtMost
      <4>4. dom \in Int /\ 1 <= dom /\ dom <= step - 1
        BY <4>1, <4>3, Drawn
      <4>5. QED
        BY <4>2, <4>4
    <3>3. QED
      BY <3>1, <3>2
  <2> HIDE DEF step
  <2>5. QED
    BY <1>2, <2>2, <2>3, <2>4, PeriodOf DEF Exact
<1>7. QED
  BY <1>3, <1>4, <1>5, <1>6

LEMMA UpdatedHasPeriod ==
  ASSUME NEW e, Exact(e), NEW i \in Periods, NEW f \in update_cron_expression(e, i)
  PROVE  Exact(f) /\ Period(f) = i
<1>1. i \in Nat /\ i > 0 /\ i \in Adjusted
  BY PeriodParts
<1>2. Regular(f)
  BY <1>1, UpdatedIsRegular DEF Exact
<1>3. CASE get_current_interval(e) = i
  <2>1. f = e
    BY <1>3 DEF update_cron_expression
  <2>2. QED
    BY <1>3, <2>1, Measured
<1>4. CASE get_current_interval(e) # i /\ i < MinutesPerHour
  <2>1. PICK m \in kept_minute(e, i) : f = Minutely(m, i)
    BY <1>4 DEF update_cron_expression
  <2>2. f.kind = "minutes" /\ f.step = i
    BY <2>1 DEF Minutely
  <2>3. QED
    BY <1>2, <2>2, PeriodOf DEF Exact
<1>5. CASE get_current_interval(e) # i /\ ~(i < MinutesPerHour) /\ i < MinutesPerDay
  <2>1. f = Hourly(e.m, 0, i \div MinutesPerHour)
    BY <1>5 DEF update_cron_expression
  <2>2. f.kind = "hours" /\ f.step = i \div 60
    BY <2>1, MinutesAre DEF Hourly
  <2>3. (i \div 60) * 60 = i
    BY <1>1, <1>5, PeriodParts, MinutesAre
  <2>4. QED
    BY <1>2, <2>2, <2>3, PeriodOf DEF Exact
<1>6. CASE /\ get_current_interval(e) # i /\ ~(i < MinutesPerHour)
           /\ ~(i < MinutesPerDay) /\ i = MinutesPerWeek
  <2>1. PICK dow \in randint(0, 6) : f = Weekly(e.m, e.h, dow)
    BY <1>6 DEF update_cron_expression
  <2>2. f.kind = "week" /\ f.step = 0
    BY <2>1 DEF Weekly
  <2>3. QED
    BY <1>2, <1>6, <2>2, PeriodOf, MinutesAre DEF Exact
<1>7. CASE /\ get_current_interval(e) # i /\ ~(i < MinutesPerHour)
           /\ ~(i < MinutesPerDay) /\ i # MinutesPerWeek
  <2> DEFINE step == i \div 1440
  <2>1. f = Daily(e.m, e.h, 1, step)
    BY <1>7, MinutesAre DEF update_cron_expression
  <2>2. f.kind = "days" /\ f.step = step /\ f.d = 1
    BY <2>1 DEF Daily
  <2>3. step \in DaySteps /\ step * 1440 = i
    BY <1>1, <1>7, PeriodParts, MinutesAre
  <2> HIDE DEF step
  <2>4. QED
    BY <1>2, <2>2, <2>3, PeriodOf DEF Exact
<1>8. QED
  BY <1>3, <1>4, <1>5, <1>6, <1>7

(***************************************************************************)
(* Every job is exact, has the period that its configuration means and is  *)
(* enabled as that says.                                                   *)
(***************************************************************************)
PeriodInv ==
  /\ Inv
  /\ \A t \in Things : job[t] # None =>
       /\ Exact(job[t])
       /\ Period(job[t]) = adjust_interval(applied[t].interval)
       /\ enabled[t] = applied[t].enabled

LEMMA ApplyPeriod ==
  ASSUME PeriodInv, Inv', NEW t \in Things, NEW e, Exact(e),
         Period(e) = adjust_interval(SyncOf(conf[t]).interval), Apply(t, e)
  PROVE  PeriodInv'
<1>1. \A u \in Things : /\ job'[u] = IF u = t THEN e ELSE job[u]
                        /\ enabled'[u] = IF u = t THEN SyncOf(conf[t]).enabled ELSE enabled[u]
                        /\ applied'[u] = IF u = t THEN SyncOf(conf[t]) ELSE applied[u]
  BY DEF Apply, PeriodInv, Inv, TypeOK
<1>2. ASSUME NEW u \in Things, job'[u] # None
      PROVE  /\ Exact(job'[u])
             /\ Period(job'[u]) = adjust_interval(applied'[u].interval)
             /\ enabled'[u] = applied'[u].enabled
  <2>1. CASE u = t
    BY <1>1, <2>1
  <2>2. CASE u # t
    BY <1>1, <1>2, <2>2 DEF PeriodInv
  <2>3. QED
    BY <2>1, <2>2
<1>3. QED
  BY <1>2 DEF PeriodInv

LEMMA NextPeriod ==
  ASSUME Below16Days
  PROVE  PeriodInv /\ [Next]_vars => PeriodInv'
<1>. SUFFICES ASSUME PeriodInv, [Next]_vars PROVE PeriodInv'
  OBVIOUS
<1>1. Inv'
  BY NextInv DEF PeriodInv
<1>2. ASSUME NEW t \in Things, SyncOf(conf[t]) # None
      PROVE  adjust_interval(SyncOf(conf[t]).interval) \in Periods
  <2>1. SyncOf(conf[t]).interval \in Intervals
    BY <1>2, SyncParts DEF PeriodInv, Inv, TypeOK
  <2>2. SyncOf(conf[t]).interval \in Nat /\ SyncOf(conf[t]).interval < 16 * 1440
    BY <2>1, CronAssumption DEF Below16Days
  <2>3. QED
    BY <2>2, PeriodRange
<1>3. ASSUME UNCHANGED <<job, enabled, applied>> PROVE PeriodInv'
  BY <1>1, <1>3 DEF PeriodInv
<1>4. ASSUME NEW t \in Things, NEW c \in Config, Configure(t, c) PROVE PeriodInv'
  BY <1>3, <1>4 DEF Configure
<1>5. ASSUME NEW t \in Things, Create(t) PROVE PeriodInv'
  <2> DEFINE i == adjust_interval(SyncOf(conf[t]).interval)
  <2>1. i \in Periods
    BY <1>2, <1>5 DEF Create
  <2>2. PICK e \in new_schedule(i) : Apply(t, e)
    BY <1>5 DEF Create
  <2>3. Exact(e) /\ Period(e) = i
    BY <2>1, NewHasPeriod
  <2>4. QED
    BY <1>1, <2>2, <2>3, ApplyPeriod
<1>6. ASSUME NEW t \in Things, Update(t) PROVE PeriodInv'
  <2> DEFINE i == adjust_interval(SyncOf(conf[t]).interval)
  <2>1. i \in Periods
    BY <1>2, <1>6 DEF Update
  <2>2. PICK e \in update_cron_expression(job[t], i) : Apply(t, e)
    BY <1>6 DEF Update
  <2>3. Exact(job[t])
    BY <1>6 DEF Update, PeriodInv
  <2>4. Exact(e) /\ Period(e) = i
    BY <2>1, <2>3, UpdatedHasPeriod
  <2>5. QED
    BY <1>1, <2>2, <2>4, ApplyPeriod
<1>7. ASSUME NEW t \in Things, Ignore(t) PROVE PeriodInv'
  BY <1>3, <1>7 DEF Ignore, vars
<1>8. CASE UNCHANGED vars
  BY <1>3, <1>8 DEF vars
<1>9. QED
  BY <1>4, <1>5, <1>6, <1>7, <1>8 DEF Next

LEMMA InitPeriod == Init => PeriodInv
  BY InitInv DEF Init, PeriodInv

(***************************************************************************)
(* However often a thing is configured anew, with whatever intervals below *)
(* 16 days: its job runs in the interval it was last set up with and is    *)
(* enabled as its section says.  That the handler leaves a job alone whose *)
(* measured interval is the one asked for is therefore right.              *)
(***************************************************************************)
THEOREM JobsRunAsConfigured ==
  ASSUME Below16Days
  PROVE  Spec => []JobAsConfigured
<1>1. PeriodInv => JobAsConfigured
  <2>1. ASSUME PeriodInv, NEW t \in Things, job[t] # None
        PROVE  /\ enabled[t] = applied[t].enabled
               /\ <<job[t].kind, job[t].step>> = Meant(adjust_interval(applied[t].interval))
    <3>1. /\ Exact(job[t]) /\ enabled[t] = applied[t].enabled
          /\ Period(job[t]) = adjust_interval(applied[t].interval)
      BY <2>1 DEF PeriodInv
    <3>2. <<job[t].kind, job[t].step>> = Meant(Period(job[t]))
      BY <3>1, PeriodMeans
    <3>3. QED
      BY <3>1, <3>2
  <2>2. QED
    BY <2>1 DEF JobAsConfigured
<1>2. PeriodInv /\ [Next]_vars => PeriodInv'
  BY NextPeriod
<1>3. QED
  BY <1>1, <1>2, InitPeriod, PTL DEF Spec

(***************************************************************************)
(* Setting a thing up again with an interval below 16 days that means the  *)
(* same never moves its job, although the handler draws times at random.   *)
(***************************************************************************)
THEOREM JobsStay ==
  ASSUME Below16Days
  PROVE  Spec => StableSchedule
<1> DEFINE Stay(t) == (/\ job[t] # None
                       /\ adjust_interval(applied'[t].interval) = adjust_interval(applied[t].interval))
                      => job'[t] = job[t]
<1>1. PeriodInv /\ [Next]_vars
        => [\A t \in Things :
              (job[t] # None /\
               adjust_interval(applied'[t].interval) = adjust_interval(applied[t].interval))
                => job'[t] = job[t]]_vars
  <2>. SUFFICES ASSUME PeriodInv, [Next]_vars PROVE [\A t \in Things : Stay(t)]_vars
    OBVIOUS
  <2>1. ASSUME NEW t \in Things, NEW c \in Config, Configure(t, c)
        PROVE  \A u \in Things : Stay(u)
    BY <2>1 DEF Configure
  <2>2. ASSUME NEW t \in Things, NEW e, Apply(t, e), NEW u \in Things, u # t
        PROVE  job'[u] = job[u]
    BY <2>2 DEF Apply, PeriodInv, Inv, TypeOK
  <2>3. ASSUME NEW t \in Things, Create(t)
        PROVE  \A u \in Things : Stay(u)
    BY <2>2, <2>3 DEF Create
  <2>4. ASSUME NEW t \in Things, Update(t), NEW u \in Things PROVE Stay(u)
    <3> DEFINE i == adjust_interval(SyncOf(conf[t]).interval)
    <3>1. PICK e \in update_cron_expression(job[t], i) : Apply(t, e)
      BY <2>4 DEF Update
    <3>2. CASE u # t
      BY <2>2, <3>1, <3>2
    <3>3. CASE u = t
      <4>1. job'[t] = e /\ adjust_interval(applied'[t].interval) = i
        BY <3>1 DEF Apply, PeriodInv, Inv, TypeOK
      <4>2. ASSUME i = adjust_interval(applied[t].interval) PROVE job'[t] = job[t]
        <5>1. get_current_interval(job[t]) = i
          BY <2>4, <4>2, Measured DEF Update, PeriodInv
        <5>2. QED
          BY <3>1, <4>1, <5>1 DEF update_cron_expression
      <4>3. QED
        BY <3>3, <4>1, <4>2
    <3>4. QED
      BY <3>2, <3>3
  <2>5. ASSUME NEW t \in Things, Ignore(t) PROVE UNCHANGED vars
    BY <2>5 DEF Ignore
  <2>6. CASE Next
    BY <2>1, <2>3, <2>4, <2>5, <2>6 DEF Next
  <2>7. CASE UNCHANGED vars
    BY <2>7
  <2>8. QED
    BY <2>6, <2>7
<1>2. PeriodInv /\ [Next]_vars => PeriodInv'
  BY NextPeriod
<1>3. QED
  BY <1>1, <1>2, InitPeriod, PTL DEF Spec, StableSchedule
=============================================================================
