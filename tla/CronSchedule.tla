---------------------------- MODULE CronSchedule ----------------------------
(***************************************************************************)
(* The crontab of the synchronisations and the handler that keeps it:      *)
(* setup_crontab.py.  A thing with an external sFTP or API has a cron job  *)
(* that its uuid identifies; the schedule is drawn at random when the job  *)
(* is new and adapted when the interval of the thing changes.              *)
(*                                                                         *)
(* A cron expression is one of the four forms the handler writes:          *)
(*   "minutes"   m-59/step * * * *                                         *)
(*   "hours"     m h-23/step * * *                                         *)
(*   "week"      m h * * d                                                 *)
(*   "days"      m h d-31/step * *                                         *)
(* where a range that starts at its first value is also written "*".       *)
(***************************************************************************)
EXTENDS Integers, FiniteSets

CONSTANTS
  Things,
  Intervals,   \* sync_interval: the minutes a user may ask for
  Samples,     \* bound: what randint draws besides its two limits
  None

MinutesPerHour == 60
MinutesPerDay == 60 * 24
MinutesPerWeek == 60 * 24 * 7

Sync == [interval : Intervals, enabled : BOOLEAN]
Config == [sftp : Sync \cup {None}, api : Sync \cup {None}]
Kinds == {"minutes", "hours", "week", "days"}
Expr == [kind : Kinds, m : 0..59, h : 0..23, d : 0..31, step : 0..31]

\* The step of a day-of-month field may not be larger than 31.
ASSUME CronAssumption ==
  /\ \A i \in Intervals : i \in Nat /\ i \div MinutesPerDay <= 31
  /\ Samples \subseteq Nat
  /\ None \notin Expr

VARIABLES
  conf,     \* the thing in config_db
  job,      \* its expression in the crontab, or None
  enabled,  \* its job is enabled
  applied   \* history: the configuration its job was last set up with, or None

vars == <<conf, job, enabled, applied>>

TypeOK ==
  /\ conf \in [Things -> Config]
  /\ job \in [Things -> Expr \cup {None}]
  /\ enabled \in [Things -> BOOLEAN]
  /\ applied \in [Things -> Sync \cup {None}]
  /\ \A t \in Things : job[t] = None <=> applied[t] = None
-----------------------------------------------------------------------------
\* The largest element of a set of numbers.
Largest(S) == CHOOSE x \in S : \A y \in S : y <= x

HourDivisors == {1, 2, 3, 4, 5, 6, 10, 12, 15, 20, 30, 60}
DayDivisors == {60, 120, 180, 240, 360, 480, 720, 1440}

\* Variant of adjust_interval: intervals below an hour are taken as they are.
adjust_interval_Plain(i) ==
  IF i = 0 THEN 1
  ELSE IF i <= MinutesPerHour THEN i
  ELSE IF i <= MinutesPerDay THEN Largest({d \in DayDivisors : d <= i})
  ELSE IF MinutesPerWeek <= i /\ i < 8 * MinutesPerDay THEN MinutesPerWeek
  ELSE (i \div MinutesPerDay) * MinutesPerDay

adjust_interval(i) ==
  IF i = 0 THEN 1
  ELSE IF i <= MinutesPerHour THEN Largest({d \in HourDivisors : d <= i})
  ELSE IF i <= MinutesPerDay THEN Largest({d \in DayDivisors : d <= i})
  ELSE IF MinutesPerWeek <= i /\ i < 8 * MinutesPerDay THEN MinutesPerWeek
  ELSE (i \div MinutesPerDay) * MinutesPerDay

\* randint(a, b), which raises if b < a.
randint(a, b) == IF b < a THEN {} ELSE {a, b} \cup {x \in Samples : a <= x /\ x <= b}

AtMost(a, b) == IF a <= b THEN a ELSE b

new_base_minute(i) ==
  IF i = 0 THEN {0}
  ELSE IF 30 < i /\ i < 60 THEN randint(0, (60 % i) - 1)
  ELSE randint(0, AtMost(i - 1, 59))

new_base_hour(i) ==
  IF i < MinutesPerHour THEN {0}
  ELSE randint(0, AtMost(i \div MinutesPerHour - 1, 23))

\* Variant of new_base_dom: the day is drawn for every interval.
new_base_dom_Always(i) == randint(1, AtMost(i \div MinutesPerDay - 1, 28))

new_base_dom(i) ==
  IF i < 2 * MinutesPerDay THEN {1}
  ELSE randint(1, AtMost(i \div MinutesPerDay - 1, 28))

Minutely(m, step) == [kind |-> "minutes", m |-> m, h |-> 0, d |-> 1, step |-> step]
Hourly(m, h, step) == [kind |-> "hours", m |-> m, h |-> h, d |-> 1, step |-> step]
Weekly(m, h, dow) == [kind |-> "week", m |-> m, h |-> h, d |-> dow, step |-> 0]
Daily(m, h, dom, step) == [kind |-> "days", m |-> m, h |-> h, d |-> dom, step |-> step]

\* The expressions new_schedule may return; i is adjusted.
new_schedule(i) ==
  IF i < MinutesPerHour THEN {Minutely(m, i) : m \in new_base_minute(i)}
  ELSE IF i < MinutesPerDay
    THEN {Hourly(m, h, i \div MinutesPerHour) :
            m \in new_base_minute(i), h \in new_base_hour(i)}
  ELSE IF i = MinutesPerWeek
    THEN {Weekly(m, h, dow) :
            m \in new_base_minute(i), h \in new_base_hour(i), dow \in randint(0, 6)}
  ELSE {Daily(m, h, dom, i \div MinutesPerDay) :
          m \in new_base_minute(i), h \in new_base_hour(i), dom \in new_base_dom(i)}

(***************************************************************************)
(* The days, counted from 1 January 2020, on which e runs in the three     *)
(* months that get_current_interval looks at, without the first.           *)
(***************************************************************************)
DayOfMonth(x) == IF x <= 31 THEN x ELSE IF x <= 60 THEN x - 31 ELSE x - 60
RunDays(e) ==
  {x \in 2..91 : DayOfMonth(x) >= e.d /\ (DayOfMonth(x) - e.d) % e.step = 0}

Smallest(S) == CHOOSE x \in S : \A y \in S : x <= y

\* Variant of get_current_interval: the job is not asked.
get_current_interval_Unknown(e) == 0

\* Minutes between the first two runs after 2020-01-01 23:59:59.
get_current_interval(e) ==
  CASE e.kind = "minutes" -> IF e.m + e.step <= 59 THEN e.step ELSE MinutesPerHour
    [] e.kind = "hours" ->
         IF e.h + e.step <= 23 THEN e.step * MinutesPerHour ELSE MinutesPerDay
    [] e.kind = "week" -> MinutesPerWeek
    [] e.kind = "days" ->
         LET next_run == Smallest(RunDays(e))
         IN  (Smallest(RunDays(e) \ {next_run}) - next_run) * MinutesPerDay

\* Variant of kept_minute: the old minute is kept in any case.
kept_minute_Always(e, i) == {e.m}

\* The base minute of the new expression, drawn anew if it is too late.
kept_minute(e, i) == IF e.m >= i THEN new_base_minute(i) ELSE {e.m}

\* Variant of update_cron_expression: the step may change unnoticed.
update_cron_expression_Coarse(e, i) ==
  IF get_current_interval(e) = i \/ (i < MinutesPerHour /\ e.kind = "minutes") THEN {e}
  ELSE IF i < MinutesPerHour THEN {Minutely(m, i) : m \in kept_minute(e, i)}
  ELSE IF i < MinutesPerDay THEN {Hourly(e.m, 0, i \div MinutesPerHour)}
  ELSE IF i = MinutesPerWeek THEN {Weekly(e.m, e.h, dow) : dow \in randint(0, 6)}
  ELSE {Daily(e.m, e.h, 1, i \div MinutesPerDay)}

\* update_cron_expression; i is adjusted.
update_cron_expression(e, i) ==
  IF get_current_interval(e) = i THEN {e}
  ELSE IF i < MinutesPerHour THEN {Minutely(m, i) : m \in kept_minute(e, i)}
  ELSE IF i < MinutesPerDay THEN {Hourly(e.m, 0, i \div MinutesPerHour)}
  ELSE IF i = MinutesPerWeek THEN {Weekly(e.m, e.h, dow) : dow \in randint(0, 6)}
  ELSE {Daily(e.m, e.h, 1, i \div MinutesPerDay)}
-----------------------------------------------------------------------------
\* The section that counts: external_sftp before external_api.
SyncOf(c) == IF c.sftp # None THEN c.sftp ELSE c.api

\* The configdb-updater stores another configuration.
Configure(t, c) ==
  /\ c # conf[t]
  /\ conf' = [conf EXCEPT ![t] = c]
  /\ UNCHANGED <<job, enabled, applied>>

Apply(t, e) ==
  /\ job' = [job EXCEPT ![t] = e]
  /\ enabled' = [enabled EXCEPT ![t] = SyncOf(conf[t]).enabled]
  /\ applied' = [applied EXCEPT ![t] = SyncOf(conf[t])]
  /\ UNCHANGED conf

\* act() for a thing whose uuid no job carries.
Create(t) ==
  /\ job[t] = None
  /\ SyncOf(conf[t]) # None
  /\ \E e \in new_schedule(adjust_interval(SyncOf(conf[t]).interval)) : Apply(t, e)

\* act() for a thing with a job.
Update(t) ==
  /\ job[t] # None
  /\ SyncOf(conf[t]) # None
  /\ \E e \in update_cron_expression(job[t], adjust_interval(SyncOf(conf[t]).interval)) :
       Apply(t, e)

\* act() for a thing without a sync: apply_job returns "", a job stays.
Ignore(t) ==
  /\ SyncOf(conf[t]) = None
  /\ UNCHANGED vars

Init ==
  /\ conf = [t \in Things |-> [sftp |-> None, api |-> None]]
  /\ job = [t \in Things |-> None]
  /\ enabled = [t \in Things |-> FALSE]
  /\ applied = [t \in Things |-> None]

Next ==
  \E t \in Things :
    (\E c \in Config : Configure(t, c)) \/ Create(t) \/ Update(t) \/ Ignore(t)

Spec == Init /\ [][Next]_vars
-----------------------------------------------------------------------------
(***************************************************************************)
(* Properties.                                                             *)
(***************************************************************************)
FiredMinutes(e) == {x \in 0..59 : x >= e.m /\ (x - e.m) % e.step = 0}
FiredHours(e) == {x \in 0..23 : x >= e.h /\ (x - e.h) % e.step = 0}

\* Runs that are a step apart, also from the end of the round to its start.
Even(fired, round, step) ==
  /\ fired # {}
  /\ \A x \in fired : (x + step) % round \in fired

(***************************************************************************)
(* Below a day a job runs evenly: from hour to hour and from day to day    *)
(* there is no larger and no smaller gap than the step, although cron      *)
(* starts counting anew every hour and every day, and although an update   *)
(* keeps the minute and the hour of the job it changes.                    *)
(***************************************************************************)
RunsEvenly ==
  \A t \in Things : job[t] # None =>
    /\ job[t].kind = "minutes" => Even(FiredMinutes(job[t]), 60, job[t].step)
    /\ job[t].kind = "hours" => Even(FiredHours(job[t]), 24, job[t].step)

\* The kind and step that an adjusted interval means.
Meant(i) ==
  IF i < MinutesPerHour THEN <<"minutes", i>>
  ELSE IF i < MinutesPerDay THEN <<"hours", i \div MinutesPerHour>>
  ELSE IF i = MinutesPerWeek THEN <<"week", 0>>
  ELSE <<"days", i \div MinutesPerDay>>

(***************************************************************************)
(* A job runs in the interval, adjusted, with which it was last set up,    *)
(* and is enabled as its section says: an update that leaves the           *)
(* expression alone does so because it "already encodes the requested      *)
(* periodicity".                                                           *)
(***************************************************************************)
JobAsConfigured ==
  \A t \in Things : job[t] # None =>
    /\ enabled[t] = applied[t].enabled
    /\ <<job[t].kind, job[t].step>> = Meant(adjust_interval(applied[t].interval))

(***************************************************************************)
(* act() never raises: randint always has something to draw.               *)
(***************************************************************************)
NeverRaises ==
  \A t \in Things : SyncOf(conf[t]) # None =>
    LET i == adjust_interval(SyncOf(conf[t]).interval)
    IN  IF job[t] = None THEN new_schedule(i) # {}
        ELSE update_cron_expression(job[t], i) # {}

(***************************************************************************)
(* Setting a thing up again with an interval that means the same does not  *)
(* move its job: "return the original string unchanged".                   *)
(***************************************************************************)
StableSchedule ==
  [][\A t \in Things :
       (job[t] # None /\
        adjust_interval(applied'[t].interval) = adjust_interval(applied[t].interval))
         => job'[t] = job[t]]_vars
=============================================================================
