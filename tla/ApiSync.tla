------------------------------ MODULE ApiSync ------------------------------
(***************************************************************************)
(* The import of observations from the API of a provider                   *)
(* (mqtt_sync_wrapper.py, sync_extapi_manager.py, timeio/ext_api.py).      *)
(*                                                                         *)
(* Every hour a job of cron publishes a run for the thing, with the range  *)
(* of time it is to fetch, which depends on the type of the API.  The      *)
(* worker handles the runs one by one, perhaps much later: it fetches the  *)
(* range, parses it, stores it with an upsert and tells the QC worker.     *)
(*                                                                         *)
(* Time is counted in hours.  Observation h is what the provider measured  *)
(* in the hour before the job of hour h; a late one is offered only later. *)
(***************************************************************************)
EXTENDS Integers, Sequences, FiniteSets

CONSTANTS
  Apis,           \* the types of API to choose from
  HoursPerDay,
  Period,         \* hours: settings["period"] of a bosch API
  Zeros,          \* observations with the value 0
  Horizon, MaxLate, MaxWaiting, MaxApiFaults     \* bounds

ASSUME ApiAssumption ==
  /\ Apis \subseteq {"tsystems", "bosch", "uba", "dwd", "ttn", "nm", "custom"}
  /\ HoursPerDay \in Nat \ {0, 1} /\ Period \in Nat \ {0}
  /\ Zeros \subseteq Nat
  /\ Horizon \in Nat /\ Horizon >= HoursPerDay /\ MaxLate \in Nat /\ MaxWaiting \in Nat /\ MaxApiFaults \in Nat

VARIABLES
  api,            \* ext_api.api_type_name of the thing
  https,          \* whether the endpoint in its settings is one of https
  apiQos,         \* MQTT_QOS of the deployment
  hour,           \* the hour, by the clock
  ran,            \* whether the job of this hour has run
  offered,        \* the observations the provider has so far
  late,           \* history: those that were not there in time
  runs,           \* the queue of the worker, the run in work is its first
  stage, fetched, \* how far the worker is with it, and what it has got of it
  syncer,         \* whether a custom syncer is in the cache of the worker
  stored,         \* the observations in the database
  lost,           \* history: hours whose run was missed, failed or gave up
  raised,         \* history: hours whose run ends the worker each time
  apiFaults       \* bound

apiVars == <<api, https, apiQos, hour, ran, offered, late, runs, stage, fetched,
             syncer, stored, lost, raised, apiFaults>>

First == HoursPerDay      \* the hour of the first job
Hours == 0..Horizon

\* A point in time as the programs write it: the day and the hour of it.
Stamp(h) == [day |-> h \div HoursPerDay, hr |-> h % HoursPerDay]
HourOf(stamp) == stamp.day * HoursPerDay + stamp.hr
Stamps == [day : Int, hr : 0..HoursPerDay]
Run == [from : Stamps, to : Stamps, at : Hours]

ApiTypeOK ==
  /\ api \in Apis /\ https \in BOOLEAN /\ apiQos \in {1, 2}
  /\ hour \in Hours /\ ran \in BOOLEAN
  /\ offered \subseteq Hours /\ late \subseteq Hours
  /\ runs \in Seq(Run)
  /\ stage \in {"idle", "write", "publish"} /\ fetched \subseteq Hours
  /\ syncer \in BOOLEAN
  /\ stored \subseteq Hours /\ lost \subseteq Hours /\ raised \subseteq Hours
  /\ apiFaults \in 0..MaxApiFaults
-----------------------------------------------------------------------------
(***************************************************************************)
(* The ranges of time, as mqtt_sync_wrapper.py writes them.                *)
(***************************************************************************)
Range(from, to) == [from |-> from, to |-> to]

\* A run is published exactly on the hour here.  The code takes the present
\* second: a run that starts a little later after the hour than the one before
\* leaves that little out.
TsystemsTimerange(now) == Range(Stamp(now - 1), Stamp(now))
BoschTimerange(now) == Range(Stamp(now - Period), Stamp(now))

\* From 00:00 to 23:55 of the day before.
DwdTimerange(now) ==
  LET yesterday == Stamp(now).day - 1
  IN  Range([day |-> yesterday, hr |-> 0], [day |-> yesterday, hr |-> HoursPerDay - 1])

\* Midnight is the hour 24 of the day that ends.
UbaStamp(h) ==
  IF h % HoursPerDay = 0 THEN [day |-> h \div HoursPerDay - 1, hr |-> HoursPerDay]
  ELSE Stamp(h)
UbaTimerange(now) == Range(UbaStamp(now - 1), UbaStamp(now))

\* From the newest observation of the thing, or else from the year 2000.
NewestStored == IF stored = {} THEN 0 ELSE CHOOSE h \in stored : \A g \in stored : g <= h
NmTimerange(now) == Range(Stamp(NewestStored), Stamp(now))

DefaultTimerange(now) == Range(Stamp(now - HoursPerDay), Stamp(now))

Timerange(now) ==
  CASE api = "tsystems" -> TsystemsTimerange(now)
    [] api = "bosch" -> BoschTimerange(now)
    [] api \in {"dwd", "ttn"} -> DwdTimerange(now)
    [] api = "uba" -> UbaTimerange(now)
    [] api = "nm" -> NmTimerange(now)
    [] OTHER -> DefaultTimerange(now)
-----------------------------------------------------------------------------
(***************************************************************************)
(* What the syncers of timeio/ext_api.py ask for and make of the answer.   *)
(***************************************************************************)
\* %H of strptime ends at 23.
IsDatetime(stamp) == stamp.hr < HoursPerDay

\* What was measured after the start and until the end, or from the start on.
Between(run) == {h \in offered : HourOf(run.from) < h /\ h <= HourOf(run.to)}
FromTo(run) == {h \in offered : HourOf(run.from) <= h /\ h <= HourOf(run.to)}

\* A value is left out if it is falsy.
Truthy(answer) == answer \ Zeros

BoschObservations(run) == Truthy(Between(run))
TsystemsObservations(run) == Truthy(Between(run))

\* An UBA station is asked by day and hour; midnight is hour 24 in the answer
\* and becomes 00:00 of the next day.
UbaMeasures(run) == FromTo(run)
AdjustDatetime(stamp) ==
  IF stamp.hr = HoursPerDay THEN [day |-> stamp.day + 1, hr |-> 0] ELSE stamp
UbaObservations(run) ==
  {HourOf(AdjustDatetime(UbaStamp(h))) : h \in Truthy(UbaMeasures(run))}

DwdObservations(run) == Truthy(FromTo(run))

\* All that the storage of TTN has kept, whatever the range.
TtnObservations == Truthy(offered)

\* The values of nm are texts, of which none is falsy.
NmObservations(run) == FromTo(run)

\* A custom syncer does as it likes.
CustomObservations(run) == Between(run)

Observations(run) ==
  CASE api = "bosch" -> BoschObservations(run)
    [] api = "tsystems" -> TsystemsObservations(run)
    [] api = "uba" -> UbaObservations(run)
    [] api = "dwd" -> DwdObservations(run)
    [] api = "ttn" -> TtnObservations
    [] api = "nm" -> NmObservations(run)
    [] api = "custom" -> CustomObservations(run)
-----------------------------------------------------------------------------
(***************************************************************************)
(* The provider and cron.                                                  *)
(***************************************************************************)
\* A job that did not run in its hour (the container of cron is down) is not
\* made good for.
NextHour(punctual) ==
  /\ hour < Horizon
  /\ punctual \/ Cardinality(late) < MaxLate
  /\ hour' = hour + 1
  /\ ran' = FALSE
  /\ offered' = IF punctual THEN offered \cup {hour + 1} ELSE offered
  /\ late' = IF punctual THEN late ELSE late \cup {hour + 1}
  /\ lost' = IF ran THEN lost ELSE lost \cup {hour}
  /\ UNCHANGED <<api, https, apiQos, runs, stage, fetched, syncer, stored, raised, apiFaults>>

OfferLate(h) ==
  /\ h \in late \ offered
  /\ offered' = offered \cup {h}
  /\ UNCHANGED <<api, https, apiQos, hour, ran, late, runs, stage, fetched, syncer,
                 stored, lost, raised, apiFaults>>

\* sync_thing of a thing with an API.
PublishApi ==
  /\ ~ran /\ Len(runs) < MaxWaiting
  /\ ran' = TRUE
  /\ runs' = Append(runs, [from |-> Timerange(hour).from, to |-> Timerange(hour).to, at |-> hour])
  /\ UNCHANGED <<api, https, apiQos, hour, offered, late, stage, fetched, syncer,
                 stored, lost, raised, apiFaults>>
-----------------------------------------------------------------------------
(***************************************************************************)
(* The worker.                                                             *)
(***************************************************************************)
At(s) == runs # <<>> /\ stage = s

\* Variant of Work: the range is that of the time at which the run is handled.
Work_Now == [from |-> Timerange(hour).from, to |-> Timerange(hour).to, at |-> Head(runs).at]
Work == Head(runs)

Acknowledge ==
  /\ runs' = Tail(runs)
  /\ stage' = "idle" /\ fetched' = {}

\* Variant of ExitApi: the message always comes back.
ExitApi_Keep ==
  /\ runs' = runs
  /\ stage' = "idle" /\ fetched' = {}
  /\ syncer' = FALSE

\* The process ends, with its cache; what becomes of the message is up to its
\* QoS (see MqttWorker).
ExitApi ==
  /\ runs' = IF apiQos = 2 THEN Tail(runs) ELSE runs
  /\ stage' = "idle" /\ fetched' = {}
  /\ syncer' = FALSE

Strike == apiFaults < MaxApiFaults /\ apiFaults' = apiFaults + 1

\* act takes a syncer that is built in, or one from the cache, or loads it.
LoadSyncer ==
  /\ At("idle") /\ api = "custom" /\ ~syncer
  /\ syncer' = TRUE
  /\ UNCHANGED <<api, https, apiQos, hour, ran, offered, late, runs, stage, fetched,
                 stored, lost, raised, apiFaults>>

\* The script is missing or no syncer, or its bucket cannot be read: journaled,
\* and this run is over.
LoadFails ==
  /\ At("idle") /\ api = "custom" /\ ~syncer
  /\ Strike /\ Acknowledge
  /\ lost' = lost \cup {Work.at}
  /\ UNCHANGED <<api, https, apiQos, hour, ran, offered, late, syncer, stored, raised>>

HasSyncer == api = "custom" => syncer

\* NoHttpsError has no attribute msg, which the handler of it asks for; the
\* strptime of parse_timeranges raises ValueError.
Raises ==
  \/ api \in {"bosch", "ttn"} /\ ~https
  \/ api = "uba" /\ ~(IsDatetime(Work.from) /\ IsDatetime(Work.to))

Fetch ==
  /\ At("idle") /\ HasSyncer /\ ~Raises
  /\ stage' = "write"
  /\ fetched' = Observations(Work)
  /\ UNCHANGED <<api, https, apiQos, hour, ran, offered, late, runs, syncer, stored,
                 lost, raised, apiFaults>>

\* ExtApiRequestError: journaled, and this run is over.
RequestFails ==
  /\ At("idle") /\ HasSyncer /\ ~Raises
  /\ Strike /\ Acknowledge
  /\ lost' = lost \cup {Work.at}
  /\ UNCHANGED <<api, https, apiQos, hour, ran, offered, late, syncer, stored, raised>>

FetchRaises ==
  /\ At("idle") /\ HasSyncer /\ Raises
  /\ raised' = raised \cup {Work.at}
  /\ ExitApi
  /\ UNCHANGED <<api, https, apiQos, hour, ran, offered, late, stored, lost, apiFaults>>

\* The upsert of all observations in one request.
WriteObservations ==
  /\ At("write")
  /\ stored' = stored \cup fetched
  /\ stage' = "publish"
  /\ UNCHANGED <<api, https, apiQos, hour, ran, offered, late, runs, fetched, syncer,
                 lost, raised, apiFaults>>

\* The QC worker is told, at QoS 0.
PublishParsed ==
  /\ At("publish")
  /\ Acknowledge
  /\ UNCHANGED <<api, https, apiQos, hour, ran, offered, late, syncer, stored, lost,
                 raised, apiFaults>>

\* An answer that cannot be parsed, a failing upsert, a kill.
BreakApi ==
  /\ runs # <<>>
  /\ Strike /\ ExitApi
  /\ lost' = IF apiQos = 2 /\ stage # "publish" THEN lost \cup {Work.at} ELSE lost
  /\ UNCHANGED <<api, https, apiQos, hour, ran, offered, late, stored, raised>>
-----------------------------------------------------------------------------
ApiInit ==
  /\ api \in Apis
  /\ https \in IF api \in {"bosch", "ttn"} THEN BOOLEAN ELSE {TRUE}
  /\ apiQos \in {1, 2}
  /\ hour = First /\ ran = FALSE
  /\ offered = 0..First /\ late = {}
  /\ runs = <<>> /\ stage = "idle" /\ fetched = {} /\ syncer = FALSE
  /\ stored = {} /\ lost = {} /\ raised = {} /\ apiFaults = 0

ApiEnv ==
  \/ \E punctual \in BOOLEAN : NextHour(punctual)
  \/ \E h \in late : OfferLate(h)
  \/ LoadFails \/ RequestFails \/ BreakApi

ApiWork ==
  \/ LoadSyncer \/ Fetch \/ FetchRaises \/ WriteObservations \/ PublishParsed

ApiNext == ApiEnv \/ ApiWork \/ PublishApi
ApiSpec == ApiInit /\ [][ApiNext]_apiVars
-----------------------------------------------------------------------------
(***************************************************************************)
(* Properties.                                                             *)
(***************************************************************************)
\* The hours whose runs fetch observation h.
Chances(h) ==
  {t \in Hours :
     CASE api = "tsystems" -> t = h
       [] api = "bosch" -> t \in h..h + Period - 1
       [] api = "uba" -> t \in {h, h + 1}
       [] api = "dwd" -> Stamp(t).day = Stamp(h).day + 1
       [] api \in {"nm", "ttn"} -> t >= h
       [] api = "custom" -> t \in h..h + HoursPerDay - 1}

Pending == {runs[i].at : i \in DOMAIN runs}
HasRun(t) == t >= First /\ (t < hour \/ (t = hour /\ ran))

\* Delay loses nothing, however long the queue and however late the worker:
\* an observation that was offered in time and is not stored waits for a run
\* that is under way, or each run that could have fetched it was missed or
\* failed.  So an API of the kind of nm fills its own gaps, and one of uba
\* needs two failures in a row to have one, except that of hour 24, both runs
\* of which always end the worker (mqtt_sync_wrapper.py:48, 54).
GapsHaveACause ==
  \A h \in First..hour :
    (h \notin late /\ (h \in Zeros => api \in {"nm", "custom"}) /\ h \notin stored)
    => \A t \in Chances(h) : HasRun(t) => t \in lost \cup raised \cup Pending

\* At QoS 1 a run that raises each time is always the next one.
Blocked == apiQos = 1 /\ runs # <<>> /\ HasSyncer /\ Raises

\* Every run is done with in the end, unless one that raises each time comes
\* back and blocks the queue (sync_extapi_manager.py:118).  So at QoS 1 the sync
\* may still stall, and a request that failed is not repeated (RequestFails),
\* while CHANGES.md:156 has "now times out and retries correctly".
RunsAreSettled == <>[](runs = <<>> \/ Blocked)
=============================================================================
