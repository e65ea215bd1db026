# Formal models of the time.IO orchestration (tsm-orchestration)

This directory holds TLA+ modules that model the services of this repository,
configurations that check them with TLC on small instances, and proofs that
TLAPS checks for instances of any size. `PROJECT.json` lists the components,
the runs, the source lines behind every definition (`map`), a mutation of the
code for every property that is checked (`mutants`), the hazards of the code
with the properties that watch them, the findings and the theorems.

1. [The system](#1-the-system)
2. [Inventory](#2-inventory)
3. [Plan](#3-plan)
4. [The modules](#4-the-modules)
5. [The runs, their bounds and what they show](#5-the-runs)
6. [Fairness](#6-fairness)
7. [Proofs](#7-proofs)
8. [Findings and observations](#8-findings-and-observations)
9. [What is not modelled](#9-what-is-not-modelled)

Paths of code are relative to the root of the repository; Python lies in `src/`.

## 1. The system

A user saves a *thing* (a station or a sensor) in a frontend. Everything that
follows happens in workers that talk over one MQTT broker (mosquitto):

```
 frontend --frontend_thing_update--> configdb updater --configdb_update--> thing setup worker
          --qaqc_settings_update-->        |                                   |
                                       config_db  <--------- reads ------------+
                                           ^                                   | provisions
 cron --api/sftp sync--> sync workers      |              PostgreSQL, MinIO, MQTT users,
                            |              |              Grafana, FROST, crontab
 files --> MinIO --object_storage_notification--> file ingest --data_parsed--> QC worker
 devices --mqtt_ingest/...--------------------> mqtt ingest --data_parsed-->
```

A worker is one process with one subscription. `worker_launcher.sh` starts it
and starts it again a few times when it fails; the container is restarted by
its own policy. Inside a worker everything is sequential: the next message is
read when the handler of the last one has returned. Concurrency lies between
the workers, their databases and the outside, and in the broker, which keeps
what a worker has not acknowledged.

## 2. Inventory

| Component | State it keeps | Operations | Talks to |
|---|---|---|---|
| MQTT worker framework (`timeio/mqtt.py`, `worker_launcher.sh`, `mosquitto.conf`) | session and queue in the broker; paho's memory of received QoS 2 messages; attempts of the launcher | connect, subscribe, receive, decode, act, acknowledge, exit, start again | every worker runs in it |
| configDB updater (`run_configdb_updater.py`, `timeio/configdb.py`) | `config_db`: project, thing, mqtt, ext_sftp, ext_api, file_parser, s3_store, qaqc, mapping of schema and thing | `thing_update`, `qaqc_update`: one transaction each, then publish `configdb_update` | frontend, setup worker |
| Thing setup (`setup_thing.py`, `setup_*.py`) | roles, schema, tables, views, grants; bucket and user; MQTT user; Grafana folders and boards; FROST context; crontab | six handlers in a fixed order, for every message | PostgreSQL, MinIO, Grafana, Tomcat |
| Crontab setup (`setup_crontab.py`) | one job for each thing with a sync | create, update, leave alone | cron, sync workers |
| File ingest (`run_file_ingest.py`, `run_reparse_thing.py`) | tags of the versions in the bucket; observations | `act` on an upload; copy of all files onto themselves | MinIO, DB API, QC worker |
| Quality control (`run_qc.py`, `timeio/qc`) | per run: cache of each stream, range without labels, upload pointer; labels of observations in the database | load, run the tests of a config, upload | DB API, StreamManager, `qaqc_done` |
| MQTT ingest (`run_mqtt_ingest.py`) | none: observations go to the database at once | parse, store and announce one message of a device | DB API, QC worker |
| Scheduled syncs (`mqtt_sync_wrapper.py`, `sync_ext*_manager.py`, `sync_sms_manager.py`, `timeio/remote_fs.py`, `timeio/ext_api.py`, `timeio/sms.py`) | copies of files in the bucket; a cached syncer; observations; copy of the SMS vocabularies and views | a job of cron publishes a run; the worker lists, compares and copies files, or fetches and stores a range of time, or copies tables and refreshes views | cron, external servers, MinIO, DB API, QC worker |
| Deletion of a thing (`run_delete_thing.py`) | none of its own: takes away what all others made | rows in one transaction, in the middle of it bucket, user and job, which no roll back brings back; the dashboard after it | `config_db`, MinIO, crontab, Grafana; races with updater and setup worker |
| Access layer (`timeio/feta.py`, `timeio/databases.py`) | cache of an object tree | lazy reads | `config_db` |
| Parsers, journal, monitoring, Grafana users, Keycloak notifier | none that another component reads back | | |

What is hard in each of them, and what makes it correct:

* **Worker framework** — a handler that exits, a lost connection and a kill
  come between any two packets of the QoS handshakes. Correct: at QoS 1 nothing
  is forgotten before it was handled, at QoS 2 nothing is handled twice, the
  order of first handling is kept, and no message blocks those behind it.
* **configDB updater** — ten tables in one transaction, rows that are reused by
  ids held in other rows, a trigger that rewrites other rows, a COMMIT that may
  fail and a publish that is not part of the transaction. Correct: the tables
  say what the last committed message said, names and defaults are unique, rows
  are not shared, nobody hears of what was not committed.
* **Thing setup** — every handler may stop between two transactions; the next
  message runs it again over what is there, for this or another thing of the
  same project. Correct: every step can be repeated, a handler that reports
  success left everything in place, and things are set up eventually.
* **Crontab setup** — a schedule is drawn at random, measured again from its
  own text, and adapted. Correct: jobs run evenly, as configured, stay where
  they are when nothing changes, and the handler never raises.
* **File ingest** — uploads, changes of the parser, reparsing and exits come
  between listing, reading, storing and tagging. Correct: the tag of the latest
  version tells the truth, and a file at rest is ingested by the parser of its
  thing if that can read it.
* **Quality control** — one run makes many queries while observations arrive;
  tests share caches and widen them; a failure ends the run anywhere. Correct:
  labels of a stream come together, nothing is overlooked or judged beyond what
  was asked, context is complete.
* **Syncs** — files are written and removed between the listing, the opening and
  the storing of a copy, and a copy is told from its original by size and time
  only; the range of a run is fixed by cron and may be handled much later, with
  midnight written in several ways; entries of the SMS are edited between the
  pages of a fetch, and one failing table or view takes a whole transaction with
  it. Correct: what a copy hides is limited to changes during an upload, uploads
  are never in vain, every gap of an import has a missed or failed run behind it,
  and each copy catches up in the end.
* **Deletion** — three programs write the same rows, bucket and crontab without
  knowing of each other; the script may be killed, refused or aborted by a
  deadlock after it removed things for good, and a second run goes by the row
  that the first may have deleted. Correct: what a finished deletion leaves over
  has one of a few named reasons, the jobs of other things stay, a deletion that
  is repeated completes, and the last stored save of a thing that lives wins.

## 3. Plan

Modules in the order of their importance for the behaviour of the whole:

| | Module | Models | State |
|---|---|---|---|
| 1 | `Delivery`, `MqttWorker` | the promise of a channel; worker, session, launcher | done, proved |
| 2 | `ConfigDb` | the updater and its tables | done, proved |
| 3 | `ThingSetup` | the six handlers | done, safety proved |
| 4 | `CronSchedule` | `setup_crontab.py` | done, proved |
| 5 | `FileIngest` | file ingest and reparsing | done, proved |
| 6 | `QcRun` | a QC run, query by query | done, proved |
| 7 | `ThingDeletion` | deletion script, updater and setup worker at once | done, safety proved |
| 8 | `SftpSync` | the copy of an sFTP server | done, proved |
| 9 | `ApiSync`, `SmsSync`, `ScheduledSync` | the import from APIs, the copy of the SMS, and the jobs that start them | done, safety proved |
| 10 | `Pipeline` | composition: frontend, updater, broker (as `Delivery`), setup worker with all handlers | open |
| 11 | cache of `feta`, tags rewritten by `run_assign_parser_uuids.py` | smaller parts | open |

Compositions: `ThingDeletion` has the updater, the setup worker and the script
share `config_db`, the crontab and the queues between them, with the failures
that `ConfigDb` and `ThingSetup` have by themselves left to those; it is the part of
`Pipeline` that asks whether the last save is the one that is set up.
`ScheduledSync` joins the three syncs under the job that starts them. `Delivery` is
what `MqttWorker` is proved to implement, so that other modules may take messages as
repeated or lost by QoS without a broker of their own.

Abstract specifications: `Delivery` (at least once, at most once, exactly once).
For `Pipeline`: a thing is *saved*, then *set up*.

Theorems: every invariant and every action property of the runs that pass is one.
Still wanted: types and safety of
`SmsSync`, and `Delivery` as the channel of `Pipeline`.

Everything that is to be proved is written without RECURSIVE operators, with
parameters as CONSTANTS under named assumptions, and with invariants that are
conjunctions of named parts.

## 4. The modules

Each component has a module `X`, an instance for TLC `MCX`, configurations, and
where it is proved `X_proofs`. Names follow the code where TLA+ allows it.
Definitions with a suffix (`Send_NoWindow`) are mutations of the definition they
stand before; the specifications do not use them.

### MqttWorker (with Delivery)

| In the model | In the code |
|---|---|
| `broker`, `session` | the persistent session of mosquitto: what it keeps of each message |
| `conn`, `wire`, `acks` | the connection and packets under way (TCP, so first in first out per type) |
| `stored`, `cur`, `stage` | paho's `_in_messages`, the message inside `on_message`, and whether it has returned |
| `launcher`, `attempts` | `worker_launcher.sh` |
| `Publish`, `Send`, `BrokerPuback/Pubrec/Pubcomp` | the broker: queue with limit, inflight window, handshakes |
| `Connect` | `connect` with `clean_session=False`: packets not acknowledged are sent again |
| `RecvPublish`, `RecvPubrel` | QoS 1: `on_message` at PUBLISH; QoS 2: at PUBREL, after the message left paho's memory; an unknown PUBREL is confirmed |
| `ActEnds` | `act` returned, or raised what `on_message` only logs |
| `ActExits`, `Kill`, `Disconnect` | `sys.exit(1)` in `on_message`; a kill; a lost connection |
| `Start`, `ContainerRestart` | the loop of the launcher; the restart policy |

paho and mosquitto are external: modelled as the code uses and configures them.
The work is counted at the end of `act` (`handled`), just before the
acknowledgement, so that a kill between the two is a case of its own (`stage =
"returned"`). For QoS 1 the outcome of a kill *inside* `act` is "not done".

`Delivery` is the promise: a message is accepted or refused, handled, and
forgotten; two constants say whether it may be handled again or forgotten
without being handled. `Abstract` in `MqttWorker` is the refinement mapping.

### ConfigDb

`db` is the committed database, `txn` what the open transaction sees; `UpdateThing`
and `UpdateQc` are the whole handlers up to COMMIT (every store function in the
order of `thing_update`), `RejectThing` an exception in them, `Commit`,
`CommitFails`, `Notify` (the publish, queued *inside* the transaction and sent by
paho's thread) and `Crash` what comes after. `commits`, `aborted` and `notified`
count, for each thing, the updates that were committed, those whose COMMIT failed,
and those that the consumers heard of. Tables are sequences of rows, ids
their positions; a row that loses its last reference stays. The trigger of
`V2_11__fix_qaqc_trigger.sql` is in `StoreQcRow`. The constant
`ParserUuidUnique` says whether `file_parser.uuid` has the unique index that the
upsert of a parser needs: `FALSE` is the schema of the migrations.

### ThingSetup

`have` is a set of pairs of a step and its owner, the thing or its project:
everything that exists outside of the worker. `at` is the handler and step in
work. A step is one transaction or one request: `Skip` (its guard says that there
is nothing to do), `Do`, `Raise` (what it needs is not there, or what it creates
is there already), `Fault` (the service fails) or `Crash`. `seen` holds the two
looks that `setup_user_database.py` takes *before* its transactions.
`ReceiveRepublished` is a message of `publish_all_things.py`.

### CronSchedule

An expression is a record of its kind (minutes, hours, a week, days), its start
and its step. `adjust_interval`, `new_schedule` and `update_cron_expression` are
functions over all intervals; the draw of `randint` is a choice from the set of
what it may return. `Configure` saves another sync, `Create`, `Update` and
`Ignore` are the branches of `act`. python-crontab and croniter are external:
`RunDays` and the period of a job are modelled from how the code measures it.
`Samples` limits the draws that TLC tries; the proofs are for all of them.

### FileIngest

`objects` is the sequence of versions in the bucket, with their tags; a file's
latest version is its last. `events` are the notifications under way, `job` what
the worker remembers of the file in work, `stored` the observations of each file:
which version, read by which parser, under the label of which parser; `replaced` is
history: who had read the observations that `Upsert` replaced. The worker
goes `Take`, `Look` (find the tagged parser over a listing *by prefix*), `Read`,
`Store`, `Mark`, `Announce`, with a failing variant of each and a crash between
any two. `Upload`, `ChangeParser`, `StartReparsing` and `Reparse` interleave. The
parser of the thing reads (`reader`), while that of an earlier successful tag
is the `label` of the observations and goes into the new tag.
`lost` and `stale` are history: files whose last news reached no end, and files
not ingested since the parser of the thing changed.

### QcRun

A run of `run_qc.py` over the streams of one thing. `rows` and `label` are the
database, everything else is what the process remembers: for each name of a
stream the range without labels, the cache, its labels and the pointer from
which on it uploads. The queries are steps of their own (`ReadNewest`,
`ReadOldest`, `Fetch`, `FetchEnd`, `FetchContext`), and `Arrive` may come between
any two of them. `RunTest` lets the test label what it judges of what was
loaded, `Upload` writes one stream, `Finish` publishes. `TestFails`,
`NoContextFails`, `Refuse` and `Exit` end a run early. What SaQC computes is
abstracted to "the test has labelled this observation". `excused` is history:
rows that came in while a run was under way or whose run failed; the code
promises nothing of those. `Arrive` and `Announce` are also all that the MQTT
ingest does with a message once it could parse it.

### ThingDeletion

| In the model | In the code |
|---|---|
| `row` | the rows of a thing in `config_db`: the revision of the save they came from, and its optional sections |
| `art` | what is provided: entry in the schema, user and bucket in MinIO, MQTT user, dashboard, job; each with the revision its handler had read |
| `inbox`, `outbox` | the queues of the updater and of the setup worker |
| `FetchIds`, `UpdateRow`, `RowIsGone`, `CommitSave` | `store_thing_config` row by row; an `UPDATE` waits for a `DELETE` of the same row and then finds nothing (`fetchone()[0]` raises) |
| `Receive`, `ReadThing`, `WriteArtefact`, `MakeBucket`, `OpenCrontab`, `CloseCrontab` | `setup_thing.py`: each handler reads the thing anew through `feta` and writes; the crontab is read as a whole and written back as a whole |
| `Start`, `DeleteStorageRow` ... `CommitDeletion`, `DeleteBoard` | `run_delete_thing.py` in its order: `get_ids`, rows, bucket and user, job, thing, COMMIT, dashboards |
| `NoBucket`, `RefuseBucket`, `Raise`, `SkipOrg`, `Die` | its early returns, swallowed errors, exceptions and kills |
| `ResolveDeadlock` | updater and script each hold a row the other waits for: PostgreSQL aborts one of them |

Locks are modelled as the rows a transaction has written (`held`). `excuses` is
history: why something of a thing may be left over; `robbed`: what the script took
away that no handler has written since.

### SftpSync, ApiSync, SmsSync and ScheduledSync

`ScheduledSync` chooses a job and the sections of its thing (`Dispatched` is the
choice of `sync_thing`, which prefers the API) and runs the part behind it.

* `SftpSync`: `source` and `bucket` hold for each file a version, its size, the time of
  modification that the server tells of it (`mtime`, any of `Mtimes`), and the times of
  MinIO at which the file came to be what it is (`since`, history) and at which the
  copy was stored. `mtime` is free because nothing ties it to the clock of MinIO: the
  clocks may differ either way, `remote_fs.py:124` reads a UTC time as a local one, and
  a rename or a transfer may keep the time that a file had elsewhere. `ListFiles` takes both listings, then the walk of
  `sync` goes file by file over what was *listed*: `SkipFile` or `OpenFile` by
  `NeedsUpdate`, `PutFile` with the *listed* length of what was *opened*. `WriteFile`,
  `RemoveFile` and the clock go on meanwhile. `OpenFails`, `PutFails` and `BreakSync` end
  the process, and `mqttQos` says whether the message comes back.
* `ApiSync`: a run is the range that `mqtt_sync_wrapper.py` writes for the type of the
  API (`TsystemsTimerange` ...), as pairs of a day and an hour, so that 24:00 and
  00:00 differ as they do in the code; `Observations` is what each syncer makes of
  the provider's answer. The worker goes `LoadSyncer`, `Fetch`, `WriteObservations`,
  `PublishParsed`. Observations may be offered late, jobs be missed (`NextHour` before
  `PublishApi`), and any step fail.
* `SmsSync`: one FIFO `queue` for both kinds of runs; the one in work stays at its head,
  and there it is again when its handler exits at QoS 1. A run for vocabularies makes, fetches page by page and upserts one table
  after the other in one transaction (`run.local` is what it sees); a run for views
  refreshes all in one transaction. Entries are changed, added and removed
  between any two pages.

## 5. The runs

| Run | Distinct states | Question |
|---|---|---|
| `worker_qos1` | 21,576 | Is QoS 1 at-least-once, in order, through kills, drops and restarts, and is every accepted message handled in the end? |
| `worker_qos2` | 39,541 | Is QoS 2 at-most-once and in order, is the loss of a death bounded by the window, and does a poisonous message block none behind it? |
| `config` | 1,115,704 | Do the tables follow the messages through roll backs, failed commits and crashes, without sharing rows or losing a parser; do the last config of a name and the last default win; does nobody hear of an update before its transaction has ended? |
| `config_informed` | violated | Are the services informed only of what is committed? |
| `config_new_parser` | violated | Can a thing with a new parser be stored? |
| `setup` | 100,803 | Does success mean provisioned, can every step be repeated, is everything set up in the end? |
| `cron_common` | 47,685 | Do jobs run evenly, as configured, where they were? |
| `ingest` | 1,461,930 | Do tags and observations of files at rest agree with their latest version, with the parser of the thing, and with who has read them? |
| `qc` | 522,343 | Which labels do rows get that arrive before, between and during runs which may fail? |
| `qc_discovered` | violated | Is a test without streams applied to all of them? |
| `deletion` | 394,328 | What may a deletion leave behind and why, whose job gets lost, does a killed deletion complete, does the last save win? |
| `syncs` | 890,679 | What does the comparison of files hide, is an upload ever in vain, which gaps may an import leave, and does each copy catch up? |

Bounds, and why they are enough:

* **worker** — 4 messages over an inflight window of 2 and a queue of 2: the
  window is full, the queue is full and drops, and a message is behind one that
  makes the worker exit. 2 attempts, one kill and one or two lost connections: a
  kill can come between any two packets, also of a retransmission, and deaths by
  messages and by the kill together reach the end of the launcher and the
  restart of the container.
* **config** — two things in two projects; 6 messages out of ten kinds, so that each
  section, storage, parser and config can come, go and come again with another
  thing's message in between; one crash, and any COMMIT may fail. `ParserUuidUnique`
  is `TRUE`, since otherwise no parser is ever stored and the rest of the parser
  code is out of reach; `config_new_parser` has the real schema. `config_informed` is
  the same worker with two messages: a failing COMMIT is all it takes.
* **setup** — two things of one project, one with a storage and one with a sync,
  and two faults: every pair of faults in any two steps, of the same or of
  different messages. No counter but that of the faults is bounded; messages
  come without end.
* **cron** — the intervals are from each range that `adjust_interval` tells
  apart, among them 0, the largest below eight days and 15 days, beyond which
  `JobAsConfigured` and `StableSchedule` are false (section 8); draws from `Samples`.
* **ingest** — two files, the name of the one a prefix of that of the other,
  three versions, three contents (readable by both parsers, by one, too large),
  one change of the parser, one reparsing, one fault.
* **deletion** — a thing that is saved with and without its sections and deleted
  until that succeeds, and another one with a job of its own; two saves or killed
  runs in any mix. Runs of the script that are not killed are not bounded, nor
  are deadlocks. Two events are what the interesting cases need: a save under way
  when the script starts and one behind it, a kill and a save, two kills.
* **syncs** — two files, three writes or removals, sizes up to two (so that a file
  grows, shrinks or keeps its size), two values of the clock, one fault; a server
  whose second file cannot be opened. A written file bears time 0 or 1, whatever
  the clock of MinIO says: at 0 it may seem newer than any copy made by then, at 1 be
  older than its change. All seven types of API over two days of
  three hours and the jobs of one day after the first, a period of two hours, one
  late observation, one with the value zero, two runs waiting, one fault. Two
  vocabularies of up to two entries, two edits, a table that may be a foreign one, a
  view that may be broken, one fault, both QoS.
* **qc** — two streams with up to four timestamps, two arrivals, one scheduled
  run, one fault; three tests so that the second widens a cache of the first and
  the third comes back to it; windows of two rows and of a duration. Rows also
  come in behind the start of the dates, which is what makes a context shorter.

The bounded runs end (`CHECK_DEADLOCK FALSE`) when their messages, hours and faults
are used up; `setup`, `cron_common` and `deletion` never end and are checked for
deadlock.

Every module states its types (`TypeOK`). Only `config` lists it: the types
of all modules but `SmsSync` are theorems, those of `SmsSync` were checked with these
configurations.

For every property a mutation in `PROJECT.json` names a plausible bug of a mapped
definition under which TLC finds that property violated in the same run.

## 6. Fairness

* `MqttWorker!FairSpec`: weak fairness of the broker's steps, the client's steps,
  the end of a handler, the start by the launcher and the restart of the
  container. The broker and paho's loop run on their own; the launcher loops
  without waiting for anything; Docker restarts by policy. That a handler
  ends is an assumption: requests to the external APIs time out (`timeio/ext_api.py:35`,
  `timeio/remote_fs.py:193`), those to the own services answer or fail. Nothing is
  assumed of publishing, kills or lost connections, which are bounded.
* `ThingSetup!FairSpec`: weak fairness of the work on a message and *strong*
  fairness of `Receive(t)`: things are saved again and again, also while another
  one is worked on. It is the assumption under which "eventually" can be
  asked at all, since the worker itself never retries a failed handler.
* `ThingDeletion!FairSpec`: weak fairness of the setup worker and of the script, whose
  steps wait for nobody or for a transaction that ends; strong fairness of the
  updater, since PostgreSQL hands a row to the transaction that waits for it before
  one that asks later, while the script may be started in between again and again;
  PostgreSQL resolves a deadlock after its timeout. Strong fairness of `Start(t)` for
  `t` in `Doomed` is the operator who repeats the deletion until it succeeds; nothing is
  assumed of saves, kills or things that nobody wants deleted.
* `ScheduledSync!FairSpec`: weak fairness of each worker and of the job that publishes
  (cron), none of the provider, of edits or of faults, which are bounded. Nothing
  chooses between the two kinds of runs of the SMS: they wait in one queue, and the
  worker takes its head. At QoS 1 a vocabulary run that raises each time is therefore
  back at the head each time and the views behind it are not refreshed;
  `SmsJobCatchesUp` excepts that (`Stuck`). The API job has no
  fairness of its own: time (`NextHour`) need not go on.
* `ConfigDb`, `CronSchedule`, `FileIngest` and `QcRun` state safety only.

## 7. Proofs

The proofs are for every value of the constants that satisfies the named
assumptions of the module (`WorkerAssumption`, `ConfigDbAssumption`,
`SetupAssumption`, `CronAssumption`, `IngestAssumption`, `QcAssumption`,
`SftpAssumption`, `ApiAssumption`, `DeletionAssumption`), which TLC evaluates in the
runs. What a theorem assumes beyond these stands before its `PROVE` and here:

| Theorem | Assumes | Why |
|---|---|---|
| `QoS1LosesNothing`, `QoS2RepeatsNothing`, `LossIsBounded` | the QoS | each is what one QoS promises |
| `ConfigsFollow` | `Apart`: no legacy message names a config of a project | a legacy message takes the row of that name away |
| `FirstIsStored` | `ParserUuidUnique` | the migrations have no such index; `config_new_parser` refutes the property without it |
| `JobsRunAsConfigured`, `JobsStay` | `Below16Days` | with a longer step a job is measured wrong (section 8) |

`config` is an instance of `ConfigsFollow` and of `FirstIsStored`, `cron_common` of the last
two.

* **MqttWorker_proofs** — `TypeCorrect` over `TypeInv`, that is `TypeOK` and
  `LauncherInv`: only a running process is connected or works, and a launcher
  that still tries has attempts left (needed to bound `attempts`).
  `QoS1LosesNothing` (`NoSilentLoss`) from `AckedIsHandled`: there are only
  PUBLISH and PUBACK packets, and a message with a PUBACK under way, or one
  whose handler has returned, was handled.
  `QoS2RepeatsNothing` (`AtMostOnce`) from `OnceInv`: a message that was
  handled, or is in work, is no longer in paho's memory, and the broker has
  already released it, so that no PUBLISH of it is under way or will be sent
  again: no path leads back to `on_message`. Each of the two assumes
  its QoS.
  `DeliversAsPromised` (`ImplementsDelivery`) is the refinement: `Status` maps what the
  broker keeps of a message to what the channel promises of it, and a step is
  `Accept`, `Refuse`, `Handle` or `Forget` or a stutter. A handled message must still be
  held, which the invariants above do not say: with QoS 1 (`HeldInv`) what is under
  way or in work has no PUBACK under way; with QoS 2 (`ReleasedInv`) what is in
  paho's memory or in work has no PUBCOMP under way, so that the broker cannot be
  done with it. That QoS 2 is *exactly* once while the process does not die needs
  `KeptInv`: what the broker has released is in the memory, in work or handled.
  `LossIsBounded` (`LossBounded`) counts. What is lost was `Doomed` before: confirmed to
  the broker and gone from the memory, or on its way to that. `LossInv` bounds the
  doomed by the deaths, with the bound of what is in flight beside it, since that is
  what the next death dooms; and it says that no message makes the worker exit twice,
  so that each exit counts.
  `WorkInOrder` (`InOrder`) has an argument for each QoS over `QueueInv` (the queue of
  the broker is in the order of the numbers): at QoS 1 the packets on the wire are in
  order and a reconnect brings back everything older (`Order1Inv`); at QoS 2 the broker
  releases in order, and what is released and in memory has its PUBREL on the way
  (`Order2Inv`).
* **ConfigDb_proofs** — one invariant, `TypeOK` and `DataInv` of the committed
  database and of the open transaction: `DataInv` is that tables are well-formed,
  that references lead to rows (`References`), that things share no rows
  (`NotShared`), and the two statements on QC configs. It is inductive because
  each store function preserves it on whatever database it is given; one lemma
  for each of them. `TypeCorrect`, `DefaultIsUnique`, `NameIsUnique`, `RowsAreOwn`
  follow. `InformedIsDecided` (`NotifiedIsDecided`) counts: what was sent, and what is
  queued behind a transaction that has ended, is never more than the commits and
  failed commits, and less only by crashes. It assumes nothing of COMMIT.
  `TablesFollow` (`ThingAsAnnounced`) needs the transaction, too: what an open one has in
  store is what its message says, and of the other things what the tables say
  (`InStore`). `ParserStays` (`ParserPreserved`) is about one step: `NotShared` is what
  keeps an update of another thing from the row of the storage. `ConfigsFollow`
  (`QcAsAnnounced`) says of committed and open tables that they agree with the log
  (`LogInv`), and needs that a later message of a name, or a later default, settles
  whether an earlier one is outdated. `FirstIsStored` (`NewThingIsStored`) shows that
  nothing but the missing index stops the first update of a thing.
* **ThingSetup_proofs** — `SetupInv`: tables imply user and schema (`TablesInv`), what
  the two looks of `setup_user_database.py` saw is still so when the steps they guard
  are reached (`SeenInv`), a handler is not noted as failed before its turn
  (`TurnInv`), and each step that a handler has passed without failing is provided or
  is one of the named gaps (`PassedInv`). `SuccessMeansProvisioned`
  (`SuccessIsProvisioned`) is the last of these at the end of the work,
  `SetupRepeatable` (`Repeatable`) follows from it in the middle: what the next step
  needs was passed before.
* **CronSchedule_proofs** — `Regular` expressions have a step that divides the
  hour or the day and start within the first step. `NewIsRegular` and
  `UpdatedIsRegular` show that both ways to write a job produce such
  expressions, `EvenInHour` and `EvenInDay` that they run evenly: `JobsRunEvenly`.
  `HandlerNeverRaises` shows of each draw that its range is not empty. The
  assumption is that no interval reaches 32 days, beyond which the step of the
  day field would leave its range.
  `JobsRunAsConfigured` (`JobAsConfigured`) and `JobsStay` (`StableSchedule`) are about
  what `get_current_interval` measures. `Exact` expressions have their first run and
  the one after it in the same month (`FirstRuns`, from `StepsApart`: two multiples of
  a step are a step apart or more), so that what is measured is their `Period`
  (`Measured`), and a period means one kind and step (`PeriodMeans`). `PeriodInv` is
  that each job is exact and has the period it was last set up with.
* **FileIngest_proofs** — types need that a job is about an existing file that
  matches the pattern (`KnownInv`, `JobInv`). `IngestInv` is one statement
  `FileInv` for each file: if no news is under way, the worker is working towards
  the truth (`Towards`) or has reached it. `Untouched` shows once that a step about
  another file keeps it, so that each action needs only the case of its own
  file. That the parser of a tag has read the file at some time is `NamesInv`: each tag,
  each label and the label the worker holds name a parser that has read, and nobody
  leaves `HaveRead` (`ReadersStay`); `Accounted` and `RightName` are its parts.
  `TagsTruthful` and `LatestIngested` follow. That a largest version exists
  (`LastIsLast`) is by well-founded induction over the naturals.

* **QcRun_proofs** — three invariants, each over the one before. `CacheInv` is the
  types and what a name has fetched at each point of its load (`FetchedInv`): the rows
  of a cache are all the rows there are between its first and its last, at the
  beginning of the run. `NoHoles` (`CacheHasNoHoles`) is a part of it;
  `ContextComplete` (`ContextIsAlmostFull`) is about the step `FetchContext` from a
  state with it, and counts rows. `DatedInv` says of a message with dates that the
  upload starts with them and that what is cached behind them has the labels it was
  read with, whence `LabelsInRange` (`OnlyItsRange`). `JudgeInv` says of each name which
  tests have judged which of its rows, and which rows are still between its pointer
  and the end of the run; it needs that a stream has one name. `LabelsTogether`
  (`LabelsComeTogether`) and `AllJudged` (`NothingIsOverlooked`) follow. The attempt to
  prove an earlier `ContextIsAlmostFull`, that a window of rows is one short at most,
  failed for a good reason: rows that come in behind the start during the run count
  as context in the code and shorten it further. The property says so now, and the
  instance of `qc` has such rows.

* **ScheduledSync_proofs** — three parts. The sFTP sync by itself: `SyncInv` is the types
  and four statements about each file:
  its versions and times grow together (`SourceInv`), a copy is of a version the file
  had, opened after it was written and stored after it was opened (`BucketInv`), and
  what was listed or opened is a version between the copy and the present
  (`ListedInv`, `ReadInv`). `Older` is the order on versions; two files of the same version
  are the same file, which is what makes size and time tell anything at all.
  `OverlooksLittle` (`HiddenOnlyDuringUpload`) is a consequence, `UploadsAreNews`
  (`EveryUploadIsNews`) one of the invariant and the step that stores. The times that
  files bear are any integers (`Mtimes`), before or after the clock of MinIO; the two
  properties say what that costs.

  The import from an API by itself: `ApiTypeCorrect`, and `GapsExplained`
  (`GapsHaveACause`) over `ApiInv`. A day and an hour determine the absolute hour
  (`Division`, `StampInverse`, and `UbaInverse` for the days that have an hour 24), so that
  a range that is published contains what it is published for. For each observation,
  `AwaitedInv` says that a run which waits will ask for it, `FetchedInv` that a run
  which has fetched its range has it in hand, and `CauseInv` is the property. `nm` asks
  for what is newer than the newest stored: `NewestInv` says that nothing that was in
  time is missing before that one. The proof showed that the hour of a stamp was too
  narrow for the periods of several days that `bosch` allows; the type is now that of
  the code (`Stamps`).

  The composition: every step is a step of at most one of
  the syncs and a stutter of the others (the lemma `ImplementsParts`), so that what is proved of
  a sync by itself holds under the job; `JobsOverlookLittle`, `JobsUploadNews` and
  `JobsLeaveNoGap` are the properties of the run `syncs` obtained this way.
* **ThingDeletion_proofs** — `TypeCorrect` over `TypeInv`, that is `TypeOK` and what the
  worker holds while it is at work. `OthersKeepTheirJobs` (`JobsOfOthersStay`) from
  `JobsInv`: saves wait in the order they were made, so that what has been read or
  provided is older than all of them (`ReadInv`), and unless a clash was noted the copies
  of the crontab in memory are true and no job is newer than what replaces it
  (`CopyInv`). `NothingIsLeft` (`GoneForGood`) from `LeftInv`, said for each thing and each of its
  artefacts: what is there is still due - its section is in the row and the script has
  not come to it - or has its excuse; and unless something overlapped, the script's
  ids are the row's and no handler is at work on the thing it deletes (`SeenInv`).
  `GoneForGood` by itself is not inductive, since it says nothing of a thing that still
  has its row. `AsideKeeps` and `OverlapSettles` dispose of the steps about other things and of
  the things that overlapped.

Only model-checked: liveness (`AcceptedIsHandled`, `AcceptedIsSettled`,
`EventuallyProvisioned`, `DeletionCompletes`, `LastSaveWins`, `BucketCatchesUp`,
`RunsAreSettled`, `SmsJobCatchesUp`), which is out of reach of the prover with its
fairness and ENABLED; and the steps of `SmsSync`, of which only the liveness is a
property of a run. `AppliedToAll` and, without the index, `NewThingIsStored` are
false. What a recursive definition computes for all inputs cannot be proved with
this prover (its induction theorems take operators as parameters), and RECURSIVE
operators are not used.

## 8. Findings and observations

Disagreements of the code with what the repository says of it, each with a run:

1. `config_new_parser` — the upsert of a parser conflicts on a column without a
   unique index (`timeio/configdb.py:295`), so that a thing with a new parser
   cannot be stored.
2. `qc_discovered` — a data stream under two names has two caches, and the labels
   of the second upload replace those of the first (`timeio/qc/stream_manager.py:52`).
3. `config_informed` — the publish is queued inside of the transaction and a COMMIT that
   fails does not take it back (`run_configdb_updater.py:208`), although the comment at
   `:173` has the commit and the information of the services happen together or not
   at all. `config` checks what holds instead: nobody hears of an update before its
   transaction has ended.

Observed while modelling, in the models but without a run of their own:

Worker, updater, setup:

* A worker that dies loses what paho has confirmed and not handled: QoS 2 is not
  exactly once, as `.env.example:427` has it. `LossBounded` says how much is lost.
* A failure between the creation of the user and that of the schema is not made
  good by the next message (`setup_user_database.py:55`), although the comment there
  says "allow DDL/DML retry on partial failures"; the properties of `setup` name this
  gap (`NoSchema`).
* A crash between the COMMIT and the packet informs nobody of a stored update
  (`run_configdb_updater.py:208`).
* At QoS 1, a message that makes its handler exit each time blocks the worker
  (`timeio/mqtt.py:173`). `worker_qos1` has no such message: nothing is promised then.
* A failure between the tables and their first data leaves the data out for good
  (`setup_user_database.py:62`); the properties of `setup` name this gap (`NoData`).
* A parser row that two things share is rewritten in place (`timeio/configdb.py:535`).
* A thing that moves to another project keeps the mapping of the old schema
  (`timeio/configdb.py:86`); legacy configs are stored without a project (`:700`).
* The job of a thing whose sync was removed goes on (`setup_crontab.py:88`).
* A job with a step of 16 days or more is measured over the turn of a month
  (`setup_crontab.py:159`): one on the days 1 and 17 seems to run every 15 days. It is
  left alone when its thing is set to 15 days, although `update_cron_expression`
  says that such a schedule "already encodes the requested periodicity" (TLC finds
  this with `Intervals = {21600, 23040}`), and it may be moved when nothing changes.
* `publish_all_things.py:43` names the thing by a key that no consumer reads.

Ingest and quality control:

* Observations carry the label of the parser in the tag, and the new tag names it,
  although the parser of the thing read them (`run_file_ingest.py:73` logs "Re-parsing
  file with parser from file tag"). What is true of the tag, and is checked and proved
  (`TagsTellTheTruth`), is that the parser it names has read the file at some time and
  that its observations were stored, and perhaps replaced since.
* The listing of versions is by prefix: a file whose name begins with that of
  another can make the worker exit (`run_file_ingest.py:174`).
* The context of a test is one row short (`timeio/qc/datastream.py:209`); without a
  row before the start the run ends with an IndexError (`:219`).
* Rows that arrive during a run can be labelled by its later tests only, and are
  then not judged by the earlier ones, unless a message with dates asks for it.
* The tests of a config are read without ORDER BY (`timeio/feta.py:562`) although
  they have a position: the order in which they run is up to the database.
* `run_assign_parser_uuids.py:75` writes the tags of a version back as a whole, beside
  the worker, whose newer tags may get lost.

Deletion:

* The script and the updater lock rows in different orders. If PostgreSQL aborts the
  updater, the save is lost (`run_configdb_updater.py` only logs the exception).
* A bucket that cannot be emptied is logged and left, with its user, while the rows
  go: a second run no longer knows the ids (`run_delete_thing.py`). A run that ends
  between the bucket and its user leaves the user, since the next one returns early
  when there is no bucket.
* `delete_qc` passes a parameter to a statement without a placeholder and always
  raises for a thing that is linked to the SMS, when bucket and job are already gone.
* A deletion that was aborted leaves a known thing without its bucket and job until
  its next save. The board of a thing that is saved again between COMMIT and the
  deletion of dashboards is removed.
* The job of a thing whose sync was dropped before the deletion stays for good.
* The MQTT user is left by every deletion: `delete_mqtt_user` (`:63`) is never called,
  although the docstring of `main` (`:270`) lists the MQTT user among what is deleted.
  `GoneForGood` excepts it without a condition, like the dashboard of a thing whose row
  is gone, which a later run still removes.
* Script and worker both rewrite the whole crontab: what one adds or removes while the
  other has it open is undone, for all things.

Syncs:

* The run for UBA at midnight asks for hour 24, which strptime refuses
  (`mqtt_sync_wrapper.py:48`, `timeio/ext_api.py:233`): it ends the worker each time, and
  the value of that hour is never fetched.
* `sync_extapi_manager.py:118` reads `msg` of an error that has none, so that an
  endpoint without https ends the worker, too. At QoS 1 such a run, and one for hour
  24, comes back and blocks all others, and a request that fails otherwise is not
  tried again. `CHANGES.md:156` has "Fixed stalling sync [...] now times out and retries
  correctly"; `RunsAreSettled` excepts the blocked queue by name (`Blocked`).
* A run of `tsystems` or `bosch` asks for the last hours or minutes up to the second at
  which its job happens to start: a start that is late by seconds leaves a gap as long.
* `if value:` drops observations with the value zero, except for `nm` and custom
  syncers; `nm` sends `datetime.min` for the minutes of its range
  (`timeio/ext_api.py:578, 583`).
* A thing with an API and an sFTP server never has its files copied
  (`mqtt_sync_wrapper.py`).
* A custom syncer is cached until the worker ends; a new version of it is not loaded.
* The sync compares the time that the server tells of a file with the one at which
  MinIO stored the copy. If the former is ahead (a clock that is ahead, a transfer that
  sets a time to come, or a container that is not in UTC, as `timeio/remote_fs.py:124`
  reads a UTC time as a local one), the same version is uploaded again by each run
  until MinIO's clock has passed it, and parsed again each time: the exception in
  `EveryUploadIsNews`.
* If it is behind (a clock that is behind, a rename of a finished file, a transfer that
  keeps the time), a change that keeps the size is never copied: the exception in
  `HiddenOnlyDuringUpload` and `BucketCatchesUp`.
* What is removed from the server stays in the bucket. One file that cannot be opened
  starves those listed after it (`timeio/remote_fs.py:290`).
* One vocabulary without entries, or one foreign table that cannot be dropped, keeps
  all vocabularies from being stored, and at QoS 1 the views from being refreshed, whose
  runs wait in the same queue; one broken view rolls back the refresh of all
  (`timeio/sms.py`). Entries that were removed stay.

## 9. What is not modelled

* A crash of the broker, which saves its queues every ten seconds
  (`mosquitto.conf`): it loses and repeats messages at any QoS, and no service
  reacts to it.
* What parsers and casts make of data, what SaQC computes, the text of journal
  entries, dashboards and views.
* `run_assign_parser_uuids.py`, run once by hand beside the ingest worker; deletion
  of files in a bucket; data products and temporary streams of a QC run.
* MQTT ingest has no module of its own: its handler parses one message, stores its
  rows and announces them, and keeps nothing. How a message reaches it is
  `MqttWorker`, what its rows meet is `QcRun`.
* Times within the hour at which a job of the API sync starts, so the small gaps
  that late starts leave (section 8).
* Directories on an sFTP server (the bucket has none), text of requests and answers of
  the APIs, the objects that a deletion removes from Grafana one by one.
* The cache of `feta`: each handler makes objects of its own, so that no two reads of
  one handler disagree but for rows that go away in between (`ThingDeletion`).
* Monitoring, roles of Grafana users, the Keycloak notifier and the compose
  files, but for restart policy and QoS, which are constants of `MqttWorker`.

External, modelled from how the code uses them: mosquitto and paho, PostgreSQL
(atomic transactions, statements as the migrations define them), MinIO (versions,
tags, notifications), the DB API (an upsert keeps the label of an existing row,
labels overwrite), python-crontab and croniter, the frontend.
