---------------------------- MODULE ThingDeletion ----------------------------
(***************************************************************************)
(* The life of a thing, from its saves in the frontend to its deletion:    *)
(* three programs that know nothing of each other write the same places.   *)
(*                                                                         *)
(*   updater  run_configdb_updater.py stores a save in config_db, row by   *)
(*            row in one transaction, and announces the thing;             *)
(*   worker   setup_thing.py runs one handler after the other for an       *)
(*            announced thing; each handler reads the thing for itself     *)
(*            (timeio/feta.py) and then writes what it provides;           *)
(*   script   run_delete_thing.py, run by hand for one thing, deletes its  *)
(*            rows in one transaction and, in the middle of it, its bucket *)
(*            and its job, for which there is no rollback.                 *)
(*                                                                         *)
(* A save is a number, its revision, and the optional sections it has.     *)
(* What is provided for a thing is remembered with the revision the        *)
(* handler had read, 0 if it is not there.  How the updater and the        *)
(* handlers fail by themselves is modelled in ConfigDb and ThingSetup; the *)
(* handler of Frost, whose results the script does not name, is left out.  *)
(***************************************************************************)
EXTENDS Integers, Sequences, FiniteSets

CONSTANTS
  Things,
  Existing,      \* things that were saved with all sections and set up before
  Doomed,        \* things that are to be deleted
  SectionSets,   \* the sets of sections the saves of a thing may have
  NoThing,
  MaxEvents      \* bound: saves, and runs of the script that are killed

Sections == {"storage", "sync"}     \* s3_store; ext_sftp or ext_api

\* entry: the thing in its project's schema; job: its line of the crontab.
Artefacts == {"entry", "s3user", "bucket", "mqttuser", "board", "job"}

ASSUME DeletionAssumption ==
  /\ Existing \subseteq Things
  /\ Doomed \subseteq Things
  /\ SectionSets \in [Things -> SUBSET SUBSET Sections]
  /\ NoThing \notin Things
  /\ MaxEvents \in Nat

VARIABLES
  row,       \* config_db: the revision and the sections of each thing
  art,       \* what is provided for each thing, outside of config_db
  inbox,     \* frontend_thing_update: saves that are not stored yet
  outbox,    \* configdb_update: things that are announced
  updater,   \* the open transaction of the updater
  worker,    \* the handler in work
  script,    \* the run of the script
  linked,    \* the things with datastreams that are linked to the SMS
  saves,     \* history: saves so far
  excuses,   \* history: why something of a thing may be left over
  robbed,    \* history: what the script removed and no handler wrote since
  faults     \* history: faults of runs

vars == <<row, art, inbox, outbox, updater, worker, script, linked,
          saves, excuses, robbed, faults>>

Revisions == 0..MaxEvents + 1
Row == [rev : Revisions, sections : SUBSET Sections]
NoRow == [rev |-> 0, sections |-> {}]
File == [Things -> Revisions]         \* crontab.txt: the jobs in it
NoFile == [t \in Things |-> 0]
Save == [thing : Things, rev : Revisions, sections : SUBSET Sections]

\* The rows of a thing, in the order in which the updater writes them.
Rows == <<"mqtt", "sync", "storage", "thing">>
Handlers == <<"database", "minio", "mqtt", "grafana", "crontab">>
Steps == {"storage", "bucket", "s3user", "mqtt", "sync", "read_cron",
          "write_cron", "thing", "commit", "board"}
Reasons == {"overlap", "refused", "unfinished", "dropped", "clash"}

IdleUpdater == [at |-> 0, known |-> FALSE, had |-> {}, held |-> {}]
IdleWorker ==
  [thing |-> NoThing, at |-> 1, todo |-> "read", read |-> NoRow, file |-> NoFile]
IdleScript ==
  [thing |-> NoThing, at |-> "board", ids |-> NoRow, held |-> {}, file |-> NoFile]

TypeOK ==
  /\ row \in [Things -> Row]
  /\ art \in [Things -> [Artefacts -> Revisions]]
  /\ inbox \in Seq(Save) /\ outbox \in Seq(Things)
  /\ updater \in [at : 0..Len(Rows) + 1, known : BOOLEAN,
                  had : SUBSET Sections, held : SUBSET {Rows[i] : i \in DOMAIN Rows}]
  /\ updater.at > 0 => inbox # <<>>
  /\ worker \in [thing : Things \cup {NoThing}, at : 1..Len(Handlers),
                 todo : {"read", "write", "bucket", "open", "close"}, read : Row, file : File]
  /\ script \in [thing : Things \cup {NoThing}, at : Steps, ids : Row,
                 held : SUBSET {Rows[i] : i \in DOMAIN Rows}, file : File]
  /\ linked \subseteq Doomed
  /\ saves \in 0..MaxEvents /\ faults \in 0..MaxEvents
  /\ excuses \in [Things -> SUBSET Reasons]
  /\ robbed \subseteq Artefacts \X Things
-----------------------------------------------------------------------------
Known(t) == row[t].rev > 0
Excuse(ts, why) ==
  excuses' = [t \in Things |-> IF t \in ts THEN excuses[t] \cup {why} ELSE excuses[t]]

\* The things an actor is at work on: those it has read.
InWorker == IF worker.todo = "read" THEN {} ELSE {worker.thing}
InScript == {script.thing} \ {NoThing}
Jobs == [t \in Things |-> art[t]["job"]]
WithJobs(file) == [t \in Things |-> [art[t] EXCEPT !["job"] = file[t]]]

(***************************************************************************)
(* The frontend and the updater.                                           *)
(***************************************************************************)
SaveThing(t, sections) ==
  /\ saves + faults < MaxEvents
  /\ saves' = saves + 1
  /\ inbox' = Append(inbox, [thing |-> t, rev |-> saves + 2, sections |-> sections])
  /\ UNCHANGED <<row, art, outbox, updater, worker, script, linked, excuses, robbed, faults>>

Msg == Head(inbox)

\* store_thing_config fetches the ids of the rows the thing has; without a
\* thing every row is inserted, which waits for nobody.
FetchIds ==
  /\ updater.at = 0 /\ inbox # <<>>
  /\ updater' = [at |-> IF Known(Msg.thing) THEN 1 ELSE Len(Rows) + 1,
                 known |-> Known(Msg.thing), had |-> row[Msg.thing].sections, held |-> {}]
  /\ UNCHANGED <<row, art, inbox, outbox, worker, script, linked, saves, excuses, robbed, faults>>

\* The next row, and whether there is one of that id to be updated.
NextRow == Rows[updater.at]
Updates == NextRow \in {"mqtt", "thing"} \cup (Msg.sections \cap updater.had)
Updating == updater.at \in DOMAIN Rows

\* An UPDATE waits for the transaction that has deleted the row.
UpdaterWaits ==
  Updating /\ Updates /\ script.thing = Msg.thing /\ NextRow \in script.held

UpdateRow ==
  /\ Updating /\ ~UpdaterWaits
  /\ Updates => Known(Msg.thing)
  /\ updater' = [updater EXCEPT !.at = @ + 1,
                   !.held = IF Updates THEN @ \cup {NextRow} ELSE @]
  /\ UNCHANGED <<row, art, inbox, outbox, worker, script, linked, saves, excuses, robbed, faults>>

\* The transaction is rolled back, the exception logged: the save is lost.
LoseSave ==
  /\ updater' = IdleUpdater
  /\ inbox' = Tail(inbox)

\* UPDATE ... RETURNING finds no row: fetchone() is None, and None[0] raises.
RowIsGone ==
  /\ Updating /\ ~UpdaterWaits /\ Updates /\ ~Known(Msg.thing)
  /\ LoseSave
  /\ UNCHANGED <<row, art, outbox, worker, script, linked, saves, excuses, robbed, faults>>

CommitSave ==
  /\ updater.at = Len(Rows) + 1
  /\ row' = [row EXCEPT ![Msg.thing] = [rev |-> Msg.rev, sections |-> Msg.sections]]
  /\ outbox' = Append(outbox, Msg.thing)
  /\ updater' = IdleUpdater
  /\ inbox' = Tail(inbox)
  /\ excuses' = [excuses EXCEPT ![Msg.thing] =
       @ \cup (IF Msg.thing \in InScript THEN {"overlap"} ELSE {})
         \cup (IF row[Msg.thing].sections \subseteq Msg.sections THEN {} ELSE {"dropped"})]
  /\ UNCHANGED <<art, worker, script, linked, saves, robbed, faults>>
-----------------------------------------------------------------------------
(***************************************************************************)
(* The setup worker.                                                       *)
(***************************************************************************)
Handler == Handlers[worker.at]
At(todo) == worker.thing # NoThing /\ worker.todo = todo

NextHandler ==
  IF worker.at = Len(Handlers) THEN IdleWorker
  ELSE [IdleWorker EXCEPT !.thing = worker.thing, !.at = worker.at + 1]

Receive ==
  /\ worker.thing = NoThing /\ outbox # <<>>
  /\ worker' = [IdleWorker EXCEPT !.thing = Head(outbox)]
  /\ outbox' = Tail(outbox)
  /\ UNCHANGED <<row, art, inbox, updater, script, linked, saves, excuses, robbed, faults>>

(***************************************************************************)
(* What a handler gets of thing t: the row, and through it, when they are  *)
(* asked for, the rows it refers to.  Each handler makes an object of its  *)
(* own, with a cache of its own, so that it sees what is committed now.    *)
(***************************************************************************)
Fetched(t) == row[t]

\* Thing.from_uuid raises ObjectNotFound, and so does the look for a row
\* that went away in between: the next handler follows.
ReadThing ==
  /\ At("read")
  /\ LET t == worker.thing
         idle == ~Known(t) \/ (Handler = "minio" /\ "storage" \notin Fetched(t).sections)
     IN  /\ worker' = IF idle THEN NextHandler
                      ELSE [worker EXCEPT !.read = Fetched(t),
                              !.todo = IF Handler = "crontab" THEN "open" ELSE "write"]
         /\ Excuse(IF idle THEN {} ELSE {t} \cap InScript, "overlap")
  /\ UNCHANGED <<row, art, inbox, outbox, updater, script, linked, saves, robbed, faults>>

\* What the handler writes first; a handler of MinIO goes on with the bucket.
Provides ==
  [database |-> "entry", minio |-> "s3user", mqtt |-> "mqttuser", grafana |-> "board"]

Provide(a) ==
  /\ art' = [art EXCEPT ![worker.thing][a] = worker.read.rev]
  /\ robbed' = robbed \ {<<a, worker.thing>>}

\* upsert_thing waits for the transaction that has deleted the entry.
WriteArtefact ==
  /\ At("write")
  /\ Handler = "database" =>
       ~(script.thing = worker.thing /\ "thing" \in script.held)
  /\ Provide(Provides[Handler])
  /\ worker' = IF Handler = "minio" THEN [worker EXCEPT !.todo = "bucket"] ELSE NextHandler
  /\ UNCHANGED <<row, inbox, outbox, updater, script, linked, saves, excuses, faults>>

MakeBucket ==
  /\ At("bucket")
  /\ Provide("bucket")
  /\ worker' = NextHandler
  /\ UNCHANGED <<row, inbox, outbox, updater, script, linked, saves, excuses, faults>>

\* CronTab(tabfile) reads the whole file, with the jobs of all things ...
OpenCrontab ==
  /\ At("open")
  /\ worker' = [worker EXCEPT !.todo = "close", !.file = Jobs]
  /\ Excuse(IF script.at = "write_cron" THEN Things ELSE {}, "clash")
  /\ UNCHANGED <<row, art, inbox, outbox, updater, script, linked, saves, robbed, faults>>

\* Variant of CloseCrontab: a job that is there is not updated.
CloseCrontab_New ==
  /\ At("close")
  /\ LET t == worker.thing
         sync == "sync" \in worker.read.sections /\ worker.file[t] = 0
     IN  /\ art' = WithJobs(IF sync THEN [worker.file EXCEPT ![t] = worker.read.rev]
                                    ELSE worker.file)
         /\ robbed' = IF sync THEN robbed \ {<<"job", t>>} ELSE robbed
  /\ worker' = NextHandler
  /\ UNCHANGED <<row, inbox, outbox, updater, script, linked, saves, excuses, faults>>

(***************************************************************************)
(* ... and the end of the with block writes it.  The job of a thing that   *)
(* has no sync any more is found, left as it is and written back.          *)
(***************************************************************************)
CloseCrontab ==
  /\ At("close")
  /\ LET t == worker.thing
         sync == "sync" \in worker.read.sections
     IN  /\ art' = WithJobs(IF sync THEN [worker.file EXCEPT ![t] = worker.read.rev]
                                    ELSE worker.file)
         /\ robbed' = IF sync THEN robbed \ {<<"job", t>>} ELSE robbed
  /\ worker' = NextHandler
  /\ UNCHANGED <<row, inbox, outbox, updater, script, linked, saves, excuses, faults>>
-----------------------------------------------------------------------------
(***************************************************************************)
(* The script.  Its transaction holds the rows it has deleted until it is  *)
(* committed or rolled back.                                               *)
(***************************************************************************)
Has(section) == section \in script.ids.sections
Go(step) == script' = [script EXCEPT !.at = step]
InTxn == script.thing # NoThing /\ script.at # "board"

\* Where a run goes on after get_ids, after the bucket, and after mqtt.
FirstStep(ids) ==
  IF ids.rev = 0 THEN "thing" ELSE IF "storage" \in ids.sections THEN "storage" ELSE "mqtt"
AfterMqtt == IF Has("sync") THEN "sync" ELSE "thing"

\* get_ids, with plain reads; a thing that is not known has no ids.
Start(t) ==
  /\ script.thing = NoThing
  /\ script' = [IdleScript EXCEPT !.thing = t, !.ids = row[t], !.at = FirstStep(row[t])]
  /\ Excuse({t} \cap InWorker, "overlap")
  /\ UNCHANGED <<row, art, inbox, outbox, updater, worker, linked, saves, robbed, faults>>

\* A DELETE waits for the transaction that has updated the row.
Contended(r) ==
  /\ updater.at > 0 /\ updater.known
  /\ Msg.thing = script.thing
  /\ r \in updater.held
ScriptWaits == InTxn /\ Contended(script.at)

DeleteRow(r, next) ==
  /\ InTxn /\ script.at = r /\ ~Contended(r)
  /\ script' = [script EXCEPT !.held = @ \cup {r}, !.at = next]
  /\ UNCHANGED <<row, art, inbox, outbox, updater, worker, linked, saves, excuses, robbed, faults>>

DeleteStorageRow == DeleteRow("storage", "bucket")
DeleteMqttRow == DeleteRow("mqtt", AfterMqtt)

\* Variant of DeleteSyncRow: the job is forgotten.
DeleteSyncRow_Only == DeleteRow("sync", "thing")

DeleteSyncRow == DeleteRow("sync", "read_cron")

Remove(a) ==
  /\ art' = [art EXCEPT ![script.thing][a] = 0]
  /\ robbed' = IF Known(script.thing) THEN robbed \cup {<<a, script.thing>>} ELSE robbed

\* bucket_exists is false: return, also if the user is still there.
NoBucket ==
  /\ InTxn /\ script.at = "bucket"
  /\ art[script.thing]["bucket"] = 0
  /\ Go("mqtt")
  /\ UNCHANGED <<row, art, inbox, outbox, updater, worker, linked, saves, excuses, robbed, faults>>

DeleteBucket ==
  /\ InTxn /\ script.at = "bucket"
  /\ art[script.thing]["bucket"] # 0
  /\ Remove("bucket")
  /\ Go("s3user")
  /\ UNCHANGED <<row, inbox, outbox, updater, worker, linked, saves, excuses, faults>>

\* Objects under retention are not removed, their bucket is not empty: an
\* S3Error, which is logged, and the run goes on.
RefuseBucket ==
  /\ InTxn /\ script.at = "bucket"
  /\ art[script.thing]["bucket"] # 0
  /\ Excuse(InScript, "refused")
  /\ Go("mqtt")
  /\ UNCHANGED <<row, art, inbox, outbox, updater, worker, linked, saves, robbed, faults>>

DeleteUser ==
  /\ InTxn /\ script.at = "s3user"
  /\ art[script.thing]["s3user"] # 0
  /\ Remove("s3user")
  /\ Go("mqtt")
  /\ excuses' = [excuses EXCEPT ![script.thing] = @ \ {"refused", "unfinished"}]
  /\ UNCHANGED <<row, inbox, outbox, updater, worker, linked, saves, faults>>

ReadCron ==
  /\ InTxn /\ script.at = "read_cron"
  /\ script' = [script EXCEPT !.at = "write_cron", !.file = Jobs]
  /\ Excuse(IF worker.todo = "close" THEN Things ELSE {}, "clash")
  /\ UNCHANGED <<row, art, inbox, outbox, updater, worker, linked, saves, robbed, faults>>

\* Variant of WriteCron: every job is removed.
WriteCron_All ==
  /\ InTxn /\ script.at = "write_cron"
  /\ art' = WithJobs(NoFile)
  /\ robbed' = robbed \cup {<<"job", script.thing>>}
  /\ script' = [script EXCEPT !.at = "thing", !.file = NoFile]
  /\ UNCHANGED <<row, inbox, outbox, updater, worker, linked, saves, excuses, faults>>

WriteCron ==
  /\ InTxn /\ script.at = "write_cron"
  /\ art' = WithJobs([script.file EXCEPT ![script.thing] = 0])
  /\ robbed' = robbed \cup {<<"job", script.thing>>}
  /\ script' = [script EXCEPT !.at = "thing", !.file = NoFile]
  /\ UNCHANGED <<row, inbox, outbox, updater, worker, linked, saves, excuses, faults>>

(***************************************************************************)
(* The entry and the row of the thing.  The row is deleted by its uuid as  *)
(* it is now, also if get_ids had seen none; its entry only if get_ids had *)
(* found the schema.  With linked datastreams, delete_qc raises before.    *)
(***************************************************************************)
DeleteThing ==
  /\ InTxn /\ script.at = "thing" /\ ~Contended("thing")
  /\ ~(script.ids.rev > 0 /\ script.thing \in linked)
  /\ script' = [script EXCEPT !.at = "commit",
                  !.held = IF Known(script.thing) THEN @ \cup {"thing"} ELSE @]
  /\ UNCHANGED <<row, art, inbox, outbox, updater, worker, linked, saves, excuses, robbed, faults>>

CommitDeletion ==
  /\ InTxn /\ script.at = "commit"
  /\ row' = IF "thing" \in script.held THEN [row EXCEPT ![script.thing] = NoRow] ELSE row
  /\ art' = IF script.ids.rev > 0 THEN [art EXCEPT ![script.thing]["entry"] = 0] ELSE art
  /\ robbed' = {r \in robbed : r[2] # script.thing \/ "thing" \notin script.held}
  /\ script' = [script EXCEPT !.at = "board", !.held = {}]
  /\ UNCHANGED <<inbox, outbox, updater, worker, linked, saves, excuses, faults>>

\* Variant of DeleteBoard: only for a thing that get_ids found.
DeleteBoard_Known ==
  /\ script.thing # NoThing /\ script.at = "board"
  /\ IF script.ids.rev > 0 THEN Remove("board") ELSE UNCHANGED <<art, robbed>>
  /\ script' = IdleScript
  /\ UNCHANGED <<row, inbox, outbox, updater, worker, linked, saves, excuses, faults>>

\* delete_dashboard goes through all organisations.
DeleteBoard ==
  /\ script.thing # NoThing /\ script.at = "board"
  /\ Remove("board")
  /\ script' = IdleScript
  /\ UNCHANGED <<row, inbox, outbox, updater, worker, linked, saves, excuses, faults>>

\* An organisation that cannot be switched to is logged and left out.
SkipOrg ==
  /\ script.thing # NoThing /\ script.at = "board"
  /\ saves + faults < MaxEvents
  /\ faults' = faults + 1
  /\ script' = IdleScript
  /\ UNCHANGED <<row, art, inbox, outbox, updater, worker, linked, saves, excuses, robbed>>

(***************************************************************************)
(* The run ends with an exception: the transaction is rolled back, what    *)
(* was removed elsewhere is not.                                           *)
(***************************************************************************)
RollBack == script' = IdleScript

\* user_remove of a user that is not there; delete_qc, whose statement has
\* a parameter but no placeholder.
Raise ==
  /\ InTxn
  /\ \/ script.at = "s3user" /\ art[script.thing]["s3user"] = 0
     \/ script.at = "thing" /\ script.ids.rev > 0 /\ script.thing \in linked
  /\ RollBack
  /\ UNCHANGED <<row, art, inbox, outbox, updater, worker, linked, saves, excuses, robbed, faults>>

\* The run is killed, or a service does not answer.
Die ==
  /\ script.thing # NoThing /\ saves + faults < MaxEvents
  /\ faults' = faults + 1
  /\ Excuse(IF script.at = "s3user" THEN InScript ELSE {}, "unfinished")
  /\ RollBack
  /\ UNCHANGED <<row, art, inbox, outbox, updater, worker, linked, saves, robbed>>

(***************************************************************************)
(* The updater and the script lock the rows in different orders.  When     *)
(* each waits for the other, PostgreSQL aborts one of them.                *)
(***************************************************************************)
Deadlock == UpdaterWaits /\ ScriptWaits

ResolveDeadlock ==
  /\ Deadlock
  /\ \/ LoseSave /\ UNCHANGED script
     \/ RollBack /\ UNCHANGED <<inbox, updater>>
  /\ UNCHANGED <<row, art, outbox, worker, linked, saves, excuses, robbed, faults>>
-----------------------------------------------------------------------------
Init ==
  /\ row = [t \in Things |->
       IF t \in Existing THEN [rev |-> 1, sections |-> Sections] ELSE NoRow]
  /\ art = [t \in Things |-> [a \in Artefacts |-> IF t \in Existing THEN 1 ELSE 0]]
  /\ inbox = <<>> /\ outbox = <<>>
  /\ updater = IdleUpdater /\ worker = IdleWorker /\ script = IdleScript
  /\ linked \in SUBSET Doomed
  /\ saves = 0 /\ faults = 0
  /\ excuses = [t \in Things |-> {}]
  /\ robbed = {}

Update == FetchIds \/ UpdateRow \/ RowIsGone \/ CommitSave

SetUp ==
  Receive \/ ReadThing \/ WriteArtefact \/ MakeBucket \/ OpenCrontab \/ CloseCrontab

Delete ==
  \/ DeleteStorageRow \/ NoBucket \/ DeleteBucket \/ RefuseBucket \/ DeleteUser
  \/ DeleteMqttRow \/ DeleteSyncRow \/ ReadCron \/ WriteCron \/ DeleteThing
  \/ CommitDeletion \/ DeleteBoard \/ Raise

Next ==
  \/ \E t \in Things : \E sections \in SectionSets[t] : SaveThing(t, sections)
  \/ \E t \in Doomed : Start(t)
  \/ Update \/ SetUp \/ Delete \/ ResolveDeadlock \/ Die \/ SkipOrg

Spec == Init /\ [][Next]_vars

(***************************************************************************)
(* The two workers go on with their messages, a run of the script goes on  *)
(* until it ends, and who wants a thing of Doomed deleted starts the       *)
(* script again and again.  A transaction that waits for a row gets it     *)
(* when the other one ends, before a later one does: strong fairness.      *)
(***************************************************************************)
FairSpec ==
  /\ Spec
  /\ SF_vars(Update) /\ WF_vars(SetUp) /\ WF_vars(Delete) /\ WF_vars(ResolveDeadlock)
  /\ \A t \in Doomed : SF_vars(Start(t))
-----------------------------------------------------------------------------
(***************************************************************************)
(* Properties.                                                             *)
(***************************************************************************)
Excused(t, why) == excuses[t] \cap why # {}
Left(t) == {a \in Artefacts : art[t][a] # 0}

(***************************************************************************)
(* Once the row of a thing is gone, a later run finds no ids and deletes   *)
(* nothing but the dashboard: whatever else is left then is left for good. *)
(* The MQTT user is left each time, as delete_mqtt_user of                 *)
(* run_delete_thing.py:63 is never called, against the list of its main.   *)
(* But for that and the dashboard nothing may be left, however the runs    *)
(* before were killed - unless the thing was saved or set up during a run, *)
(* its bucket was refused, a run ended between the bucket and its user, a  *)
(* section had been taken away before the deletion, or the setup worker    *)
(* had the crontab open as well.                                           *)
(***************************************************************************)
GoneForGood ==
  \A t \in Things : ~Known(t) =>
    \A a \in Left(t) \ {"board", "mqttuser"} :
      CASE a = "entry"  -> Excused(t, {"overlap"})
        [] a = "bucket" -> Excused(t, {"overlap", "refused", "dropped"})
        [] a = "s3user" -> Excused(t, {"overlap", "refused", "dropped", "unfinished"})
        [] a = "job"    -> Excused(t, {"overlap", "dropped", "clash"})

(***************************************************************************)
(* A job of the crontab is lost or set back to an older state only when    *)
(* its own thing is deleted, or when the script and the setup worker both  *)
(* had the file open, each with a copy of its own.                         *)
(***************************************************************************)
JobsOfOthersStay ==
  [][\A t \in Things :
       art'[t]["job"] < art[t]["job"] =>
         (script.thing = t /\ script.at = "write_cron") \/ Excused(t, {"clash"})]_vars

(***************************************************************************)
(* A deletion that is tried again and again gets the thing and its         *)
(* dashboard out of the way, whatever killed the runs before, and whatever *)
(* saves of it waited in the queue - but for a thing that is linked.       *)
(***************************************************************************)
DeletionCompletes ==
  \A t \in Doomed :
    <>[](t \in linked \/ (~Known(t) /\ art[t]["board"] = 0))

Wanted(t) ==
  {"entry", "mqttuser", "board"}
    \cup (IF "storage" \in row[t].sections THEN {"s3user", "bucket"} ELSE {})
    \cup (IF "sync" \in row[t].sections THEN {"job"} ELSE {})

(***************************************************************************)
(* Every save is stored or lost, none blocks the updater for ever, and in  *)
(* the end a thing that is there is provided as in its last stored save -  *)
(* but for what a run of the script took away and did not get to the end,  *)
(* and for a job that was overwritten.                                     *)
(***************************************************************************)
LastSaveWins ==
  <>[](/\ inbox = <<>> /\ outbox = <<>> /\ worker.thing = NoThing
       /\ \A t \in Things : Known(t) =>
            \A a \in Wanted(t) :
              \/ art[t][a] = row[t].rev
              \/ <<a, t>> \in robbed
              \/ a = "job" /\ Excused(t, {"clash"}))
=============================================================================
