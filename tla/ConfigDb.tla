------------------------------ MODULE ConfigDb ------------------------------
(***************************************************************************)
(* The configuration database and the worker that fills it:                *)
(* run_configdb_updater.py consumes frontend_thing_update and              *)
(* qaqc_settings_update, writes the tables of config_db in one transaction *)
(* per message (timeio/configdb.py) and publishes the thing on             *)
(* configdb_update.                                                        *)
(*                                                                         *)
(* Rows are numbered by insertion, as the identity columns do; a row is    *)
(* never deleted by this worker.  A project and its database row are       *)
(* always written together and are one entry here.  What the tables keep   *)
(* besides keys and references is left out, the settings of a parser and   *)
(* the tests of a QC config excepted.                                      *)
(***************************************************************************)
EXTENDS Integers, Sequences, FiniteSets

CONSTANTS
  Things, Projects, Schemas,
  Sections,          \* mqtt, external_sftp, external_api
  ParserNames, QcNames, Contents,
  None,              \* SQL NULL
  ThingMsgs,         \* the frontend_thing_update messages of this instance
  QcMsgs,            \* the qaqc_settings_update messages of this instance
  ParserUuidUnique,  \* there is a unique index on file_parser.uuid
  CommitMayFail,     \* the connection to the database may break at COMMIT
  MaxMsgs,           \* bound: messages received
  MaxCrashes         \* bound: crashes of the worker

(***************************************************************************)
(* A thing message after prepare_data_by_version: a section, the parser    *)
(* and the raw data storage are there or None.  legacy: versions 4 to 6,   *)
(* in which the thing brings its QC config qc along.                       *)
(***************************************************************************)
ThingMsg ==
  [thing : Things, project : Projects, schema : Schemas,
   sections : SUBSET Sections,
   parser : ([name : ParserNames, settings : Contents]) \cup {None},
   storage : BOOLEAN,
   legacy : BOOLEAN,
   qc : ([name : QcNames, tests : Contents]) \cup {None}]

\* qaqc_settings_update, version 3 of the QC config.
QcMsg == [project : Projects, name : QcNames, default : BOOLEAN, tests : Contents]

VARIABLES
  db,        \* the committed tables
  txn,       \* the tables as the open transaction sees them
  msg,       \* the thing message in work, or None
  pc,        \* "idle", "commit" (publish is queued), "send"
  commits,   \* history: committed updates per thing
  aborted,   \* history: updates per thing whose COMMIT failed
  notified,  \* history: notifications sent per thing
  last,      \* history: the last committed message of each thing
  qcLog,     \* history: the committed QC messages
  failed,    \* history: the thing messages that could not be stored
  received,  \* history: messages received
  crashes    \* history: crashes so far

vars == <<db, txn, msg, pc, commits, aborted, notified, last, qcLog, failed, received, crashes>>

NoRow == 0

QcRow == [name : QcNames, project : Projects \cup {None},
          default : BOOLEAN, tests : Contents]

ParserRow == [name : ParserNames, project : Projects, settings : Contents]

ThingRow == [project : Projects, sections : [Sections -> Nat],
             storage : Nat, qc : Nat]

Tables ==
  [schemaOf : [Projects -> Schemas \cup {None}],   \* project and database
   mapping  : SUBSET (Schemas \X Things),           \* schema_thing_mapping
   rows     : [Sections -> Nat],                    \* rows of mqtt, ext_sftp, ext_api
   parsers  : Seq(ParserRow),                       \* file_parser
   storages : Seq(Nat),                             \* s3_store: its file_parser_id
   things   : [Things -> ThingRow \cup {None}],
   qaqc     : Seq(QcRow)]                           \* qaqc with its qaqc_tests

ASSUME ConfigDbAssumption ==
  /\ None \notin Projects \cup Schemas
  /\ None \notin [name : ParserNames, settings : Contents]
  /\ None \notin [name : QcNames, tests : Contents]
  /\ None \notin ThingMsg
  /\ None \notin ThingRow
  /\ ThingMsgs \subseteq ThingMsg
  /\ QcMsgs \subseteq QcMsg
  /\ ParserUuidUnique \in BOOLEAN /\ CommitMayFail \in BOOLEAN
  /\ MaxMsgs \in Nat /\ MaxCrashes \in Nat

TypeOK ==
  /\ db \in Tables /\ txn \in Tables
  /\ msg \in ThingMsgs \cup {None}
  /\ pc \in {"idle", "commit", "send"}
  /\ (pc = "idle") <=> (msg = None)
  /\ commits \in [Things -> Nat] /\ aborted \in [Things -> Nat]
  /\ notified \in [Things -> Nat]
  /\ last \in [Things -> ThingMsgs \cup {None}]
  /\ qcLog \in Seq(QcMsgs)
  /\ failed \subseteq ThingMsgs
  /\ received \in 0..MaxMsgs /\ crashes \in 0..MaxCrashes
-----------------------------------------------------------------------------
(***************************************************************************)
(* timeio/configdb.py: the tables after a function of it, d before.        *)
(***************************************************************************)
Known(d, t) == d.things[t] # None

\* The number of a section's row of a thing (fetch_thing_related_ids).
SectionId(d, t, s) == IF Known(d, t) THEN d.things[t].sections[s] ELSE NoRow
StorageId(d, t) == IF Known(d, t) THEN d.things[t].storage ELSE NoRow
ParserId(d, t) ==
  IF StorageId(d, t) = NoRow THEN NoRow ELSE d.storages[StorageId(d, t)]

\* store_project_config: the project and its database, inserted or updated.
StoreProject(d, p, schema) == [d EXCEPT !.schemaOf[p] = schema]

(***************************************************************************)
(* upsert_schema_thing_mapping returns early if the row it happened to     *)
(* fetch has the schema, and otherwise inserts: the unique key is the pair.*)
(***************************************************************************)
StoreMapping(d, t, schema) == [d EXCEPT !.mapping = @ \cup {<<schema, t>>}]

\* The unique_qaqc_per_project trigger, before row gets the number id.
Undefault(q, row, id) ==
  [i \in DOMAIN q |->
     IF row.default /\ row.project # None /\ q[i].project = row.project /\ i # id
       THEN [q[i] EXCEPT !.default = FALSE]
       ELSE q[i]]

\* Variant of StoreQcRow: the trigger fires on insert only.
StoreQcRow_InsertTrigger(q, row, id) ==
  IF id = NoRow THEN Append(Undefault(q, row, Len(q) + 1), row)
                ELSE [q EXCEPT ![id] = row]

\* upsert_table_qaqc, and the tests deleted and inserted anew.
StoreQcRow(q, row, id) ==
  IF id = NoRow THEN Append(Undefault(q, row, Len(q) + 1), row)
                ELSE [Undefault(q, row, id) EXCEPT ![id] = row]

\* Variant of QcId: a config is never looked up.
QcId_New(q, p, name) == NoRow

\* Variant of QcId: the config is looked up by its name alone.
QcId_ByName(q, p, name) ==
  LET ids == {i \in DOMAIN q : q[i].name = name}
  IN  IF ids = {} THEN NoRow ELSE CHOOSE i \in ids : TRUE

\* fetch_qaqc_id: by project and name.
QcId(q, p, name) ==
  LET ids == {i \in DOMAIN q : q[i].project = p /\ q[i].name = name}
  IN  IF ids = {} THEN NoRow ELSE CHOOSE i \in ids : TRUE

(***************************************************************************)
(* store_qaqc_config: the config is looked up in the project.  A legacy    *)
(* config is then stored without a project and always as a default.        *)
(***************************************************************************)
StoreQc(d, c) ==
  [d EXCEPT !.qaqc =
     StoreQcRow(@, [name |-> c.name, project |-> c.project,
                    default |-> c.default, tests |-> c.tests],
                QcId(@, c.project, c.name))]

LegacyRow(m) ==
  [name |-> m.qc.name, project |-> None, default |-> TRUE, tests |-> m.qc.tests]

LegacyId(d, m) ==
  LET id == QcId(d.qaqc, m.project, m.qc.name)
  IN  IF id = NoRow THEN Len(d.qaqc) + 1 ELSE id

StoreLegacyQc(d, m) ==
  IF m.qc = None THEN d
  ELSE [d EXCEPT !.qaqc =
          StoreQcRow(@, LegacyRow(m), QcId(@, m.project, m.qc.name))]

\* The uuid of a parser is computed from its name and its project.
SameParser(row, m) == row.name = m.parser.name /\ row.project = m.project
ParserRowOf(m) ==
  [name |-> m.parser.name, project |-> m.project, settings |-> m.parser.settings]
Twins(d, m) == {i \in DOMAIN d.parsers : SameParser(d.parsers[i], m)}

(***************************************************************************)
(* upsert_table_file_parser.  The row of a thing that has a parser is      *)
(* rewritten.  Otherwise a row is inserted; ON CONFLICT (uuid) returns the *)
(* existing row and leaves its settings alone.  Without a unique index the *)
(* INSERT is an error, with it an UPDATE to the uuid of another row is.    *)
(***************************************************************************)
ParserFails(d, m) ==
  LET old == ParserId(d, m.thing) IN
  \/ old = NoRow /\ ~ParserUuidUnique
  \/ old # NoRow /\ ParserUuidUnique /\ Twins(d, m) \ {old} # {}

StoredParserId(d, m) ==
  LET old == ParserId(d, m.thing) IN
  IF old # NoRow THEN old
  ELSE IF Twins(d, m) = {} THEN Len(d.parsers) + 1
  ELSE CHOOSE i \in Twins(d, m) : TRUE

StoreParser(d, m) ==
  LET old == ParserId(d, m.thing) IN
  IF old # NoRow THEN [d EXCEPT !.parsers[old] = ParserRowOf(m)]
  ELSE IF Twins(d, m) = {} THEN [d EXCEPT !.parsers = Append(@, ParserRowOf(m))]
  ELSE d

\* store_thing_config updates the rows of the sections the message has.
StoreSections(d, m) ==
  [d EXCEPT !.rows = [s \in Sections |->
     IF s \in m.sections /\ SectionId(d, m.thing, s) = NoRow
       THEN d.rows[s] + 1 ELSE d.rows[s]]]

\* Variant of SectionIdAfter: a section that is gone is kept.
SectionIdAfter_Keep(d, m, s) ==
  IF s \in m.sections /\ SectionId(d, m.thing, s) = NoRow
    THEN d.rows[s] + 1 ELSE SectionId(d, m.thing, s)

\* Variant of SectionIdAfter: the newest row is used again.
SectionIdAfter_Newest(d, m, s) ==
  IF s \notin m.sections THEN NoRow
  ELSE IF SectionId(d, m.thing, s) = NoRow /\ d.rows[s] = 0 THEN 1
  ELSE IF SectionId(d, m.thing, s) = NoRow THEN d.rows[s]
  ELSE SectionId(d, m.thing, s)

\* The row of a section: the thing's own, a new one, or none.
SectionIdAfter(d, m, s) ==
  IF s \notin m.sections THEN NoRow
  ELSE IF SectionId(d, m.thing, s) = NoRow THEN d.rows[s] + 1
  ELSE SectionId(d, m.thing, s)

\* Variant of StorageParser: a message without a parser takes it away.
StorageParser_Reset(d, m) ==
  IF m.parser = None THEN NoRow ELSE StoredParserId(d, m)

\* "Preserve existing file_parser_id if re-sync doesn't specify a new one"
StorageParser(d, m) ==
  IF m.parser = None THEN ParserId(d, m.thing) ELSE StoredParserId(d, m)

StorageIdAfter(d, m) ==
  IF ~m.storage THEN NoRow
  ELSE IF StorageId(d, m.thing) = NoRow THEN Len(d.storages) + 1
  ELSE StorageId(d, m.thing)

StoreStorage(d, m) ==
  IF ~m.storage THEN d
  ELSE IF StorageId(d, m.thing) = NoRow
    THEN [d EXCEPT !.storages = Append(@, StorageParser(d, m))]
    ELSE [d EXCEPT !.storages[StorageId(d, m.thing)] = StorageParser(d, m)]

\* upsert_table_thing, from the ids that were fetched before (in d).
ThingRowAfter(d, m, qid) ==
  [project  |-> m.project,
   sections |-> [s \in Sections |-> SectionIdAfter(d, m, s)],
   storage  |-> StorageIdAfter(d, m),
   qc       |-> qid]

(***************************************************************************)
(* store_thing_config.  The ids are fetched once, after the mapping; each  *)
(* table is then written by itself, so that the order does not matter.     *)
(***************************************************************************)
StoreThing(d, m, qid) ==
  LET sections == StoreSections(d, m)
      storage == StoreStorage(d, m)
      parser == IF m.parser = None THEN d ELSE StoreParser(d, m)
  IN  [StoreMapping(d, m.thing, m.schema) EXCEPT
         !.rows = sections.rows,
         !.parsers = parser.parsers,
         !.storages = storage.storages,
         !.things = [@ EXCEPT ![m.thing] = ThingRowAfter(d, m, qid)]]

(***************************************************************************)
(* The body of the transaction of thing_update.  A legacy message without  *)
(* a QC config makes it raise (data["qaqc"] is None).                      *)
(***************************************************************************)
ThingFails(d, m) ==
  \/ m.legacy /\ m.qc = None
  \/ m.parser # None /\ ParserFails(d, m)

ThingUpdated(d, m) ==
  LET project == StoreProject(d, m.project, m.schema)
  IN  IF m.legacy
        THEN StoreThing(StoreLegacyQc(project, m), m, LegacyId(project, m))
        ELSE StoreThing(project, m, NoRow)
-----------------------------------------------------------------------------
(***************************************************************************)
(* The worker.  Its messages are handled one after the other.              *)
(***************************************************************************)

\* Variant of UpdateThing: the notification goes out inside of the callback.
UpdateThing_SendsAtOnce(m) ==
  /\ pc = "idle" /\ received < MaxMsgs
  /\ received' = received + 1
  /\ ~ThingFails(db, m)
  /\ txn' = ThingUpdated(db, m)
  /\ msg' = m /\ pc' = "commit"
  /\ notified' = [notified EXCEPT ![m.thing] = @ + 1]
  /\ UNCHANGED <<db, commits, aborted, last, qcLog, failed, crashes>>

(***************************************************************************)
(* thing_update up to the end of its with block.  client.publish() inside  *)
(* of a callback only queues the packet; paho writes it after the callback *)
(* has returned, after the COMMIT.                                         *)
(***************************************************************************)
UpdateThing(m) ==
  /\ pc = "idle" /\ received < MaxMsgs
  /\ received' = received + 1
  /\ ~ThingFails(db, m)
  /\ txn' = ThingUpdated(db, m)
  /\ msg' = m /\ pc' = "commit"
  /\ UNCHANGED <<db, commits, aborted, notified, last, qcLog, failed, crashes>>

(***************************************************************************)
(* thing_update or qaqc_update raises before the commit: the message is    *)
(* malformed, its project is not known, or the database is away.  The      *)
(* exception is logged, the transaction rolled back, the message consumed. *)
(***************************************************************************)
Reject ==
  /\ pc = "idle" /\ received < MaxMsgs
  /\ received' = received + 1
  /\ UNCHANGED <<db, txn, msg, pc, commits, aborted, notified, last, qcLog, failed, crashes>>

\* The same for a thing message that these tables cannot take.
RejectThing(m) ==
  /\ pc = "idle" /\ received < MaxMsgs
  /\ received' = received + 1
  /\ ThingFails(db, m)
  /\ failed' = failed \cup {m}
  /\ UNCHANGED <<db, txn, msg, pc, commits, aborted, notified, last, qcLog, crashes>>

\* The connection context manager commits, after the publish.
Commit ==
  /\ pc = "commit"
  /\ db' = txn
  /\ pc' = "send"
  /\ commits' = [commits EXCEPT ![msg.thing] = @ + 1]
  /\ last' = [last EXCEPT ![msg.thing] = msg]
  /\ UNCHANGED <<txn, msg, aborted, notified, qcLog, failed, received, crashes>>

\* COMMIT raises: the exception is logged, but the publish stays queued.
CommitFails ==
  /\ CommitMayFail
  /\ pc = "commit"
  /\ txn' = db
  /\ pc' = "send"
  /\ aborted' = [aborted EXCEPT ![msg.thing] = @ + 1]
  /\ UNCHANGED <<db, msg, commits, notified, last, qcLog, failed, received, crashes>>

\* Variant of Notify: the message in work is not forgotten.
Notify_Keep ==
  /\ pc = "send"
  /\ notified' = [notified EXCEPT ![msg.thing] = @ + 1]
  /\ pc' = "idle"
  /\ UNCHANGED <<db, txn, msg, commits, aborted, last, qcLog, failed, received, crashes>>

\* paho writes the queued packet.
Notify ==
  /\ pc = "send"
  /\ notified' = [notified EXCEPT ![msg.thing] = @ + 1]
  /\ msg' = None /\ pc' = "idle"
  /\ UNCHANGED <<db, txn, commits, aborted, last, qcLog, failed, received, crashes>>

\* qaqc_update: one transaction, nobody is informed.
UpdateQc(c) ==
  /\ pc = "idle" /\ received < MaxMsgs
  /\ received' = received + 1
  /\ db.schemaOf[c.project] # None
  /\ db' = StoreQc(db, c)
  /\ txn' = db'
  /\ qcLog' = Append(qcLog, c)
  /\ UNCHANGED <<msg, pc, commits, aborted, notified, last, failed, crashes>>

\* The process dies; an open transaction and a queued publish are gone.
Crash ==
  /\ crashes < MaxCrashes
  /\ crashes' = crashes + 1
  /\ txn' = db
  /\ msg' = None /\ pc' = "idle"
  /\ UNCHANGED <<db, commits, aborted, notified, last, qcLog, failed, received>>
-----------------------------------------------------------------------------
EmptyDb ==
  [schemaOf |-> [p \in Projects |-> None], mapping |-> {},
   rows |-> [s \in Sections |-> 0], parsers |-> <<>>, storages |-> <<>>,
   things |-> [t \in Things |-> None], qaqc |-> <<>>]

Init ==
  /\ db = EmptyDb /\ txn = EmptyDb
  /\ msg = None /\ pc = "idle"
  /\ commits = [t \in Things |-> 0] /\ aborted = [t \in Things |-> 0]
  /\ notified = [t \in Things |-> 0]
  /\ last = [t \in Things |-> None]
  /\ qcLog = <<>> /\ failed = {}
  /\ received = 0 /\ crashes = 0

Next ==
  \/ \E m \in ThingMsgs : UpdateThing(m)
  \/ \E c \in QcMsgs : UpdateQc(c)
  \/ \E m \in ThingMsgs : RejectThing(m)
  \/ Reject
  \/ Commit
  \/ CommitFails
  \/ Notify
  \/ Crash

Spec == Init /\ [][Next]_vars
-----------------------------------------------------------------------------
(***************************************************************************)
(* Properties.                                                             *)
(***************************************************************************)
UniqueConfigs(q) ==
  \A i, j \in DOMAIN q :
    (q[i].project = q[j].project /\ q[i].project # None /\ q[i].name = q[j].name)
      => i = j

SingleDefault(q) ==
  \A i, j \in DOMAIN q :
    (q[i].default /\ q[j].default /\ q[i].project = q[j].project /\ q[i].project # None)
      => i = j

(***************************************************************************)
(* A project never has two default QC configs, whatever mix of legacy and  *)
(* project configs arrives and whatever is rolled back: the trigger of     *)
(* V2_11 unsets the old default on insert and on update.                   *)
(***************************************************************************)
OneDefaultPerProject == SingleDefault(db.qaqc)

(***************************************************************************)
(* A project never has two configs of one name, although no unique index   *)
(* says so: store_qaqc_config looks the config up first.                   *)
(***************************************************************************)
OneConfigPerName == UniqueConfigs(db.qaqc)

Outdated(i, P(_)) == \E j \in DOMAIN qcLog : j > i /\ P(qcLog[j])

(***************************************************************************)
(* The configs of a project are those that were announced last: the last   *)
(* message of a name gives its tests, the last message with the default    *)
(* flag the default.  (Project configs only; a legacy config of the same   *)
(* name takes the row away.)                                               *)
(***************************************************************************)
QcAsAnnounced ==
  \A i \in DOMAIN qcLog :
    LET c == qcLog[i]
        Same(e) == e.project = c.project /\ e.name = c.name
        NewDefault(e) == e.project = c.project /\ e.default
    IN  ~Outdated(i, Same) =>
          \E k \in DOMAIN db.qaqc :
            /\ db.qaqc[k].project = c.project
            /\ db.qaqc[k].name = c.name
            /\ db.qaqc[k].tests = c.tests
            /\ db.qaqc[k].default <=> (c.default /\ ~Outdated(i, NewDefault))

\* The thing in the tables is what its last committed message m said.
Announced(t, m) ==
  LET row == db.things[t] IN
  /\ row # None
  /\ row.project = m.project
  /\ {s \in Sections : row.sections[s] # NoRow} = m.sections
  /\ (row.storage # NoRow) <=> m.storage
  /\ (row.qc # NoRow) <=> m.legacy
  /\ <<m.schema, t>> \in db.mapping

(***************************************************************************)
(* The tables follow the messages: sections that come, go and come again,  *)
(* the storage and the QC config of a thing are those of its last          *)
(* committed message, after roll backs, failed commits and crashes.        *)
(***************************************************************************)
ThingAsAnnounced ==
  \A t \in Things : last[t] # None => Announced(t, last[t])

(***************************************************************************)
(* No two things share a row of mqtt, ext_sftp, ext_api or s3_store (the   *)
(* unique columns of the thing table), though rows are left behind when a  *)
(* section goes and new ones are made when it comes back.                  *)
(***************************************************************************)
OwnRows ==
  \A t, u \in Things : (t # u /\ Known(db, t) /\ Known(db, u)) =>
    /\ \A s \in Sections :
         SectionId(db, t, s) # NoRow => SectionId(db, t, s) # SectionId(db, u, s)
    /\ StorageId(db, t) # NoRow => StorageId(db, t) # StorageId(db, u)

(***************************************************************************)
(* A thing that keeps its storage keeps its parser when a message names    *)
(* none (configdb.py: "Preserve existing file_parser_id").                 *)
(***************************************************************************)
ParserPreserved ==
  [][\A t \in Things :
       (ParserId(db, t) # NoRow /\ StorageId(db', t) # NoRow /\
        last'[t].parser = None)
         => ParserId(db', t) = ParserId(db, t)]_vars

(***************************************************************************)
(* Nobody is informed of an update before its transaction has ended, one   *)
(* way or the other (run_configdb_updater.py:208): the consumers of        *)
(* configdb_update read the tables.  And only a crash in between keeps an  *)
(* update from being announced whose transaction has ended.                *)
(***************************************************************************)
Untold(t) == IF pc = "send" /\ msg.thing = t THEN 1 ELSE 0

NotifiedIsDecided ==
  \A t \in Things :
    /\ notified[t] + Untold(t) <= commits[t] + aborted[t]
    /\ commits[t] + aborted[t] <= notified[t] + Untold(t) + crashes

(***************************************************************************)
(* run_configdb_updater.py:173: "We only commit changes if all inserts     *)
(* were successful, and we also successfully informed downstream services  *)
(* via mqtt, if anything goes wrong we roll back."  So what the services   *)
(* are informed of is in the tables.                                       *)
(***************************************************************************)
NotifiedIsCommitted == \A t \in Things : notified[t] <= commits[t]

(***************************************************************************)
(* _upsert: "INSERT ... ON CONFLICT confl_col DO UPDATE".  A first message *)
(* of a thing can be stored, also if it brings a parser along.             *)
(***************************************************************************)
NewThingIsStored ==
  \A m \in failed : m.legacy \/ last[m.thing] # None
=============================================================================
