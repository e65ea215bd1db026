------------------------ MODULE ThingDeletion_proofs ------------------------
(***************************************************************************)
(* For all things, sections, saves and faults: the types of ThingDeletion, *)
(* whose jobs can get lost, and what a finished deletion leaves behind.    *)
(***************************************************************************)
EXTENDS ThingDeletion, SequenceTheorems, TLAPS

LEMMA ThingsAndBounds ==
  /\ NoThing \notin Things /\ Doomed \subseteq Things
  /\ SectionSets \in [Things -> SUBSET SUBSET Sections]
  /\ MaxEvents \in Nat
  BY DeletionAssumption

RowNames == {"mqtt", "sync", "storage", "thing"}

LEMMA RowsAre ==
  /\ Len(Rows) = 4 /\ DOMAIN Rows = 1..4
  /\ \A i \in 1..4 : Rows[i] \in RowNames
  /\ {Rows[i] : i \in DOMAIN Rows} = RowNames
  BY DEF Rows, RowNames

LEMMA HandlersAre ==
  /\ Len(Handlers) = 5
  /\ Handlers[1] = "database" /\ Handlers[2] = "minio"
  /\ Handlers[3] = "mqtt" /\ Handlers[4] = "grafana" /\ Handlers[5] = "crontab"
  BY DEF Handlers

(***************************************************************************)
(* Where the worker is with a handler, and that it works on something.     *)
(***************************************************************************)
InWork(t) == worker.thing = t /\ worker.todo # "read"

WorkerInv ==
  /\ worker.todo = "write" => worker.at \in 1..4
  /\ worker.todo = "bucket" => worker.at = 2
  /\ worker.todo \in {"open", "close"} => worker.at = 5
  /\ worker.todo # "read" =>
       /\ worker.thing \in Things
       /\ worker.read.rev > 0
       /\ worker.at = 2 => "storage" \in worker.read.sections

TypeInv == TypeOK /\ WorkerInv

Updaters == [at : 0..5, known : BOOLEAN, had : SUBSET Sections, held : SUBSET RowNames]
Workers == [thing : Things \cup {NoThing}, at : 1..5,
            todo : {"read", "write", "bucket", "open", "close"}, read : Row, file : File]
Scripts == [thing : Things \cup {NoThing}, at : Steps, ids : Row,
            held : SUBSET RowNames, file : File]

\* The types, with the constant expressions worked out.
LEMMA Types ==
  ASSUME TypeOK
  PROVE  /\ row \in [Things -> Row]
         /\ art \in [Things -> [Artefacts -> Revisions]]
         /\ inbox \in Seq(Save) /\ outbox \in Seq(Things)
         /\ updater \in Updaters /\ worker \in Workers /\ script \in Scripts
         /\ updater.at > 0 => inbox # <<>>
         /\ linked \subseteq Doomed
         /\ saves \in 0..MaxEvents /\ faults \in 0..MaxEvents
         /\ excuses \in [Things -> SUBSET Reasons]
         /\ robbed \subseteq Artefacts \X Things
<1>1. updater \in Updaters
  BY RowsAre DEF TypeOK, Updaters
<1>2. worker \in Workers
  BY HandlersAre DEF TypeOK, Workers
<1>3. script \in Scripts
  BY RowsAre DEF TypeOK, Scripts
<1>4. QED
  BY <1>1, <1>2, <1>3 DEF TypeOK

LEMMA TypesBack ==
  ASSUME row \in [Things -> Row],
         art \in [Things -> [Artefacts -> Revisions]],
         inbox \in Seq(Save), outbox \in Seq(Things),
         updater \in Updaters, worker \in Workers, script \in Scripts,
         updater.at > 0 => inbox # <<>>,
         linked \subseteq Doomed,
         saves \in 0..MaxEvents, faults \in 0..MaxEvents,
         excuses \in [Things -> SUBSET Reasons],
         robbed \subseteq Artefacts \X Things
  PROVE  TypeOK
<1>1. updater \in [at : 0..Len(Rows) + 1, known : BOOLEAN,
                   had : SUBSET Sections, held : SUBSET {Rows[i] : i \in DOMAIN Rows}]
  BY RowsAre DEF Updaters
<1>2. worker \in [thing : Things \cup {NoThing}, at : 1..Len(Handlers),
                  todo : {"read", "write", "bucket", "open", "close"}, read : Row, file : File]
  BY HandlersAre DEF Workers
<1>3. script \in [thing : Things \cup {NoThing}, at : Steps, ids : Row,
                  held : SUBSET {Rows[i] : i \in DOMAIN Rows}, file : File]
  BY RowsAre DEF Scripts
<1>4. QED
  BY <1>1, <1>2, <1>3 DEF TypeOK

\* The states without work.
LEMMA Idles ==
  /\ IdleUpdater \in Updaters /\ IdleUpdater.at = 0
  /\ IdleWorker \in Workers /\ IdleScript \in Scripts
  /\ IdleWorker = [thing |-> NoThing, at |-> 1, todo |-> "read", read |-> NoRow, file |-> NoFile]
  /\ IdleScript = [thing |-> NoThing, at |-> "board", ids |-> NoRow, held |-> {}, file |-> NoFile]
  /\ NoRow \in Row /\ NoFile \in File
<1>1. 0 \in Revisions
  BY ThingsAndBounds DEF Revisions
<1>2. NoRow \in Row /\ NoFile \in File
  BY <1>1 DEF NoRow, Row, NoFile, File
<1>3. QED
  BY <1>2 DEF IdleUpdater, Updaters, IdleWorker, Workers, IdleScript, Scripts, Steps

LEMMA Bookkeeping ==
  ASSUME TypeOK, NEW ts \in SUBSET Things, NEW why \in Reasons, Excuse(ts, why)
  PROVE  excuses' \in [Things -> SUBSET Reasons]
  BY Types DEF Excuse

LEMMA JobsAreAFile ==
  ASSUME TypeOK
  PROVE  Jobs \in File
  BY Types DEF Jobs, File, Artefacts

LEMMA FilesAreJobs ==
  ASSUME TypeOK, NEW file \in File
  PROVE  WithJobs(file) \in [Things -> [Artefacts -> Revisions]]
  BY Types DEF WithJobs, File, Artefacts

LEMMA TypeInit == Init => TypeInv
<1> SUFFICES ASSUME Init PROVE TypeInv
  OBVIOUS
<1>1. 0 \in Revisions /\ 1 \in Revisions
  BY ThingsAndBounds DEF Revisions
<1>2. row \in [Things -> Row]
  BY <1>1, Idles DEF Init, Row, NoRow
<1>3. art \in [Things -> [Artefacts -> Revisions]]
  BY <1>1 DEF Init
<1>4. linked \subseteq Doomed /\ saves \in 0..MaxEvents /\ faults \in 0..MaxEvents
  BY ThingsAndBounds DEF Init
<1>5. /\ inbox \in Seq(Save) /\ outbox \in Seq(Things)
      /\ excuses \in [Things -> SUBSET Reasons] /\ robbed \subseteq Artefacts \X Things
  BY DEF Init
<1>6. updater \in Updaters /\ updater.at = 0 /\ worker \in Workers /\ script \in Scripts
  BY Idles DEF Init
<1>7. WorkerInv
  BY Idles DEF Init, WorkerInv
<1>8. QED
  BY <1>2, <1>3, <1>4, <1>5, <1>6, <1>7, TypesBack DEF TypeInv

LEMMA TypesAfter ==
  ASSUME row' \in [Things -> Row],
         art' \in [Things -> [Artefacts -> Revisions]],
         inbox' \in Seq(Save), outbox' \in Seq(Things),
         updater' \in Updaters, worker' \in Workers, script' \in Scripts,
         updater'.at > 0 => inbox' # <<>>,
         linked' \subseteq Doomed,
         saves' \in 0..MaxEvents, faults' \in 0..MaxEvents,
         excuses' \in [Things -> SUBSET Reasons],
         robbed' \subseteq Artefacts \X Things
  PROVE  TypeOK'
<1>1. updater' \in [at : 0..Len(Rows) + 1, known : BOOLEAN,
                    had : SUBSET Sections, held : SUBSET {Rows[i] : i \in DOMAIN Rows}]
  BY RowsAre DEF Updaters
<1>2. worker' \in [thing : Things \cup {NoThing}, at : 1..Len(Handlers),
                   todo : {"read", "write", "bucket", "open", "close"}, read : Row, file : File]
  BY HandlersAre DEF Workers
<1>3. script' \in [thing : Things \cup {NoThing}, at : Steps, ids : Row,
                   held : SUBSET {Rows[i] : i \in DOMAIN Rows}, file : File]
  BY RowsAre DEF Scripts
<1>4. QED
  BY <1>1, <1>2, <1>3 DEF TypeOK

\* Steps that leave the worker alone.
LEMMA WorkerStays ==
  ASSUME WorkerInv, worker' = worker
  PROVE  WorkerInv'
  BY DEF WorkerInv

\* The records of the steps.
LEMMA Going ==
  ASSUME TypeOK, NEW step \in Steps
  PROVE  [script EXCEPT !.at = step] \in Scripts
  BY Types DEF Scripts

LEMMA Removing ==
  ASSUME TypeOK, script.thing # NoThing, NEW a \in Artefacts, Remove(a)
  PROVE  /\ art' \in [Things -> [Artefacts -> Revisions]]
         /\ robbed' \subseteq Artefacts \X Things
<1>1. script.thing \in Things
  BY Types DEF Scripts
<1>2. 0 \in Revisions
  BY ThingsAndBounds DEF Revisions
<1>3. art' \in [Things -> [Artefacts -> Revisions]]
  BY <1>1, <1>2, Types DEF Remove
<1>4. robbed' \subseteq Artefacts \X Things
  BY <1>1, Types DEF Remove
<1>5. QED
  BY <1>3, <1>4

LEMMA NextIsIdle ==
  ASSUME TypeOK
  PROVE  /\ NextHandler \in Workers
         /\ NextHandler.todo = "read"
         /\ NextHandler.thing \in {worker.thing, NoThing}
<1>1. worker \in Workers
  BY Types
<1>2. CASE worker.at = 5
  BY <1>2, HandlersAre, Idles DEF NextHandler
<1>3. CASE worker.at # 5
  <2>1. NextHandler = [thing |-> worker.thing, at |-> worker.at + 1, todo |-> "read",
                       read |-> NoRow, file |-> NoFile]
    BY <1>3, HandlersAre, Idles DEF NextHandler
  <2>2. worker.at + 1 \in 1..5
    BY <1>1, <1>3 DEF Workers
  <2>3. QED
    BY <1>1, <2>1, <2>2, Idles DEF Workers
<1>4. QED
  BY <1>2, <1>3
-----------------------------------------------------------------------------
(***************************************************************************)
(* Every step keeps the types.                                             *)
(***************************************************************************)
LEMMA TypeUpdate ==
  ASSUME TypeInv,
         \/ \E t \in Things : \E sections \in SectionSets[t] : SaveThing(t, sections)
         \/ Update
  PROVE  TypeInv'
<1>t. TypeOK
  BY DEF TypeInv
<1>w. worker' = worker
  BY DEF Update, SaveThing, FetchIds, UpdateRow, RowIsGone, CommitSave
<1>i. WorkerInv'
  BY <1>w, WorkerStays DEF TypeInv
<1>m. inbox # <<>> => Msg \in Save /\ Tail(inbox) \in Seq(Save)
  BY <1>t, Types DEF Msg
<1>1. ASSUME NEW t \in Things, NEW sections \in SectionSets[t], SaveThing(t, sections)
      PROVE  TypeOK'
  <2>1. saves + 1 \in 0..MaxEvents /\ saves + 2 \in Revisions
    BY <1>t, <1>1, Types, ThingsAndBounds DEF SaveThing, Revisions
  <2>2. sections \in SUBSET Sections
    BY ThingsAndBounds
  <2>3. [thing |-> t, rev |-> saves + 2, sections |-> sections] \in Save
    BY <2>1, <2>2 DEF Save
  <2>4. inbox' \in Seq(Save) /\ inbox' # <<>>
    BY <1>t, <1>1, <2>3, Types DEF SaveThing
  <2>5. QED
    BY <1>t, <1>1, <2>1, <2>4, Types, TypesAfter DEF SaveThing
<1>2. ASSUME FetchIds PROVE TypeOK'
  <2>1. updater' = [at |-> IF Known(Msg.thing) THEN 1 ELSE 5, known |-> Known(Msg.thing),
                    had |-> row[Msg.thing].sections, held |-> {}]
    BY <1>2, RowsAre DEF FetchIds
  <2>2. row[Msg.thing].sections \in SUBSET Sections /\ Known(Msg.thing) \in BOOLEAN
    BY <1>t, <1>m, <1>2, Types DEF FetchIds, Save, Row, Known
  <2>3. updater' \in Updaters
    BY <2>1, <2>2 DEF Updaters
  <2>4. QED
    BY <1>t, <1>2, <2>3, Types, TypesAfter DEF FetchIds
<1>3. ASSUME UpdateRow PROVE TypeOK'
  <2>1. updater.at \in 1..4 /\ NextRow \in RowNames
    BY <1>3, RowsAre DEF UpdateRow, Updating, NextRow
  <2>2. updater' \in Updaters
    <3>1. updater \in Updaters
      BY <1>t, Types
    <3>2. updater' = [at |-> updater.at + 1, known |-> updater.known, had |-> updater.had,
                      held |-> IF Updates THEN updater.held \cup {NextRow} ELSE updater.held]
      BY <1>3, <3>1 DEF UpdateRow, Updaters
    <3>3. (IF Updates THEN updater.held \cup {NextRow} ELSE updater.held) \in SUBSET RowNames
      BY <2>1, <3>1 DEF Updaters
    <3>4. QED
      BY <2>1, <3>1, <3>2, <3>3 DEF Updaters
  <2>3. inbox' # <<>>
    BY <1>t, <1>3, <2>1, Types DEF UpdateRow
  <2>4. QED
    BY <1>t, <1>3, <2>2, <2>3, Types, TypesAfter DEF UpdateRow
<1>4. ASSUME RowIsGone PROVE TypeOK'
  <2>1. inbox # <<>>
    BY <1>t, <1>4, Types, RowsAre DEF RowIsGone, Updating
  <2>2. updater' \in Updaters /\ updater'.at = 0 /\ inbox' \in Seq(Save)
    BY <1>m, <1>4, <2>1, Idles DEF RowIsGone, LoseSave
  <2>3. QED
    BY <1>t, <1>4, <2>2, Types, TypesAfter DEF RowIsGone
<1>5. ASSUME CommitSave PROVE TypeOK'
  <2>1. inbox # <<>>
    BY <1>t, <1>5, Types, RowsAre DEF CommitSave
  <2>2. updater' \in Updaters /\ updater'.at = 0 /\ inbox' \in Seq(Save)
    BY <1>m, <1>5, <2>1, Idles DEF CommitSave
  <2>3. /\ Msg.thing \in Things
        /\ [rev |-> Msg.rev, sections |-> Msg.sections] \in Row
    BY <1>m, <2>1 DEF Save, Row
  <2>4. row' \in [Things -> Row] /\ outbox' \in Seq(Things)
    BY <1>t, <1>5, <2>3, Types DEF CommitSave
  <2>5. excuses' \in [Things -> SUBSET Reasons]
    BY <1>t, <1>5, <2>3, Types DEF CommitSave, Reasons
  <2>6. QED
    BY <1>t, <1>5, <2>2, <2>4, <2>5, Types, TypesAfter DEF CommitSave
<1>6. TypeOK'
  BY <1>1, <1>2, <1>3, <1>4, <1>5 DEF Update
<1>7. QED
  BY <1>i, <1>6 DEF TypeInv

LEMMA TypeSetUp ==
  ASSUME TypeInv, SetUp
  PROVE  TypeInv'
<1>t. TypeOK /\ WorkerInv
  BY DEF TypeInv
<1>w. worker \in Workers
  BY <1>t, Types
<1>n. ASSUME worker' = NextHandler PROVE worker' \in Workers /\ WorkerInv'
  BY <1>t, <1>n, NextIsIdle DEF WorkerInv
<1>1. CASE Receive
  <2>1. Head(outbox) \in Things /\ Tail(outbox) \in Seq(Things)
    BY <1>t, <1>1, Types DEF Receive
  <2>2. worker' = [thing |-> Head(outbox), at |-> 1, todo |-> "read", read |-> NoRow,
                   file |-> NoFile]
    BY <1>1, Idles DEF Receive
  <2>3. worker' \in Workers /\ WorkerInv'
    BY <2>1, <2>2, Idles DEF Workers, WorkerInv
  <2>4. TypeOK'
    BY <1>t, <1>1, <2>1, <2>3, Types, TypesAfter DEF Receive
  <2>5. QED
    BY <2>3, <2>4 DEF TypeInv
<1>2. CASE ReadThing
  <2> DEFINE t == worker.thing
             idle == ~Known(t) \/ (Handler = "minio" /\ "storage" \notin Fetched(t).sections)
  <2>1. t \in Things /\ row[t] \in Row
    BY <1>t, <1>w, <1>2, Types DEF ReadThing, At, Workers
  <2>2. excuses' \in [Things -> SUBSET Reasons]
    <3>1. Excuse(IF idle THEN {} ELSE {t} \cap InScript, "overlap")
      BY <1>2 DEF ReadThing
    <3>2. (IF idle THEN {} ELSE {t} \cap InScript) \in SUBSET Things
      BY <2>1
    <3>3. QED
      BY <1>t, <3>1, <3>2, Bookkeeping DEF Reasons
  <2>3. worker' \in Workers /\ WorkerInv'
    <3>1. CASE idle
      BY <1>2, <3>1, <1>n DEF ReadThing
    <3>2. CASE ~idle
      <4>1. worker' = [thing |-> t, at |-> worker.at,
                       todo |-> IF Handler = "crontab" THEN "open" ELSE "write",
                       read |-> row[t], file |-> worker.file]
        BY <1>2, <1>w, <3>2 DEF ReadThing, Fetched, Workers
      <4>2. Handler = "crontab" <=> worker.at = 5
        BY <1>w, HandlersAre DEF Handler, Workers
      <4>3. worker.at = 2 => "storage" \in row[t].sections
        BY <3>2, HandlersAre DEF Handler, Fetched
      <4>4. row[t].rev > 0
        BY <3>2 DEF Known
      <4>5. worker' \in Workers
        BY <1>w, <2>1, <4>1 DEF Workers
      <4>6. WorkerInv'
        BY <1>w, <2>1, <4>1, <4>2, <4>3, <4>4 DEF WorkerInv, Workers
      <4>7. QED
        BY <4>5, <4>6
    <3>3. QED
      BY <3>1, <3>2
  <2>4. TypeOK'
    BY <1>t, <1>2, <2>2, <2>3, Types, TypesAfter DEF ReadThing
  <2>5. QED
    BY <2>3, <2>4 DEF TypeInv
<1>p. ASSUME NEW a \in Artefacts, worker.todo # "read", Provide(a)
      PROVE  /\ art' \in [Things -> [Artefacts -> Revisions]]
             /\ robbed' \subseteq Artefacts \X Things
  <2>1. worker.thing \in Things /\ worker.read.rev \in Revisions
    BY <1>t, <1>w, <1>p DEF WorkerInv, Workers, Row
  <2>2. QED
    BY <1>t, <1>p, <2>1, Types DEF Provide
<1>3. CASE WriteArtefact
  <2>1. worker.todo = "write" /\ worker.at \in 1..4 /\ worker.thing \in Things
    BY <1>t, <1>3 DEF WriteArtefact, At, WorkerInv
  <2>2. Provides[Handler] \in Artefacts
    BY <2>1, HandlersAre DEF Handler, Provides, Artefacts
  <2>3. /\ art' \in [Things -> [Artefacts -> Revisions]]
        /\ robbed' \subseteq Artefacts \X Things
    BY <1>p, <1>3, <2>1, <2>2 DEF WriteArtefact
  <2>4. worker' \in Workers /\ WorkerInv'
    <3>1. CASE Handler = "minio"
      <4>1. worker.at = 2
        BY <2>1, <3>1, HandlersAre DEF Handler
      <4>2. worker' = [worker EXCEPT !.todo = "bucket"]
        BY <1>3, <3>1 DEF WriteArtefact
      <4>3. QED
        BY <1>t, <1>w, <2>1, <4>1, <4>2 DEF Workers, WorkerInv
    <3>2. CASE Handler # "minio"
      BY <1>3, <3>2, <1>n DEF WriteArtefact
    <3>3. QED
      BY <3>1, <3>2
  <2>5. TypeOK'
    BY <1>t, <1>3, <2>3, <2>4, Types, TypesAfter DEF WriteArtefact
  <2>6. QED
    BY <2>4, <2>5 DEF TypeInv
<1>4. CASE MakeBucket
  <2>1. /\ art' \in [Things -> [Artefacts -> Revisions]]
        /\ robbed' \subseteq Artefacts \X Things
    BY <1>p, <1>4 DEF MakeBucket, At, Artefacts
  <2>2. worker' \in Workers /\ WorkerInv'
    BY <1>n, <1>4 DEF MakeBucket
  <2>3. TypeOK'
    BY <1>t, <1>4, <2>1, <2>2, Types, TypesAfter DEF MakeBucket
  <2>4. QED
    BY <2>2, <2>3 DEF TypeInv
<1>5. CASE OpenCrontab
  <2>1. excuses' \in [Things -> SUBSET Reasons]
    BY <1>t, <1>5, Bookkeeping DEF OpenCrontab, Reasons
  <2>2. worker.todo = "open"
    BY <1>5 DEF OpenCrontab, At
  <2>3. worker' = [worker EXCEPT !.todo = "close", !.file = Jobs]
    BY <1>5 DEF OpenCrontab
  <2>4. worker' \in Workers
    BY <1>t, <1>w, <2>3, JobsAreAFile DEF Workers
  <2>5. WorkerInv'
    BY <1>t, <1>w, <2>2, <2>3 DEF WorkerInv, Workers
  <2>6. TypeOK'
    BY <1>t, <1>5, <2>1, <2>4, Types, TypesAfter DEF OpenCrontab
  <2>7. QED
    BY <2>5, <2>6 DEF TypeInv
<1>6. CASE CloseCrontab
  <2>1. worker.thing \in Things /\ worker.read.rev \in Revisions /\ worker.file \in File
    BY <1>t, <1>w, <1>6 DEF CloseCrontab, At, WorkerInv, Workers, Row
  <2> DEFINE t == worker.thing
             sync == "sync" \in worker.read.sections
             new == IF sync THEN [worker.file EXCEPT ![t] = worker.read.rev] ELSE worker.file
  <2>2. new \in File
    BY <2>1 DEF File
  <2>3. art' = WithJobs(new)
    BY <1>6 DEF CloseCrontab
  <2>4. art' \in [Things -> [Artefacts -> Revisions]]
    <3> HIDE DEF new
    <3> QED BY <1>t, <2>2, <2>3, FilesAreJobs
  <2>5. robbed' \subseteq Artefacts \X Things
    BY <1>t, <1>6, Types DEF CloseCrontab
  <2>6. worker' \in Workers /\ WorkerInv'
    BY <1>n, <1>6 DEF CloseCrontab
  <2>7. TypeOK'
    BY <1>t, <1>6, <2>4, <2>5, <2>6, Types, TypesAfter DEF CloseCrontab
  <2>8. QED
    BY <2>6, <2>7 DEF TypeInv
<1>7. QED
  BY <1>1, <1>2, <1>3, <1>4, <1>5, <1>6 DEF SetUp

\* A run that ends, and a run that goes on.
LEMMA TypeEnds ==
  ASSUME TypeInv, script' = IdleScript,
         UNCHANGED <<row, art, inbox, outbox, updater, worker, linked, saves, robbed>>,
         excuses' \in [Things -> SUBSET Reasons], faults' \in 0..MaxEvents
  PROVE  TypeInv'
<1>1. TypeOK /\ WorkerInv
  BY DEF TypeInv
<1>2. script' \in Scripts
  BY Idles
<1>3. TypeOK'
  BY <1>1, <1>2, Types, TypesAfter
<1>4. WorkerInv'
  BY <1>1, WorkerStays
<1>5. QED
  BY <1>3, <1>4 DEF TypeInv

LEMMA TypeGoes ==
  ASSUME TypeInv, script' \in Scripts,
         art' \in [Things -> [Artefacts -> Revisions]],
         robbed' \subseteq Artefacts \X Things,
         excuses' \in [Things -> SUBSET Reasons],
         UNCHANGED <<row, inbox, outbox, updater, worker, linked, saves, faults>>
  PROVE  TypeInv'
<1>1. TypeOK /\ WorkerInv
  BY DEF TypeInv
<1>3. TypeOK'
  BY <1>1, Types, TypesAfter
<1>4. WorkerInv'
  BY <1>1, WorkerStays
<1>5. QED
  BY <1>3, <1>4 DEF TypeInv

LEMMA TypeDeleteRow ==
  ASSUME TypeInv, NEW r \in RowNames, NEW next \in Steps, DeleteRow(r, next)
  PROVE  TypeInv'
<1>1. TypeOK
  BY DEF TypeInv
<1>2. script \in Scripts
  BY <1>1, Types
<1>3. script' \in Scripts
  BY <1>2 DEF DeleteRow, Scripts
<1>4. QED
  BY <1>1, <1>3, Types, TypeGoes DEF DeleteRow

LEMMA TypeScript ==
  ASSUME TypeInv,
         \/ \E t \in Doomed : Start(t)
         \/ Delete \/ Die \/ SkipOrg
  PROVE  TypeInv'
<1>t. TypeOK
  BY DEF TypeInv
<1>s. script \in Scripts
  BY <1>t, Types
<1>u. {script.thing} \ {NoThing} \in SUBSET Things
  BY <1>s DEF Scripts
<1>0. ASSUME NEW t \in Doomed, Start(t)
      PROVE  TypeInv'
  <2>1. t \in Things /\ row[t] \in Row
    BY <1>t, ThingsAndBounds, Types
  <2>2. FirstStep(row[t]) \in Steps
    BY DEF FirstStep, Steps
  <2>3. script' = [thing |-> t, at |-> FirstStep(row[t]), ids |-> row[t], held |-> {},
                   file |-> NoFile]
    BY <1>0, Idles DEF Start
  <2>4. script' \in Scripts
    BY <2>1, <2>2, <2>3, Idles DEF Scripts
  <2>5. {t} \cap InWorker \in SUBSET Things
    BY <2>1
  <2>6. excuses' \in [Things -> SUBSET Reasons]
    BY <1>t, <1>0, <2>5, Bookkeeping DEF Start, Reasons
  <2>7. QED
    BY <1>t, <1>0, <2>4, <2>6, Types, TypeGoes DEF Start
<1>1. CASE DeleteStorageRow \/ DeleteMqttRow \/ DeleteSyncRow
  <2>1. AfterMqtt \in Steps
    BY DEF AfterMqtt, Steps
  <2>2. QED
    BY <1>1, <2>1, TypeDeleteRow
       DEF DeleteStorageRow, DeleteMqttRow, DeleteSyncRow, RowNames, Steps
<1>2. CASE NoBucket
  BY <1>t, <1>2, Going, Types, TypeGoes DEF NoBucket, Go, Steps
<1>3. CASE DeleteBucket
  <2>1. script' \in Scripts
    BY <1>t, <1>3, Going DEF DeleteBucket, Go, Steps
  <2>2. /\ art' \in [Things -> [Artefacts -> Revisions]]
        /\ robbed' \subseteq Artefacts \X Things
    BY <1>t, <1>3, Removing DEF DeleteBucket, InTxn, Artefacts
  <2>3. QED
    BY <1>t, <1>3, <2>1, <2>2, Types, TypeGoes DEF DeleteBucket
<1>4. CASE RefuseBucket
  <2>1. script' \in Scripts
    BY <1>t, <1>4, Going DEF RefuseBucket, Go, Steps
  <2>2. excuses' \in [Things -> SUBSET Reasons]
    BY <1>t, <1>u, <1>4, Bookkeeping DEF RefuseBucket, Reasons, InScript
  <2>3. QED
    BY <1>t, <1>4, <2>1, <2>2, Types, TypeGoes DEF RefuseBucket
<1>5. CASE DeleteUser
  <2>1. script' \in Scripts
    BY <1>t, <1>5, Going DEF DeleteUser, Go, Steps
  <2>2. /\ art' \in [Things -> [Artefacts -> Revisions]]
        /\ robbed' \subseteq Artefacts \X Things
    BY <1>t, <1>5, Removing DEF DeleteUser, InTxn, Artefacts
  <2>3. excuses' \in [Things -> SUBSET Reasons]
    BY <1>t, <1>5, Types DEF DeleteUser
  <2>4. QED
    BY <1>t, <1>5, <2>1, <2>2, <2>3, Types, TypeGoes DEF DeleteUser
<1>6. CASE ReadCron
  <2>1. script' \in Scripts
    BY <1>t, <1>s, <1>6, JobsAreAFile DEF ReadCron, Scripts, Steps
  <2>2. excuses' \in [Things -> SUBSET Reasons]
    BY <1>t, <1>6, Bookkeeping DEF ReadCron, Reasons
  <2>3. QED
    BY <1>t, <1>6, <2>1, <2>2, Types, TypeGoes DEF ReadCron
<1>7. CASE WriteCron
  <2>1. script.thing \in Things /\ 0 \in Revisions
    BY <1>s, <1>7, ThingsAndBounds DEF WriteCron, InTxn, Scripts, Revisions
  <2>2. [script.file EXCEPT ![script.thing] = 0] \in File
    BY <1>s, <2>1 DEF Scripts, File
  <2>3. art' \in [Things -> [Artefacts -> Revisions]]
    BY <1>t, <1>7, <2>2, FilesAreJobs DEF WriteCron
  <2>4. script' \in Scripts
    BY <1>s, <1>7, Idles DEF WriteCron, Scripts, Steps
  <2>5. robbed' \subseteq Artefacts \X Things
    BY <1>t, <1>7, <2>1, Types DEF WriteCron, Artefacts
  <2>6. QED
    BY <1>t, <1>7, <2>3, <2>4, <2>5, Types, TypeGoes DEF WriteCron
<1>8. CASE DeleteThing
  <2>1. script' = [thing |-> script.thing, at |-> "commit", ids |-> script.ids,
                   held |-> IF Known(script.thing) THEN script.held \cup {"thing"}
                            ELSE script.held,
                   file |-> script.file]
    BY <1>s, <1>8 DEF DeleteThing, Scripts
  <2>2. script' \in Scripts
    BY <1>s, <2>1 DEF Scripts, Steps, RowNames
  <2>3. QED
    BY <1>t, <1>8, <2>2, Types, TypeGoes DEF DeleteThing
<1>9. CASE CommitDeletion
  <2>1. script.thing \in Things /\ 0 \in Revisions
    BY <1>s, <1>9, ThingsAndBounds DEF CommitDeletion, InTxn, Scripts, Revisions
  <2>2. row' \in [Things -> Row]
    BY <1>t, <1>9, <2>1, Idles, Types DEF CommitDeletion
  <2>3. art' \in [Things -> [Artefacts -> Revisions]]
    BY <1>t, <1>9, <2>1, Types DEF CommitDeletion
  <2>4. script' \in Scripts
    BY <1>s, <1>9 DEF CommitDeletion, Scripts, Steps
  <2>5. robbed' \subseteq Artefacts \X Things
    BY <1>t, <1>9, Types DEF CommitDeletion
  <2>6. TypeOK'
    BY <1>t, <1>9, <2>2, <2>3, <2>4, <2>5, Types, TypesAfter DEF CommitDeletion
  <2>7. WorkerInv'
    BY <1>9, WorkerStays DEF CommitDeletion, TypeInv
  <2>8. QED
    BY <2>6, <2>7 DEF TypeInv
<1>10. CASE DeleteBoard
  <2>1. /\ art' \in [Things -> [Artefacts -> Revisions]]
        /\ robbed' \subseteq Artefacts \X Things
    BY <1>t, <1>10, Removing DEF DeleteBoard, Artefacts
  <2>2. QED
    BY <1>t, <1>10, <2>1, Idles, Types, TypeGoes DEF DeleteBoard
<1>11. CASE Raise
  BY <1>t, <1>11, Types, TypeEnds DEF Raise, RollBack
<1>12. CASE Die
  <2>1. excuses' \in [Things -> SUBSET Reasons]
    BY <1>t, <1>u, <1>12, Bookkeeping DEF Die, Reasons, InScript
  <2>2. faults' \in 0..MaxEvents
    BY <1>t, <1>12, Types, ThingsAndBounds DEF Die
  <2>3. QED
    BY <1>12, <2>1, <2>2, TypeEnds DEF Die, RollBack
<1>13. CASE SkipOrg
  <2>1. faults' \in 0..MaxEvents
    BY <1>t, <1>13, Types, ThingsAndBounds DEF SkipOrg
  <2>2. QED
    BY <1>t, <1>13, <2>1, Types, TypeEnds DEF SkipOrg
<1>14. QED
  BY <1>0, <1>1, <1>2, <1>3, <1>4, <1>5, <1>6, <1>7, <1>8, <1>9, <1>10, <1>11, <1>12,
     <1>13 DEF Delete

LEMMA TypeDeadlock ==
  ASSUME TypeInv, ResolveDeadlock
  PROVE  TypeInv'
<1>t. TypeOK
  BY DEF TypeInv
<1>1. WorkerInv'
  BY WorkerStays DEF TypeInv, ResolveDeadlock
<1>2. inbox # <<>>
  BY <1>t, Types, RowsAre DEF ResolveDeadlock, Deadlock, UpdaterWaits, Updating
<1>3. CASE LoseSave /\ UNCHANGED script
  <2>1. updater' \in Updaters /\ updater'.at = 0 /\ inbox' \in Seq(Save)
    BY <1>t, <1>2, <1>3, Idles, Types DEF LoseSave
  <2>2. TypeOK'
    BY <1>t, <1>3, <2>1, Types, TypesAfter DEF ResolveDeadlock
  <2>3. QED
    BY <1>1, <2>2 DEF TypeInv
<1>4. CASE RollBack /\ UNCHANGED <<inbox, updater>>
  <2>1. script' \in Scripts
    BY <1>4, Idles DEF RollBack
  <2>2. TypeOK'
    BY <1>t, <1>4, <2>1, Types, TypesAfter DEF ResolveDeadlock
  <2>3. QED
    BY <1>1, <2>2 DEF TypeInv
<1>5. QED
  BY <1>3, <1>4 DEF ResolveDeadlock

LEMMA TypeNext == TypeInv /\ [Next]_vars => TypeInv'
<1> SUFFICES ASSUME TypeInv, [Next]_vars PROVE TypeInv'
  OBVIOUS
<1>1. CASE \/ \E t \in Things : \E sections \in SectionSets[t] : SaveThing(t, sections)
           \/ Update
  BY <1>1, TypeUpdate
<1>2. CASE SetUp
  BY <1>2, TypeSetUp
<1>3. CASE (\E t \in Doomed : Start(t)) \/ Delete \/ Die \/ SkipOrg
  BY <1>3, TypeScript
<1>4. CASE ResolveDeadlock
  BY <1>4, TypeDeadlock
<1>5. CASE UNCHANGED vars
  BY <1>5 DEF vars, TypeInv, TypeOK, WorkerInv
<1>6. QED
  BY <1>1, <1>2, <1>3, <1>4, <1>5 DEF Next

(***************************************************************************)
(* The state of the three programs, of what they wrote and of what is      *)
(* under way stays of its types: TypeOK of run_configdb_updater.py,        *)
(* setup_thing.py and run_delete_thing.py.                                 *)
(***************************************************************************)
THEOREM TypeCorrect == Spec => []TypeOK
<1>1. TypeInv => TypeOK
  BY DEF TypeInv
<1>2. QED
  BY <1>1, TypeInit, TypeNext, PTL DEF Spec
-----------------------------------------------------------------------------
(***************************************************************************)
(* Saves are stored in the order they were made.  What is provided is of   *)
(* a stored save, and newer than no row, unless the crontab got lost.      *)
(***************************************************************************)
SavesInOrder ==
  /\ \A i \in DOMAIN inbox : inbox[i].rev \in 2..saves + 1
  /\ \A i, j \in DOMAIN inbox : i < j => inbox[i].rev < inbox[j].rev

Past(n) == n <= saves + 1 /\ \A i \in DOMAIN inbox : n < inbox[i].rev

Clash(t) == "clash" \in excuses[t]
Job(t) == art[t]["job"]

\* Both copies of the crontab in memory: then the jobs are excused.
BothOpen ==
  worker.todo = "close" /\ script.at = "write_cron" => \A t \in Things : Clash(t)

\* What has been read of thing t is of the past, and not newer than its row.
ReadInv(t) ==
  /\ Past(row[t].rev)
  /\ InWork(t) => Past(worker.read.rev) /\ (Known(t) => worker.read.rev <= row[t].rev)

\* A job is no newer than what replaces it, and the copies of it are true.
CopyInv(t) ==
  Clash(t) \/
    /\ Past(Job(t))
    /\ Known(t) => Job(t) <= row[t].rev
    /\ InWork(t) => Job(t) <= worker.read.rev
    /\ worker.todo = "close" => worker.file[t] = Job(t)
    /\ script.at = "write_cron" => script.file[t] = Job(t)

JobsInv == SavesInOrder /\ BothOpen /\ \A t \in Things : ReadInv(t) /\ CopyInv(t)

(***************************************************************************)
(* What is left of a thing.                                                *)
(***************************************************************************)
Overlap(t) == Excused(t, {"overlap"})
Runs(t) == script.thing = t
BucketDone == {"mqtt", "sync", "read_cron", "write_cron", "thing", "commit"}
JobDone == {"thing", "commit"}

\* Who sees what of the row of t, if nothing overlaps.
SeenInv(t) ==
  /\ ~Known(t) => row[t] = NoRow
  /\ InWork(t) => \/ Overlap(t)
                  \/ Known(t) /\ ~Runs(t)
  /\ InWork(t) => worker.read.sections \subseteq row[t].sections \/ Excused(t, {"overlap", "dropped"})
  /\ Runs(t) /\ script.at # "board" => script.ids = row[t] \/ Overlap(t)
  /\ Runs(t) /\ "thing" \in script.held => script.ids.rev > 0 \/ Overlap(t)

EntryInv(t) == art[t]["entry"] # 0 => Known(t) \/ Overlap(t)

\* The row still has the section s, and the script has not dealt with it.
StillDue(t, s, done) == s \in row[t].sections /\ ~(Runs(t) /\ script.at \in done)

BucketInv(t) ==
  /\ art[t]["bucket"] # 0 =>
       StillDue(t, "storage", BucketDone \cup {"s3user"}) \/ Excused(t, {"overlap", "refused", "dropped"})
  /\ Runs(t) /\ script.at = "s3user" => art[t]["bucket"] = 0 \/ Overlap(t)

UserInv(t) ==
  art[t]["s3user"] # 0 =>
    /\ \/ StillDue(t, "storage", BucketDone)
       \/ Excused(t, {"overlap", "refused", "dropped", "unfinished"})
    /\ \/ art[t]["bucket"] # 0
       \/ Excused(t, {"overlap", "unfinished"})
       \/ InWork(t) /\ worker.todo = "bucket"
       \/ Runs(t) /\ script.at = "s3user"

JobInv(t) ==
  Job(t) # 0 => StillDue(t, "sync", JobDone) \/ Excused(t, {"overlap", "dropped", "clash"})

LeftInv(t) == SeenInv(t) /\ EntryInv(t) /\ BucketInv(t) /\ UserInv(t) /\ JobInv(t)
LEMMA ExcusesGrow ==
  ASSUME TypeOK, NEW ts \in SUBSET Things, NEW why \in Reasons, Excuse(ts, why)
  PROVE  \A t \in Things : /\ excuses[t] \subseteq excuses'[t]
                           /\ t \in ts => why \in excuses'[t]
  BY Types DEF Excuse

LEMMA SavesAre ==
  ASSUME TypeOK, SavesInOrder
  PROVE  /\ \A i \in DOMAIN inbox : inbox[i].rev \in Int
         /\ saves \in Int
         /\ \A t \in Things : row[t].rev \in Int /\ Job(t) \in Int
         /\ worker.read.rev \in Int
         /\ DOMAIN inbox = 1..Len(inbox) /\ Len(inbox) \in Nat
<1>1. Revisions \subseteq Int
  BY ThingsAndBounds DEF Revisions
<1>2. row \in [Things -> Row] /\ worker.read \in Row
  BY Types DEF Workers
<1>3. art \in [Things -> [Artefacts -> Revisions]] /\ "job" \in Artefacts
  BY Types DEF Artefacts
<1>4. \A t \in Things : row[t].rev \in Int /\ Job(t) \in Int
  BY <1>1, <1>2, <1>3 DEF Row, Job
<1>5. worker.read.rev \in Int
  BY <1>1, <1>2 DEF Row
<1>6. saves \in Int /\ \A i \in DOMAIN inbox : inbox[i].rev \in Int
  BY Types, ThingsAndBounds DEF SavesInOrder
<1>7. DOMAIN inbox = 1..Len(inbox) /\ Len(inbox) \in Nat
  BY Types
<1>8. QED
  BY <1>4, <1>5, <1>6, <1>7

\* Dropping the first save keeps the order, and what is past.
LEMMA OrderKept ==
  ASSUME TypeOK, SavesInOrder, saves' = saves,
         inbox' = inbox \/ (inbox # <<>> /\ inbox' = Tail(inbox))
  PROVE  /\ SavesInOrder'
         /\ \A n \in Int : Past(n) => n <= saves' + 1 /\ \A i \in DOMAIN inbox' : n < inbox'[i].rev
<1>1. CASE inbox' = inbox
  BY <1>1 DEF SavesInOrder, Past
<1>2. CASE inbox # <<>> /\ inbox' = Tail(inbox)
  <2>1. inbox \in Seq(Save) /\ Len(inbox) \in Nat /\ DOMAIN inbox = 1..Len(inbox)
    BY Types
  <2>2. /\ DOMAIN inbox' = 1..(Len(inbox) - 1)
        /\ \A i \in DOMAIN inbox' : inbox'[i] = inbox[i + 1] /\ i + 1 \in DOMAIN inbox
    <3>1. /\ Tail(inbox) \in Seq(Save) /\ Len(Tail(inbox)) = Len(inbox) - 1
          /\ \A i \in 1..Len(Tail(inbox)) : Tail(inbox)[i] = inbox[i + 1]
      BY <1>2, <2>1, HeadTailProperties
    <3>2. DOMAIN Tail(inbox) = 1..Len(Tail(inbox))
      BY <3>1, LenProperties
    <3>3. \A i \in 1..Len(inbox) - 1 : i + 1 \in 1..Len(inbox)
      BY <2>1
    <3>4. QED
      BY <1>2, <2>1, <3>1, <3>2, <3>3
  <2>3. SavesInOrder'
    <3>1. \A i \in DOMAIN inbox' : inbox'[i].rev \in 2..saves' + 1
      BY <2>2 DEF SavesInOrder
    <3>2. ASSUME NEW i \in DOMAIN inbox', NEW j \in DOMAIN inbox', i < j
          PROVE  inbox'[i].rev < inbox'[j].rev
      <4>1. i + 1 < j + 1 /\ i + 1 \in DOMAIN inbox /\ j + 1 \in DOMAIN inbox
        BY <2>1, <2>2, <3>2
      <4>2. QED
        BY <2>2, <4>1 DEF SavesInOrder
    <3>3. QED
      BY <3>1, <3>2 DEF SavesInOrder
  <2>4. QED
    BY <2>2, <2>3 DEF Past
<1>3. QED
  BY <1>1, <1>2

(***************************************************************************)
(* Steps that neither write a job or a row nor read one of them.           *)
(***************************************************************************)
Quiet ==
  /\ saves' = saves
  /\ inbox' = inbox \/ (inbox # <<>> /\ inbox' = Tail(inbox))
  /\ \A t \in Things : /\ row'[t] = row[t] \/ row'[t] = NoRow
                       /\ art'[t]["job"] = art[t]["job"]
                       /\ Clash(t) => "clash" \in excuses'[t]
  /\ \/ worker' = worker
     \/ worker'.todo = "read"
     \/ /\ worker.todo # "read" /\ worker'.todo # "close"
        /\ worker'.thing = worker.thing /\ worker'.read = worker.read
  /\ script' = script \/ script'.at # "write_cron"

LEMMA QuietKeepsJobs ==
  ASSUME TypeInv, JobsInv, Quiet
  PROVE  JobsInv'
<1>t. TypeOK /\ SavesInOrder
  BY DEF TypeInv, JobsInv
<1>o. /\ SavesInOrder'
      /\ \A n \in Int : Past(n) => n <= saves' + 1 /\ \A i \in DOMAIN inbox' : n < inbox'[i].rev
  BY <1>t, OrderKept DEF Quiet
<1>1. BothOpen'
  BY DEF JobsInv, BothOpen, Quiet, Clash
<1>2. ASSUME NEW t \in Things PROVE ReadInv(t)' /\ CopyInv(t)'
  <2>0. ReadInv(t) /\ CopyInv(t)
    BY DEF JobsInv
  <2>i. /\ row[t].rev \in Int /\ worker.read.rev \in Int /\ Job(t) \in Int
        /\ 0 \in Int /\ NoRow.rev = 0
    BY <1>t, SavesAre DEF NoRow
  <2>p. Past(0)
    <3>1. 0 <= saves + 1
      BY <1>t, Types, ThingsAndBounds
    <3>2. \A i \in DOMAIN inbox : 0 < inbox[i].rev
      BY <1>t, SavesAre DEF SavesInOrder
    <3>3. QED
      BY <3>1, <3>2 DEF Past
  <2>r. \/ row'[t] = row[t]
        \/ row'[t] = NoRow /\ ~(row'[t].rev > 0)
    BY <2>i DEF Quiet
  <2>w. worker'.thing = t /\ worker'.todo # "read" => InWork(t) /\ worker'.read = worker.read
    BY DEF Quiet, InWork
  <2>1. Past(row[t].rev)'
    BY <1>o, <2>0, <2>i, <2>p, <2>r DEF ReadInv, Past
  <2>2. InWork(t)' => Past(worker.read.rev)'
    BY <1>o, <2>0, <2>i, <2>w DEF ReadInv, Past, InWork
  <2>3. InWork(t)' /\ Known(t)' => worker'.read.rev <= row'[t].rev
    BY <2>0, <2>r, <2>w DEF ReadInv, InWork, Known
  <2>4. CASE Clash(t)
    BY <2>1, <2>2, <2>3, <2>4 DEF ReadInv, CopyInv, Clash, Quiet
  <2>5. CASE ~Clash(t)
    <3>1. /\ Past(Job(t)) /\ (Known(t) => Job(t) <= row[t].rev)
          /\ (InWork(t) => Job(t) <= worker.read.rev)
          /\ (worker.todo = "close" => worker.file[t] = Job(t))
          /\ (script.at = "write_cron" => script.file[t] = Job(t))
      BY <2>0, <2>5 DEF CopyInv
    <3>2. Job(t)' = Job(t)
      BY DEF Job, Quiet
    <3>3. Past(Job(t))'
      BY <1>o, <2>i, <3>1, <3>2 DEF Past
    <3>4. Known(t)' => Job(t)' <= row'[t].rev
      BY <2>r, <3>1, <3>2 DEF Known
    <3>5. InWork(t)' => Job(t)' <= worker'.read.rev
      BY <2>w, <3>1, <3>2 DEF InWork
    <3>6. worker'.todo = "close" => worker'.file[t] = Job(t)'
      BY <3>1, <3>2 DEF Quiet
    <3>7. script'.at = "write_cron" => script'.file[t] = Job(t)'
      BY <3>1, <3>2 DEF Quiet
    <3>8. QED
      BY <2>1, <2>2, <2>3, <3>3, <3>4, <3>5, <3>6, <3>7 DEF ReadInv, CopyInv
  <2>6. QED
    BY <2>4, <2>5
<1>3. QED
  BY <1>o, <1>1, <1>2 DEF JobsInv

LEMMA RemoveKeepsJobs ==
  ASSUME TypeOK, script.thing \in Things, NEW a \in Artefacts \ {"job"}, Remove(a)
  PROVE  \A t \in Things : art'[t]["job"] = art[t]["job"]
  BY Types DEF Remove, Artefacts

LEMMA ProvideKeepsJobs ==
  ASSUME TypeOK, worker.thing \in Things, NEW a \in Artefacts \ {"job"}, Provide(a)
  PROVE  \A t \in Things : art'[t]["job"] = art[t]["job"]
  BY Types DEF Provide, Artefacts

LEMMA WrittenJobs ==
  ASSUME TypeOK, NEW file \in File, art' = WithJobs(file)
  PROVE  \A t \in Things : /\ art'[t]["job"] = file[t]
                           /\ \A a \in Artefacts \ {"job"} : art'[t][a] = art[t][a]
  BY Types DEF WithJobs, Artefacts

(***************************************************************************)
(* The other steps.                                                        *)
(***************************************************************************)
LEMMA JobsSave ==
  ASSUME TypeInv, JobsInv, NEW s \in Things, NEW sections \in SectionSets[s],
         SaveThing(s, sections)
  PROVE  JobsInv'
<1>t. TypeOK /\ SavesInOrder
  BY DEF TypeInv, JobsInv
<1> DEFINE new == [thing |-> s, rev |-> saves + 2, sections |-> sections]
<1>1. new \in Save
  <2>1. saves + 2 \in Revisions
    BY <1>t, Types, ThingsAndBounds DEF SaveThing, Revisions
  <2>2. sections \in SUBSET Sections
    BY ThingsAndBounds
  <2>3. QED
    BY <2>1, <2>2 DEF Save
<1>2. /\ inbox \in Seq(Save) /\ DOMAIN inbox = 1..Len(inbox) /\ Len(inbox) \in Nat
      /\ saves \in Int /\ saves' = saves + 1 /\ new.rev = saves + 2
  BY <1>t, Types, ThingsAndBounds DEF SaveThing
<1>3. /\ DOMAIN inbox' = 1..Len(inbox) + 1
      /\ \A i \in 1..Len(inbox) : inbox'[i] = inbox[i]
      /\ inbox'[Len(inbox) + 1] = new
  <2>1. inbox' = Append(inbox, new)
    BY DEF SaveThing
  <2> HIDE DEF new
  <2>2. /\ Append(inbox, new) \in Seq(Save)
        /\ Len(Append(inbox, new)) = Len(inbox) + 1
        /\ \A i \in 1..Len(inbox) : Append(inbox, new)[i] = inbox[i]
        /\ Append(inbox, new)[Len(inbox) + 1] = new
    BY <1>1, <1>2, AppendProperties
  <2>3. DOMAIN Append(inbox, new) = 1..Len(inbox) + 1
    BY <2>2, LenProperties
  <2>4. QED
    BY <2>1, <2>2, <2>3
<1> HIDE DEF new
<1>4. \A i \in 1..Len(inbox) : inbox[i].rev \in 2..saves + 1
  BY <1>t, <1>2 DEF SavesInOrder
<1>5. SavesInOrder'
  <2>1. \A i \in DOMAIN inbox' : inbox'[i].rev \in 2..saves' + 1
    <3>1. TAKE i \in DOMAIN inbox'
    <3>2. CASE i \in 1..Len(inbox)
      BY <1>2, <1>3, <1>4, <3>2
    <3>3. CASE i = Len(inbox) + 1
      <4>1. saves + 2 \in 2..saves' + 1
        BY <1>t, <1>2, Types
      <4>2. QED
        BY <1>2, <1>3, <3>3, <4>1
    <3>4. QED
      BY <1>2, <1>3, <3>2, <3>3
  <2>2. ASSUME NEW i \in DOMAIN inbox', NEW j \in DOMAIN inbox', i < j
        PROVE  inbox'[i].rev < inbox'[j].rev
    <3>1. i \in 1..Len(inbox)
      BY <1>2, <1>3, <2>2
    <3>2. CASE j \in 1..Len(inbox)
      BY <1>t, <1>2, <1>3, <2>2, <3>1, <3>2 DEF SavesInOrder
    <3>3. CASE j = Len(inbox) + 1
      BY <1>2, <1>3, <1>4, <3>1, <3>3
    <3>4. QED
      BY <1>2, <1>3, <3>2, <3>3
  <2>3. QED
    BY <2>1, <2>2 DEF SavesInOrder
<1>6. \A n \in Int : Past(n) => n <= saves' + 1 /\ \A i \in DOMAIN inbox' : n < inbox'[i].rev
  <2>1. SUFFICES ASSUME NEW n \in Int, Past(n)
                 PROVE  n <= saves' + 1 /\ \A i \in DOMAIN inbox' : n < inbox'[i].rev
    OBVIOUS
  <2>2. n <= saves' + 1
    BY <1>2, <2>1 DEF Past
  <2>3. \A i \in 1..Len(inbox) : n < inbox'[i].rev
    BY <1>2, <1>3, <2>1 DEF Past
  <2>4. n < inbox'[Len(inbox) + 1].rev
    BY <1>2, <1>3, <2>1 DEF Past
  <2>5. QED
    BY <1>2, <1>3, <2>2, <2>3, <2>4
<1>7. ASSUME NEW t \in Things PROVE ReadInv(t)' /\ CopyInv(t)'
  <2>1. ReadInv(t) /\ CopyInv(t)
    BY DEF JobsInv
  <2>2. row[t].rev \in Int /\ worker.read.rev \in Int /\ Job(t) \in Int
    BY <1>t, SavesAre
  <2>3. UNCHANGED <<row, art, worker, script, excuses>>
    BY DEF SaveThing
  <2>4. ReadInv(t)'
    BY <1>6, <2>1, <2>2, <2>3 DEF ReadInv, Past, InWork, Known
  <2>5. CopyInv(t)'
    BY <1>6, <2>1, <2>2, <2>3 DEF CopyInv, Past, InWork, Known, Job, Clash
  <2>6. QED
    BY <2>4, <2>5
<1>8. BothOpen'
  BY DEF JobsInv, BothOpen, SaveThing, Clash
<1>9. QED
  BY <1>5, <1>7, <1>8 DEF JobsInv

LEMMA JobsCommit ==
  ASSUME TypeInv, JobsInv, CommitSave
  PROVE  JobsInv'
<1>t. TypeOK /\ SavesInOrder
  BY DEF TypeInv, JobsInv
<1>1. inbox # <<>> /\ inbox' = Tail(inbox) /\ saves' = saves /\ 1 \in DOMAIN inbox
  BY <1>t, Types, RowsAre DEF CommitSave
<1>2. /\ SavesInOrder'
      /\ \A n \in Int : Past(n) => n <= saves' + 1 /\ \A i \in DOMAIN inbox' : n < inbox'[i].rev
  BY <1>t, <1>1, OrderKept
<1>3. Msg \in Save /\ Msg = inbox[1] /\ Msg.thing \in Things
  <2>1. Msg \in Save /\ Msg = inbox[1]
    BY <1>t, <1>1, Types, HeadTailProperties DEF Msg
  <2>2. QED
    BY <2>1 DEF Save
<1>4. Msg.rev \in Int /\ Msg.rev <= saves + 1 /\ \A n \in Int : Past(n) => n < Msg.rev
  BY <1>t, <1>1, <1>3, SavesAre DEF SavesInOrder, Past
<1>5. \A i \in DOMAIN inbox' : Msg.rev < inbox'[i].rev
  <2>1. TAKE i \in DOMAIN inbox'
  <2>2. inbox \in Seq(Save) /\ DOMAIN inbox = 1..Len(inbox) /\ Len(inbox) \in Nat
    BY <1>t, Types
  <2>3. /\ Tail(inbox) \in Seq(Save) /\ Len(Tail(inbox)) = Len(inbox) - 1
        /\ \A k \in 1..Len(Tail(inbox)) : Tail(inbox)[k] = inbox[k + 1]
    BY <1>1, <2>2, HeadTailProperties
  <2>4. i \in 1..Len(inbox) - 1
    BY <1>1, <2>1, <2>3, LenProperties
  <2>5. i + 1 \in DOMAIN inbox /\ 1 < i + 1 /\ inbox'[i] = inbox[i + 1]
    BY <1>1, <2>2, <2>3, <2>4
  <2>6. QED
    BY <1>t, <1>1, <1>3, <2>5 DEF SavesInOrder
<1>6. BothOpen'
  BY <1>t, <1>3, Types DEF JobsInv, BothOpen, CommitSave, Clash
<1>7. ASSUME NEW t \in Things PROVE ReadInv(t)' /\ CopyInv(t)'
  <2>1. ReadInv(t) /\ CopyInv(t)
    BY DEF JobsInv
  <2>2. row[t].rev \in Int /\ worker.read.rev \in Int /\ Job(t) \in Int
    BY <1>t, SavesAre
  <2>3. UNCHANGED <<art, worker, script, saves>> /\ (Clash(t) => Clash(t)')
    BY <1>t, <1>3, Types DEF CommitSave, Clash
  <2>4. row'[t] = IF t = Msg.thing THEN [rev |-> Msg.rev, sections |-> Msg.sections] ELSE row[t]
    BY <1>t, <1>3, Types DEF CommitSave
  <2>5. row[t].rev <= row'[t].rev /\ row'[t].rev \in Int
    BY <1>4, <2>1, <2>2, <2>4 DEF ReadInv
  <2>6. Past(row[t].rev)'
    BY <1>1, <1>2, <1>4, <1>5, <2>1, <2>2, <2>4 DEF ReadInv, Past
  <2>7. InWork(t)' => Past(worker.read.rev)'
    BY <1>2, <2>1, <2>2, <2>3 DEF ReadInv, Past, InWork
  <2>8. InWork(t) => worker.read.rev <= row'[t].rev \/ row'[t] = row[t]
    BY <1>4, <2>1, <2>2, <2>4 DEF ReadInv
  <2>9. InWork(t)' /\ Known(t)' => worker'.read.rev <= row'[t].rev
    BY <2>1, <2>3, <2>8 DEF ReadInv, InWork, Known
  <2>10. CopyInv(t)'
    <3>1. CASE Clash(t)
      BY <2>3, <3>1 DEF CopyInv
    <3>2. CASE ~Clash(t)
      <4>1. /\ Past(Job(t)) /\ (Known(t) => Job(t) <= row[t].rev)
            /\ (InWork(t) => Job(t) <= worker.read.rev)
            /\ (worker.todo = "close" => worker.file[t] = Job(t))
            /\ (script.at = "write_cron" => script.file[t] = Job(t))
        BY <2>1, <3>2 DEF CopyInv
      <4>2. Job(t)' = Job(t)
        BY <2>3 DEF Job
      <4>3. Past(Job(t))'
        BY <1>2, <2>2, <4>1, <4>2 DEF Past
      <4>4. Known(t)' => Job(t)' <= row'[t].rev
        BY <1>4, <2>2, <2>4, <4>1, <4>2 DEF Known
      <4>5. QED
        BY <2>3, <4>1, <4>2, <4>3, <4>4 DEF CopyInv, InWork
    <3>3. QED
      BY <3>1, <3>2
  <2>11. QED
    BY <2>6, <2>7, <2>9, <2>10 DEF ReadInv
<1>8. QED
  BY <1>2, <1>6, <1>7 DEF JobsInv

LEMMA JobsRead ==
  ASSUME TypeInv, JobsInv, ReadThing
  PROVE  JobsInv'
<1>t. TypeOK
  BY DEF TypeInv
<1> DEFINE s == worker.thing
           idle == ~Known(s) \/ (Handler = "minio" /\ "storage" \notin Fetched(s).sections)
<1>1. s \in Things /\ worker \in Workers
  BY <1>t, Types DEF ReadThing, At, Workers
<1>2. \A t \in Things : Clash(t) => "clash" \in excuses'[t]
  <2>1. Excuse(IF idle THEN {} ELSE {s} \cap InScript, "overlap")
    BY DEF ReadThing
  <2>2. (IF idle THEN {} ELSE {s} \cap InScript) \in SUBSET Things
    BY <1>1
  <2>3. QED
    BY <1>t, <2>1, <2>2, ExcusesGrow DEF Clash, Reasons
<1>3. CASE idle
  <2>1. worker'.todo = "read"
    BY <1>t, <1>3, NextIsIdle DEF ReadThing
  <2>2. Quiet
    BY <1>2, <2>1 DEF Quiet, ReadThing
  <2>3. QED
    BY <2>2, QuietKeepsJobs
<1>4. CASE ~idle
  <2>1. worker' = [worker EXCEPT !.read = row[s],
                     !.todo = IF Handler = "crontab" THEN "open" ELSE "write"]
    BY <1>4 DEF ReadThing, Fetched
  <2>2. /\ worker'.thing = s /\ worker'.read = row[s]
        /\ worker'.todo \in {"open", "write"}
    BY <1>1, <2>1 DEF Workers
  <2> HIDE DEF s, idle
  <2>3. UNCHANGED <<row, art, inbox, script, saves>>
    BY DEF ReadThing
  <2>4. ASSUME NEW t \in Things PROVE ReadInv(t)' /\ CopyInv(t)'
    <3>1. ReadInv(t) /\ CopyInv(t)
      BY DEF JobsInv
    <3>2. row[t].rev \in Int
      BY <1>t, SavesAre DEF JobsInv
    <3>3. InWork(t)' => worker'.read = row[t] /\ t = s
      BY <2>2 DEF InWork
    <3>4. ReadInv(t)'
      BY <2>3, <3>1, <3>2, <3>3 DEF ReadInv, Past, Known
    <3>5. InWork(t)' => Known(t)
      <4>1. Known(s)
        BY <1>4 DEF idle
      <4>2. QED
        BY <3>3, <4>1
    <3>6. CASE Clash(t)
      BY <1>2, <3>4, <3>6 DEF CopyInv, Clash
    <3>7. CASE ~Clash(t)
      <4>1. /\ Past(Job(t)) /\ (Known(t) => Job(t) <= row[t].rev)
            /\ (script.at = "write_cron" => script.file[t] = Job(t))
        BY <3>1, <3>7 DEF CopyInv
      <4>2. InWork(t)' => Job(t) <= worker'.read.rev
        BY <3>3, <3>5, <4>1
      <4>3. Job(t)' = Job(t) /\ Known(t)' = Known(t) /\ (Past(Job(t)) => Past(Job(t))')
        BY <2>3 DEF Job, Known, Past
      <4>4. QED
        BY <2>2, <2>3, <3>4, <4>1, <4>2, <4>3 DEF CopyInv
    <3>8. QED
      BY <3>4, <3>6, <3>7
  <2>5. SavesInOrder' /\ BothOpen'
    BY <2>2, <2>3 DEF JobsInv, SavesInOrder, BothOpen
  <2>6. QED
    BY <2>4, <2>5 DEF JobsInv
<1>5. QED
  BY <1>3, <1>4

\* The crontab is opened, by the one or by the other.
LEMMA JobsOpen ==
  ASSUME TypeInv, JobsInv, OpenCrontab \/ ReadCron
  PROVE  JobsInv'
<1>t. TypeOK
  BY DEF TypeInv
<1>1. worker \in Workers /\ script \in Scripts
  BY <1>t, Types
<1>2. UNCHANGED <<row, art, inbox, saves>>
  BY DEF OpenCrontab, ReadCron
<1>3. \A t \in Things : Clash(t) => "clash" \in excuses'[t]
  <2>1. PICK ts \in SUBSET Things : Excuse(ts, "clash")
    BY DEF OpenCrontab, ReadCron
  <2>2. QED
    BY <1>t, <2>1, ExcusesGrow DEF Clash, Reasons
<1>4. BothOpen'
  <2>1. CASE OpenCrontab
    <3>1. script' = script
      BY <2>1 DEF OpenCrontab
    <3>2. CASE script.at = "write_cron"
      <4>1. Excuse(Things, "clash")
        BY <2>1, <3>2 DEF OpenCrontab
      <4>2. QED
        BY <1>t, <4>1, ExcusesGrow DEF BothOpen, Clash, Reasons
    <3>3. CASE script.at # "write_cron"
      BY <3>1, <3>3 DEF BothOpen
    <3>4. QED
      BY <3>2, <3>3
  <2>2. CASE ReadCron
    <3>1. worker' = worker
      BY <2>2 DEF ReadCron
    <3>2. CASE worker.todo = "close"
      <4>1. Excuse(Things, "clash")
        BY <2>2, <3>2 DEF ReadCron
      <4>2. QED
        BY <1>t, <4>1, ExcusesGrow DEF BothOpen, Clash, Reasons
    <3>3. CASE worker.todo # "close"
      BY <3>1, <3>3 DEF BothOpen
    <3>4. QED
      BY <3>2, <3>3
  <2>3. QED
    BY <2>1, <2>2
<1>5. /\ worker'.thing = worker.thing /\ worker'.read = worker.read
      /\ worker'.todo # "read" => worker.todo # "read"
      /\ worker'.todo = "close" => worker' = worker \/ worker'.file = Jobs
      /\ script'.at = "write_cron" => script' = script \/ script'.file = Jobs
  <2>1. CASE OpenCrontab
    <3>1. worker' = [worker EXCEPT !.todo = "close", !.file = Jobs]
          /\ script' = script /\ worker.todo = "open"
      BY <2>1 DEF OpenCrontab, At
    <3>2. QED
      BY <1>1, <3>1 DEF Workers
  <2>2. CASE ReadCron
    <3>1. script' = [script EXCEPT !.at = "write_cron", !.file = Jobs] /\ worker' = worker
      BY <2>2 DEF ReadCron
    <3>2. QED
      BY <1>1, <3>1 DEF Scripts
  <2>3. QED
    BY <2>1, <2>2
<1>6. ASSUME NEW t \in Things PROVE ReadInv(t)' /\ CopyInv(t)'
  <2>1. ReadInv(t) /\ CopyInv(t)
    BY DEF JobsInv
  <2>2. Jobs[t] = Job(t)
    BY DEF Jobs, Job
  <2>3. InWork(t)' => InWork(t)
    BY <1>5 DEF InWork
  <2>4. ReadInv(t)'
    BY <1>2, <1>5, <2>1, <2>3 DEF ReadInv, Past, Known
  <2>5. CASE Clash(t)
    BY <1>3, <2>4, <2>5 DEF CopyInv, Clash
  <2>6. CASE ~Clash(t)
    <3>1. /\ Past(Job(t)) /\ (Known(t) => Job(t) <= row[t].rev)
          /\ (InWork(t) => Job(t) <= worker.read.rev)
          /\ (worker.todo = "close" => worker.file[t] = Job(t))
          /\ (script.at = "write_cron" => script.file[t] = Job(t))
      BY <2>1, <2>6 DEF CopyInv
    <3>2. Job(t)' = Job(t) /\ Known(t)' = Known(t) /\ (Past(Job(t)) => Past(Job(t))')
      BY <1>2 DEF Job, Known, Past
    <3>3. worker'.todo = "close" => worker'.file[t] = Job(t)
      BY <1>5, <2>2, <3>1
    <3>4. script'.at = "write_cron" => script'.file[t] = Job(t)
      BY <1>5, <2>2, <3>1
    <3>5. QED
      BY <1>2, <1>5, <2>3, <2>4, <3>1, <3>2, <3>3, <3>4 DEF CopyInv
  <2>7. QED
    BY <2>4, <2>5, <2>6
<1>7. SavesInOrder'
  BY <1>2 DEF JobsInv, SavesInOrder
<1>8. QED
  BY <1>4, <1>6, <1>7 DEF JobsInv

\* What is written when it is closed: but for the jobs that clash, the job
\* of the thing in work, or of the thing to be deleted, and the others again.
LEMMA JobsAfterClose ==
  ASSUME TypeInv, JobsInv, CloseCrontab, NEW t \in Things, ~Clash(t)
  PROVE  Job(t)' = Job(t) \/ (InWork(t) /\ "sync" \in worker.read.sections
                                /\ Job(t)' = worker.read.rev)
<1>1. TypeOK /\ worker \in Workers /\ worker.todo = "close" /\ worker.thing \in Things
  BY Types DEF TypeInv, CloseCrontab, At, WorkerInv
<1>2. worker.file[t] = Job(t) /\ worker.file \in File /\ worker.read.rev \in Revisions
  BY <1>1 DEF JobsInv, CopyInv, Workers, Row
<1> DEFINE new == IF "sync" \in worker.read.sections
                  THEN [worker.file EXCEPT ![worker.thing] = worker.read.rev] ELSE worker.file
<1>3. new \in File
  BY <1>1, <1>2 DEF File
<1>4. art' = WithJobs(new)
  BY DEF CloseCrontab
<1>5. Job(t)' = new[t]
  <2> HIDE DEF new
  <2> QED BY <1>1, <1>3, <1>4, WrittenJobs DEF Job
<1>6. QED
  BY <1>1, <1>2, <1>5 DEF File, InWork

LEMMA JobsAfterWrite ==
  ASSUME TypeInv, JobsInv, WriteCron, NEW t \in Things
  PROVE  /\ t = script.thing => Job(t)' = 0
         /\ t # script.thing => Job(t)' = Job(t) \/ Clash(t)
<1>1. /\ TypeOK /\ script \in Scripts /\ script.at = "write_cron" /\ script.thing \in Things
      /\ 0 \in Revisions
  BY Types, ThingsAndBounds DEF TypeInv, WriteCron, InTxn, Scripts, Revisions
<1>2. Clash(t) \/ script.file[t] = Job(t)
  BY <1>1 DEF JobsInv, CopyInv
<1>3. [script.file EXCEPT ![script.thing] = 0] \in File
  BY <1>1 DEF File, Scripts
<1>4. Job(t)' = [script.file EXCEPT ![script.thing] = 0][t]
  BY <1>1, <1>3, WrittenJobs DEF Job, WriteCron
<1>5. QED
  BY <1>1, <1>2, <1>4 DEF File, Scripts

LEMMA JobsClose ==
  ASSUME TypeInv, JobsInv, CloseCrontab
  PROVE  JobsInv'
<1>1. TypeOK /\ worker.todo = "close" /\ worker'.todo = "read"
  BY NextIsIdle DEF TypeInv, CloseCrontab, At
<1>2. UNCHANGED <<row, inbox, script, excuses, saves>>
  BY DEF CloseCrontab
<1>3. SavesInOrder' /\ BothOpen'
  BY <1>1, <1>2 DEF JobsInv, SavesInOrder, BothOpen
<1>4. ASSUME NEW t \in Things PROVE ReadInv(t)' /\ CopyInv(t)'
  <2>1. ReadInv(t) /\ CopyInv(t)
    BY DEF JobsInv
  <2>2. ReadInv(t)'
    BY <1>1, <1>2, <2>1 DEF ReadInv, Past, InWork
  <2>3. CASE Clash(t)
    BY <1>2, <2>2, <2>3 DEF CopyInv, Clash
  <2>4. CASE ~Clash(t)
    <3>1. Job(t)' = Job(t) \/ (InWork(t) /\ Job(t)' = worker.read.rev)
      BY <2>4, JobsAfterClose
    <3>2. Past(Job(t))'
      BY <1>2, <2>1, <2>4, <3>1 DEF ReadInv, CopyInv, Past
    <3>3. Known(t)' => Job(t)' <= row'[t].rev
      BY <1>2, <2>1, <2>4, <3>1 DEF ReadInv, CopyInv, Known
    <3>4. script'.at # "write_cron"
      BY <1>1, <1>2, <2>4 DEF JobsInv, BothOpen
    <3>5. QED
      BY <1>1, <2>2, <3>2, <3>3, <3>4 DEF CopyInv, InWork
  <2>5. QED
    BY <2>3, <2>4
<1>5. QED
  BY <1>3, <1>4 DEF JobsInv

LEMMA JobsWrite ==
  ASSUME TypeInv, JobsInv, WriteCron
  PROVE  JobsInv'
<1>1. TypeOK /\ SavesInOrder /\ script \in Scripts /\ script.at = "write_cron"
  BY Types DEF TypeInv, JobsInv, WriteCron
<1>2. UNCHANGED <<row, inbox, worker, excuses, saves>> /\ script'.at = "thing"
  BY <1>1 DEF WriteCron, Scripts
<1>3. SavesInOrder' /\ BothOpen'
  BY <1>2 DEF JobsInv, SavesInOrder, BothOpen
<1>4. ASSUME NEW t \in Things PROVE ReadInv(t)' /\ CopyInv(t)'
  <2>1. ReadInv(t) /\ CopyInv(t)
    BY DEF JobsInv
  <2>2. ReadInv(t)'
    BY <1>2, <2>1 DEF ReadInv, Past, InWork, Known
  <2>3. CASE Clash(t)
    BY <1>2, <2>2, <2>3 DEF CopyInv, Clash
  <2>4. CASE ~Clash(t)
    <3>1. Job(t)' = Job(t) \/ Job(t)' = 0
      BY <2>4, JobsAfterWrite
    <3>2. worker.todo # "close"
      BY <1>1, <2>4 DEF JobsInv, BothOpen
    <3>3. /\ 0 <= saves + 1 /\ \A i \in DOMAIN inbox : 0 < inbox[i].rev
          /\ row[t].rev \in Int /\ worker.read.rev \in Int
      BY <1>1, SavesAre, Types, ThingsAndBounds DEF SavesInOrder
    <3>4. InWork(t) => worker.read.rev > 0
      BY DEF TypeInv, WorkerInv, InWork
    <3>5. Past(Job(t))'
      BY <1>2, <2>1, <2>4, <3>1, <3>3 DEF CopyInv, Past
    <3>6. Known(t)' => Job(t)' <= row'[t].rev
      BY <1>2, <2>1, <2>4, <3>1, <3>3 DEF CopyInv, Known
    <3>7. InWork(t)' => Job(t)' <= worker'.read.rev
      BY <1>2, <2>1, <2>4, <3>1, <3>3, <3>4 DEF CopyInv, InWork
    <3>8. QED
      BY <1>2, <2>2, <3>2, <3>5, <3>6, <3>7 DEF CopyInv
  <2>5. QED
    BY <2>3, <2>4
<1>5. QED
  BY <1>3, <1>4 DEF JobsInv

LEMMA JobsWorker ==
  ASSUME TypeInv, JobsInv, Receive \/ WriteArtefact \/ MakeBucket
  PROVE  JobsInv'
<1>t. TypeOK /\ worker \in Workers
  BY Types DEF TypeInv
<1>1. CASE Receive
  BY <1>1, Idles, QuietKeepsJobs DEF Quiet, Receive, Clash
<1>2. CASE WriteArtefact
  <2>1. worker.thing \in Things /\ worker.todo = "write" /\ worker.at \in 1..4
    BY <1>2 DEF WriteArtefact, At, TypeInv, WorkerInv
  <2>2. Provides[Handler] \in Artefacts \ {"job"}
    BY <2>1, HandlersAre DEF Handler, Provides, Artefacts
  <2>3. \A t \in Things : art'[t]["job"] = art[t]["job"]
    BY <1>t, <1>2, <2>1, <2>2, ProvideKeepsJobs DEF WriteArtefact
  <2>4. \/ worker'.todo = "read"
        \/ worker'.todo = "bucket" /\ worker'.thing = worker.thing /\ worker'.read = worker.read
    BY <1>t, <1>2, NextIsIdle DEF WriteArtefact, Workers
  <2>5. Quiet
    BY <1>2, <2>1, <2>3, <2>4 DEF Quiet, WriteArtefact, Clash
  <2>6. QED
    BY <2>5, QuietKeepsJobs
<1>3. CASE MakeBucket
  <2>1. worker.thing \in Things
    BY <1>3 DEF MakeBucket, At, TypeInv, WorkerInv
  <2>2. \A t \in Things : art'[t]["job"] = art[t]["job"]
    BY <1>t, <1>3, <2>1, ProvideKeepsJobs DEF MakeBucket, Artefacts
  <2>3. worker'.todo = "read"
    BY <1>t, <1>3, NextIsIdle DEF MakeBucket
  <2>4. Quiet
    BY <1>3, <2>2, <2>3 DEF Quiet, MakeBucket, Clash
  <2>5. QED
    BY <2>4, QuietKeepsJobs
<1>4. QED
  BY <1>1, <1>2, <1>3

LEMMA JobsUpdater ==
  ASSUME TypeInv, JobsInv, FetchIds \/ UpdateRow \/ RowIsGone \/ ResolveDeadlock
  PROVE  JobsInv'
<1>1. inbox # <<>> \/ UNCHANGED inbox
  BY Types, RowsAre
     DEF TypeInv, FetchIds, UpdateRow, RowIsGone, ResolveDeadlock, Deadlock, UpdaterWaits,
         Updating
<1>2. UNCHANGED inbox \/ inbox' = Tail(inbox)
  BY DEF FetchIds, UpdateRow, RowIsGone, LoseSave, ResolveDeadlock
<1>3. script' = script \/ script'.at # "write_cron"
  BY Idles DEF FetchIds, UpdateRow, RowIsGone, ResolveDeadlock, RollBack
<1>4. UNCHANGED <<row, art, worker, saves, excuses>>
  BY DEF FetchIds, UpdateRow, RowIsGone, ResolveDeadlock
<1>5. Quiet
  BY <1>1, <1>2, <1>3, <1>4 DEF Quiet, Clash
<1>6. QED
  BY <1>5, QuietKeepsJobs

LEMMA JobsScript ==
  ASSUME TypeInv, JobsInv,
         \/ \E t \in Doomed : Start(t)
         \/ DeleteStorageRow \/ NoBucket \/ DeleteBucket \/ RefuseBucket \/ DeleteUser
         \/ DeleteMqttRow \/ DeleteSyncRow \/ DeleteThing \/ CommitDeletion \/ DeleteBoard
         \/ Raise \/ Die \/ SkipOrg
  PROVE  JobsInv'
<1>t. TypeOK /\ script \in Scripts
  BY Types DEF TypeInv
<1>u. {script.thing} \ {NoThing} \in SUBSET Things
  BY <1>t DEF Scripts
<1>0. ASSUME NEW t \in Doomed, Start(t)
      PROVE  Quiet
  <2>1. script'.at = FirstStep(row[t])
    BY <1>0, Idles DEF Start
  <2>2. script'.at # "write_cron"
    BY <2>1 DEF FirstStep
  <2>3. {t} \cap InWorker \in SUBSET Things
    BY ThingsAndBounds
  <2>4. \A s \in Things : Clash(s) => "clash" \in excuses'[s]
    BY <1>t, <1>0, <2>3, ExcusesGrow DEF Start, Clash, Reasons
  <2>5. QED
    BY <1>0, <2>2, <2>4 DEF Quiet, Start
<1>1. ASSUME NEW r \in RowNames, NEW next \in Steps \ {"write_cron"}, DeleteRow(r, next)
      PROVE  Quiet
  <2>1. script'.at # "write_cron"
    BY <1>t, <1>1 DEF DeleteRow, Scripts
  <2>2. QED
    BY <1>1, <2>1 DEF DeleteRow, Quiet, Clash
<1>2. CASE DeleteStorageRow \/ DeleteMqttRow \/ DeleteSyncRow
  <2>1. AfterMqtt \in Steps \ {"write_cron"}
    BY DEF AfterMqtt, Steps
  <2>2. Quiet
    BY <1>1, <1>2, <2>1 DEF DeleteStorageRow, DeleteMqttRow, DeleteSyncRow, RowNames, Steps
  <2>3. QED
    BY <2>2, QuietKeepsJobs
<1>g. ASSUME NEW step \in Steps \ {"write_cron"}, Go(step)
      PROVE  script'.at # "write_cron"
  BY <1>t, <1>g DEF Go, Scripts
<1>3. CASE NoBucket
  BY <1>3, <1>g, QuietKeepsJobs DEF NoBucket, Quiet, Clash, Steps
<1>4. CASE DeleteBucket
  <2>1. \A t \in Things : art'[t]["job"] = art[t]["job"]
    BY <1>t, <1>4, RemoveKeepsJobs DEF DeleteBucket, InTxn, Scripts, Artefacts
  <2>2. QED
    BY <1>4, <1>g, <2>1, QuietKeepsJobs DEF DeleteBucket, Quiet, Clash, Steps
<1>5. CASE RefuseBucket
  <2>1. \A t \in Things : Clash(t) => "clash" \in excuses'[t]
    BY <1>t, <1>u, <1>5, ExcusesGrow DEF RefuseBucket, InScript, Clash, Reasons
  <2>2. QED
    BY <1>5, <1>g, <2>1, QuietKeepsJobs DEF RefuseBucket, Quiet, Clash, Steps
<1>6. CASE DeleteUser
  <2>1. \A t \in Things : art'[t]["job"] = art[t]["job"]
    BY <1>t, <1>6, RemoveKeepsJobs DEF DeleteUser, InTxn, Scripts, Artefacts
  <2>2. \A t \in Things : Clash(t) => "clash" \in excuses'[t]
    BY <1>t, <1>6, Types DEF DeleteUser, Clash
  <2>3. QED
    BY <1>6, <1>g, <2>1, <2>2, QuietKeepsJobs DEF DeleteUser, Quiet, Clash, Steps
<1>7. CASE DeleteThing
  <2>1. script'.at # "write_cron"
    BY <1>t, <1>7 DEF DeleteThing, Scripts
  <2>2. QED
    BY <1>7, <2>1, QuietKeepsJobs DEF DeleteThing, Quiet, Clash
<1>8. CASE CommitDeletion
  <2>1. script'.at # "write_cron"
    BY <1>t, <1>8 DEF CommitDeletion, Scripts
  <2>2. \A t \in Things : row'[t] = row[t] \/ row'[t] = NoRow
    BY <1>t, <1>8, Types DEF CommitDeletion
  <2>3. \A t \in Things : art'[t]["job"] = art[t]["job"]
    BY <1>t, <1>8, Types DEF CommitDeletion, Artefacts
  <2>4. QED
    BY <1>8, <2>1, <2>2, <2>3, QuietKeepsJobs DEF CommitDeletion, Quiet, Clash
<1>9. CASE DeleteBoard
  <2>1. \A t \in Things : art'[t]["job"] = art[t]["job"]
    BY <1>t, <1>9, RemoveKeepsJobs DEF DeleteBoard, Scripts, Artefacts
  <2>2. QED
    BY <1>9, <2>1, Idles, QuietKeepsJobs DEF DeleteBoard, Quiet, Clash
<1>10. CASE Raise \/ SkipOrg
  BY <1>10, Idles, QuietKeepsJobs DEF Raise, RollBack, SkipOrg, Quiet, Clash
<1>11. CASE Die
  <2>1. \A t \in Things : Clash(t) => "clash" \in excuses'[t]
    BY <1>t, <1>u, <1>11, ExcusesGrow DEF Die, InScript, Clash, Reasons
  <2>2. QED
    BY <1>11, <2>1, Idles, QuietKeepsJobs DEF Die, RollBack, Quiet
<1>12. QED
  BY <1>0, <1>2, <1>3, <1>4, <1>5, <1>6, <1>7, <1>8, <1>9, <1>10, <1>11, QuietKeepsJobs

LEMMA JobsInit == Init => JobsInv
<1> SUFFICES ASSUME Init PROVE JobsInv
  OBVIOUS
<1>1. worker.todo = "read" /\ script.at = "board"
  BY Idles DEF Init
<1>2. DOMAIN inbox = {} /\ saves = 0
  BY DEF Init
<1>3. ASSUME NEW t \in Things PROVE ReadInv(t) /\ CopyInv(t)
  <2>1. row[t].rev = (IF t \in Existing THEN 1 ELSE 0) /\ Job(t) = (IF t \in Existing THEN 1 ELSE 0)
    BY DEF Init, NoRow, Job, Artefacts
  <2>2. QED
    BY <1>1, <1>2, <2>1 DEF ReadInv, CopyInv, Past, InWork, Known
<1>4. QED
  BY <1>1, <1>2, <1>3 DEF JobsInv, SavesInOrder, BothOpen

LEMMA JobsNext == TypeInv /\ JobsInv /\ [Next]_vars => JobsInv'
<1> SUFFICES ASSUME TypeInv, JobsInv, [Next]_vars PROVE JobsInv'
  OBVIOUS
<1>1. CASE \E t \in Things : \E sections \in SectionSets[t] : SaveThing(t, sections)
  BY <1>1, JobsSave
<1>2. CASE Update
  BY <1>2, JobsUpdater, JobsCommit DEF Update
<1>3. CASE SetUp
  BY <1>3, JobsWorker, JobsRead, JobsOpen, JobsClose DEF SetUp
<1>4. CASE (\E t \in Doomed : Start(t)) \/ Delete \/ Die \/ SkipOrg
  <2>1. CASE ReadCron
    BY <2>1, JobsOpen
  <2>2. CASE WriteCron
    BY <2>2, JobsWrite
  <2>3. CASE ~(ReadCron \/ WriteCron)
    BY <1>4, <2>3, JobsScript DEF Delete
  <2>4. QED
    BY <2>1, <2>2, <2>3
<1>5. CASE ResolveDeadlock
  BY <1>5, JobsUpdater
<1>6. CASE UNCHANGED vars
  BY <1>6 DEF vars, JobsInv, SavesInOrder, BothOpen, ReadInv, CopyInv, Past, InWork, Known,
              Job, Clash
<1>7. QED
  BY <1>1, <1>2, <1>3, <1>4, <1>5, <1>6 DEF Next

\* Which steps write jobs at all.
LEMMA WhoWritesJobs ==
  ASSUME TypeInv, [Next]_vars
  PROVE  CloseCrontab \/ WriteCron \/ \A t \in Things : Job(t)' = Job(t)
<1>t. TypeOK /\ script \in Scripts
  BY Types DEF TypeInv
<1>1. CASE art' = art
  BY <1>1 DEF Job
<1>2. CASE WriteArtefact
  <2>1. worker.thing \in Things /\ worker.at \in 1..4
    BY <1>2 DEF WriteArtefact, At, TypeInv, WorkerInv
  <2>2. Provides[Handler] \in Artefacts \ {"job"}
    BY <2>1, HandlersAre DEF Handler, Provides, Artefacts
  <2>3. QED
    BY <1>t, <1>2, <2>1, <2>2, ProvideKeepsJobs DEF WriteArtefact, Job
<1>3. CASE MakeBucket
  <2>1. worker.thing \in Things
    BY <1>3 DEF MakeBucket, At, TypeInv, WorkerInv
  <2>2. QED
    BY <1>t, <1>3, <2>1, ProvideKeepsJobs DEF MakeBucket, Job, Artefacts
<1>4. CASE DeleteBucket \/ DeleteUser \/ DeleteBoard
  <2>1. script.thing \in Things
    BY <1>t, <1>4 DEF DeleteBucket, DeleteUser, DeleteBoard, InTxn, Scripts
  <2>2. QED
    BY <1>t, <1>4, <2>1, RemoveKeepsJobs
       DEF DeleteBucket, DeleteUser, DeleteBoard, Job, Artefacts
<1>5. CASE CommitDeletion
  BY <1>t, <1>5, Types DEF CommitDeletion, Job, Artefacts
<1>6. CASE ~(WriteArtefact \/ MakeBucket \/ DeleteBucket \/ DeleteUser \/ DeleteBoard
               \/ CommitDeletion \/ CloseCrontab \/ WriteCron)
  <2>1. art' = art
    BY <1>6 DEF Next, vars, Update, SetUp, Delete, SaveThing, Start, FetchIds, UpdateRow,
                RowIsGone, CommitSave, Receive, ReadThing, OpenCrontab, DeleteStorageRow,
                DeleteMqttRow, DeleteSyncRow, DeleteRow, NoBucket, RefuseBucket, ReadCron,
                DeleteThing, Raise, Die, SkipOrg, ResolveDeadlock
  <2>2. QED
    BY <1>1, <2>1
<1>7. QED
  BY <1>2, <1>3, <1>4, <1>5, <1>6

(***************************************************************************)
(* A job gets lost or is set back only with its own thing, or when the     *)
(* setup worker's crontab handler and run_delete_thing.py both had the     *)
(* crontab open, each with a copy of its own.                              *)
(***************************************************************************)
THEOREM OthersKeepTheirJobs == Spec => JobsOfOthersStay
<1>1. ASSUME TypeInv, JobsInv, [Next]_vars, NEW t \in Things,
             art'[t]["job"] < art[t]["job"]
      PROVE  (script.thing = t /\ script.at = "write_cron") \/ Excused(t, {"clash"})
  <2>1. Job(t)' < Job(t) /\ Job(t) \in Int
    BY <1>1, SavesAre DEF Job, TypeInv, JobsInv
  <2>2. Excused(t, {"clash"}) <=> Clash(t)
    BY DEF Excused, Clash
  <2>3. CASE CloseCrontab
    <3>1. CASE ~Clash(t)
      <4>1. Job(t)' = Job(t) \/ (InWork(t) /\ Job(t)' = worker.read.rev)
        BY <1>1, <2>3, <3>1, JobsAfterClose
      <4>2. InWork(t) => Job(t) <= worker.read.rev
        BY <1>1, <3>1 DEF JobsInv, CopyInv
      <4>3. worker.read.rev \in Int
        BY <1>1, SavesAre DEF TypeInv, JobsInv
      <4>4. QED
        BY <2>1, <4>1, <4>2, <4>3
    <3>2. QED
      BY <2>2, <3>1
  <2>4. CASE WriteCron
    <3>1. script.at = "write_cron"
      BY <2>4 DEF WriteCron
    <3>2. t # script.thing => Job(t)' = Job(t) \/ Clash(t)
      BY <1>1, <2>4, JobsAfterWrite
    <3>3. QED
      BY <2>1, <2>2, <3>1, <3>2
  <2>5. CASE \A s \in Things : Job(s)' = Job(s)
    BY <1>1, <2>1, <2>5
  <2>6. QED
    BY <1>1, <2>3, <2>4, <2>5, WhoWritesJobs
<1>2. TypeInv /\ JobsInv /\ [Next]_vars
        => [\A t \in Things : art'[t]["job"] < art[t]["job"] =>
              (script.thing = t /\ script.at = "write_cron") \/ Excused(t, {"clash"})]_vars
  BY <1>1
<1>3. QED
  BY <1>2, TypeInit, TypeNext, JobsInit, JobsNext, PTL DEF Spec, JobsOfOthersStay
-----------------------------------------------------------------------------
(***************************************************************************)
(* Steps that change nothing of what is said of thing t.                   *)
(***************************************************************************)
Aside(t) ==
  /\ row'[t] = row[t] /\ art'[t] = art[t] /\ excuses[t] \subseteq excuses'[t]
  /\ \/ worker' = worker
     \/ ~InWork(t)' /\ ~(InWork(t) /\ worker.todo = "bucket")
     \/ /\ InWork(t) /\ InWork(t)' /\ worker.todo # "bucket"
        /\ worker'.read = worker.read
  /\ \/ script' = script
     \/ ~Runs(t) /\ script'.thing # t

LEMMA AsideKeeps ==
  ASSUME NEW t \in Things, LeftInv(t), Aside(t)
  PROVE  LeftInv(t)'
<1>1. Known(t)' = Known(t) /\ (Runs(t)' <=> Runs(t))
  BY DEF Known, Runs, Aside
<1>2. /\ InWork(t)' => InWork(t) /\ worker'.read = worker.read
      /\ InWork(t) /\ worker.todo = "bucket" => InWork(t)' /\ worker'.todo = "bucket"
  BY DEF Aside, InWork
<1>3. Runs(t) => script' = script
  BY DEF Aside
<1>4. \A why : Excused(t, why) => Excused(t, why)'
  BY DEF Excused, Aside
<1>5. SeenInv(t)'
  <2>1. (~Known(t) => row[t] = NoRow)'
    BY <1>1 DEF LeftInv, SeenInv, Aside
  <2>2. InWork(t)' => Overlap(t)' \/ (Known(t)' /\ ~Runs(t)')
    BY <1>1, <1>2, <1>4 DEF LeftInv, SeenInv, Overlap
  <2>3. InWork(t)' =>
          worker'.read.sections \subseteq row'[t].sections \/ Excused(t, {"overlap", "dropped"})'
    BY <1>2, <1>4 DEF LeftInv, SeenInv, Aside
  <2>4. Runs(t)' /\ script'.at # "board" => script'.ids = row'[t] \/ Overlap(t)'
    BY <1>1, <1>3, <1>4 DEF LeftInv, SeenInv, Overlap, Aside
  <2>5. Runs(t)' /\ "thing" \in script'.held => script'.ids.rev > 0 \/ Overlap(t)'
    BY <1>1, <1>3, <1>4 DEF LeftInv, SeenInv, Overlap
  <2>6. QED
    BY <2>1, <2>2, <2>3, <2>4, <2>5 DEF SeenInv
<1>6. EntryInv(t)'
  BY <1>1, <1>4 DEF LeftInv, EntryInv, Overlap, Aside
<1>7. \A s, done : StillDue(t, s, done) => StillDue(t, s, done)'
  BY <1>1, <1>3 DEF StillDue, Aside
<1>8. BucketInv(t)'
  BY <1>1, <1>3, <1>4, <1>7 DEF LeftInv, BucketInv, Overlap, Aside
<1>9. UserInv(t)'
  BY <1>1, <1>2, <1>3, <1>4, <1>7 DEF LeftInv, UserInv, Aside
<1>10. JobInv(t)'
  BY <1>4, <1>7 DEF LeftInv, JobInv, Job, Aside
<1>11. QED
  BY <1>5, <1>6, <1>8, <1>9, <1>10 DEF LeftInv

\* When something overlapped, nothing is promised.
LEMMA OverlapSettles ==
  ASSUME NEW t \in Things, "overlap" \in excuses'[t], ~Known(t)' => row'[t] = NoRow
  PROVE  LeftInv(t)'
<1>1. \A why : "overlap" \in why => Excused(t, why)'
  BY DEF Excused
<1>2. Overlap(t)'
  BY <1>1 DEF Overlap
<1>3. QED
  BY <1>1, <1>2 DEF LeftInv, SeenInv, EntryInv, BucketInv, UserInv, JobInv

LEMMA LeftAsides ==
  ASSUME TypeInv, \A t \in Things : LeftInv(t),
         \/ \E t \in Things : \E sections \in SectionSets[t] : SaveThing(t, sections)
         \/ FetchIds \/ UpdateRow \/ RowIsGone \/ Receive \/ OpenCrontab
  PROVE  \A t \in Things : LeftInv(t)'
<1>t. TypeOK /\ worker \in Workers
  BY Types DEF TypeInv
<1>1. UNCHANGED <<row, art, script>>
  BY DEF SaveThing, FetchIds, UpdateRow, RowIsGone, Receive, OpenCrontab
<1>2. \A t \in Things : excuses[t] \subseteq excuses'[t]
  <2>1. CASE OpenCrontab
    <3>1. PICK ts \in SUBSET Things : Excuse(ts, "clash")
      BY <2>1 DEF OpenCrontab
    <3>2. QED
      BY <1>t, <3>1, ExcusesGrow DEF Reasons
  <2>2. CASE ~OpenCrontab
    BY <2>2 DEF SaveThing, FetchIds, UpdateRow, RowIsGone, Receive
  <2>3. QED
    BY <2>1, <2>2
<1>3. \/ worker' = worker
      \/ worker.thing = NoThing /\ worker'.todo = "read"
      \/ /\ worker.todo = "open" /\ worker'.todo = "close"
         /\ worker'.thing = worker.thing /\ worker'.read = worker.read
  <2>1. CASE Receive
    BY <2>1, Idles DEF Receive
  <2>2. CASE OpenCrontab
    BY <1>t, <2>2 DEF OpenCrontab, At, Workers
  <2>3. CASE ~Receive /\ ~OpenCrontab
    BY <2>3 DEF SaveThing, FetchIds, UpdateRow, RowIsGone
  <2>4. QED
    BY <2>1, <2>2, <2>3
<1>4. ASSUME NEW t \in Things PROVE LeftInv(t)'
  <2>1. t # NoThing
    BY ThingsAndBounds
  <2>2. Aside(t)
    BY <1>1, <1>2, <1>3, <2>1 DEF Aside, InWork
  <2>3. QED
    BY <2>2, AsideKeeps
<1>5. QED
  BY <1>4

LEMMA LeftCommit ==
  ASSUME TypeInv, JobsInv, \A t \in Things : LeftInv(t), CommitSave
  PROVE  \A t \in Things : LeftInv(t)'
<1>t. TypeOK /\ SavesInOrder
  BY DEF TypeInv, JobsInv
<1>1. Msg \in Save /\ Msg.thing \in Things /\ Msg.rev > 0
  <2>1. inbox # <<>> /\ 1 \in DOMAIN inbox
    BY <1>t, Types, RowsAre DEF CommitSave
  <2>2. Msg \in Save /\ Msg = inbox[1]
    BY <1>t, <2>1, Types, HeadTailProperties DEF Msg
  <2>3. QED
    BY <1>t, <2>1, <2>2, SavesAre DEF SavesInOrder, Save
<1>2. UNCHANGED <<art, worker, script>>
  BY DEF CommitSave
<1>3. ASSUME NEW t \in Things PROVE LeftInv(t)'
  <2>1. CASE t # Msg.thing
    <3>1. row'[t] = row[t] /\ excuses'[t] = excuses[t]
      BY <1>t, <1>1, <2>1, Types DEF CommitSave
    <3>2. QED
      BY <1>2, <3>1, AsideKeeps DEF Aside
  <2>2. CASE t = Msg.thing
    <3>1. row'[t] = [rev |-> Msg.rev, sections |-> Msg.sections] /\ Known(t)'
      BY <1>t, <1>1, <2>2, Types DEF CommitSave, Known
    <3>2. excuses'[t] = excuses[t] \cup (IF t \in InScript THEN {"overlap"} ELSE {})
                          \cup (IF row[t].sections \subseteq Msg.sections THEN {} ELSE {"dropped"})
      BY <1>t, <1>1, <2>2, Types DEF CommitSave
    <3>3. CASE Runs(t)
      <4>1. t \in InScript
        BY <3>3, ThingsAndBounds DEF Runs, InScript
      <4>2. QED
        BY <3>1, <3>2, <4>1, OverlapSettles
    <3>4. CASE ~Runs(t)
      <4>1. LeftInv(t) /\ ~Runs(t)' /\ (InWork(t)' <=> InWork(t))
        BY <1>2, <3>4 DEF Runs, InWork
      <4>2. row[t].sections \subseteq row'[t].sections \/ "dropped" \in excuses'[t]
        BY <3>1, <3>2
      <4>3. \A why : /\ Excused(t, why) => Excused(t, why)'
                     /\ "dropped" \in excuses'[t] /\ "dropped" \in why => Excused(t, why)'
        BY <3>2 DEF Excused
      <4>4. SeenInv(t)'
        <5>1. InWork(t)' =>
                worker'.read.sections \subseteq row'[t].sections \/ Excused(t, {"overlap", "dropped"})'
          BY <1>2, <4>1, <4>2, <4>3 DEF LeftInv, SeenInv
        <5>2. QED
          BY <3>1, <4>1, <5>1 DEF SeenInv
      <4>5. EntryInv(t)'
        BY <3>1 DEF EntryInv
      <4>6. \A s, done : StillDue(t, s, done) => StillDue(t, s, done)' \/ "dropped" \in excuses'[t]
        BY <4>1, <4>2 DEF StillDue
      <4>7. BucketInv(t)'
        BY <1>2, <4>1, <4>3, <4>6 DEF LeftInv, BucketInv
      <4>8. UserInv(t)'
        BY <1>2, <4>1, <4>3, <4>6, <3>4 DEF LeftInv, UserInv
      <4>9. JobInv(t)'
        BY <1>2, <4>1, <4>3, <4>6 DEF LeftInv, JobInv, Job
      <4>10. QED
        BY <4>4, <4>5, <4>7, <4>8, <4>9 DEF LeftInv
    <3>5. QED
      BY <3>3, <3>4
  <2>3. QED
    BY <2>1, <2>2
<1>4. QED
  BY <1>3

LEMMA LeftRead ==
  ASSUME TypeInv, \A t \in Things : LeftInv(t), ReadThing
  PROVE  \A t \in Things : LeftInv(t)'
<1>t. TypeOK /\ worker \in Workers /\ worker.todo = "read" /\ worker.thing \in Things
  BY Types DEF TypeInv, ReadThing, At, Workers
<1> DEFINE s == worker.thing
           idle == ~Known(s) \/ (Handler = "minio" /\ "storage" \notin Fetched(s).sections)
<1>1. UNCHANGED <<row, art, script>>
  BY DEF ReadThing
<1>2. Excuse(IF idle THEN {} ELSE {s} \cap InScript, "overlap")
  BY DEF ReadThing
<1>3. \A t \in Things : /\ excuses[t] \subseteq excuses'[t]
                        /\ ~idle /\ t = s /\ Runs(t) => "overlap" \in excuses'[t]
  <2>1. (IF idle THEN {} ELSE {s} \cap InScript) \in SUBSET Things
    BY <1>t
  <2>2. ~idle /\ Runs(s) => s \in (IF idle THEN {} ELSE {s} \cap InScript)
    BY <1>t, ThingsAndBounds DEF Runs, InScript
  <2> HIDE DEF idle
  <2>3. QED
    BY <1>t, <1>2, <2>1, <2>2, ExcusesGrow DEF Reasons
<1>4. CASE idle
  <2>1. worker'.todo = "read"
    BY <1>t, <1>4, NextIsIdle DEF ReadThing
  <2>2. \A t \in Things : Aside(t)
    BY <1>t, <1>1, <1>3, <2>1 DEF Aside, InWork
  <2>3. QED
    BY <2>2, AsideKeeps
<1>5. CASE ~idle
  <2>1. /\ worker'.thing = s /\ worker'.read = row[s] /\ worker'.todo \in {"open", "write"}
    <3>1. worker' = [worker EXCEPT !.read = row[s],
                       !.todo = IF Handler = "crontab" THEN "open" ELSE "write"]
      BY <1>5 DEF ReadThing, Fetched
    <3>2. QED
      BY <1>t, <3>1 DEF Workers
  <2>2. Known(s)
    BY <1>5
  <2>3. \A t \in Things : excuses[t] \subseteq excuses'[t] /\ (t = s /\ Runs(t) => "overlap" \in excuses'[t])
    BY <1>3, <1>5
  <2> HIDE DEF s, idle
  <2>4. ASSUME NEW t \in Things PROVE LeftInv(t)'
    <3>0. LeftInv(t) /\ ~InWork(t)
      BY <1>t DEF InWork
    <3>1. CASE t # s
      BY <1>1, <2>1, <2>3, <3>0, <3>1, AsideKeeps DEF Aside, InWork
    <3>2. CASE t = s /\ Runs(t)
      BY <1>1, <2>3, <3>0, <3>2, OverlapSettles DEF LeftInv, SeenInv, Known
    <3>3. CASE t = s /\ ~Runs(t)
      <4>1. /\ Known(t)' = Known(t) /\ Known(t)' /\ ~Runs(t)'
            /\ \A why : Excused(t, why) => Excused(t, why)'
        BY <1>1, <2>2, <2>3, <3>3 DEF Known, Runs, Excused
      <4>2. SeenInv(t)'
        BY <1>1, <2>1, <3>3, <4>1 DEF SeenInv
      <4>3. EntryInv(t)'
        BY <4>1 DEF EntryInv
      <4>4. \A c, done : StillDue(t, c, done) => StillDue(t, c, done)'
        BY <1>1, <4>1 DEF StillDue
      <4>5. BucketInv(t)'
        BY <1>1, <3>0, <4>1, <4>4 DEF LeftInv, BucketInv
      <4>6. UserInv(t)'
        BY <1>1, <3>0, <3>3, <4>1, <4>4 DEF LeftInv, UserInv
      <4>7. JobInv(t)'
        BY <1>1, <3>0, <4>1, <4>4 DEF LeftInv, JobInv, Job
      <4>8. QED
        BY <4>2, <4>3, <4>5, <4>6, <4>7 DEF LeftInv
    <3>4. QED
      BY <3>1, <3>2, <3>3
  <2>5. QED
    BY <2>4
<1>6. QED
  BY <1>4, <1>5

(***************************************************************************)
(* The handlers write what they provide.  Without an overlap, the script   *)
(* is not at work on the thing, and its row still has the sections.        *)
(***************************************************************************)
LEMMA InWorkIsDue ==
  ASSUME TypeInv, NEW t \in Things, LeftInv(t), InWork(t), ~Overlap(t)
  PROVE  /\ Known(t) /\ ~Runs(t)
         /\ \A done : \A c \in worker.read.sections :
              StillDue(t, c, done) \/ "dropped" \in excuses[t]
<1>1. Known(t) /\ ~Runs(t)
  BY DEF LeftInv, SeenInv
<1>2. worker.read.sections \subseteq row[t].sections \/ "dropped" \in excuses[t]
  BY DEF LeftInv, SeenInv, Excused, Overlap
<1>3. QED
  BY <1>1, <1>2 DEF StillDue

LEMMA LeftWrite ==
  ASSUME TypeInv, \A t \in Things : LeftInv(t), WriteArtefact
  PROVE  \A t \in Things : LeftInv(t)'
<1>t. /\ TypeOK /\ WorkerInv /\ worker \in Workers /\ worker.todo = "write"
      /\ worker.thing \in Things /\ worker.at \in 1..4 /\ worker.read.rev > 0
  BY Types DEF TypeInv, WriteArtefact, At, WorkerInv
<1>1. UNCHANGED <<row, script, excuses>>
  BY DEF WriteArtefact
<1> DEFINE s == worker.thing
           a == Provides[Handler]
<1>2. /\ worker.at = 1 => Handler = "database" /\ a = "entry"
      /\ worker.at = 2 => Handler = "minio" /\ a = "s3user"
      /\ worker.at = 3 => Handler = "mqtt" /\ a = "mqttuser"
      /\ worker.at = 4 => Handler = "grafana" /\ a = "board"
  BY HandlersAre DEF Handler, Provides
<1>3. a \in Artefacts
  BY <1>t, <1>2 DEF Artefacts
<1>4. /\ \A t \in Things \ {s} : art'[t] = art[t]
      /\ \A b \in Artefacts \ {a} : art'[s][b] = art[s][b]
      /\ art'[s][a] # 0
  BY <1>t, <1>3, Types DEF WriteArtefact, Provide
<1>5. IF worker.at = 2
      THEN /\ worker'.todo = "bucket" /\ worker'.thing = s /\ worker'.read = worker.read
      ELSE worker'.todo = "read"
  <2>1. worker.at = 2 => worker' = [worker EXCEPT !.todo = "bucket"]
    BY <1>2 DEF WriteArtefact
  <2>2. worker.at # 2 => worker' = NextHandler
    BY <1>t, <1>2 DEF WriteArtefact
  <2>3. QED
    BY <1>t, <2>1, <2>2, NextIsIdle DEF Workers
<1> HIDE DEF s, a
<1>6. ASSUME NEW t \in Things PROVE LeftInv(t)'
  <2>0. LeftInv(t) /\ s = worker.thing
    BY DEF s
  <2>1. CASE t # s
    <3>1. Aside(t)
      BY <1>1, <1>4, <1>5, <2>0, <2>1 DEF Aside, InWork
    <3>2. QED
      BY <3>1, <2>0, AsideKeeps
  <2>2. CASE t = s /\ Overlap(t)
    BY <1>1, <2>0, <2>2, OverlapSettles DEF LeftInv, SeenInv, Known, Overlap, Excused
  <2>3. CASE t = s /\ ~Overlap(t)
    <3>1. /\ InWork(t) /\ Known(t) /\ ~Runs(t)
          /\ \A done : \A c \in worker.read.sections :
               StillDue(t, c, done) \/ "dropped" \in excuses[t]
      BY <1>t, <2>0, <2>3, InWorkIsDue DEF InWork
    <3>2. /\ Known(t)' /\ ~Runs(t)' /\ (InWork(t)' => worker'.read = worker.read)
          /\ \A why : Excused(t, why)' <=> Excused(t, why)
          /\ \A c, done : StillDue(t, c, done)' <=> StillDue(t, c, done)
      BY <1>1, <1>5, <3>1 DEF Known, Runs, Excused, StillDue, InWork
    <3>3. SeenInv(t)'
      BY <1>1, <2>0, <3>1, <3>2 DEF LeftInv, SeenInv
    <3>4. EntryInv(t)'
      BY <3>2 DEF EntryInv
    <3>5. BucketInv(t)'
      <4>1. art'[t]["bucket"] = art[t]["bucket"]
        BY <1>t, <1>2, <1>4, <2>3 DEF Artefacts
      <4>2. QED
        BY <2>0, <3>1, <3>2, <4>1 DEF LeftInv, BucketInv
    <3>6. UserInv(t)'
      <4>1. CASE worker.at = 2
        <5>1. "storage" \in worker.read.sections
          BY <1>t, <4>1 DEF WorkerInv
        <5>2. InWork(t)' /\ worker'.todo = "bucket"
          BY <1>5, <2>3, <4>1 DEF InWork
        <5>3. StillDue(t, "storage", BucketDone)' \/ Excused(t, {"overlap", "refused", "dropped", "unfinished"})'
          BY <3>1, <3>2, <5>1 DEF Excused
        <5>4. QED
          BY <5>2, <5>3 DEF UserInv
      <4>2. CASE worker.at # 2
        <5>1. art'[t]["bucket"] = art[t]["bucket"] /\ art'[t]["s3user"] = art[t]["s3user"]
          BY <1>t, <1>2, <1>4, <2>3, <4>2 DEF Artefacts
        <5>2. QED
          BY <1>t, <2>0, <3>1, <3>2, <5>1 DEF LeftInv, UserInv
      <4>3. QED
        BY <4>1, <4>2
    <3>7. JobInv(t)'
      <4>1. art'[t]["job"] = art[t]["job"]
        BY <1>t, <1>2, <1>4, <2>3 DEF Artefacts
      <4>2. QED
        BY <2>0, <3>2, <4>1 DEF LeftInv, JobInv, Job
    <3>8. QED
      BY <3>3, <3>4, <3>5, <3>6, <3>7 DEF LeftInv
  <2>4. QED
    BY <2>1, <2>2, <2>3
<1>7. QED
  BY <1>6

LEMMA LeftMakeBucket ==
  ASSUME TypeInv, \A t \in Things : LeftInv(t), MakeBucket
  PROVE  \A t \in Things : LeftInv(t)'
<1>t. /\ TypeOK /\ worker \in Workers /\ worker.todo = "bucket"
      /\ worker.thing \in Things /\ worker.read.rev > 0 /\ "storage" \in worker.read.sections
  BY Types DEF TypeInv, MakeBucket, At, WorkerInv
<1>1. UNCHANGED <<row, script, excuses>> /\ worker'.todo = "read"
  BY <1>t, NextIsIdle DEF MakeBucket
<1>2. /\ \A t \in Things \ {worker.thing} : art'[t] = art[t]
      /\ \A b \in Artefacts \ {"bucket"} : art'[worker.thing][b] = art[worker.thing][b]
      /\ art'[worker.thing]["bucket"] # 0
  BY <1>t, Types DEF MakeBucket, Provide, Artefacts
<1>3. ASSUME NEW t \in Things PROVE LeftInv(t)'
  <2>0. LeftInv(t) /\ ~InWork(t)'
    BY <1>1 DEF InWork
  <2>1. CASE t # worker.thing
    BY <1>1, <1>2, <2>0, <2>1, AsideKeeps DEF Aside, InWork
  <2>2. CASE t = worker.thing /\ Overlap(t)
    BY <1>1, <2>0, <2>2, OverlapSettles DEF LeftInv, SeenInv, Known, Overlap, Excused
  <2>3. CASE t = worker.thing /\ ~Overlap(t)
    <3>1. /\ Known(t) /\ ~Runs(t)
          /\ \A done : \A c \in worker.read.sections :
               StillDue(t, c, done) \/ "dropped" \in excuses[t]
      BY <1>t, <2>0, <2>3, InWorkIsDue DEF InWork
    <3>2. /\ Known(t)' /\ ~Runs(t)'
          /\ \A why : Excused(t, why)' <=> Excused(t, why)
          /\ \A c, done : StillDue(t, c, done)' <=> StillDue(t, c, done)
      BY <1>1, <3>1 DEF Known, Runs, Excused, StillDue
    <3>3. SeenInv(t)' /\ EntryInv(t)'
      BY <2>0, <3>2 DEF SeenInv, EntryInv
    <3>4. BucketInv(t)'
      BY <1>t, <3>1, <3>2 DEF BucketInv, Excused
    <3>5. UserInv(t)'
      <4>1. art'[t]["bucket"] # 0 /\ art'[t]["s3user"] = art[t]["s3user"]
        BY <1>2, <2>3 DEF Artefacts
      <4>2. QED
        BY <2>0, <3>2, <4>1 DEF LeftInv, UserInv
    <3>6. JobInv(t)'
      <4>1. art'[t]["job"] = art[t]["job"]
        BY <1>2, <2>3 DEF Artefacts
      <4>2. QED
        BY <2>0, <3>2, <4>1 DEF LeftInv, JobInv, Job
    <3>7. QED
      BY <3>3, <3>4, <3>5, <3>6 DEF LeftInv
  <2>4. QED
    BY <2>1, <2>2, <2>3
<1>4. QED
  BY <1>3

LEMMA LeftClose ==
  ASSUME TypeInv, JobsInv, \A t \in Things : LeftInv(t), CloseCrontab
  PROVE  \A t \in Things : LeftInv(t)'
<1>t. /\ TypeOK /\ worker \in Workers /\ worker.todo = "close" /\ worker.thing \in Things
      /\ worker'.todo = "read"
  BY Types, NextIsIdle DEF TypeInv, CloseCrontab, At, WorkerInv
<1>1. UNCHANGED <<row, script, excuses>>
  BY DEF CloseCrontab
<1>2. \A t \in Things : \A a \in Artefacts \ {"job"} : art'[t][a] = art[t][a]
  <2> DEFINE new == IF "sync" \in worker.read.sections
                    THEN [worker.file EXCEPT ![worker.thing] = worker.read.rev] ELSE worker.file
  <2>1. new \in File
    BY <1>t DEF File, Workers, Row
  <2>2. art' = WithJobs(new)
    BY DEF CloseCrontab
  <2> HIDE DEF new
  <2>3. QED
    BY <1>t, <2>1, <2>2, WrittenJobs
<1>3. ASSUME NEW t \in Things PROVE LeftInv(t)'
  <2>0. LeftInv(t) /\ ~InWork(t)' /\ (~Known(t) => row[t] = NoRow)
    BY <1>t DEF InWork, LeftInv, SeenInv
  <2>1. /\ Known(t)' = Known(t) /\ (Runs(t)' <=> Runs(t))
        /\ \A why : Excused(t, why)' <=> Excused(t, why)
        /\ \A c, done : StillDue(t, c, done)' <=> StillDue(t, c, done)
    BY <1>1 DEF Known, Runs, Excused, StillDue
  <2>2. SeenInv(t)' /\ EntryInv(t)' /\ BucketInv(t)'
    BY <1>1, <1>2, <2>0, <2>1 DEF LeftInv, SeenInv, EntryInv, BucketInv, Overlap, Artefacts
  <2>3. UserInv(t)'
    BY <1>t, <1>1, <1>2, <2>0, <2>1 DEF LeftInv, UserInv, Artefacts
  <2>4. JobInv(t)'
    <3>1. CASE Overlap(t) \/ Clash(t)
      BY <2>1, <3>1 DEF JobInv, Overlap, Clash, Excused
    <3>2. CASE ~Overlap(t) /\ ~Clash(t)
      <4>1. \/ Job(t)' = Job(t)
            \/ InWork(t) /\ "sync" \in worker.read.sections
        BY <3>2, JobsAfterClose
      <4>2. CASE Job(t)' = Job(t)
        BY <2>0, <2>1, <4>2 DEF LeftInv, JobInv
      <4>3. CASE InWork(t) /\ "sync" \in worker.read.sections
        <5>1. StillDue(t, "sync", JobDone) \/ "dropped" \in excuses[t]
          BY <2>0, <3>2, <4>3, InWorkIsDue
        <5>2. QED
          BY <2>1, <5>1 DEF JobInv, Excused
      <4>4. QED
        BY <4>1, <4>2, <4>3
    <3>3. QED
      BY <3>1, <3>2
  <2>5. QED
    BY <2>2, <2>3, <2>4 DEF LeftInv
<1>4. QED
  BY <1>3

(***************************************************************************)
(* The script.  Its steps are about its own thing.                         *)
(***************************************************************************)
LEMMA OthersAreAside ==
  ASSUME TypeInv, \A t \in Things : LeftInv(t), script.thing \in Things,
         script'.thing \in {script.thing, NoThing}, worker' = worker,
         \A t \in Things \ {script.thing} :
           row'[t] = row[t] /\ art'[t] = art[t] /\ excuses[t] \subseteq excuses'[t]
  PROVE  \A t \in Things \ {script.thing} : LeftInv(t)'
<1>1. ASSUME NEW t \in Things \ {script.thing} PROVE LeftInv(t)'
  <2>1. ~Runs(t) /\ script'.thing # t
    BY <1>1, ThingsAndBounds DEF Runs
  <2>2. Aside(t)
    BY <1>1, <2>1 DEF Aside
  <2>3. QED
    BY <2>2, AsideKeeps
<1>2. QED
  BY <1>1

LEMMA LeftStart ==
  ASSUME TypeInv, \A t \in Things : LeftInv(t), NEW s \in Doomed, Start(s)
  PROVE  \A t \in Things : LeftInv(t)'
<1>t. TypeOK /\ s \in Things /\ s # NoThing /\ script.thing = NoThing
  BY ThingsAndBounds DEF TypeInv, Start
<1>1. /\ UNCHANGED <<row, art, worker>>
      /\ script'.thing = s /\ script'.at = FirstStep(row[s]) /\ script'.ids = row[s]
      /\ script'.held = {}
  BY Idles DEF Start
<1>2. \A t \in Things : /\ excuses[t] \subseteq excuses'[t]
                        /\ t = s /\ InWork(t) => "overlap" \in excuses'[t]
  <2>1. {s} \cap InWorker \in SUBSET Things /\ (InWork(s) => s \in {s} \cap InWorker)
    BY <1>t DEF InWork, InWorker
  <2>2. QED
    BY <1>t, <2>1, ExcusesGrow DEF Start, Reasons
<1>3. ASSUME NEW t \in Things PROVE LeftInv(t)'
  <2>0. LeftInv(t) /\ ~Runs(t)
    BY <1>t, ThingsAndBounds DEF Runs
  <2>1. CASE t # s
    BY <1>1, <1>2, <2>0, <2>1, AsideKeeps DEF Aside
  <2>2. CASE t = s /\ InWork(t)
    BY <1>1, <1>2, <2>0, <2>2, OverlapSettles DEF LeftInv, SeenInv, Known
  <2>3. CASE t = s /\ ~InWork(t)
    <3>1. /\ Known(t)' = Known(t) /\ ~InWork(t)' /\ Runs(t)'
          /\ \A why : Excused(t, why) => Excused(t, why)'
      BY <1>1, <1>2, <2>3 DEF Known, InWork, Runs, Excused
    <3>2. SeenInv(t)'
      BY <1>1, <2>0, <2>3, <3>1 DEF LeftInv, SeenInv
    <3>3. EntryInv(t)'
      BY <1>1, <2>0, <3>1 DEF LeftInv, EntryInv, Overlap
    <3>4. /\ script'.at \in {"storage", "mqtt", "thing"}
          /\ script'.at # "storage" => "storage" \notin row[t].sections
          /\ script'.at = "thing" => row[t].sections = {}
      <4>1. script'.at = FirstStep(row[t])
        BY <1>1, <2>3
      <4>2. row[t].rev \in Int
        BY <1>t, Types, ThingsAndBounds DEF Row, Revisions
      <4>3. row[t].rev = 0 => row[t].sections = {}
        BY <2>0, <4>2 DEF LeftInv, SeenInv, Known, NoRow
      <4>4. QED
        BY <4>1, <4>3 DEF FirstStep
    <3>5. /\ StillDue(t, "storage", BucketDone \cup {"s3user"})
               => StillDue(t, "storage", BucketDone \cup {"s3user"})'
          /\ StillDue(t, "storage", BucketDone) => StillDue(t, "storage", BucketDone)'
          /\ StillDue(t, "sync", JobDone) => StillDue(t, "sync", JobDone)'
      BY <1>1, <3>4 DEF StillDue, BucketDone, JobDone
    <3>6. BucketInv(t)'
      BY <1>1, <2>0, <3>1, <3>4, <3>5 DEF LeftInv, BucketInv
    <3>7. UserInv(t)'
      BY <1>1, <2>0, <2>3, <3>1, <3>5 DEF LeftInv, UserInv
    <3>8. JobInv(t)'
      BY <1>1, <2>0, <3>1, <3>5 DEF LeftInv, JobInv, Job
    <3>9. QED
      BY <3>2, <3>3, <3>6, <3>7, <3>8 DEF LeftInv
  <2>4. QED
    BY <2>1, <2>2, <2>3
<1>4. QED
  BY <1>3

\* The run ends; if it ends before s3user was removed, it is noted.
LEMMA LeftEnds ==
  ASSUME TypeInv, \A t \in Things : LeftInv(t),
         script' = IdleScript, script.thing \in Things,
         UNCHANGED <<row, worker>>,
         \A t \in Things : /\ excuses[t] \subseteq excuses'[t]
                           /\ \A a \in Artefacts \ {"board"} : art'[t][a] = art[t][a],
         script.at = "s3user" =>
           \/ art[script.thing]["s3user"] = 0
           \/ "unfinished" \in excuses'[script.thing]
  PROVE  \A t \in Things : LeftInv(t)'
<1>1. ASSUME NEW t \in Things PROVE LeftInv(t)'
  <2>0. LeftInv(t)
    OBVIOUS
  <2>1. /\ Known(t)' = Known(t) /\ (InWork(t)' <=> InWork(t)) /\ ~Runs(t)'
        /\ \A why : Excused(t, why) => Excused(t, why)'
    BY Idles, ThingsAndBounds DEF Known, InWork, Runs, Excused
  <2>2. \A c, done : StillDue(t, c, done) => StillDue(t, c, done)'
    BY <2>1 DEF StillDue
  <2>3. SeenInv(t)'
    <3>1. InWork(t)' => Overlap(t)' \/ (Known(t)' /\ ~Runs(t)')
      BY <2>0, <2>1 DEF LeftInv, SeenInv, Overlap
    <3>2. InWork(t)' =>
            worker'.read.sections \subseteq row'[t].sections \/ Excused(t, {"overlap", "dropped"})'
      BY <2>0, <2>1 DEF LeftInv, SeenInv
    <3>3. QED
      BY <2>0, <2>1, <3>1, <3>2 DEF LeftInv, SeenInv
  <2>4. EntryInv(t)' /\ BucketInv(t)' /\ JobInv(t)'
    BY <2>0, <2>1, <2>2 DEF LeftInv, EntryInv, BucketInv, JobInv, Job, Overlap, Artefacts
  <2>5. UserInv(t)'
    <3>1. art'[t]["s3user"] = art[t]["s3user"] /\ art'[t]["bucket"] = art[t]["bucket"]
      BY DEF Artefacts
    <3>2. Runs(t) /\ script.at = "s3user" /\ art[t]["s3user"] # 0 => Excused(t, {"overlap", "unfinished"})'
      BY DEF Runs, Excused
    <3>3. QED
      BY <2>0, <2>1, <2>2, <3>1, <3>2 DEF LeftInv, UserInv
  <2>6. QED
    BY <2>3, <2>4, <2>5 DEF LeftInv
<1>2. QED
  BY <1>1

(***************************************************************************)
(* A run goes on, from one step of its transaction to the next.  What must *)
(* be shown of each step is the rest of LeftInv.                           *)
(***************************************************************************)
GoesOn ==
  /\ script.thing \in Things /\ script.at # "board"
  /\ script'.thing = script.thing /\ script'.ids = script.ids
  /\ script'.at # "s3user" \/ script.at = "bucket"
  /\ UNCHANGED <<row, worker>>
  /\ \A t \in Things \ {script.thing} : art'[t] = art[t] /\ excuses[t] \subseteq excuses'[t]
  /\ excuses[script.thing] \ {"refused", "unfinished"} \subseteq excuses'[script.thing]
  /\ art'[script.thing]["entry"] = art[script.thing]["entry"]
  /\ "thing" \in script'.held =>
       "thing" \in script.held \/ script.ids.rev > 0 \/ script.ids # row[script.thing]

LEMMA OwnGoesOn ==
  ASSUME TypeInv, \A t \in Things : LeftInv(t), GoesOn,
         LET s == script.thing IN
           ~Overlap(s) /\ ~InWork(s) /\ script.ids = row[s] =>
             BucketInv(s)' /\ UserInv(s)' /\ JobInv(s)'
  PROVE  \A t \in Things : LeftInv(t)'
<1> DEFINE s == script.thing
<1>0. LeftInv(s) /\ Runs(s) /\ Runs(s)'
  BY DEF Runs, GoesOn
<1>1. \A t \in Things \ {s} : LeftInv(t)'
  BY OthersAreAside DEF GoesOn
<1>2. CASE Overlap(s)
  <2>1. "overlap" \in excuses'[s] /\ (~Known(s)' => row'[s] = NoRow)
    BY <1>0, <1>2 DEF GoesOn, Overlap, Excused, LeftInv, SeenInv, Known
  <2>2. LeftInv(s)'
    BY <2>1, OverlapSettles DEF GoesOn
  <2>3. QED
    BY <1>1, <2>2 DEF GoesOn
<1>3. CASE ~Overlap(s)
  <2>1. ~InWork(s) /\ script.ids = row[s]
    BY <1>0, <1>3 DEF LeftInv, SeenInv, GoesOn
  <2>2. BucketInv(s)' /\ UserInv(s)' /\ JobInv(s)'
    BY <1>3, <2>1
  <2>3. /\ Known(s)' = Known(s) /\ ~InWork(s)' /\ (Overlap(s) => Overlap(s)')
        /\ script'.ids = row'[s]
    BY <1>0, <2>1, <1>3 DEF GoesOn, Known, InWork
  <2>4. "thing" \in script'.held => script'.ids.rev > 0
    BY <1>0, <1>3, <2>1 DEF GoesOn, LeftInv, SeenInv
  <2>5. SeenInv(s)'
    BY <1>0, <2>3, <2>4 DEF LeftInv, SeenInv, GoesOn
  <2>6. EntryInv(s)'
    BY <1>0, <1>3, <2>3 DEF LeftInv, EntryInv, GoesOn
  <2>7. LeftInv(s)'
    BY <2>2, <2>5, <2>6 DEF LeftInv
  <2>8. QED
    BY <1>1, <2>7 DEF GoesOn
<1>4. QED
  BY <1>2, <1>3

LEMMA LeftDeleteRow ==
  ASSUME TypeInv, \A t \in Things : LeftInv(t),
         DeleteStorageRow \/ DeleteMqttRow \/ DeleteSyncRow
  PROVE  \A t \in Things : LeftInv(t)'
<1> DEFINE s == script.thing
<1>t. TypeOK /\ script \in Scripts
  BY Types DEF TypeInv
<1>0. /\ s \in Things /\ script.at # "board"
      /\ UNCHANGED <<row, art, worker, excuses>>
  BY <1>t DEF DeleteStorageRow, DeleteMqttRow, DeleteSyncRow, DeleteRow, InTxn, Scripts
<1>1. /\ script'.thing = s /\ script'.ids = script.ids
      /\ "thing" \in script'.held => "thing" \in script.held
      /\ \/ script.at = "storage" /\ script'.at = "bucket"
         \/ script.at = "mqtt" /\ script'.at = AfterMqtt
         \/ script.at = "sync" /\ script'.at = "read_cron"
  BY <1>t DEF DeleteStorageRow, DeleteMqttRow, DeleteSyncRow, DeleteRow, Scripts
<1>2. GoesOn
  BY <1>0, <1>1 DEF GoesOn, AfterMqtt
<1>3. ASSUME ~InWork(s), script.ids = row[s]
      PROVE  BucketInv(s)' /\ UserInv(s)' /\ JobInv(s)'
  <2>1. /\ Runs(s) /\ Runs(s)' /\ LeftInv(s)
        /\ \A why : Excused(s, why)' <=> Excused(s, why)
    BY <1>0, <1>1 DEF Runs, Excused
  <2>2. script'.at = "thing" => "sync" \notin row[s].sections
    BY <1>1, <1>3 DEF AfterMqtt, Has
  <2>3. /\ StillDue(s, "storage", BucketDone \cup {"s3user"})
             => StillDue(s, "storage", BucketDone \cup {"s3user"})'
        /\ StillDue(s, "storage", BucketDone) => StillDue(s, "storage", BucketDone)'
        /\ StillDue(s, "sync", JobDone) => StillDue(s, "sync", JobDone)'
    BY <1>0, <1>1, <2>1, <2>2 DEF StillDue, BucketDone, JobDone, AfterMqtt
  <2>4. BucketInv(s)'
    BY <1>0, <1>1, <2>1, <2>3 DEF LeftInv, BucketInv, AfterMqtt
  <2>5. UserInv(s)'
    BY <1>0, <1>1, <1>3, <2>1, <2>3 DEF LeftInv, UserInv
  <2>6. JobInv(s)'
    BY <1>0, <1>1, <2>1, <2>3 DEF LeftInv, JobInv, Job
  <2>7. QED
    BY <2>4, <2>5, <2>6
<1>4. QED
  BY <1>2, <1>3, OwnGoesOn

LEMMA LeftBucket ==
  ASSUME TypeInv, \A t \in Things : LeftInv(t), NoBucket \/ DeleteBucket \/ RefuseBucket
  PROVE  \A t \in Things : LeftInv(t)'
<1> DEFINE s == script.thing
<1>t. TypeOK /\ script \in Scripts
  BY Types DEF TypeInv
<1>0. /\ s \in Things /\ s # NoThing /\ script.at = "bucket"
      /\ UNCHANGED <<row, worker>>
  BY <1>t DEF NoBucket, DeleteBucket, RefuseBucket, InTxn, Scripts
<1>1. script' = [script EXCEPT !.at = IF DeleteBucket THEN "s3user" ELSE "mqtt"]
  <2>1. NoBucket \/ RefuseBucket => ~DeleteBucket
    BY <1>t, <1>0 DEF NoBucket, DeleteBucket, RefuseBucket, Go, Scripts
  <2>2. QED
    BY <2>1 DEF NoBucket, DeleteBucket, RefuseBucket, Go
<1>2. /\ script'.thing = s /\ script'.ids = script.ids /\ script'.held = script.held
      /\ script'.at = IF DeleteBucket THEN "s3user" ELSE "mqtt"
  BY <1>t, <1>1 DEF Scripts
<1>3. /\ \A t \in Things \ {s} : art'[t] = art[t]
      /\ \A a \in Artefacts \ {"bucket"} : art'[s][a] = art[s][a]
      /\ IF DeleteBucket THEN art'[s]["bucket"] = 0
         ELSE art'[s]["bucket"] = art[s]["bucket"]
  <2>1. CASE DeleteBucket
    BY <1>t, <1>0, <2>1, Types DEF DeleteBucket, Remove, Artefacts
  <2>2. CASE ~DeleteBucket
    BY <2>2 DEF NoBucket, RefuseBucket
  <2>3. QED
    BY <2>1, <2>2
<1>4. /\ \A t \in Things : excuses[t] \subseteq excuses'[t]
      /\ RefuseBucket => "refused" \in excuses'[s]
  <2>1. CASE RefuseBucket
    <3>1. InScript \in SUBSET Things /\ s \in InScript
      BY <1>0 DEF InScript
    <3>2. QED
      BY <1>t, <1>0, <2>1, <3>1, ExcusesGrow DEF RefuseBucket, Reasons
  <2>2. CASE ~RefuseBucket
    BY <2>2 DEF NoBucket, DeleteBucket
  <2>3. QED
    BY <2>1, <2>2
<1>5. GoesOn
  BY <1>0, <1>2, <1>3, <1>4 DEF GoesOn, Artefacts
<1>6. ASSUME ~InWork(s), script.ids = row[s], ~Overlap(s)
      PROVE  BucketInv(s)' /\ UserInv(s)' /\ JobInv(s)'
  <2>1. /\ Runs(s) /\ Runs(s)' /\ LeftInv(s) /\ s' = s
        /\ \A why : Excused(s, why) => Excused(s, why)'
    BY <1>0, <1>2, <1>4 DEF Runs, Excused
  <2>2. /\ NoBucket => art[s]["bucket"] = 0
        /\ NoBucket \/ DeleteBucket \/ "refused" \in excuses'[s]
    BY <1>4 DEF NoBucket
  <2>3. StillDue(s, "sync", JobDone) => StillDue(s, "sync", JobDone)'
    BY <1>0, <1>2, <2>1 DEF StillDue, JobDone
  <2>4. BucketInv(s)'
    BY <1>2, <1>3, <2>1, <2>2 DEF BucketInv, Excused
  <2>5. UserInv(s)'
    <3>1. art'[s]["s3user"] = art[s]["s3user"]
      BY <1>3 DEF Artefacts
    <3>2. CASE DeleteBucket
      <4>1. StillDue(s, "storage", BucketDone) => StillDue(s, "storage", BucketDone)'
        BY <1>0, <1>2, <2>1, <3>2 DEF StillDue, BucketDone
      <4>2. QED
        BY <1>2, <2>1, <3>1, <3>2, <4>1 DEF LeftInv, UserInv
    <3>3. CASE NoBucket
      <4>1. art'[s]["bucket"] = art[s]["bucket"] /\ art[s]["bucket"] = 0
        BY <1>3, <2>2, <3>3
      <4>2. art[s]["s3user"] # 0 => Excused(s, {"overlap", "unfinished"})
        BY <1>0, <1>6, <2>1, <4>1 DEF LeftInv, UserInv
      <4>3. Excused(s, {"overlap", "unfinished"}) =>
              Excused(s, {"overlap", "refused", "dropped", "unfinished"})
        BY DEF Excused
      <4>4. QED
        BY <2>1, <3>1, <4>2, <4>3 DEF UserInv
    <3>4. CASE RefuseBucket /\ ~DeleteBucket
      <4>1. art'[s]["bucket"] = art[s]["bucket"] /\ art[s]["bucket"] # 0
        BY <1>3, <3>4 DEF RefuseBucket
      <4>2. "refused" \in excuses'[s]
        BY <1>4, <3>4
      <4>3. QED
        BY <2>1, <3>1, <4>1, <4>2 DEF UserInv, Excused
    <3>5. QED
      BY <3>2, <3>3, <3>4
  <2>6. JobInv(s)'
    <3>1. Job(s)' = Job(s)
      BY <1>3, <2>1 DEF Job, Artefacts
    <3>2. QED
      BY <2>1, <2>3, <3>1 DEF LeftInv, JobInv
  <2>7. QED
    BY <2>4, <2>5, <2>6
<1>7. QED
  BY <1>5, <1>6, OwnGoesOn

LEMMA LeftUser ==
  ASSUME TypeInv, \A t \in Things : LeftInv(t), DeleteUser
  PROVE  \A t \in Things : LeftInv(t)'
<1> DEFINE s == script.thing
<1>t. TypeOK /\ script \in Scripts
  BY Types DEF TypeInv
<1>0. /\ s \in Things /\ s # NoThing /\ script.at = "s3user"
      /\ UNCHANGED <<row, worker>>
  BY <1>t DEF DeleteUser, InTxn, Scripts
<1>1. /\ script'.thing = s /\ script'.ids = script.ids /\ script'.held = script.held
      /\ script'.at = "mqtt"
  BY <1>t DEF DeleteUser, Go, Scripts
<1>2. /\ \A t \in Things \ {s} : art'[t] = art[t] /\ excuses'[t] = excuses[t]
      /\ \A a \in Artefacts \ {"s3user"} : art'[s][a] = art[s][a]
      /\ art'[s]["s3user"] = 0
      /\ excuses'[s] = excuses[s] \ {"refused", "unfinished"}
  BY <1>t, <1>0, Types DEF DeleteUser, Remove, Artefacts
<1>3. GoesOn
  BY <1>0, <1>1, <1>2 DEF GoesOn, Artefacts
<1>4. ASSUME ~Overlap(s) PROVE BucketInv(s)' /\ UserInv(s)' /\ JobInv(s)'
  <2>1. Runs(s) /\ Runs(s)' /\ LeftInv(s) /\ s' = s
    BY <1>0, <1>1 DEF Runs
  <2>2. BucketInv(s)'
    <3>1. art'[s]["bucket"] = art[s]["bucket"] /\ art[s]["bucket"] = 0
      BY <1>0, <1>2, <1>4, <2>1 DEF LeftInv, BucketInv, Artefacts
    <3>2. QED
      BY <1>1, <2>1, <3>1 DEF BucketInv
  <2>3. UserInv(s)'
    BY <1>2, <2>1 DEF UserInv
  <2>4. JobInv(s)'
    <3>1. Job(s)' = Job(s)
      BY <1>2, <2>1 DEF Job, Artefacts
    <3>2. StillDue(s, "sync", JobDone) => StillDue(s, "sync", JobDone)'
      BY <1>0, <1>1, <2>1 DEF StillDue, JobDone
    <3>3. Excused(s, {"overlap", "dropped", "clash"}) => Excused(s, {"overlap", "dropped", "clash"})'
      BY <1>2, <2>1 DEF Excused
    <3>4. QED
      BY <2>1, <3>1, <3>2, <3>3 DEF LeftInv, JobInv
  <2>5. QED
    BY <2>2, <2>3, <2>4
<1>5. QED
  BY <1>3, <1>4, OwnGoesOn

LEMMA LeftGoes ==
  ASSUME TypeInv, \A t \in Things : LeftInv(t), ReadCron \/ DeleteThing
  PROVE  \A t \in Things : LeftInv(t)'
<1> DEFINE s == script.thing
<1>t. TypeOK /\ script \in Scripts
  BY Types DEF TypeInv
<1>0. /\ s \in Things /\ UNCHANGED <<row, art, worker>>
  BY <1>t DEF ReadCron, DeleteThing, InTxn, Scripts
<1>1. /\ script'.thing = s /\ script'.ids = script.ids
      /\ \/ script.at = "read_cron" /\ script'.at = "write_cron"
         \/ script.at = "thing" /\ script'.at = "commit"
      /\ "thing" \in script'.held => "thing" \in script.held \/ Known(s)
  <2>1. CASE ReadCron
    <3>1. script' = [script EXCEPT !.at = "write_cron", !.file = Jobs] /\ script.at = "read_cron"
      BY <2>1 DEF ReadCron
    <3>2. QED
      BY <1>t, <3>1 DEF Scripts
  <2>2. CASE DeleteThing
    <3>1. /\ script.at = "thing"
          /\ script' = [thing |-> s, at |-> "commit", ids |-> script.ids,
                        held |-> IF Known(s) THEN script.held \cup {"thing"} ELSE script.held,
                        file |-> script.file]
      BY <1>t, <2>2 DEF DeleteThing, Scripts
    <3>2. QED
      BY <3>1
  <2>3. QED
    BY <2>1, <2>2
<1>2. \A t \in Things : excuses[t] \subseteq excuses'[t]
  <2>1. CASE ReadCron
    <3>1. PICK ts \in SUBSET Things : Excuse(ts, "clash")
      BY <2>1 DEF ReadCron
    <3>2. QED
      BY <1>t, <3>1, ExcusesGrow DEF Reasons
  <2>2. CASE DeleteThing
    BY <2>2 DEF DeleteThing
  <2>3. QED
    BY <2>1, <2>2
<1>3. GoesOn
  BY <1>0, <1>1, <1>2 DEF GoesOn, Known
<1>4. ASSUME ~InWork(s) PROVE BucketInv(s)' /\ UserInv(s)' /\ JobInv(s)'
  <2>1. /\ Runs(s) /\ Runs(s)' /\ LeftInv(s) /\ s' = s /\ ~InWork(s)
        /\ \A why : Excused(s, why) => Excused(s, why)'
    BY <1>0, <1>1, <1>2, <1>4 DEF Runs, Excused
  <2>2. /\ StillDue(s, "storage", BucketDone \cup {"s3user"})
             => StillDue(s, "storage", BucketDone \cup {"s3user"})'
        /\ StillDue(s, "storage", BucketDone) => StillDue(s, "storage", BucketDone)'
        /\ StillDue(s, "sync", JobDone) => StillDue(s, "sync", JobDone)'
    BY <1>0, <1>1, <2>1 DEF StillDue, BucketDone, JobDone
  <2>3. BucketInv(s)'
    BY <1>0, <1>1, <2>1, <2>2 DEF LeftInv, BucketInv
  <2>4. UserInv(s)'
    BY <1>0, <1>1, <2>1, <2>2 DEF LeftInv, UserInv
  <2>5. JobInv(s)'
    BY <1>0, <1>1, <2>1, <2>2 DEF LeftInv, JobInv, Job
  <2>6. QED
    BY <2>3, <2>4, <2>5
<1>5. QED
  BY <1>3, <1>4, OwnGoesOn

LEMMA LeftWriteCron ==
  ASSUME TypeInv, JobsInv, \A t \in Things : LeftInv(t), WriteCron
  PROVE  \A t \in Things : LeftInv(t)'
<1>t. /\ TypeOK /\ script \in Scripts /\ script.thing \in Things /\ script.at = "write_cron"
      /\ 0 \in Revisions
  BY Types, ThingsAndBounds DEF TypeInv, WriteCron, InTxn, Scripts, Revisions
<1>1. /\ UNCHANGED <<row, worker, excuses>>
      /\ script'.thing = script.thing /\ script'.ids = script.ids
      /\ script'.held = script.held /\ script'.at = "thing"
  BY <1>t DEF WriteCron, Scripts
<1>2. [script.file EXCEPT ![script.thing] = 0] \in File
  BY <1>t DEF File, Scripts
<1>3. ASSUME NEW t \in Things PROVE LeftInv(t)'
  <2>1. \A a \in Artefacts \ {"job"} : art'[t][a] = art[t][a]
    BY <1>t, <1>2, WrittenJobs DEF WriteCron
  <2>2. /\ LeftInv(t) /\ Known(t)' = Known(t) /\ (Runs(t)' <=> Runs(t))
        /\ (InWork(t)' <=> InWork(t))
        /\ \A why : Excused(t, why)' <=> Excused(t, why)
    BY <1>1 DEF Known, Runs, InWork, Excused
  <2>3. /\ StillDue(t, "storage", BucketDone \cup {"s3user"})
             => StillDue(t, "storage", BucketDone \cup {"s3user"})'
        /\ StillDue(t, "storage", BucketDone) => StillDue(t, "storage", BucketDone)'
        /\ t # script.thing => (StillDue(t, "sync", JobDone) => StillDue(t, "sync", JobDone)')
    BY <1>t, <1>1, <2>2 DEF StillDue, BucketDone, JobDone, Runs
  <2>4. SeenInv(t)'
    BY <1>t, <1>1, <2>2 DEF LeftInv, SeenInv, Overlap
  <2>5. EntryInv(t)' /\ BucketInv(t)'
    BY <1>t, <1>1, <2>1, <2>2, <2>3 DEF LeftInv, EntryInv, BucketInv, Overlap, Artefacts
  <2>6. UserInv(t)'
    BY <1>t, <1>1, <2>1, <2>2, <2>3 DEF LeftInv, UserInv, Artefacts
  <2>7. JobInv(t)'
    <3>1. CASE t = script.thing
      <4>1. Job(t)' = 0
        BY <3>1, JobsAfterWrite
      <4>2. QED
        BY <4>1 DEF JobInv
    <3>2. CASE t # script.thing
      <4>1. Job(t)' = Job(t) \/ Clash(t)
        BY <3>2, JobsAfterWrite
      <4>2. Clash(t) => Excused(t, {"overlap", "dropped", "clash"})'
        BY <2>2 DEF Clash, Excused
      <4>3. QED
        BY <2>2, <2>3, <3>2, <4>1, <4>2 DEF LeftInv, JobInv
    <3>3. QED
      BY <3>1, <3>2
  <2>8. QED
    BY <2>4, <2>5, <2>6, <2>7 DEF LeftInv
<1>4. QED
  BY <1>3

LEMMA LeftCommitDeletion ==
  ASSUME TypeInv, \A t \in Things : LeftInv(t), CommitDeletion
  PROVE  \A t \in Things : LeftInv(t)'
<1> DEFINE s == script.thing
<1>t. /\ TypeOK /\ script \in Scripts /\ s \in Things /\ script.at = "commit"
      /\ worker' = worker /\ excuses' = excuses
  BY Types DEF TypeInv, CommitDeletion, InTxn, Scripts
<1>1. script'.thing = s /\ script'.at = "board" /\ script'.held = {}
  BY <1>t DEF CommitDeletion, Scripts
<1>2. \A t \in Things :
        row'[t] = IF "thing" \in script.held /\ t = s THEN NoRow ELSE row[t]
  BY <1>t, Types DEF CommitDeletion
<1>3. /\ \A t \in Things \ {s} : art'[t] = art[t]
      /\ \A a \in Artefacts \ {"entry"} : art'[s][a] = art[s][a]
      /\ IF script.ids.rev > 0 THEN art'[s]["entry"] = 0
         ELSE art'[s]["entry"] = art[s]["entry"]
  BY <1>t, Types DEF CommitDeletion, Artefacts
<1>4. \A t \in Things \ {s} : LeftInv(t)'
  BY <1>t, <1>1, <1>2, <1>3, OthersAreAside
<1>5. LeftInv(s)'
  <2>1. LeftInv(s) /\ Runs(s) /\ s' = s
    BY <1>t, <1>1 DEF Runs
  <2>2. ~Known(s)' => row'[s] = NoRow
    BY <1>t, <1>2, <2>1 DEF LeftInv, SeenInv, Known
  <2>3. CASE Overlap(s)
    BY <1>t, <2>1, <2>2, <2>3, OverlapSettles DEF Overlap, Excused
  <2>4. CASE ~Overlap(s)
    <3>1. /\ ~InWork(s)' /\ ~InWork(s)
          /\ \A why : Excused(s, why)' <=> Excused(s, why)
      BY <1>t, <2>1, <2>4 DEF LeftInv, SeenInv, InWork, Excused
    <3>2. SeenInv(s)'
      BY <1>1, <2>1, <2>2, <3>1 DEF SeenInv
    <3>3. EntryInv(s)'
      <4>1. CASE "thing" \in script.held
        <5>1. script.ids.rev > 0
          BY <2>1, <2>4, <4>1 DEF LeftInv, SeenInv
        <5>2. QED
          BY <1>3, <2>1, <5>1 DEF EntryInv
      <4>2. CASE "thing" \notin script.held
        <5>1. row'[s] = row[s]
          BY <1>t, <1>2, <4>2
        <5>2. art'[s]["entry"] # 0 => art[s]["entry"] # 0
          BY <1>3
        <5>3. QED
          BY <2>1, <2>4, <5>1, <5>2 DEF LeftInv, EntryInv, Known
      <4>3. QED
        BY <4>1, <4>2
    <3>4. ~StillDue(s, "storage", BucketDone \cup {"s3user"}) /\ ~StillDue(s, "storage", BucketDone)
          /\ ~StillDue(s, "sync", JobDone)
      BY <1>t, <2>1 DEF StillDue, BucketDone, JobDone
    <3>5. BucketInv(s)'
      BY <1>t, <1>1, <1>3, <2>1, <3>1, <3>4 DEF LeftInv, BucketInv, Artefacts
    <3>6. UserInv(s)'
      BY <1>t, <1>1, <1>3, <2>1, <3>1, <3>4 DEF LeftInv, UserInv, Artefacts
    <3>7. JobInv(s)'
      <4>1. Job(s)' = Job(s)
        BY <1>3, <2>1 DEF Job, Artefacts
      <4>2. QED
        BY <2>1, <3>1, <3>4, <4>1 DEF LeftInv, JobInv
    <3>8. QED
      BY <3>2, <3>3, <3>5, <3>6, <3>7 DEF LeftInv
  <2>5. QED
    BY <2>3, <2>4
<1>6. QED
  BY <1>1, <1>4, <1>5

LEMMA LeftFails ==
  ASSUME TypeInv, \A t \in Things : LeftInv(t),
         DeleteBoard \/ Raise \/ Die \/ SkipOrg \/ ResolveDeadlock
  PROVE  \A t \in Things : LeftInv(t)'
<1>t. TypeOK /\ script \in Scripts /\ updater \in Updaters
  BY Types DEF TypeInv
<1>1. CASE DeleteBoard
  <2>1. script.thing \in Things /\ script.at = "board"
    BY <1>t, <1>1 DEF DeleteBoard, Scripts
  <2>2. \A t \in Things : \A a \in Artefacts \ {"board"} : art'[t][a] = art[t][a]
    BY <1>t, <1>1, <2>1, Types DEF DeleteBoard, Remove, Artefacts
  <2>3. QED
    BY <1>1, <2>1, <2>2, LeftEnds DEF DeleteBoard
<1>2. CASE Raise
  <2>1. script.thing \in Things /\ (script.at = "s3user" => art[script.thing]["s3user"] = 0)
    BY <1>t, <1>2 DEF Raise, InTxn, Scripts
  <2>2. QED
    BY <1>2, <2>1, LeftEnds DEF Raise, RollBack
<1>3. CASE Die
  <2>1. script.thing \in Things /\ script.thing # NoThing
    BY <1>t, <1>3 DEF Die, Scripts
  <2>2. InScript = {script.thing}
    BY <2>1 DEF InScript
  <2>3. /\ \A t \in Things : excuses[t] \subseteq excuses'[t]
        /\ script.at = "s3user" => "unfinished" \in excuses'[script.thing]
    BY <1>t, <1>3, <2>1, <2>2, ExcusesGrow DEF Die, Reasons
  <2>4. QED
    BY <1>3, <2>1, <2>3, LeftEnds DEF Die, RollBack
<1>4. CASE SkipOrg
  <2>1. script.thing \in Things /\ script.at = "board"
    BY <1>t, <1>4 DEF SkipOrg, Scripts
  <2>2. QED
    BY <1>4, <2>1, LeftEnds DEF SkipOrg
<1>5. CASE ResolveDeadlock
  <2>1. script.thing \in Things /\ script.at # "s3user"
    BY <1>t, <1>5
       DEF ResolveDeadlock, Deadlock, ScriptWaits, InTxn, Contended, Scripts, Updaters, RowNames
  <2>2. UNCHANGED <<row, art, worker, excuses>>
    BY <1>5 DEF ResolveDeadlock
  <2>3. script' = script \/ script' = IdleScript
    BY <1>5 DEF ResolveDeadlock, RollBack
  <2>4. CASE script' = script
    BY <2>2, <2>4, AsideKeeps DEF Aside
  <2>5. CASE script' = IdleScript
    BY <2>1, <2>2, <2>5, LeftEnds
  <2>6. QED
    BY <2>3, <2>4, <2>5
<1>6. QED
  BY <1>1, <1>2, <1>3, <1>4, <1>5

LEMMA LeftInit == Init => \A t \in Things : LeftInv(t)
<1> SUFFICES ASSUME Init, NEW t \in Things PROVE LeftInv(t)
  OBVIOUS
<1>1. worker.todo = "read" /\ script.thing = NoThing /\ t # NoThing
  BY Idles, ThingsAndBounds DEF Init
<1>2. ~InWork(t) /\ ~Runs(t)
  BY <1>1 DEF InWork, Runs
<1>3. CASE t \in Existing
  <2>1. row[t] = [rev |-> 1, sections |-> Sections] /\ \A a \in Artefacts : art[t][a] = 1
    BY <1>3 DEF Init
  <2>2. Known(t) /\ \A done : StillDue(t, "storage", done) /\ StillDue(t, "sync", done)
    BY <1>2, <2>1 DEF Known, StillDue, Sections
  <2>3. QED
    BY <1>2, <2>1, <2>2
       DEF LeftInv, SeenInv, EntryInv, BucketInv, UserInv, JobInv, Artefacts
<1>4. CASE t \notin Existing
  <2>1. row[t] = NoRow /\ \A a \in Artefacts : art[t][a] = 0
    BY <1>4 DEF Init
  <2>2. QED
    BY <1>2, <2>1
       DEF LeftInv, SeenInv, EntryInv, BucketInv, UserInv, JobInv, Job, Artefacts
<1>5. QED
  BY <1>3, <1>4

LEMMA LeftNext ==
  TypeInv /\ JobsInv /\ (\A t \in Things : LeftInv(t)) /\ [Next]_vars
    => (\A t \in Things : LeftInv(t))'
<1> SUFFICES ASSUME TypeInv, JobsInv, \A t \in Things : LeftInv(t), [Next]_vars
             PROVE  \A t \in Things : LeftInv(t)'
  OBVIOUS
<1>1. CASE \E t \in Things : \E sections \in SectionSets[t] : SaveThing(t, sections)
  BY <1>1, LeftAsides
<1>2. CASE Update
  BY <1>2, LeftAsides, LeftCommit DEF Update
<1>3. CASE SetUp
  BY <1>3, LeftAsides, LeftRead, LeftWrite, LeftMakeBucket, LeftClose DEF SetUp
<1>4. CASE \E t \in Doomed : Start(t)
  BY <1>4, LeftStart
<1>5. CASE Delete
  BY <1>5, LeftDeleteRow, LeftBucket, LeftUser, LeftGoes, LeftWriteCron,
     LeftCommitDeletion, LeftFails DEF Delete
<1>6. CASE ResolveDeadlock \/ Die \/ SkipOrg
  BY <1>6, LeftFails
<1>7. CASE UNCHANGED vars
  BY <1>7, AsideKeeps DEF vars, Aside
<1>8. QED
  BY <1>1, <1>2, <1>3, <1>4, <1>5, <1>6, <1>7 DEF Next

\* What is left of a thing without a row has its excuse.
LEMMA LeftIsExcused ==
  ASSUME \A t \in Things : LeftInv(t)
  PROVE  GoneForGood
<1> SUFFICES ASSUME NEW t \in Things, ~Known(t), NEW a \in Left(t) \ {"board", "mqttuser"}
             PROVE  CASE a = "entry"  -> Excused(t, {"overlap"})
                      [] a = "bucket" -> Excused(t, {"overlap", "refused", "dropped"})
                      [] a = "s3user" -> Excused(t, {"overlap", "refused", "dropped", "unfinished"})
                      [] a = "job"    -> Excused(t, {"overlap", "dropped", "clash"})
  BY DEF GoneForGood
<1>1. LeftInv(t) /\ art[t][a] # 0 /\ a \in Artefacts
  BY DEF Left
<1>2. \A c, done : ~StillDue(t, c, done)
  BY <1>1 DEF LeftInv, SeenInv, StillDue, NoRow
<1>3. CASE a = "entry"
  BY <1>1, <1>3 DEF LeftInv, EntryInv, Overlap
<1>4. CASE a = "bucket"
  BY <1>1, <1>2, <1>4 DEF LeftInv, BucketInv
<1>5. CASE a = "s3user"
  BY <1>1, <1>2, <1>5 DEF LeftInv, UserInv
<1>6. CASE a = "job"
  BY <1>1, <1>2, <1>6 DEF LeftInv, JobInv, Job
<1>7. QED
  BY <1>1, <1>3, <1>4, <1>5, <1>6 DEF Artefacts

(***************************************************************************)
(* Once run_delete_thing.py has deleted the row of a thing, its entry, its *)
(* bucket with the user of it and its job are gone, however often the      *)
(* script was killed before - unless one of the named things has happened  *)
(* in between.  Nothing is said of the dashboard, which a later run still  *)
(* deletes, and of the MQTT user, which none does.                         *)
(***************************************************************************)
THEOREM NothingIsLeft == Spec => []GoneForGood
<1>1. (\A t \in Things : LeftInv(t)) => GoneForGood
  BY LeftIsExcused
<1>2. QED
  BY <1>1, TypeInit, TypeNext, JobsInit, JobsNext, LeftInit, LeftNext, PTL DEF Spec
=============================================================================
