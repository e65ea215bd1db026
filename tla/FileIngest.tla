----------------------------- MODULE FileIngest -----------------------------
(***************************************************************************)
(* worker-file-ingest (run_file_ingest.py): the object store tells of each *)
(* new version of a file; the worker reads the latest version, parses it   *)
(* with the parser of the thing, stores the observations, tags the latest  *)
(* version with the outcome and announces the data.  While it works, files *)
(* are uploaded, the parser of the thing changes and run_reparse_thing.py  *)
(* asks for files again.  One thing and its bucket are modelled.           *)
(*                                                                         *)
(* A worker that exits does not see its message again: MQTT_QOS is 2, see  *)
(* MqttWorker.                                                             *)
(***************************************************************************)
EXTENDS Integers, Sequences

CONSTANTS
  Files,         \* names of files in the bucket of the thing
  Matching,      \* those that match its filename_pattern
  StartsWith,    \* for each file, the files whose name starts with its name
  Contents,
  Parsers,
  ReadableBy,    \* the parsers that can parse a content
  TooLarge,      \* contents of more than _FILE_MAX_SIZE
  NoParser, NoFile, NoTag,
  MaxObjects, MaxChanges, MaxReparsings, MaxFaults   \* bounds

ASSUME IngestAssumption ==
  /\ Matching \subseteq Files /\ NoFile \notin Files
  /\ StartsWith \in [Files -> SUBSET Files] /\ \A f \in Files : f \in StartsWith[f]
  /\ ReadableBy \in [Contents -> SUBSET Parsers]
  /\ TooLarge \subseteq Contents
  /\ NoParser \notin Parsers
  /\ NoTag \notin [parser : Parsers, status : {"successful", "failed", "db_insert_failed"}]
  /\ {MaxObjects, MaxChanges, MaxReparsings, MaxFaults} \subseteq Nat

VARIABLES
  objects,      \* all versions of all files in the order of their uploads
  events,       \* the topic of the object store: <<file, kind>>
  parser,       \* the parser of the thing in the configDB
  todo,         \* files that a run of run_reparse_thing.py has yet to name
  pc,           \* the next step of the worker
  job,          \* its local variables
  stored,       \* for each file, where its observations come from
  replaced,     \* history: for each file, who had read the observations of before
  announced,    \* for each file, the version last announced as parsed
  lost,         \* history: files whose last news reached no end
  stale,        \* history: files not ingested since the parser changed
  changes, reparsings, faults

vars == <<objects, events, parser, todo, pc, job, stored, replaced, announced, lost,
          stale, changes, reparsings, faults>>

Statuses == {"successful", "failed", "db_insert_failed"}
Tag == [parser : Parsers, status : Statuses]
Object == [file : Files, content : Contents, tag : Tag \cup {NoTag}]
Kinds == {"Put", "Copy"}

NoData == [version |-> 0, reader |-> NoParser, label |-> NoParser]
NoJob == [file |-> NoFile, reader |-> NoParser, label |-> NoParser, version |-> 0,
          status |-> "failed"]

TypeOK ==
  /\ objects \in Seq(Object)
  /\ events \in Seq(Files \X Kinds)
  /\ parser \in Parsers \cup {NoParser}
  /\ todo \subseteq Matching
  /\ pc \in {"idle", "look", "read", "store", "mark", "announce"}
  /\ job \in [file : Files \cup {NoFile}, reader : Parsers \cup {NoParser},
              label : Parsers \cup {NoParser}, version : Nat, status : Statuses]
  /\ pc # "idle" => job.file \in Matching /\ job.reader \in Parsers /\ job.label \in Parsers
  /\ stored \in [Files -> [version : Nat, reader : Parsers \cup {NoParser},
                           label : Parsers \cup {NoParser}]]
  /\ replaced \in [Files -> SUBSET (Parsers \cup {NoParser})]
  /\ announced \in [Files -> Nat]
  /\ lost \subseteq Files /\ stale \subseteq Files
-----------------------------------------------------------------------------
Versions(f) == {i \in DOMAIN objects : objects[i].file = f}
Last(S) == CHOOSE i \in S : \A j \in S : j <= i
Latest(f) == Last(Versions(f))

\* Of the kinds that MinioClient subscribes to, copies are not ingested.
IsValidEvent(e) == e[2] = "Put"

Included(f) == f \in Matching

Pending(f) == \E i \in DOMAIN events : events[i][1] = f /\ IsValidEvent(events[i])

(***************************************************************************)
(* get_parser_tags goes through the versions from the newest to the oldest *)
(* and stops at the first successful one.  The list is made by prefix, so  *)
(* that it also holds versions of files with a longer name; to ask for     *)
(* their tags under the shorter name is an error.                          *)
(***************************************************************************)
Listed(f) == {i \in DOMAIN objects : objects[i].file \in StartsWith[f]}

\* Variant of Successful: a failed attempt counts as well.
Successful_Any(i) == objects[i].tag # NoTag

Successful(i) == objects[i].tag # NoTag /\ objects[i].tag.status = "successful"
Stops(f) == {i \in Listed(f) : objects[i].file # f \/ Successful(i)}

\* Variant of Target: the tags go to the first version.
Target_First(f) == CHOOSE i \in Versions(f) : \A j \in Versions(f) : i <= j

\* Tags are set without a version_id: they go to the latest version.
Target(f) == Latest(f)

\* Variant of Source: the first version is read.
Source_First(f) == CHOOSE i \in Versions(f) : \A j \in Versions(f) : i <= j

\* Files are read without a version_id.
Source(f) == Latest(f)
-----------------------------------------------------------------------------
(***************************************************************************)
(* A new version of a file, which is what events tell of.                  *)
(***************************************************************************)
Upload(f, c, kind) ==
  /\ Len(objects) < MaxObjects
  /\ objects' = Append(objects, [file |-> f, content |-> c, tag |-> NoTag])
  /\ events' = Append(events, <<f, kind>>)
  /\ lost' = IF kind = "Put" THEN lost ELSE lost \cup {f}
  /\ UNCHANGED <<parser, todo, pc, job, stored, replaced, announced, stale, changes,
                 reparsings, faults>>

\* The configDB updater gives the thing another parser.
ChangeParser(p) ==
  /\ changes < MaxChanges
  /\ p # parser
  /\ parser' = p
  /\ stale' = Files
  /\ changes' = changes + 1
  /\ UNCHANGED <<objects, events, todo, pc, job, stored, replaced, announced, lost,
                 reparsings, faults>>

\* run_reparse_thing.py lists the files that match the thing's and the job's pattern.
StartReparsing(S) ==
  /\ reparsings < MaxReparsings
  /\ todo = {}
  /\ S \subseteq {f \in Matching : Versions(f) # {}}
  /\ todo' = S
  /\ reparsings' = reparsings + 1
  /\ UNCHANGED <<objects, events, parser, pc, job, stored, replaced, announced, lost,
                 stale, changes, faults>>

Reparse(f) ==
  /\ f \in todo
  /\ todo' = todo \ {f}
  /\ events' = Append(events, <<f, "Put">>)
  /\ UNCHANGED <<objects, parser, pc, job, stored, replaced, announced, lost, stale,
                 changes, reparsings,
                 faults>>
-----------------------------------------------------------------------------
\* The worker exits; its message is gone.
Exit(f) ==
  /\ pc' = "idle" /\ job' = NoJob
  /\ lost' = lost \cup {f}

\* An event that is none of the worker's.
Ignore ==
  /\ pc = "idle" /\ events # <<>>
  /\ \/ ~IsValidEvent(Head(events))
     \/ parser # NoParser /\ ~Included(Head(events)[1])
  /\ events' = Tail(events)
  /\ UNCHANGED <<objects, parser, todo, pc, job, stored, replaced, announced, lost, stale,
                 changes,
                 reparsings, faults>>

\* FileParser.from_id raises, before the pattern is looked at.
TakeWithoutParser ==
  /\ pc = "idle" /\ events # <<>>
  /\ IsValidEvent(Head(events)) /\ parser = NoParser
  /\ events' = Tail(events)
  /\ Exit(Head(events)[1])
  /\ UNCHANGED <<objects, parser, todo, stored, replaced, announced, stale, changes,
                 reparsings, faults>>

Take ==
  /\ pc = "idle" /\ events # <<>>
  /\ LET f == Head(events)[1] IN
       /\ IsValidEvent(Head(events)) /\ Included(f) /\ parser # NoParser
       /\ job' = [NoJob EXCEPT !.file = f, !.reader = parser, !.label = parser]
       /\ lost' = lost \ {f} /\ stale' = stale \ {f}
  /\ events' = Tail(events)
  /\ pc' = "look"
  /\ UNCHANGED <<objects, parser, todo, stored, replaced, announced, changes, reparsings,
                 faults>>

\* The observations will bear the parser of the tag; the thing's parser reads.
Look ==
  /\ pc = "look"
  /\ LET stops == Stops(job.file) IN
       /\ stops # {} => objects[Last(stops)].file = job.file
       /\ job' = [job EXCEPT !.label =
                    IF stops = {} THEN @ ELSE objects[Last(stops)].tag.parser]
  /\ pc' = "read"
  /\ UNCHANGED <<objects, events, parser, todo, stored, replaced, announced, lost, stale,
                 changes,
                 reparsings, faults>>

LookFails ==
  /\ pc = "look"
  /\ LET stops == Stops(job.file) IN
       stops # {} /\ objects[Last(stops)].file # job.file
  /\ Exit(job.file)
  /\ UNCHANGED <<objects, events, parser, todo, stored, replaced, announced, stale,
                 changes, reparsings,
                 faults>>

\* read_file and do_parse.
Read ==
  /\ pc = "read"
  /\ LET i == Source(job.file)
         c == objects[i].content IN
       /\ c \notin TooLarge
       /\ job' = [job EXCEPT !.version = i,
                             !.status = IF job.reader \in ReadableBy[c]
                                        THEN "successful" ELSE "failed"]
       /\ pc' = IF job.reader \in ReadableBy[c] THEN "store" ELSE "mark"
  /\ UNCHANGED <<objects, events, parser, todo, stored, replaced, announced, lost, stale,
                 changes,
                 reparsings, faults>>

ReadFails ==
  /\ pc = "read"
  /\ objects[Source(job.file)].content \in TooLarge
  /\ Exit(job.file)
  /\ UNCHANGED <<objects, events, parser, todo, stored, replaced, announced, stale,
                 changes, reparsings,
                 faults>>

Upserted ==
  [stored EXCEPT ![job.file] =
     [version |-> job.version, reader |-> job.reader, label |-> job.label]]

Upsert ==
  /\ stored' = Upserted
  /\ replaced' = [replaced EXCEPT ![job.file] = @ \cup {stored[job.file].reader}]

Store ==
  /\ pc = "store"
  /\ Upsert
  /\ pc' = "mark"
  /\ UNCHANGED <<objects, events, parser, todo, job, announced, lost, stale, changes,
                 reparsings,
                 faults>>

\* The request raises, before or after its effect.
StoreFails ==
  /\ pc = "store" /\ faults < MaxFaults
  /\ faults' = faults + 1
  /\ Upsert \/ UNCHANGED <<stored, replaced>>
  /\ job' = [job EXCEPT !.status = "db_insert_failed"]
  /\ pc' = "mark"
  /\ UNCHANGED <<objects, events, parser, todo, announced, lost, stale, changes, reparsings>>

Tagged ==
  [objects EXCEPT ![Target(job.file)].tag = [parser |-> job.label, status |-> job.status]]

\* set_tags; a failed parse is the user's error and ends the work.
Mark ==
  /\ pc = "mark" /\ job.status # "db_insert_failed"
  /\ objects' = Tagged
  /\ IF job.status = "successful" THEN pc' = "announce" /\ job' = job
                                  ELSE pc' = "idle" /\ job' = NoJob
  /\ UNCHANGED <<events, parser, todo, stored, replaced, announced, lost, stale, changes,
                 reparsings, faults>>

\* After a failed request the exception is raised again.
MarkAndExit ==
  /\ pc = "mark" /\ job.status = "db_insert_failed"
  /\ objects' = Tagged
  /\ Exit(job.file)
  /\ UNCHANGED <<events, parser, todo, stored, replaced, announced, stale, changes,
                 reparsings, faults>>

Announce ==
  /\ pc = "announce"
  /\ announced' = [announced EXCEPT ![job.file] = job.version]
  /\ pc' = "idle" /\ job' = NoJob
  /\ UNCHANGED <<objects, events, parser, todo, stored, replaced, lost, stale, changes,
                 reparsings, faults>>

Crash ==
  /\ pc # "idle" /\ faults < MaxFaults
  /\ faults' = faults + 1
  /\ Exit(job.file)
  /\ UNCHANGED <<objects, events, parser, todo, stored, replaced, announced, stale,
                 changes, reparsings>>
-----------------------------------------------------------------------------
Init ==
  /\ objects = <<>> /\ events = <<>>
  /\ parser \in Parsers \cup {NoParser}
  /\ todo = {}
  /\ pc = "idle" /\ job = NoJob
  /\ stored = [f \in Files |-> NoData] /\ replaced = [f \in Files |-> {}]
  /\ announced = [f \in Files |-> 0]
  /\ lost = {} /\ stale = {}
  /\ changes = 0 /\ reparsings = 0 /\ faults = 0

Worker ==
  \/ Ignore \/ TakeWithoutParser \/ Take \/ Look \/ LookFails \/ Read \/ ReadFails
  \/ Store \/ Mark \/ MarkAndExit \/ Announce

Next ==
  \/ \E f \in Files, c \in Contents, kind \in Kinds : Upload(f, c, kind)
  \/ \E p \in Parsers : ChangeParser(p)
  \/ \E S \in SUBSET Matching : StartReparsing(S)
  \/ \E f \in Files : Reparse(f)
  \/ Worker
  \/ StoreFails
  \/ Crash

Spec == Init /\ [][Next]_vars
-----------------------------------------------------------------------------
(***************************************************************************)
(* Properties.                                                             *)
(***************************************************************************)
\* No news of f is on its way or in work.
AtRest(f) == ~Pending(f) /\ job.file # f

\* The tagged version is the one of the observations, which bear the tag's
\* parser, and the one that was announced.
Described(f) ==
  LET i == Latest(f) IN
    stored[f].version = i /\ stored[f].label = objects[i].tag.parser /\ announced[f] = i

\* The parsers whose reading of f was stored, now or before.
HaveRead(f) == replaced[f] \cup {stored[f].reader}

\* What the newest version of f says of itself is what became of it.
Truthful(f) ==
  LET tag == objects[Latest(f)].tag IN
    /\ tag # NoTag
    /\ tag.status = "successful" => Described(f) /\ tag.parser \in HaveRead(f)

(***************************************************************************)
(* Once all news of a file has been handled, the tag of its latest version *)
(* tells the truth, although tags are set on whatever version is latest by *)
(* then: a version that was tagged successful for an older one has news of *)
(* its own.  Excepted are files whose last news was given up.              *)
(*                                                                         *)
(* The parser of a successful tag need not be the one that has read the    *)
(* version: run_file_ingest.py:73 logs "Re-parsing file with parser from   *)
(* file tag", but the parser of the thing reads.  At least it has read the *)
(* file before, and its observations were stored and then replaced.        *)
(***************************************************************************)
TagsTellTheTruth ==
  \A f \in Matching :
    (Versions(f) # {} /\ f \notin lost /\ AtRest(f)) => Truthful(f)

(***************************************************************************)
(* ... and if the thing has its parser since before, the observations of   *)
(* the latest version are there if and only if that parser can read it.    *)
(* So a reparse after a change of the parser reaches the observations.     *)
(***************************************************************************)
Ingested(f) ==
  LET i == Latest(f) IN
    IF parser \in ReadableBy[objects[i].content]
    THEN stored[f].version = i /\ stored[f].reader = parser
    ELSE objects[i].tag # NoTag /\ objects[i].tag.status = "failed"

LatestIsIngested ==
  \A f \in Matching :
    (Versions(f) # {} /\ f \notin lost \cup stale /\ AtRest(f)) => Ingested(f)
=============================================================================
