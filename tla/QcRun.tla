-------------------------------- MODULE QcRun --------------------------------
(***************************************************************************)
(* worker-run-qaqc (run_qc.py with timeio/qc): a message of the topic      *)
(* data_parsed makes the worker run the tests of a QC config one after the *)
(* other.  The streams of the run cache observations and labels; at the    *)
(* end the labels are uploaded, one request for each stream.  Observations *)
(* arrive at any time between two queries.                                 *)
(*                                                                         *)
(* A timestamp stands for an observation of a stream, the set of the tests *)
(* that labelled it for its RESULT_QUALITY: none of them is null.          *)
(***************************************************************************)
EXTENDS Integers, Sequences, FiniteSets

CONSTANTS
  Streams,      \* STA datastreams of the thing
  Names,        \* names of streams in the tests and those that are discovered
  StreamOf,     \* what a name stands for
  Tests,        \* of the config: names of the streams and of those it flags
  Discovered,   \* the names discover_thing_streams gives
  Uploads,      \* what comes at once: for each stream, new rows
  Spans,        \* dates of scheduled runs
  Windows,      \* context windows: a number of rows or a duration
  MaxTime,      \* timestamps are 1 .. MaxTime
  MaxArrivals, MaxTriggers, MaxFaults   \* bounds

Times == 1 .. MaxTime
TestIds == 1 .. Len(Tests)

None == 0                 \* no date
Open == MaxTime + 1       \* no end date: NaT, for SQL "Infinity"

Distinct(seq) == \A i, j \in DOMAIN seq : seq[i] = seq[j] => i = j

\* load_data skips a name it has loaded, so that tests name no stream twice.
ASSUME QcAssumption ==
  /\ MaxTime \in Nat /\ {MaxArrivals, MaxTriggers, MaxFaults} \subseteq Nat
  /\ StreamOf \in [Names -> Streams]
  /\ Tests \in Seq([names : Seq(Names), flags : SUBSET Names])
  /\ \A i \in DOMAIN Tests : Distinct(Tests[i].names)
  /\ Discovered \in Seq(Names) /\ Distinct(Discovered)
  /\ Uploads \subseteq [Streams -> SUBSET Times]
  /\ Spans \subseteq {span \in Times \X Times : span[1] <= span[2]}
  /\ Windows \subseteq [kind : {"rows", "time"}, size : Nat]

Message == [from : Times \cup {None}, to : Times \cup {None}, thing : BOOLEAN]
Dates == [from : Times \cup {None}, to : Times \cup {None, Open}]
NoRange == [from |-> None, to |-> None]

VARIABLES
  window,       \* context_window of the config
  rows,         \* the observations in the database
  label,        \* their RESULT_QUALITY
  unsent,       \* messages whose rows are stored
  queue,        \* data_parsed; the head is what the worker runs
  pc,           \* the next step of the worker
  test,         \* the test it runs
  left,         \* names yet to load, or to upload
  range,        \* start_date, end_date of load_data
  newest,       \* answer to the first query of get_unprocessed_range
  opened,       \* _streams of the StreamManager, in the order of insertion
  unflagged,    \* for each name, _unflagged
  cached,       \* the index of _data
  clabel,       \* its column "quality"
  pointer,      \* _upload_ptr
  frame,        \* the index of what the test loaded
  before,       \* history: the rows there were when the worker took the message
  excused,      \* history: rows that came in during a run, or whose run failed
  arrivals, triggers, faults

run == <<pc, test, left, range, newest, opened, unflagged, cached, clabel, pointer, frame>>
vars == <<window, rows, label, unsent, queue, run, before, excused, arrivals, triggers, faults>>

\* unflagged before get_unprocessed_range was called.
Unread == [from |-> None, to |-> Open]

TypeOK ==
  /\ window \in Windows
  /\ rows \in [Streams -> SUBSET Times]
  /\ label \in [Streams -> [Times -> SUBSET TestIds]]
  /\ \A s \in Streams, t \in Times : label[s][t] # {} => t \in rows[s]
  /\ unsent \subseteq Message
  /\ queue \in Seq(Message)
  /\ pc \in {"idle", "load", "oldest", "end", "context", "upload"}
  /\ pc # "idle" => queue # << >>
  /\ test \in TestIds \cup {0}
  /\ left \in Seq(Names)
  /\ pc \in {"oldest", "end", "context"} => left # << >>
  /\ range \in Dates
  /\ newest \in Times \cup {None}
  /\ opened \in Seq(Names)
  /\ unflagged \in [Names -> Dates]
  /\ cached \in [Names -> SUBSET Times]
  /\ \A n \in Names : cached[n] \subseteq rows[StreamOf[n]]
  /\ clabel \in [Names -> [Times -> SUBSET TestIds]]
  /\ pointer \in [Names -> Times \cup {None}]
  /\ \A n \in Names : cached[n] # {} /\ pc \in {"load", "oldest", "upload"} => pointer[n] # None
  /\ frame \in [Names -> SUBSET Times]
  /\ before \in [Streams -> SUBSET Times]
  /\ excused \in [Streams -> SUBSET Times]
  /\ arrivals \in 0 .. MaxArrivals /\ triggers \in 0 .. MaxTriggers /\ faults \in 0 .. MaxFaults
-----------------------------------------------------------------------------
Least(S) == CHOOSE t \in S : \A u \in S : t <= u
Greatest(S) == CHOOSE t \in S : \A u \in S : u <= t
Between(S, a, b) == {t \in S : a <= t /\ t <= b}

\* Variant of Newest: ascending order.
Newest_Ascending(S, n) == {t \in S : Cardinality({u \in S : u < t}) < n}

\* "order by RESULT_TIME desc limit n"
Newest(S, n) == {t \in S : Cardinality({u \in S : u > t}) < n}

Unlabelled(s) == {t \in rows[s] : label[s][t] = {}}

\* Streams that the test loads.  None are configured: those of the thing, if one is known.
NamesOf(i, thing) == IF Tests[i].names = << >> /\ thing THEN Discovered ELSE Tests[i].names

\* What the test flags: of discovered streams each one.
FlagsOf(i) == IF Tests[i].names = << >> THEN Names ELSE Tests[i].flags

Init ==
  /\ window \in Windows
  /\ rows = [s \in Streams |-> {}]
  /\ label = [s \in Streams |-> [t \in Times |-> {}]]
  /\ unsent = {} /\ queue = << >>
  /\ pc = "idle" /\ test = 0 /\ left = << >> /\ range = NoRange /\ newest = None
  /\ opened = << >>
  /\ unflagged = [n \in Names |-> Unread]
  /\ cached = [n \in Names |-> {}]
  /\ clabel = [n \in Names |-> [t \in Times |-> {}]]
  /\ pointer = [n \in Names |-> None]
  /\ frame = [n \in Names |-> {}]
  /\ before = [s \in Streams |-> {}] /\ excused = [s \in Streams |-> {}]
  /\ arrivals = 0 /\ triggers = 0 /\ faults = 0

\* The worker waits for a message; the StreamManager of the run is gone.
BecomeIdle ==
  /\ pc' = "idle" /\ test' = 0 /\ left' = << >> /\ range' = NoRange /\ newest' = None
  /\ opened' = << >>
  /\ unflagged' = [n \in Names |-> Unread]
  /\ cached' = [n \in Names |-> {}]
  /\ clabel' = [n \in Names |-> [t \in Times |-> {}]]
  /\ pointer' = [n \in Names |-> None]
  /\ frame' = [n \in Names |-> {}]

Current == Head(left)
Known(n) == range.from # None \/ unflagged[n] # Unread
RangeOf(n) == IF range.from # None THEN range ELSE unflagged[n]
MissingStart(n) == RangeOf(n).from < Least(cached[n])
MissingEnd(n) == range.to # Open /\ range.to > Greatest(cached[n])

AddTo(names, n) == IF \E i \in DOMAIN names : names[i] = n THEN names ELSE Append(names, n)
-----------------------------------------------------------------------------
(***************************************************************************)
(* An upload of a file stores its rows and is announced with the dates of  *)
(* the file; devices and APIs are announced without dates.                 *)
(***************************************************************************)
Arrive(new, dated) ==
  LET all == UNION {new[s] : s \in Streams} IN
  /\ arrivals < MaxArrivals
  /\ all # {}
  /\ \A s \in Streams : new[s] \cap rows[s] = {}
  /\ rows' = [s \in Streams |-> rows[s] \cup new[s]]
  /\ unsent' = unsent \cup {[from |-> IF dated THEN Least(all) ELSE None,
                             to |-> IF dated THEN Greatest(all) ELSE None, thing |-> TRUE]}
  /\ excused' = IF pc = "idle" THEN excused ELSE [s \in Streams |-> excused[s] \cup new[s]]
  /\ arrivals' = arrivals + 1
  /\ UNCHANGED <<window, label, queue, run, before, triggers, faults>>

Announce(m) ==
  /\ m \in unsent
  /\ unsent' = unsent \ {m}
  /\ queue' = Append(queue, m)
  /\ UNCHANGED <<window, rows, label, run, before, excused, arrivals, triggers, faults>>

\* trigger_qaqc.py, from the crontab or by hand.
Trigger(a, b) ==
  /\ triggers < MaxTriggers
  /\ queue' = Append(queue, [from |-> a, to |-> b, thing |-> FALSE])
  /\ triggers' = triggers + 1
  /\ UNCHANGED <<window, rows, label, unsent, run, before, excused, arrivals, faults>>
-----------------------------------------------------------------------------
MessageRange(m) == [from |-> m.from, to |-> m.to]

\* Variant of NextTest: a test keeps the dates of the one before it.
NextTest_KeepDates(i, names) ==
  /\ range' = IF i = 1 THEN MessageRange(Head(queue)) ELSE range
  /\ frame' = [n \in Names |-> {}]
  /\ IF i \in TestIds
     THEN test' = i /\ pc' = "load" /\ left' = NamesOf(i, Head(queue).thing)
     ELSE test' = 0 /\ pc' = "upload" /\ left' = names

\* The test i of the config, or the upload of the streams after the last one.
NextTest(i, names) ==
  /\ range' = MessageRange(Head(queue))
  /\ frame' = [n \in Names |-> {}]
  /\ IF i \in TestIds
     THEN test' = i /\ pc' = "load" /\ left' = NamesOf(i, Head(queue).thing)
     ELSE test' = 0 /\ pc' = "upload" /\ left' = names

Take ==
  /\ pc = "idle" /\ queue # << >>
  /\ NextTest(1, << >>)
  /\ before' = rows
  /\ UNCHANGED <<window, rows, label, unsent, queue, newest, opened, unflagged, cached, clabel,
                 pointer, excused, arrivals, triggers, faults>>

\* get_unprocessed_range asks for the newest row without labels, then for the oldest one.
ReadNewest ==
  /\ pc = "load" /\ left # << >> /\ ~Known(Current)
  /\ LET S == Unlabelled(StreamOf[Current]) IN
     newest' = IF S = {} THEN None ELSE Greatest(S)
  /\ pc' = "oldest"
  /\ UNCHANGED <<window, rows, label, unsent, queue, test, left, range, opened, unflagged,
                 cached, clabel, pointer, frame, before, excused, arrivals, triggers, faults>>

ReadOldest ==
  /\ pc = "oldest"
  /\ LET S == Unlabelled(StreamOf[Current])
         oldest == IF S = {} THEN None ELSE Least(S) IN
     unflagged' = [unflagged EXCEPT ![Current] =
       [from |-> oldest, to |-> IF oldest # None /\ newest = None THEN Open ELSE newest]]
  /\ newest' = None
  /\ pc' = "load"
  /\ UNCHANGED <<window, rows, label, unsent, queue, test, left, range, opened,
                 cached, clabel, pointer, frame, before, excused, arrivals, triggers, faults>>
-----------------------------------------------------------------------------

\* _append: labels that are cached already are kept.
Cache(n, fetched) ==
  /\ cached' = [cached EXCEPT ![n] = @ \cup fetched]
  /\ clabel' = [clabel EXCEPT ![n] = [t \in Times |->
       IF t \in fetched \ cached[n] THEN label[StreamOf[n]][t] ELSE @[t]]]

NextName == left' = Tail(left) /\ pc' = "load" /\ opened' = AddTo(opened, Current)

\* No start date: the test gets an empty frame of this stream.
LoadNothing ==
  /\ pc = "load" /\ left # << >> /\ Known(Current)
  /\ RangeOf(Current).from = None
  /\ frame' = [frame EXCEPT ![Current] = {}]
  /\ NextName
  /\ UNCHANGED <<window, rows, label, unsent, queue, test, range, newest, unflagged, cached,
                 clabel, pointer, before, excused, arrivals, triggers, faults>>

\* get_data: all of the range, or what the cache lacks at its start.
Fetch ==
  /\ pc = "load" /\ left # << >> /\ Known(Current)
  /\ LET n == Current
         r == RangeOf(n)
         S == rows[StreamOf[n]] IN
     /\ r.from # None
     /\ range' = r
     /\ Cache(n, CASE cached[n] = {} -> Between(S, r.from, r.to)
                   [] cached[n] # {} /\ MissingStart(n) -> Between(S, r.from, Least(cached[n]))
                   [] OTHER -> {})
     /\ pc' = IF cached[n] = {} THEN "context" ELSE "end"
  /\ UNCHANGED <<window, rows, label, unsent, queue, test, left, newest, opened, unflagged,
                 pointer, frame, before, excused, arrivals, triggers, faults>>

\* get_data: what the cache lacks at the end of the range.
FetchEnd ==
  /\ pc = "end"
  /\ LET n == Current IN
     Cache(n, IF MissingEnd(n)
              THEN Between(rows[StreamOf[n]], Greatest(cached[n]), range.to)
              ELSE {})
  /\ pc' = "context"
  /\ UNCHANGED <<window, rows, label, unsent, queue, test, left, range, newest, opened, unflagged,
                 pointer, frame, before, excused, arrivals, triggers, faults>>
-----------------------------------------------------------------------------
Chunk(n) == Between(cached[n], range.from, range.to)
UpTo(S, t) == {u \in S : u <= t}

\* Variant of ContextRows: one row less.
ContextRows_Less(n) ==
  LET overlap == window.size - Cardinality(UpTo(cached[n], range.from)) IN
  IF overlap > 1 THEN Newest(UpTo(rows[StreamOf[n]], Least(cached[n])), overlap) ELSE {}

\* A number of rows: the missing ones and the first that is cached, where these overlap.
ContextRows(n) ==
  LET overlap == window.size + 1 - Cardinality(UpTo(cached[n], range.from)) IN
  IF overlap > 1 THEN Newest(UpTo(rows[StreamOf[n]], Least(cached[n])), overlap) ELSE {}

\* A duration: what the cache lacks of it.
ContextTime(n) == Between(rows[StreamOf[n]], range.from - window.size, Least(cached[n]))

FetchedContext(n) ==
  CASE window.kind = "time" -> ContextTime(n)
    [] window.kind = "rows" /\ window.size > 0 -> ContextRows(n)
    [] OTHER -> {}

\* With all the rows S of the cache, the ones before the start that the test gets.
Context(S) ==
  CASE window.kind = "time" -> Between(S, range.from - window.size, range.from - 1)
    [] window.kind = "rows" /\ window.size > 0 ->
         Newest(UpTo(S, range.from), window.size + 1) \ {range.from}
    [] OTHER -> {}

\* index[-0] of no rows at all.
NoRowToStart(S) == window.kind = "rows" /\ window.size > 0 /\ UpTo(S, range.from) = {}

\* get_data of a range without rows: no context.
LoadEmpty ==
  /\ pc = "context"
  /\ Chunk(Current) = {}
  /\ frame' = [frame EXCEPT ![Current] = {}]
  /\ NextName
  /\ UNCHANGED <<window, rows, label, unsent, queue, test, range, newest, unflagged, cached,
                 clabel, pointer, before, excused, arrivals, triggers, faults>>

Lowered(n) ==
  IF pointer[n] = None \/ range.from < pointer[n] THEN range.from ELSE pointer[n]

\* _fetch_context, and the frame that get_data returns.
FetchContext ==
  /\ pc = "context"
  /\ Chunk(Current) # {}
  /\ LET n == Current
         S == cached[n] \cup FetchedContext(n) IN
     /\ ~NoRowToStart(S)
     /\ pointer' = [pointer EXCEPT ![n] = Lowered(n)]
     /\ Cache(n, FetchedContext(n))
     /\ frame' = [frame EXCEPT ![n] = Context(S) \cup Between(S, range.from, range.to)]
  /\ NextName
  /\ UNCHANGED <<window, rows, label, unsent, queue, test, range, newest, unflagged,
                 before, excused, arrivals, triggers, faults>>
-----------------------------------------------------------------------------
\* What the message asked for and is not labelled yet.
Unjudged(s) ==
  LET m == Head(queue) IN
  IF m.from = None THEN Unlabelled(s) ELSE Between(rows[s], m.from, m.to)

\* update_quality_labels: the labels of the frame, in the cache.
RunTest ==
  /\ pc = "load" /\ left = << >>
  /\ clabel' = [n \in Names |-> [t \in Times |->
       IF n \in FlagsOf(test) /\ t \in frame[n] THEN clabel[n][t] \cup {test} ELSE clabel[n][t]]]
  /\ NextTest(test + 1, opened)
  /\ UNCHANGED <<window, rows, label, unsent, queue, newest, opened, unflagged, cached, pointer,
                 before, excused, arrivals, triggers, faults>>

\* Variant of GiveUp: the labels of the tests before the failure are uploaded.
GiveUp_Upload ==
  /\ pc' = "upload" /\ left' = opened
  /\ test' = 0 /\ range' = MessageRange(Head(queue)) /\ newest' = None
  /\ UNCHANGED <<queue, opened, unflagged, cached, clabel, pointer, frame, excused>>

\* ProcessingError: all labels of the run are gone, and the message is done.
GiveUp ==
  /\ BecomeIdle
  /\ queue' = Tail(queue)
  /\ excused' = [s \in Streams |-> excused[s] \cup Unjudged(s)]

\* There is no config of this name, or no default one; or a test of it cannot be parsed.
Refuse ==
  /\ pc = "idle" /\ queue # << >>
  /\ faults < MaxFaults
  /\ faults' = faults + 1
  /\ GiveUp
  /\ UNCHANGED <<window, rows, label, unsent, before, arrivals, triggers>>

\* A test raises while its data are loaded or while it runs.
TestFails ==
  /\ pc \notin {"idle", "upload"}
  /\ faults < MaxFaults
  /\ faults' = faults + 1
  /\ GiveUp
  /\ UNCHANGED <<window, rows, label, unsent, before, arrivals, triggers>>

\* _fetch_context: IndexError.
NoContextFails ==
  /\ pc = "context"
  /\ Chunk(Current) # {}
  /\ NoRowToStart(cached[Current] \cup FetchedContext(Current))
  /\ GiveUp
  /\ UNCHANGED <<window, rows, label, unsent, before, arrivals, triggers, faults>>
-----------------------------------------------------------------------------
\* Variant of Uploaded: context rows are uploaded, too.
Uploaded_All(n) == cached[n]

Uploaded(n) == {t \in cached[n] : pointer[n] <= t}

\* One request for each stream.
Upload ==
  /\ pc = "upload" /\ left # << >>
  /\ LET n == Current IN
     label' = [label EXCEPT ![StreamOf[n]] = [t \in Times |->
       IF t \in Uploaded(n) THEN clabel[n][t] ELSE @[t]]]
  /\ left' = Tail(left)
  /\ UNCHANGED <<window, rows, unsent, queue, pc, test, range, newest, opened, unflagged, cached,
                 clabel, pointer, frame, before, excused, arrivals, triggers, faults>>

\* qaqc_done is published.
Finish ==
  /\ pc = "upload" /\ left = << >>
  /\ LET m == Head(queue) IN
     excused' = IF m.from = None THEN excused
                ELSE [s \in Streams |-> excused[s] \ Between(before[s], m.from, m.to)]
  /\ BecomeIdle
  /\ queue' = Tail(queue)
  /\ UNCHANGED <<window, rows, label, unsent, before, arrivals, triggers, faults>>

(***************************************************************************)
(* UploadError, and whatever else ends the process.  With QoS 2 the        *)
(* message is gone, with QoS 1 it comes again: see MqttWorker.             *)
(***************************************************************************)
Exit(again) ==
  /\ pc # "idle"
  /\ faults < MaxFaults
  /\ faults' = faults + 1
  /\ BecomeIdle
  /\ queue' = IF again THEN queue ELSE Tail(queue)
  /\ excused' = IF again THEN excused ELSE [s \in Streams |-> excused[s] \cup Unjudged(s)]
  /\ UNCHANGED <<window, rows, label, unsent, before, arrivals, triggers>>

Run ==
  \/ Take \/ ReadNewest \/ ReadOldest \/ LoadNothing \/ Fetch \/ FetchEnd \/ LoadEmpty
  \/ FetchContext \/ RunTest \/ NoContextFails \/ Upload \/ Finish

Next ==
  \/ \E new \in Uploads, dated \in BOOLEAN : Arrive(new, dated)
  \/ \E m \in unsent : Announce(m)
  \/ \E span \in Spans : Trigger(span[1], span[2])
  \/ Run
  \/ Refuse \/ TestFails
  \/ \E again \in BOOLEAN : Exit(again)

Spec == Init /\ [][Next]_vars
-----------------------------------------------------------------------------
\* Each stream has one name.
OneName == \A m, n \in Names : StreamOf[m] = StreamOf[n] => m = n

\* The tests that load s first, and flag it.
TestsOf(s) ==
  {i \in TestIds : /\ Tests[i].names # << >>
                   /\ StreamOf[Head(Tests[i].names)] = s
                   /\ Head(Tests[i].names) \in Tests[i].flags}

\* A cache never has a hole: of the rows there were when the run began, it holds each one between
\* two others.  Tests of the run with other dates, and those that need context, widen it by
\* queries of their own (datastream.py, get_data and _fetch_context).
CacheHasNoHoles ==
  \A n \in Names : \A t \in before[StreamOf[n]] :
    (\E u, v \in cached[n] : u <= t /\ t <= v) => t \in cached[n]

\* A test gets the context of its config as far as there is one, if it is a duration.  Of a number
\* of rows it gets one less at most, although several tests share a cache, and one less for each
\* row that came in late behind the start of the dates (_fetch_context).
ContextIsAlmostFull ==
  [][\A n \in Names :
       LET s == StreamOf[n]
           earlier == {t \in before[s] : t < range.from}
           late == {t \in rows[s] \ before[s] : range.from <= t}
           context == {t \in frame'[n] : t < range.from} IN
       FetchContext /\ n = Current =>
         IF window.kind = "time"
         THEN {t \in earlier : t >= range.from - window.size} \subseteq context
         ELSE \/ earlier \subseteq context
              \/ Cardinality(context) + Cardinality(late) >= window.size - 1]_vars

\* Labels outside of the dates of the message stay what they are: its context is not uploaded
\* ("To avoid to upload context data", datastream.py:90).
OnlyItsRange ==
  [][\A s \in Streams, t \in Times :
       label'[s][t] # label[s][t] /\ Head(queue).from # None =>
         Head(queue).from <= t /\ t <= Head(queue).to]_vars

\* The labels of the tests of a stream come to a row together or not at all, whatever fails or
\* arrives between two tests; only rows that came in during a run may differ.
LabelsComeTogether ==
  OneName =>
    \A s \in Streams : \A t \in rows[s] \ excused[s] :
      TestsOf(s) \cap label[s][t] \in {{}, TestsOf(s)}

\* When all messages are done, every row has the labels of all tests of its stream, unless it came
\* in during a run or its run failed: neither dates that the cache remembers nor a retry after half
\* of an upload keep a row from being judged.
NothingIsOverlooked ==
  OneName /\ pc = "idle" /\ queue = << >> /\ unsent = {} =>
    \A s \in Streams : \A t \in rows[s] \ excused[s] : TestsOf(s) \subseteq label[s][t]

\* "Used for project-level QC tests that have no configured streams (streams=None), so they are
\* applied automatically to all of the triggering thing's datastreams" (stream_manager.py:38).
AppliedToAll ==
  pc = "upload" /\ left = << >> /\ Head(queue).thing /\ Head(queue).from # None =>
    \A i \in TestIds : Tests[i].names = << >> =>
      \A k \in DOMAIN Discovered :
        LET s == StreamOf[Discovered[k]] IN
        \A t \in Between(before[s], Head(queue).from, Head(queue).to) : i \in label[s][t]
=============================================================================
