------------------------------ MODULE SmsSync ------------------------------
(***************************************************************************)
(* The local copy of the vocabularies of the SMS, and the views on its     *)
(* database (sync_sms_manager.py, timeio/sms.py).                          *)
(*                                                                         *)
(* A run for the vocabularies copies one table after the other in a single *)
(* transaction: it makes the table, fetches the entries page by page while *)
(* others edit them, and upserts what it got.  A run for the views         *)
(* refreshes them all in a single transaction.  A page has one entry; an   *)
(* entry is its id and its revision.                                       *)
(***************************************************************************)
EXTENDS Integers, Sequences

CONSTANTS
  Tables,         \* in the order of file_names
  Ids,
  Views,          \* in the order in which they are listed
  Foreign,        \* the tables that may be foreign ones at the start
  Fragile,        \* the views that may be broken
  MaxEdits, MaxSmsFaults     \* bounds

ASSUME SmsAssumption ==
  /\ Tables \in Seq(STRING) /\ Views \in Seq(STRING)
  /\ Foreign \subseteq STRING /\ Fragile \subseteq STRING
  /\ MaxEdits \in Nat /\ MaxSmsFaults \in Nat

VARIABLES
  online,         \* the entries of each table, in the order of the API
  local,          \* the copy: the kind of table, and the revision of each row
  shown,          \* the edit up to which each view shows the SMS
  pinned,         \* foreign tables that cannot be dropped
  broken,         \* views that cannot be refreshed
  smsQos,         \* MQTT_QOS of the deployment
  queue,          \* the runs that cron has published, with the one in work at
                  \* the head
  run,            \* the run in work and its open transaction
  edits, smsFaults     \* edits so far; bound

smsVars == <<online, local, shown, pinned, broken, smsQos, queue, run, edits, smsFaults>>

TableNames == {Tables[i] : i \in DOMAIN Tables}
ViewNames == {Views[i] : i \in DOMAIN Views}
Entry == [id : Ids, rev : 0..MaxEdits]
None == -1
Rows == [Ids -> {None} \cup 0..MaxEdits]
NoRows == [i \in Ids |-> None]
LocalTable == [kind : {"none", "foreign", "table"}, rows : Rows]

NoRun == [origin |-> "none", at |-> 1, todo |-> "create", page |-> 1, data |-> NoRows,
          local |-> [t \in TableNames |-> [kind |-> "none", rows |-> NoRows]],
          shown |-> [v \in ViewNames |-> 0]]

Rests == run.origin = "none"

SmsTypeOK ==
  /\ online \in [TableNames -> Seq(Entry)]
  /\ local \in [TableNames -> LocalTable] /\ shown \in [ViewNames -> 0..MaxEdits]
  /\ pinned \subseteq TableNames /\ broken \subseteq ViewNames /\ smsQos \in {1, 2}
  /\ queue \in Seq({"sms_cv", "sms_backend"})
  /\ Rests \/ (queue # <<>> /\ run.origin = Head(queue))
  /\ run \in [origin : {"none", "sms_cv", "sms_backend"}, at : Nat,
              todo : {"create", "fetch", "upsert"}, page : Nat, data : Rows,
              local : [TableNames -> LocalTable], shown : [ViewNames -> 0..MaxEdits]]
  /\ edits \in 0..MaxEdits /\ smsFaults \in 0..MaxSmsFaults
-----------------------------------------------------------------------------
(***************************************************************************)
(* The SMS and cron.                                                       *)
(***************************************************************************)
Edit(t, entries) ==
  /\ edits < MaxEdits
  /\ edits' = edits + 1
  /\ online' = [online EXCEPT ![t] = entries]
  /\ UNCHANGED <<local, shown, pinned, broken, smsQos, queue, run, smsFaults>>

ChangeEntry(t, p) == Edit(t, [online[t] EXCEPT ![p].rev = edits + 1])
AddEntry(t, i) ==
  /\ \A p \in DOMAIN online[t] : online[t][p].id # i
  /\ Edit(t, Append(online[t], [id |-> i, rev |-> edits + 1]))
RemoveEntry(t, p) ==
  Edit(t, SubSeq(online[t], 1, p - 1) \o SubSeq(online[t], p + 1, Len(online[t])))

\* sync_sms; a second run of the same origin behind one that waits is left out.
PublishSms(origin) ==
  /\ \A p \in DOMAIN queue : queue[p] # origin
  /\ queue' = Append(queue, origin)
  /\ UNCHANGED <<online, local, shown, pinned, broken, smsQos, run, edits, smsFaults>>
-----------------------------------------------------------------------------
(***************************************************************************)
(* The worker.                                                             *)
(***************************************************************************)
InCv(todo) == run.origin = "sms_cv" /\ run.at <= Len(Tables) /\ run.todo = todo
Table == Tables[run.at]

\* One queue for both origins.
StartSms ==
  /\ Rests /\ queue # <<>>
  /\ run' = [NoRun EXCEPT !.origin = Head(queue), !.local = local, !.shown = shown]
  /\ UNCHANGED <<online, local, shown, pinned, broken, smsQos, queue, edits, smsFaults>>

Done ==
  /\ run' = NoRun
  /\ queue' = Tail(queue)

\* The transaction is rolled back and the process ends.  At QoS 2 the message is
\* gone; at QoS 1 it is delivered again, before all that wait (see MqttWorker).
ExitSms ==
  /\ run' = NoRun
  /\ queue' = IF smsQos = 2 THEN Tail(queue) ELSE queue
  /\ UNCHANGED <<online, local, shown, pinned, broken, smsQos, edits>>

\* A foreign table gives way to one of our own, a missing one is made, ...
Undroppable == run.local[Table].kind = "foreign" /\ Table \in pinned

CreateTable ==
  /\ InCv("create") /\ ~Undroppable
  /\ run' = [run EXCEPT !.todo = "fetch",
               !.local[Table] = IF @.kind = "table" THEN @
                                ELSE [kind |-> "table", rows |-> NoRows]]
  /\ UNCHANGED <<online, local, shown, pinned, broken, smsQos, queue, edits, smsFaults>>

\* ... and if the foreign one cannot be dropped that is only logged, but the
\* transaction is aborted, so that the next statement raises.
CreateFails == InCv("create") /\ Undroppable /\ ExitSms /\ UNCHANGED smsFaults

\* The next page of what the API has now.  Of two entries with the same id
\* the first one counts.
Page == {online[Table][p] : p \in {run.page} \cap DOMAIN online[Table]}
Fetched ==
  [i \in Ids |-> IF run.data[i] = None /\ \E e \in Page : e.id = i
                 THEN (CHOOSE e \in Page : TRUE).rev ELSE run.data[i]]

FetchPage ==
  /\ InCv("fetch")
  /\ run' = [run EXCEPT !.data = Fetched,
               !.page = @ + 1,
               !.todo = IF run.page < Len(online[Table]) THEN "fetch" ELSE "upsert"]
  /\ UNCHANGED <<online, local, shown, pinned, broken, smsQos, queue, edits, smsFaults>>

\* Variant of Upsert: ON CONFLICT DO NOTHING.
Upsert_DoNothing(rows, data) == [i \in Ids |-> IF rows[i] = None THEN data[i] ELSE rows[i]]

\* INSERT ... ON CONFLICT (id) DO UPDATE; no row is deleted.
Upsert(rows, data) == [i \in Ids |-> IF data[i] # None THEN data[i] ELSE rows[i]]

UpsertTable ==
  /\ InCv("upsert") /\ run.data # NoRows
  /\ run' = [run EXCEPT !.at = @ + 1, !.todo = "create", !.page = 1, !.data = NoRows,
               !.local[Table].rows = Upsert(@, run.data)]
  /\ UNCHANGED <<online, local, shown, pinned, broken, smsQos, queue, edits, smsFaults>>

\* Without entries the statement has no values: a syntax error, raised again.
UpsertFails == InCv("upsert") /\ run.data = NoRows /\ ExitSms /\ UNCHANGED smsFaults

CommitCv ==
  /\ run.origin = "sms_cv" /\ run.at = Len(Tables) + 1
  /\ local' = run.local
  /\ Done
  /\ UNCHANGED <<online, shown, pinned, broken, smsQos, edits, smsFaults>>

InViews == run.origin = "sms_backend" /\ run.at \in DOMAIN Views

RefreshView ==
  /\ InViews /\ Views[run.at] \notin broken
  /\ run' = [run EXCEPT !.at = @ + 1, !.shown[Views[run.at]] = edits]
  /\ UNCHANGED <<online, local, shown, pinned, broken, smsQos, queue, edits, smsFaults>>

\* The error is logged; the views refreshed before are rolled back with it.
RefreshFails ==
  /\ InViews /\ Views[run.at] \in broken
  /\ Done
  /\ UNCHANGED <<online, local, shown, pinned, broken, smsQos, edits, smsFaults>>

CommitViews ==
  /\ run.origin = "sms_backend" /\ run.at = Len(Views) + 1
  /\ shown' = run.shown
  /\ Done
  /\ UNCHANGED <<online, local, pinned, broken, smsQos, edits, smsFaults>>

\* The connection is lost: an error that is logged, too.
LoseViews ==
  /\ InViews /\ smsFaults < MaxSmsFaults
  /\ smsFaults' = smsFaults + 1
  /\ Done
  /\ UNCHANGED <<online, local, shown, pinned, broken, smsQos, edits>>

\* The API or the database fails, or the process is killed.
BreakSms ==
  /\ ~Rests /\ smsFaults < MaxSmsFaults
  /\ smsFaults' = smsFaults + 1
  /\ ExitSms
-----------------------------------------------------------------------------
SmsInit ==
  /\ online = [t \in TableNames |-> <<[id |-> CHOOSE i \in Ids : TRUE, rev |-> 0]>>]
  /\ \E there \in SUBSET Foreign :
       /\ local = [t \in TableNames |->
            [kind |-> IF t \in there THEN "foreign" ELSE "none", rows |-> NoRows]]
       /\ pinned \in SUBSET there
  /\ shown = [v \in ViewNames |-> 0]
  /\ broken \in SUBSET Fragile
  /\ smsQos \in {1, 2}
  /\ queue = <<>> /\ run = NoRun /\ edits = 0 /\ smsFaults = 0

SmsEnv ==
  \/ \E t \in TableNames :
       \/ \E p \in DOMAIN online[t] : ChangeEntry(t, p) \/ RemoveEntry(t, p)
       \/ \E i \in Ids : AddEntry(t, i)
  \/ LoseViews \/ BreakSms

SmsWork ==
  \/ StartSms \/ CreateTable \/ CreateFails \/ FetchPage \/ UpsertTable \/ UpsertFails \/ CommitCv
  \/ RefreshView \/ RefreshFails \/ CommitViews

SmsNext ==
  \/ SmsEnv \/ SmsWork
  \/ \E origin \in {"sms_cv", "sms_backend"} : PublishSms(origin)
SmsSpec == SmsInit /\ [][SmsNext]_smsVars
-----------------------------------------------------------------------------
(***************************************************************************)
(* Properties.                                                             *)
(***************************************************************************)
UpToDate ==
  \A t \in TableNames : \A p \in DOMAIN online[t] :
    local[t].rows[online[t][p].id] = online[t][p].rev

\* One table that is empty in the SMS, or one that cannot be made, holds up
\* the tables of all vocabularies.
HeldUp ==
  \/ \E t \in TableNames : online[t] = <<>>
  \/ \E t \in pinned : local[t].kind = "foreign"

\* At QoS 1 a run for the vocabularies that raises each time is delivered first
\* each time, so that the views behind it are not refreshed, either.
Stuck == smsQos = 1 /\ HeldUp

\* The copy and the views are those of the SMS.
CaughtUpWithSms ==
  /\ HeldUp \/ UpToDate
  /\ broken # {} \/ Stuck \/ \A v \in ViewNames : shown[v] = edits
=============================================================================
