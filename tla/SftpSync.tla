------------------------------ MODULE SftpSync ------------------------------
(***************************************************************************)
(* The copy of an external sFTP server into the bucket of a thing          *)
(* (sync_extsftp_manager.py, timeio/remote_fs.py).                         *)
(*                                                                         *)
(* A run lists the server and the bucket once and then walks over what it  *)
(* listed: a file that is missing in the bucket, has another size or is    *)
(* newer than its copy is opened and stored again.  Meanwhile files of the *)
(* server are written and removed.  A file is a record of its version      *)
(* (which stands for its content), its size and the time of modification   *)
(* that the server tells of it.  That time is any: the clocks of the two   *)
(* sides may differ in either direction, also by a time zone               *)
(* (timeio/remote_fs.py:124 reads a UTC time as a local one), and a rename *)
(* or a transfer may keep the time that a file had elsewhere.  Directories,*)
(* which the bucket does not know, are left out.                           *)
(***************************************************************************)
EXTENDS Integers, Sequences

CONSTANTS
  Files,
  Order,          \* the order in which the files are listed
  MaxSize,
  UnreadableSets, \* the sets of files that may be listed but not opened
  Mtimes,         \* times of modification, as they compare with MinIO's
  MaxClock, MaxChanges, MaxDue, MaxFaults     \* bounds

ASSUME SftpAssumption ==
  /\ Order \in Seq(Files)
  /\ UnreadableSets \subseteq SUBSET Files
  /\ Mtimes \subseteq Int /\ 0 \in Mtimes /\ MaxSize \in Nat /\ MaxClock \in Nat
  /\ MaxChanges \in Nat /\ MaxDue \in Nat /\ MaxFaults \in Nat

VARIABLES
  clock,          \* seconds, of MinIO
  source,         \* the files of the server
  bucket,         \* the copies in the bucket
  unreadable,     \* the files that can be listed but not opened
  mqttQos,        \* MQTT_QOS of the deployment
  due,            \* messages in the queue of the worker, with the one in work
  sync,           \* the run in work
  changes, faults \* bounds

sftpVars == <<clock, source, bucket, unreadable, mqttQos, due, sync, changes, faults>>

\* since is history: the time, of MinIO, at which the file came to be what it is.
File == [ver : 0..MaxChanges, size : 0..MaxSize, mtime : Mtimes, since : 0..MaxClock]
NoFile == [ver |-> 0, size |-> 0, mtime |-> 0, since |-> 0]

\* file: what was read, of which the first size bytes were stored; opened is
\* history, the time at which the file was opened for it.
Copy == [file : File, size : 0..MaxSize, stored : 0..MaxClock, opened : 0..MaxClock]
NoCopy == [file |-> NoFile, size |-> 0, stored |-> 0, opened |-> 0]

IdleSync == [at |-> 0, todo |-> "compare", listed |-> [f \in Files |-> NoFile],
             copies |-> [f \in Files |-> NoCopy], read |-> NoFile, opened |-> 0]

SftpTypeOK ==
  /\ clock \in 0..MaxClock
  /\ source \in [Files -> File] /\ bucket \in [Files -> Copy]
  /\ unreadable \subseteq Files
  /\ mqttQos \in {1, 2} /\ due \in 0..MaxDue
  /\ sync \in [at : 0..Len(Order) + 1, todo : {"compare", "put"},
               listed : [Files -> File], copies : [Files -> Copy],
               read : File, opened : 0..MaxClock]
  /\ changes \in 0..MaxChanges /\ faults \in 0..MaxFaults
-----------------------------------------------------------------------------
Exists(file) == file.ver > 0
LastModified(file) == file.mtime

\* Variants of NeedsUpdate: the size is not compared; an existing copy is
\* taken for a good one; the times have to be the same.
NeedsUpdate_NoSize(file, copy) ==
  ~Exists(copy.file) \/ LastModified(file) > copy.stored
NeedsUpdate_OnlyMissing(file, copy) == ~Exists(copy.file)
NeedsUpdate_SameTime(file, copy) ==
  \/ ~Exists(copy.file)
  \/ file.size # copy.size
  \/ LastModified(file) # copy.stored

NeedsUpdate(file, copy) ==
  \/ ~Exists(copy.file)
  \/ file.size # copy.size
  \/ LastModified(file) > copy.stored
-----------------------------------------------------------------------------
(***************************************************************************)
(* The server, and the jobs of cron.                                       *)
(***************************************************************************)
Tick ==
  /\ clock < MaxClock
  /\ clock' = clock + 1
  /\ UNCHANGED <<source, bucket, unreadable, mqttQos, due, sync, changes, faults>>

WriteFile(f, size, mtime) ==
  /\ changes < MaxChanges
  /\ changes' = changes + 1
  /\ source' = [source EXCEPT ![f] =
                  [ver |-> changes + 1, size |-> size, mtime |-> mtime, since |-> clock]]
  /\ UNCHANGED <<clock, bucket, unreadable, mqttQos, due, sync, faults>>

RemoveFile(f) ==
  /\ changes < MaxChanges /\ Exists(source[f])
  /\ changes' = changes + 1
  /\ source' = [source EXCEPT ![f] = NoFile]
  /\ UNCHANGED <<clock, bucket, unreadable, mqttQos, due, sync, faults>>

\* sync_thing of a thing without an API.
PublishSftp ==
  /\ due < MaxDue
  /\ due' = due + 1
  /\ UNCHANGED <<clock, source, bucket, unreadable, mqttQos, sync, changes, faults>>
-----------------------------------------------------------------------------
(***************************************************************************)
(* The worker.                                                             *)
(***************************************************************************)
Idle == sync.at = 0
Walking == sync.at \in DOMAIN Order
Current == Order[sync.at]
Listed == sync.listed[Current]
Stale == Exists(Listed) /\ NeedsUpdate(Listed, sync.copies[Current])

\* What was listed of a file is not looked at again.
NextFile ==
  [at |-> sync.at + 1, todo |-> "compare", read |-> NoFile, opened |-> 0,
   listed |-> [sync.listed EXCEPT ![Current] = NoFile],
   copies |-> [sync.copies EXCEPT ![Current] = NoCopy]]

\* The exception leaves the handler and ends the process; what becomes of the
\* message is up to its QoS (see MqttWorker).
ExitSync ==
  /\ sync' = IdleSync
  /\ due' = IF mqttQos = 2 THEN due - 1 ELSE due

\* Both listings; nobody but this worker writes copies.
ListFiles ==
  /\ Idle /\ due > 0
  /\ sync' = [IdleSync EXCEPT !.at = 1, !.listed = source, !.copies = bucket]
  /\ UNCHANGED <<clock, source, bucket, unreadable, mqttQos, due, changes, faults>>

\* No connection to the server: journaled, and this run is over.
ConnectFails ==
  /\ Idle /\ due > 0 /\ faults < MaxFaults
  /\ faults' = faults + 1
  /\ due' = due - 1
  /\ UNCHANGED <<clock, source, bucket, unreadable, mqttQos, sync, changes>>

SkipFile ==
  /\ Walking /\ sync.todo = "compare" /\ ~Stale
  /\ sync' = NextFile
  /\ UNCHANGED <<clock, source, bucket, unreadable, mqttQos, due, changes, faults>>

CanOpen == Exists(source[Current]) /\ Current \notin unreadable

OpenFile ==
  /\ Walking /\ sync.todo = "compare" /\ Stale /\ CanOpen
  /\ sync' = [sync EXCEPT !.todo = "put", !.read = source[Current], !.opened = clock]
  /\ UNCHANGED <<clock, source, bucket, unreadable, mqttQos, due, changes, faults>>

OpenFails ==
  /\ Walking /\ sync.todo = "compare" /\ Stale /\ ~CanOpen
  /\ ExitSync
  /\ UNCHANGED <<clock, source, bucket, unreadable, mqttQos, changes, faults>>

\* As many bytes are stored as the file had when it was listed.
Length == Listed.size

PutFile ==
  /\ Walking /\ sync.todo = "put" /\ Length <= sync.read.size
  /\ bucket' = [bucket EXCEPT ![Current] =
                  [file |-> sync.read, size |-> Length, stored |-> clock, opened |-> sync.opened]]
  /\ sync' = NextFile
  /\ UNCHANGED <<clock, source, unreadable, mqttQos, due, changes, faults>>

\* The stream ends before the length that was announced: put_object raises.
PutFails ==
  /\ Walking /\ sync.todo = "put" /\ Length > sync.read.size
  /\ ExitSync
  /\ UNCHANGED <<clock, source, bucket, unreadable, mqttQos, changes, faults>>

FinishSync ==
  /\ sync.at = Len(Order) + 1
  /\ sync' = IdleSync
  /\ due' = due - 1
  /\ UNCHANGED <<clock, source, bucket, unreadable, mqttQos, changes, faults>>

\* A kill, a lost connection, an error of MinIO.
BreakSync ==
  /\ ~Idle /\ faults < MaxFaults
  /\ faults' = faults + 1
  /\ ExitSync
  /\ UNCHANGED <<clock, source, bucket, unreadable, mqttQos, changes>>
-----------------------------------------------------------------------------
SftpInit ==
  /\ clock = 0 /\ changes = 0 /\ faults = 0 /\ due = 0
  /\ source = [f \in Files |-> NoFile] /\ bucket = [f \in Files |-> NoCopy]
  /\ unreadable \in UnreadableSets
  /\ mqttQos \in {1, 2}
  /\ sync = IdleSync

SftpEnv ==
  \/ Tick \/ ConnectFails \/ BreakSync
  \/ \E f \in Files :
       \/ RemoveFile(f)
       \/ \E size \in 1..MaxSize, mtime \in Mtimes : WriteFile(f, size, mtime)

SftpWork ==
  \/ ListFiles \/ SkipFile \/ OpenFile \/ OpenFails \/ PutFile \/ PutFails \/ FinishSync

SftpNext == SftpEnv \/ SftpWork \/ PublishSftp
SftpSpec == SftpInit /\ [][SftpNext]_sftpVars
-----------------------------------------------------------------------------
(***************************************************************************)
(* Properties.                                                             *)
(***************************************************************************)
IsCopy(f) == bucket[f].file = source[f] /\ bucket[f].size = source[f].size

\* A file that has the size of its copy and does not seem newer.
Unseen(f) == source[f].size = bucket[f].size /\ LastModified(source[f]) <= bucket[f].stored

\* The change came after the copy was opened, and before it was stored or with
\* a time of modification before that of the change.
BehindTheCopy(f) ==
  /\ source[f].since >= bucket[f].opened
  /\ source[f].since <= bucket[f].stored \/ source[f].mtime < source[f].since

\* What the comparison of timeio/remote_fs.py:278 will never see is only a
\* change that keeps the size and either came while the copy was being made or
\* brought a time that is older than itself (a clock that is behind, a file
\* that was renamed or kept its time): no copy that was cut off, no change
\* before the copy and none after it that tells its time is hidden from it.
HiddenOnlyDuringUpload ==
  \A f \in Files :
    (Exists(source[f]) /\ Exists(bucket[f].file) /\ ~IsCopy(f)
       /\ ~NeedsUpdate(source[f], bucket[f]))
    => BehindTheCopy(f)

\* The time of the very version that was copied is later than that of the copy.
SeemsNewerThanItsCopy(f) == LastModified(bucket[f].file) > bucket[f].stored

\* Each upload is a new version of the object, which the file ingest parses as
\* a whole: the walk uploads a file again only when that brings another content
\* or more of it (timeio/remote_fs.py:261), also after an exit and a retry.  The
\* exception is a file whose time is later than the copy of that same file: it
\* is uploaded by each run until MinIO's clock has passed that time.
EveryUploadIsNews ==
  [][\A f \in Files : bucket'[f] # bucket[f] =>
        \/ bucket'[f].file.ver > bucket[f].file.ver
        \/ /\ bucket'[f].file = bucket[f].file
           /\ bucket'[f].size > bucket[f].size \/ SeemsNewerThanItsCopy(f)]_sftpVars

\* The files before the first one that cannot be opened.
InReach == {Order[i] : i \in {i \in DOMAIN Order : \A j \in 1..i : Order[j] \notin unreadable}}

CaughtUp(f) == Exists(source[f]) => IsCopy(f) \/ (Unseen(f) /\ BehindTheCopy(f))

\* When the server comes to rest, jobs go on and faults stop, the files arrive,
\* but for those that are listed behind one that cannot be opened
\* (timeio/remote_fs.py:290 ends the walk at the first failure) and for changes
\* that are hidden as above.
BucketCatchesUp == <>[](\A f \in InReach : CaughtUp(f))
=============================================================================
