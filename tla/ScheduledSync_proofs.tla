------------------------ MODULE ScheduledSync_proofs ------------------------
(***************************************************************************)
(* Proofs about the scheduled syncs: first the sFTP sync by itself, for    *)
(* every set and order of files, every number of changes, runs and faults  *)
(* and all times of modification, true or not: its types, what the         *)
(* comparison of files can overlook, and which uploads are in vain.  Then  *)
(* the import from APIs: what is missing is missing for a reason.  Last    *)
(* the composition: what is proved of a sync by itself holds of it under   *)
(* the job that starts it.                                                 *)
(***************************************************************************)
EXTENDS ScheduledSync, WellFoundedInduction, TLAPS

(***************************************************************************)
(* The inductive invariant.  Versions of a file are numbered in the order  *)
(* in which they were written, so that what is listed, read and stored of  *)
(* a file at different times is comparable.                                *)
(***************************************************************************)
Older(a, b) == a.ver <= b.ver /\ (a.ver = b.ver => a = b)

TypeInv ==
  /\ SftpTypeOK
  /\ sync.at > 0 => due > 0

\* The file of the server and its copy.
SourceInv(f) ==
  /\ source[f].since <= clock /\ source[f].ver <= changes
  /\ Exists(source[f]) =>
       /\ Older(bucket[f].file, source[f])
       /\ source[f].since < bucket[f].opened => bucket[f].file = source[f]

BucketInv(f) ==
  /\ bucket[f].file.ver <= changes
  /\ bucket[f].opened <= clock
  /\ bucket[f].size <= bucket[f].file.size

\* What was listed and not yet looked at.
ListedInv(f) ==
  Exists(sync.listed[f]) =>
    /\ sync.copies[f] = bucket[f]
    /\ sync.listed[f].ver <= changes
    /\ Older(bucket[f].file, sync.listed[f])
    /\ Exists(source[f]) => Older(sync.listed[f], source[f])

\* What was read and not yet stored.
Putting(f) == sync.at \in DOMAIN Order /\ Order[sync.at] = f /\ sync.todo = "put"

ReadInv(f) ==
  Putting(f) =>
    /\ Exists(sync.listed[f])
    /\ NeedsUpdate(sync.listed[f], sync.copies[f])
    /\ Exists(sync.read)
    /\ sync.read.ver <= changes
    /\ sync.opened <= clock
    /\ Older(sync.listed[f], sync.read)
    /\ Exists(source[f]) =>
         /\ Older(sync.read, source[f])
         /\ source[f].since < sync.opened => sync.read = source[f]

FileInv(f) == SourceInv(f) /\ BucketInv(f) /\ ListedInv(f) /\ ReadInv(f)

SyncInv == TypeInv /\ \A f \in Files : FileInv(f)
-----------------------------------------------------------------------------
(***************************************************************************)
(* Types.                                                                  *)
(***************************************************************************)
LEMMA Assumed ==
  /\ Order \in Seq(Files) /\ Len(Order) \in Nat /\ DOMAIN Order = 1..Len(Order)
  /\ \A i \in 1..Len(Order) : Order[i] \in Files
  /\ Mtimes \subseteq Int /\ 0 \in Mtimes /\ MaxSize \in Nat /\ MaxClock \in Nat
  /\ MaxChanges \in Nat /\ MaxDue \in Nat /\ MaxFaults \in Nat
  /\ UnreadableSets \subseteq SUBSET Files
  BY SftpAssumption DEF SftpAssumption

LEMMA NothingTypes == NoFile \in File /\ NoCopy \in Copy
<1>1. NoFile \in File
  BY Assumed DEF NoFile, File
<1>. QED BY <1>1, Assumed DEF NoCopy, Copy

SyncType == [at : 0..Len(Order) + 1, todo : {"compare", "put"},
             listed : [Files -> File], copies : [Files -> Copy],
             read : File, opened : 0..MaxClock]

LEMMA IdleType == IdleSync \in SyncType
<1>1. [f \in Files |-> NoFile] \in [Files -> File]
      /\ [f \in Files |-> NoCopy] \in [Files -> Copy]
  BY NothingTypes
<1>. QED BY <1>1, NothingTypes, Assumed DEF IdleSync, SyncType

LEMMA NextFileType ==
  ASSUME sync \in SyncType, sync.at \in DOMAIN Order
  PROVE  NextFile \in SyncType
<1>1. sync.at + 1 \in 0..Len(Order) + 1
  BY Assumed
<1>2. [sync.listed EXCEPT ![Current] = NoFile] \in [Files -> File]
      /\ [sync.copies EXCEPT ![Current] = NoCopy] \in [Files -> Copy]
  BY NothingTypes DEF SyncType
<1>. QED BY <1>1, <1>2, NothingTypes, Assumed DEF NextFile, SyncType

LEMMA TypeInit == SftpInit => TypeInv
<1>. SUFFICES ASSUME SftpInit PROVE TypeInv
  OBVIOUS
<1>1. sync \in SyncType /\ sync.at = 0
  BY IdleType DEF SftpInit, IdleSync
<1>2. source \in [Files -> File] /\ bucket \in [Files -> Copy]
  BY NothingTypes DEF SftpInit
<1>. QED BY <1>1, <1>2, Assumed DEF SftpInit, TypeInv, SftpTypeOK, SyncType
LEMMA TypeNext == TypeInv /\ [SftpNext]_sftpVars => TypeInv'
<1>. SUFFICES ASSUME TypeInv, [SftpNext]_sftpVars PROVE TypeInv'
  OBVIOUS
<1>0. sync \in SyncType /\ (sync.at > 0 => due > 0)
      /\ clock \in 0..MaxClock /\ source \in [Files -> File] /\ bucket \in [Files -> Copy]
      /\ unreadable \subseteq Files /\ mqttQos \in {1, 2} /\ due \in 0..MaxDue
      /\ changes \in 0..MaxChanges /\ faults \in 0..MaxFaults
  BY DEF TypeInv, SftpTypeOK, SyncType
<1>. SUFFICES /\ sync' \in SyncType /\ (sync'.at > 0 => due' > 0)
              /\ clock' \in 0..MaxClock /\ source' \in [Files -> File]
              /\ bucket' \in [Files -> Copy]
              /\ unreadable' \subseteq Files /\ mqttQos' \in {1, 2} /\ due' \in 0..MaxDue
              /\ changes' \in 0..MaxChanges /\ faults' \in 0..MaxFaults
  BY DEF TypeInv, SftpTypeOK, SyncType
<1>2. ASSUME ExitSync, sync.at > 0
      PROVE  sync' \in SyncType /\ sync'.at = 0 /\ due' \in 0..MaxDue
  BY <1>0, <1>2, IdleType, Assumed DEF ExitSync, IdleSync
<1>3. CASE Tick
  BY <1>0, <1>3, Assumed DEF Tick
<1>4. ASSUME NEW f \in Files, NEW size \in 1..MaxSize, NEW mtime \in Mtimes,
             WriteFile(f, size, mtime)
      PROVE  /\ sync' \in SyncType /\ (sync'.at > 0 => due' > 0)
             /\ clock' \in 0..MaxClock /\ source' \in [Files -> File]
             /\ bucket' \in [Files -> Copy]
             /\ unreadable' \subseteq Files /\ mqttQos' \in {1, 2} /\ due' \in 0..MaxDue
             /\ changes' \in 0..MaxChanges /\ faults' \in 0..MaxFaults
  <2>1. [ver |-> changes + 1, size |-> size, mtime |-> mtime, since |-> clock] \in File
    BY <1>0, <1>4, Assumed DEF WriteFile, File
  <2>. QED BY <1>0, <1>4, <2>1, Assumed DEF WriteFile
<1>5. ASSUME NEW f \in Files, RemoveFile(f)
      PROVE  /\ sync' \in SyncType /\ (sync'.at > 0 => due' > 0)
             /\ clock' \in 0..MaxClock /\ source' \in [Files -> File]
             /\ bucket' \in [Files -> Copy]
             /\ unreadable' \subseteq Files /\ mqttQos' \in {1, 2} /\ due' \in 0..MaxDue
             /\ changes' \in 0..MaxChanges /\ faults' \in 0..MaxFaults
  BY <1>0, <1>5, NothingTypes, Assumed DEF RemoveFile
<1>6. CASE PublishSftp
  BY <1>0, <1>6, Assumed DEF PublishSftp
<1>7. CASE ConnectFails
  BY <1>0, <1>7, Assumed DEF ConnectFails, Idle
<1>8. CASE BreakSync
  <2>1. sync.at > 0
    BY <1>0, <1>8, Assumed DEF BreakSync, Idle, SyncType
  <2>. QED BY <1>0, <1>2, <1>8, <2>1, Assumed DEF BreakSync
<1>9. CASE ListFiles
  <2>1. sync' = [at |-> 1, todo |-> "compare", listed |-> source, copies |-> bucket,
                 read |-> NoFile, opened |-> 0]
    BY <1>9 DEF ListFiles, IdleSync
  <2>2. sync' \in SyncType
    BY <1>0, <2>1, NothingTypes, Assumed DEF SyncType
  <2>. QED BY <1>0, <1>9, <2>2 DEF ListFiles
<1>10. CASE SkipFile
  <2>1. sync' \in SyncType /\ sync.at > 0
    BY <1>0, <1>10, NextFileType, Assumed DEF SkipFile, Walking
  <2>. QED BY <1>0, <1>10, <2>1 DEF SkipFile
<1>11. CASE OpenFile
  <2>1. Current \in Files /\ sync.at > 0
    BY <1>11, Assumed DEF OpenFile, Walking, Current
  <2>2. sync' \in SyncType /\ sync'.at = sync.at
    BY <1>0, <1>11, <2>1 DEF OpenFile, SyncType
  <2>. QED BY <1>0, <1>11, <2>1, <2>2 DEF OpenFile
<1>12. CASE OpenFails
  <2>1. sync.at > 0
    BY <1>12, Assumed DEF OpenFails, Walking
  <2>. QED BY <1>0, <1>2, <1>12, <2>1 DEF OpenFails
<1>13. CASE PutFile
  <2>1. Current \in Files /\ sync.at > 0
    BY <1>13, Assumed DEF PutFile, Walking, Current
  <2>2. sync' \in SyncType
    BY <1>0, <1>13, NextFileType DEF PutFile, Walking
  <2>3. Length \in 0..MaxSize
    BY <1>0, <2>1 DEF Length, Listed, SyncType, File
  <2>4. [file |-> sync.read, size |-> Length, stored |-> clock, opened |-> sync.opened] \in Copy
    BY <1>0, <2>3 DEF SyncType, Copy
  <2>5. bucket' \in [Files -> Copy]
    BY <1>0, <1>13, <2>1, <2>4 DEF PutFile
  <2>. QED BY <1>0, <1>13, <2>1, <2>2, <2>5 DEF PutFile
<1>14. CASE PutFails
  <2>1. sync.at > 0
    BY <1>14, Assumed DEF PutFails, Walking
  <2>. QED BY <1>0, <1>2, <1>14, <2>1 DEF PutFails
<1>15. CASE FinishSync
  <2>1. sync.at > 0
    BY <1>15, Assumed DEF FinishSync
  <2>2. sync' \in SyncType /\ sync'.at = 0
    BY <1>15, IdleType DEF FinishSync, IdleSync
  <2>. QED BY <1>0, <1>15, <2>1, <2>2, Assumed DEF FinishSync
<1>16. CASE UNCHANGED sftpVars
  BY <1>0, <1>16 DEF sftpVars
<1>. QED
  BY <1>3, <1>4, <1>5, <1>6, <1>7, <1>8, <1>9, <1>10, <1>11, <1>12, <1>13, <1>14, <1>15, <1>16
  DEF SftpNext, SftpEnv, SftpWork

\* The worker, the server and the bucket keep their types.
THEOREM TypeCorrect == SftpSpec => []SftpTypeOK
<1>1. TypeInv => SftpTypeOK
  BY DEF TypeInv
<1>. QED BY TypeInit, TypeNext, <1>1, PTL DEF SftpSpec
-----------------------------------------------------------------------------
(***************************************************************************)
(* Files and copies.                                                       *)
(***************************************************************************)
\* What the steps below need of the types.
LEMMA FileTypes ==
  ASSUME TypeInv, NEW f \in Files
  PROVE  /\ clock \in Nat /\ changes \in Nat
         /\ source[f] \in File /\ bucket[f] \in Copy
         /\ sync.listed[f] \in File /\ sync.copies[f] \in Copy
         /\ sync.read \in File /\ sync.opened \in Nat /\ sync.at \in Nat
         /\ source[f].ver \in Nat /\ source[f].size \in Nat
         /\ source[f].since \in Nat /\ source[f].mtime \in Int
         /\ sync.listed[f].ver \in Nat /\ sync.listed[f].size \in Nat
         /\ sync.listed[f].mtime \in Int
         /\ sync.read.ver \in Nat /\ sync.read.size \in Nat
         /\ bucket[f].file \in File /\ bucket[f].size \in Nat
         /\ bucket[f].stored \in Nat /\ bucket[f].opened \in Nat
         /\ bucket[f].file.ver \in Nat /\ bucket[f].file.mtime \in Int
<1>1. /\ source[f] \in File /\ bucket[f] \in Copy
      /\ sync.listed[f] \in File /\ sync.copies[f] \in Copy /\ sync.read \in File
      /\ clock \in Nat /\ changes \in Nat /\ sync.opened \in Nat /\ sync.at \in Nat
  BY Assumed DEF TypeInv, SftpTypeOK
<1>2. bucket[f].file \in File /\ bucket[f].size \in Nat
      /\ bucket[f].stored \in Nat /\ bucket[f].opened \in Nat
  BY <1>1, Assumed DEF Copy
<1>3. ASSUME NEW x \in File
      PROVE  x.ver \in Nat /\ x.size \in Nat /\ x.since \in Nat /\ x.mtime \in Int
  <2>1. /\ x.ver \in 0..MaxChanges /\ x.size \in 0..MaxSize
        /\ x.since \in 0..MaxClock /\ x.mtime \in Mtimes
    BY DEF File
  <2>2. x.mtime \in Int
    BY <2>1, Assumed
  <2>. QED BY <2>1, <2>2, Assumed
<1>. QED BY <1>1, <1>2, <1>3

LEMMA FileInit == SftpInit => \A f \in Files : FileInv(f)
<1>. SUFFICES ASSUME SftpInit, NEW f \in Files PROVE FileInv(f)
  OBVIOUS
<1>1. source[f] = NoFile /\ bucket[f] = NoCopy /\ clock = 0 /\ changes = 0
  BY DEF SftpInit
<1>2. sync.listed[f] = NoFile /\ sync.at = 0
  BY DEF SftpInit, IdleSync
<1>3. ~Exists(NoFile)
  BY DEF Exists, NoFile
<1>4. SourceInv(f)
  BY <1>1, <1>3 DEF SourceInv, NoFile
<1>5. BucketInv(f)
  BY <1>1 DEF BucketInv, NoFile, NoCopy
<1>. QED BY <1>2, <1>3, <1>4, <1>5, Assumed DEF FileInv, ListedInv, ReadInv, Putting

\* An ended run leaves nothing behind that could be wrong.
LEMMA EndedKeeps ==
  ASSUME NEW f \in Files, FileInv(f), sync' = IdleSync,
         UNCHANGED <<clock, source, bucket, changes>>
  PROVE  FileInv(f)'
<1>1. sync'.listed[f] = NoFile /\ sync'.at = 0
  BY DEF IdleSync
<1>2. ListedInv(f)' /\ ReadInv(f)'
  BY <1>1, Assumed DEF ListedInv, ReadInv, Putting, Exists, NoFile
<1>. QED BY <1>2 DEF FileInv, SourceInv, BucketInv

\* The walk passes on: what was listed of the other files stays as it was.
LEMMA PassedKeeps ==
  ASSUME TypeInv, NEW f \in Files, FileInv(f), Walking, sync' = NextFile,
         UNCHANGED <<clock, source, changes>>,
         f # Current => bucket'[f] = bucket[f],
         f = Current => SourceInv(f)' /\ BucketInv(f)'
  PROVE  FileInv(f)'
<1>1. sync'.todo = "compare" /\ sync'.listed = [sync.listed EXCEPT ![Current] = NoFile]
      /\ sync'.copies = [sync.copies EXCEPT ![Current] = NoCopy]
  BY DEF NextFile
<1>2. sync.listed \in [Files -> File] /\ sync.copies \in [Files -> Copy]
  BY DEF TypeInv, SftpTypeOK
<1>3. ReadInv(f)'
  BY <1>1 DEF ReadInv, Putting
<1>4. CASE f = Current
  <2>1. ~Exists(sync'.listed[f])
    BY <1>1, <1>2, <1>4 DEF Exists, NoFile
  <2>. QED BY <1>3, <1>4, <2>1 DEF FileInv, ListedInv
<1>5. CASE f # Current
  <2>1. sync'.listed[f] = sync.listed[f] /\ sync'.copies[f] = sync.copies[f]
    BY <1>1, <1>2, <1>5
  <2>2. SourceInv(f)' /\ BucketInv(f)' /\ ListedInv(f)'
    BY <1>5, <2>1 DEF FileInv, SourceInv, BucketInv, ListedInv
  <2>. QED BY <1>3, <2>2 DEF FileInv
<1>. QED BY <1>4, <1>5

LEMMA TickKeeps ==
  ASSUME TypeInv, NEW f \in Files, FileInv(f), Tick
  PROVE  FileInv(f)'
<1>1. clock <= clock' /\ UNCHANGED <<source, bucket, sync, changes>>
  BY FileTypes DEF Tick
<1>2. SourceInv(f)' /\ BucketInv(f)'
  BY <1>1, FileTypes, TypeNext DEF FileInv, SourceInv, BucketInv, Tick
<1>3. ListedInv(f)' /\ ReadInv(f)'
  BY <1>1, FileTypes DEF FileInv, ListedInv, ReadInv, Putting, Tick
<1>. QED BY <1>2, <1>3 DEF FileInv

\* A written file is newer than all that was listed, read and stored of it.
LEMMA WriteKeeps ==
  ASSUME TypeInv, NEW f \in Files, FileInv(f),
         NEW g \in Files, NEW size \in 1..MaxSize, NEW mtime \in Mtimes,
         WriteFile(g, size, mtime)
  PROVE  FileInv(f)'
<1>1. changes' = changes + 1 /\ UNCHANGED <<clock, bucket, sync>>
      /\ source' = [source EXCEPT ![g] = 
                     [ver |-> changes + 1, size |-> size, mtime |-> mtime, since |-> clock]]
  BY DEF WriteFile
<1>2. source \in [Files -> File]
  BY DEF TypeInv, SftpTypeOK
<1>3. BucketInv(f)'
  BY <1>1, FileTypes DEF FileInv, BucketInv
<1>4. CASE f # g
  <2>1. source'[f] = source[f]
    BY <1>1, <1>2, <1>4
  <2>. QED BY <1>1, <1>3, <2>1, FileTypes
           DEF FileInv, SourceInv, ListedInv, ReadInv, Putting, Older
<1>5. CASE f = g
  <2>1. source'[f].ver = changes + 1 /\ source'[f].since = clock
    BY <1>1, <1>2, <1>5
  <2>2. SourceInv(f)'
    BY <1>1, <2>1, FileTypes DEF FileInv, SourceInv, BucketInv, Older
  <2>3. ListedInv(f)'
    BY <1>1, <2>1, FileTypes DEF FileInv, ListedInv, Older
  <2>4. ReadInv(f)'
    BY <1>1, <2>1, FileTypes DEF FileInv, ReadInv, Putting, Older
  <2>. QED BY <1>3, <2>2, <2>3, <2>4 DEF FileInv
<1>. QED BY <1>4, <1>5

LEMMA RemoveKeeps ==
  ASSUME TypeInv, NEW f \in Files, FileInv(f), NEW g \in Files, RemoveFile(g)
  PROVE  FileInv(f)'
<1>1. changes' = changes + 1 /\ UNCHANGED <<clock, bucket, sync>>
      /\ source' = [source EXCEPT ![g] = NoFile]
  BY DEF RemoveFile
<1>2. source \in [Files -> File]
  BY DEF TypeInv, SftpTypeOK
<1>3. \/ source'[f] = source[f]
      \/ /\ ~Exists(source'[f])
         /\ source'[f].since <= clock /\ source'[f].ver <= changes + 1
  <2>1. CASE f # g
    BY <1>1, <1>2, <2>1
  <2>2. CASE f = g
    <3>1. source'[f] = NoFile
      BY <1>1, <1>2, <2>2
    <3>. QED BY <3>1, FileTypes DEF Exists, NoFile
  <2>. QED BY <2>1, <2>2
<1>4. SourceInv(f)'
  BY <1>1, <1>3, FileTypes DEF FileInv, SourceInv
<1>5. BucketInv(f)'
  BY <1>1, FileTypes DEF FileInv, BucketInv
<1>6. ListedInv(f)'
  BY <1>1, <1>3, FileTypes DEF FileInv, ListedInv
<1>7. ReadInv(f)'
  BY <1>1, <1>3, FileTypes DEF FileInv, ReadInv, Putting
<1>. QED BY <1>4, <1>5, <1>6, <1>7 DEF FileInv

LEMMA ListKeeps ==
  ASSUME TypeInv, NEW f \in Files, FileInv(f), ListFiles
  PROVE  FileInv(f)'
<1>1. sync'.listed = source /\ sync'.copies = bucket /\ sync'.todo = "compare"
      /\ UNCHANGED <<clock, source, bucket, changes>>
  BY DEF ListFiles, IdleSync
<1>2. ListedInv(f)'
  BY <1>1, FileTypes DEF FileInv, ListedInv, SourceInv, Older
<1>3. ReadInv(f)'
  BY <1>1 DEF ReadInv, Putting
<1>. QED BY <1>1, <1>2, <1>3 DEF FileInv, SourceInv, BucketInv

LEMMA OpenKeeps ==
  ASSUME TypeInv, NEW f \in Files, FileInv(f), OpenFile
  PROVE  FileInv(f)'
<1>1. UNCHANGED <<clock, source, bucket, changes>>
  BY DEF OpenFile
<1>2. sync'.listed = sync.listed /\ sync'.copies = sync.copies /\ sync'.at = sync.at
      /\ sync'.read = source[Current] /\ sync'.opened = clock
  BY DEF OpenFile, TypeInv, SftpTypeOK
<1>3. ListedInv(f)'
  BY <1>1, <1>2 DEF FileInv, ListedInv
<1>4. ReadInv(f)'
  <2>. SUFFICES ASSUME Putting(f)' PROVE ReadInv(f)'
    BY DEF ReadInv
  <2>1. f = Current
    BY <1>2 DEF Putting, Current
  <2>2. Exists(sync.listed[f]) /\ NeedsUpdate(sync.listed[f], sync.copies[f])
        /\ Exists(source[f])
    BY <2>1 DEF OpenFile, Stale, Listed, CanOpen
  <2>3. Older(sync.listed[f], source[f])
    BY <2>2 DEF FileInv, ListedInv
  <2>4. source[f].since <= clock /\ source[f].ver <= changes
    BY DEF FileInv, SourceInv
  <2>. QED BY <1>1, <1>2, <2>1, <2>2, <2>3, <2>4, FileTypes DEF ReadInv, Older
<1>. QED BY <1>1, <1>3, <1>4 DEF FileInv, SourceInv, BucketInv

LEMMA PutKeeps ==
  ASSUME TypeInv, NEW f \in Files, FileInv(f), PutFile
  PROVE  FileInv(f)'
<1>1. Walking /\ sync' = NextFile /\ Length <= sync.read.size
      /\ UNCHANGED <<clock, source, changes>>
      /\ bucket' = [bucket EXCEPT ![Current] =
           [file |-> sync.read, size |-> Length, stored |-> clock, opened |-> sync.opened]]
  BY DEF PutFile
<1>2. bucket \in [Files -> Copy]
  BY DEF TypeInv, SftpTypeOK
<1>3. f # Current => bucket'[f] = bucket[f]
  BY <1>1, <1>2
<1>4. ASSUME f = Current PROVE SourceInv(f)' /\ BucketInv(f)'
  <2>1. ReadInv(f) /\ Putting(f)
    BY <1>4 DEF FileInv, Putting, PutFile, Walking, Current
  <2>2. bucket'[f] = [file |-> sync.read, size |-> Length, stored |-> clock, opened |-> sync.opened]
    BY <1>1, <1>2, <1>4
  <2>3. SourceInv(f)'
    BY <1>1, <2>1, <2>2 DEF FileInv, SourceInv, ReadInv
  <2>4. BucketInv(f)'
    BY <1>1, <2>1, <2>2, FileTypes DEF BucketInv, ReadInv
  <2>. QED BY <2>3, <2>4
<1>. QED BY <1>1, <1>3, <1>4, PassedKeeps

LEMMA FileNext ==
  ASSUME TypeInv, [SftpNext]_sftpVars, NEW f \in Files, FileInv(f)
  PROVE  FileInv(f)'
<1>1. ASSUME ListFiles \/ OpenFile \/ PutFile \/ Tick PROVE FileInv(f)'
  BY <1>1, ListKeeps, OpenKeeps, PutKeeps, TickKeeps
<1>2. ASSUME NEW g \in Files, RemoveFile(g) \/ \E size \in 1..MaxSize, mtime \in Mtimes : WriteFile(g, size, mtime)
      PROVE  FileInv(f)'
  BY <1>2, RemoveKeeps, WriteKeeps
<1>3. CASE SkipFile
  BY <1>3, PassedKeeps DEF SkipFile, FileInv, SourceInv, BucketInv
<1>4. CASE BreakSync \/ OpenFails \/ PutFails \/ FinishSync
  BY <1>4, EndedKeeps DEF BreakSync, OpenFails, PutFails, FinishSync, ExitSync
<1>5. CASE PublishSftp \/ ConnectFails \/ UNCHANGED sftpVars
  <2>1. UNCHANGED <<clock, source, bucket, sync, changes>>
    BY <1>5 DEF PublishSftp, ConnectFails, sftpVars
  <2>. QED BY <2>1 DEF FileInv, SourceInv, BucketInv, ListedInv, ReadInv, Putting
<1>. QED BY <1>1, <1>2, <1>3, <1>4, <1>5 DEF SftpNext, SftpEnv, SftpWork

LEMMA Invariance == SftpSpec => []SyncInv
<1>1. SftpInit => SyncInv
  BY TypeInit, FileInit DEF SyncInv
<1>2. SyncInv /\ [SftpNext]_sftpVars => SyncInv'
  BY TypeNext, FileNext DEF SyncInv
<1>. QED BY <1>1, <1>2, PTL DEF SftpSpec
-----------------------------------------------------------------------------
\* Whatever is written and removed while the walk is under way, wherever it
\* ends and whatever times the server tells: the comparison overlooks only a
\* change that came while the copy was being made, or that brought a time that
\* is older than itself.
THEOREM OverlooksLittle == SftpSpec => []HiddenOnlyDuringUpload
<1>1. SyncInv => HiddenOnlyDuringUpload
  <2>. SUFFICES ASSUME SyncInv, NEW f \in Files,
                       Exists(source[f]), Exists(bucket[f].file), ~IsCopy(f),
                       ~NeedsUpdate(source[f], bucket[f])
                PROVE  BehindTheCopy(f)
    BY DEF HiddenOnlyDuringUpload
  <2>1. bucket[f].size = source[f].size /\ ~(source[f].mtime > bucket[f].stored)
    BY DEF NeedsUpdate, LastModified
  <2>2. source[f].since >= bucket[f].opened
    <3>1. ASSUME source[f].since < bucket[f].opened PROVE FALSE
      <4>1. bucket[f].file = source[f]
        BY <3>1 DEF SyncInv, FileInv, SourceInv
      <4>. QED BY <4>1, <2>1 DEF IsCopy
    <3>. QED BY <3>1, FileTypes DEF SyncInv
  <2>3. source[f].since <= bucket[f].stored \/ source[f].mtime < source[f].since
    BY <2>1, FileTypes DEF SyncInv
  <2>. QED BY <2>2, <2>3 DEF BehindTheCopy
<1>. QED BY Invariance, <1>1, PTL

\* What is stored over a copy is a newer version, more of the same one, or the
\* same one whose time is later than its copy.
NewsOf(f) ==
  \/ bucket'[f].file.ver > bucket[f].file.ver
  \/ /\ bucket'[f].file = bucket[f].file
     /\ bucket'[f].size > bucket[f].size \/ SeemsNewerThanItsCopy(f)

LEMMA PutIsNews ==
  ASSUME SyncInv, PutFile, NEW f \in Files, bucket'[f] # bucket[f]
  PROVE  NewsOf(f)
<1>. TypeInv /\ FileInv(f)
  BY DEF SyncInv
<1>0. bucket \in [Files -> Copy] /\ Length <= sync.read.size
      /\ bucket' = [bucket EXCEPT ![Current] =
           [file |-> sync.read, size |-> Length, stored |-> clock, opened |-> sync.opened]]
  BY DEF TypeInv, SftpTypeOK, PutFile
<1>1. f = Current
  BY <1>0
<1>2. bucket'[f].file = sync.read /\ bucket'[f].size = sync.listed[f].size
  BY <1>0, <1>1 DEF Length, Listed
<1>3. Putting(f)
  BY <1>1 DEF Putting, PutFile, Walking, Current
<1>4. /\ Exists(sync.listed[f]) /\ NeedsUpdate(sync.listed[f], bucket[f])
      /\ Older(bucket[f].file, sync.listed[f]) /\ Older(sync.listed[f], sync.read)
  BY <1>3 DEF FileInv, ReadInv, ListedInv
<1>5. CASE sync.read.ver # bucket[f].file.ver
  BY <1>2, <1>4, <1>5, FileTypes DEF Older, NewsOf
<1>6. CASE sync.read.ver = bucket[f].file.ver
  <2>1. sync.read = bucket[f].file /\ sync.listed[f] = bucket[f].file
    BY <1>4, <1>6, FileTypes DEF Older
  <2>2. Exists(bucket[f].file)
    BY <1>4, <2>1
  <2>3. CASE LastModified(sync.listed[f]) > bucket[f].stored
    BY <1>2, <2>1, <2>3 DEF NewsOf, SeemsNewerThanItsCopy
  <2>4. CASE sync.listed[f].size # bucket[f].size
    <3>1. bucket[f].size <= sync.listed[f].size
      BY <2>1 DEF FileInv, BucketInv
    <3>. QED BY <1>2, <2>1, <2>4, <3>1, FileTypes DEF NewsOf
  <2>. QED BY <1>4, <2>2, <2>3, <2>4 DEF NeedsUpdate
<1>. QED BY <1>5, <1>6

\* A walk, or its repetition after an exit, uploads what is there again only if
\* the time of the file is later than its copy, whatever the clocks.
THEOREM UploadsAreNews == SftpSpec => EveryUploadIsNews
<1>1. SyncInv /\ [SftpNext]_sftpVars =>
        [\A f \in Files : bucket'[f] # bucket[f] => NewsOf(f)]_sftpVars
  <2>. SUFFICES ASSUME SyncInv, [SftpNext]_sftpVars, NEW f \in Files, bucket'[f] # bucket[f]
                PROVE  NewsOf(f)
    OBVIOUS
  <2>1. CASE PutFile
    BY <2>1, PutIsNews
  <2>2. CASE bucket' = bucket
    BY <2>2
  <2>. QED
    BY <2>1, <2>2
    DEF SftpNext, SftpEnv, SftpWork, Tick, ConnectFails, BreakSync, RemoveFile, WriteFile,
        ListFiles, SkipFile, OpenFile, OpenFails, PutFails, FinishSync, PublishSftp, ExitSync,
        sftpVars
<1>. QED BY Invariance, <1>1, PTL DEF SftpSpec, EveryUploadIsNews, NewsOf
-----------------------------------------------------------------------------
(***************************************************************************)
(* The import from APIs.  First its clock: hours and the stamps of the     *)
(* programs can be turned into each other, also hour 24 of UBA.            *)
(***************************************************************************)
LEMMA ApiAssumed ==
  /\ HoursPerDay \in Nat /\ HoursPerDay >= 2 /\ Period \in Nat /\ Period >= 1
  /\ Horizon \in Nat /\ Horizon >= HoursPerDay /\ First = HoursPerDay /\ Hours = 0..Horizon
  /\ MaxApiFaults \in Nat
  /\ Apis \subseteq {"tsystems", "bosch", "uba", "dwd", "ttn", "nm", "custom"}
  BY ApiAssumption DEF ApiAssumption, First, Hours

LEMMA Division ==
  ASSUME NEW h \in Int
  PROVE  /\ h \div HoursPerDay \in Int /\ h % HoursPerDay \in 0..(HoursPerDay - 1)
         /\ (h \div HoursPerDay) * HoursPerDay + (h % HoursPerDay) = h
  BY ApiAssumed

LEMMA StampInverse ==
  ASSUME NEW h \in Int
  PROVE  Stamp(h) \in Stamps /\ HourOf(Stamp(h)) = h
<1>. DEFINE q == h \div HoursPerDay
            r == h % HoursPerDay
<1>1. q \in Int /\ r \in 0..(HoursPerDay - 1) /\ q * HoursPerDay + r = h
  BY Division
<1>2. Stamp(h) = [day |-> q, hr |-> r]
  BY DEF Stamp
<1>. HIDE DEF q, r
<1>. QED BY <1>1, <1>2, ApiAssumed DEF Stamps, HourOf

LEMMA UbaInverse ==
  ASSUME NEW h \in Int
  PROVE  /\ UbaStamp(h) \in Stamps /\ HourOf(UbaStamp(h)) = h
         /\ HourOf(AdjustDatetime(UbaStamp(h))) = h
<1>. DEFINE q == h \div HoursPerDay
<1>1. q \in Int /\ q - 1 \in Int /\ h % HoursPerDay \in 0..(HoursPerDay - 1) 
      /\ q * HoursPerDay + (h % HoursPerDay) = h
  BY Division
<1>2. Stamp(h) = [day |-> q, hr |-> h % HoursPerDay]
  BY DEF Stamp
<1>. HIDE DEF q
<1>3. CASE h % HoursPerDay = 0
  <2>1. (q - 1) * HoursPerDay + HoursPerDay = h
    <3>1. (q - 1) * HoursPerDay = q * HoursPerDay - HoursPerDay
      BY <1>1, ApiAssumed
    <3>. QED BY <3>1, <1>1, <1>3, ApiAssumed
  <2>2. UbaStamp(h) = [day |-> q - 1, hr |-> HoursPerDay]
    BY <1>3 DEF UbaStamp, q
  <2>3. AdjustDatetime(UbaStamp(h)) = [day |-> q, hr |-> 0]
    BY <2>2, <1>1 DEF AdjustDatetime
  <2>. QED BY <2>1, <2>2, <2>3, <1>1, <1>3, ApiAssumed DEF Stamps, HourOf
<1>4. CASE h % HoursPerDay # 0
  <2>1. UbaStamp(h) = Stamp(h)
    BY <1>4 DEF UbaStamp
  <2>2. AdjustDatetime(Stamp(h)) = Stamp(h)
    BY <1>1, <1>2, ApiAssumed DEF AdjustDatetime
  <2>. QED BY <2>1, <2>2, StampInverse
<1>. QED BY <1>3, <1>4

LEMMA Greatest ==
  ASSUME NEW S, NEW n \in Nat, S \subseteq 0..n, S # {}
  PROVE  \E x \in S : \A y \in S : y <= x
<1>. DEFINE T == {k \in Nat : n - k \in S}
<1>1. T \subseteq Nat /\ T # {}
  <2>1. PICK x \in S : TRUE
    OBVIOUS
  <2>2. x \in 0..n /\ n - x \in Nat /\ n - (n - x) = x
    BY <2>1
  <2>. QED BY <2>1, <2>2
<1>2. PICK k \in T : \A j \in T : <<j, k>> \notin OpToRel(<, Nat)
  BY <1>1, WFMin, NatLessThanWellFounded
<1>3. \A j \in T : ~(j < k)
  BY <1>1, <1>2 DEF OpToRel
<1>4. \A y \in S : y <= n - k
  <2>. TAKE y \in S
  <2>1. y \in 0..n /\ n - y \in Nat /\ n - (n - y) = y
    OBVIOUS
  <2>2. n - y \in T
    BY <2>1
  <2>3. ~(n - y < k) /\ k \in Nat
    BY <2>2, <1>3
  <2>. QED BY <2>1, <2>3
<1>. QED BY <1>4
-----------------------------------------------------------------------------
(***************************************************************************)
(* What a range finds.  ChancesOf and Found are Chances and Observations,  *)
(* with the type of the API and the observations on offer as parameters,   *)
(* so that those of the next state can be written down; and the range of a *)
(* run never begins after an observation that is still missing.            *)
(***************************************************************************)
ChancesOf(a, h) ==
  {t \in Hours :
     CASE a = "tsystems" -> t = h
       [] a = "bosch" -> t \in h..h + Period - 1
       [] a = "uba" -> t \in {h, h + 1}
       [] a = "dwd" -> Stamp(t).day = Stamp(h).day + 1
       [] a \in {"nm", "ttn"} -> t >= h
       [] a = "custom" -> t \in h..h + HoursPerDay - 1}

\* The observations that a run finds among those on offer.
Found(a, o, req) ==
  {h \in o :
     /\ a \in {"nm", "custom"} \/ h \notin Zeros
     /\ CASE a \in {"bosch", "tsystems", "custom"} -> HourOf(req.from) < h /\ h <= HourOf(req.to)
          [] a \in {"uba", "dwd", "nm"} -> HourOf(req.from) <= h /\ h <= HourOf(req.to)
          [] a = "ttn" -> TRUE}

LEMMA Later ==
  ASSUME NEW a \in Apis, NEW h \in Nat, NEW t \in ChancesOf(a, h)
  PROVE  t >= h /\ t \in Nat
<1>1. CASE a = "dwd"
  <2>. DEFINE q == h \div HoursPerDay
              r == h % HoursPerDay
              s == t % HoursPerDay
  <2>1. t \in 0..Horizon /\ t \div HoursPerDay = q + 1
    BY <1>1, ApiAssumed DEF ChancesOf, Stamp
  <2>4. q \in Int /\ r \in 0..(HoursPerDay - 1) /\ q * HoursPerDay + r = h
    BY Division
  <2>5. t \in Int
    BY <2>1, ApiAssumed
  <2>6. s \in 0..(HoursPerDay - 1) /\ (t \div HoursPerDay) * HoursPerDay + s = t
    BY <2>5, Division
  <2>2. /\ q \in Int /\ r \in 0..(HoursPerDay - 1) /\ q * HoursPerDay + r = h
        /\ s \in 0..(HoursPerDay - 1) /\ (q + 1) * HoursPerDay + s = t
    BY <2>1, <2>4, <2>6
  <2>. HIDE DEF q, r, s
  <2>3. (q + 1) * HoursPerDay = q * HoursPerDay + HoursPerDay
    BY <2>2, ApiAssumed
  <2>. QED BY <2>1, <2>2, <2>3, ApiAssumed
<1>2. CASE a # "dwd"
  <2>1. t \in 0..Horizon
    BY ApiAssumed DEF ChancesOf
  <2>2. CASE a = "tsystems"
    BY <2>1, <2>2 DEF ChancesOf
  <2>3. CASE a = "bosch"
    BY <2>1, <2>3 DEF ChancesOf
  <2>4. CASE a = "uba"
    BY <2>1, <2>4 DEF ChancesOf
  <2>5. CASE a = "nm" \/ a = "ttn"
    <3>1. t >= h
      BY <2>5 DEF ChancesOf
    <3>. QED BY <2>1, <3>1
  <2>6. CASE a = "custom"
    BY <2>1, <2>6 DEF ChancesOf
  <2>. QED BY <1>2, <2>2, <2>3, <2>4, <2>5, <2>6, ApiAssumed
<1>. QED BY <1>1, <1>2

LEMMA ObservedIsFound ==
  ASSUME api \in Apis, offered \subseteq Nat, NEW req
  PROVE  Observations(req) = Found(api, offered, req)
<1>1. CASE api = "uba"
  <2>1. UbaObservations(req) = Truthy(UbaMeasures(req))
    <3>1. \A h \in Truthy(UbaMeasures(req)) : h \in offered /\ h \in Int
      <4>1. Truthy(UbaMeasures(req)) \subseteq offered
        BY DEF Truthy, UbaMeasures, FromTo
      <4>2. \A h \in offered : h \in Nat
        OBVIOUS
      <4>3. \A h \in Nat : h \in Int
        OBVIOUS
      <4>4. ASSUME NEW h \in Truthy(UbaMeasures(req)) PROVE h \in offered
        BY <4>1
      <4>5. ASSUME NEW h \in Truthy(UbaMeasures(req)) PROVE h \in Int
        BY <4>4, <4>2, <4>3
      <4>. QED BY <4>4, <4>5
    <3>2. \A h \in Truthy(UbaMeasures(req)) : HourOf(AdjustDatetime(UbaStamp(h))) = h
      BY <3>1, UbaInverse
    <3>. QED BY <3>2 DEF UbaObservations
  <2>. QED BY <1>1, <2>1 DEF Observations, Found, Truthy, UbaMeasures, FromTo
<1>2. CASE api # "uba"
  BY <1>2, ApiAssumed
  DEF Observations, Found, BoschObservations, TsystemsObservations, DwdObservations,
      TtnObservations, NmObservations, CustomObservations, Truthy, Between, FromTo
<1>. QED BY <1>1, <1>2

LEMMA NewestIs ==
  ASSUME hour \in Nat, stored \subseteq 0..hour
  PROVE  NewestStored \in 0..hour /\ (stored # {} => NewestStored \in stored)
         /\ (stored = {} => NewestStored = 0)
<1>1. CASE stored = {}
  BY <1>1 DEF NewestStored
<1>2. CASE stored # {}
  <2>1. \E h \in stored : \A g \in stored : g <= h
    BY <1>2, Greatest
  <2>2. NewestStored \in stored
    BY <1>2, <2>1 DEF NewestStored
  <2>. QED BY <1>2, <2>2
<1>. QED BY <1>1, <1>2

LEMMA TimerangeTypes ==
  ASSUME hour \in Nat, stored \subseteq 0..hour, NEW now \in Nat, api \in Apis
  PROVE  /\ Timerange(now).from \in Stamps /\ Timerange(now).to \in Stamps
         /\ api = "nm" => HourOf(Timerange(now).from) = NewestStored
<1>. now - 1 \in Int /\ now - Period \in Int /\ now - HoursPerDay \in Int /\ NewestStored \in Int
  BY ApiAssumed, NewestIs
<1>1. CASE api = "tsystems"
  BY <1>1, StampInverse DEF Timerange, TsystemsTimerange, Range
<1>2. CASE api = "bosch"
  BY <1>2, StampInverse DEF Timerange, BoschTimerange, Range
<1>3. CASE api \in {"dwd", "ttn"}
  <2>1. Stamp(now).day - 1 \in Int
    BY StampInverse DEF Stamps
  <2>. QED BY <1>3, <2>1, ApiAssumed DEF Timerange, DwdTimerange, Range, Stamps
<1>4. CASE api = "uba"
  BY <1>4, UbaInverse DEF Timerange, UbaTimerange, Range
<1>5. CASE api = "nm"
  BY <1>5, StampInverse DEF Timerange, NmTimerange, Range
<1>6. CASE api = "custom"
  BY <1>6, StampInverse DEF Timerange, DefaultTimerange, Range
<1>. QED BY <1>1, <1>2, <1>3, <1>4, <1>5, <1>6, ApiAssumed

\* The run that the job of this hour publishes finds all that it should.
LEMMA ChanceFinds ==
  ASSUME hour \in Nat, stored \subseteq 0..hour, api \in Apis,
         NEW h \in offered, h \in Nat, h >= First, h \in Zeros => api \in {"nm", "custom"},
         hour \in ChancesOf(api, h),
         NEW req, req.from = Timerange(hour).from, req.to = Timerange(hour).to,
         api = "nm" => h >= HourOf(Timerange(hour).from)
  PROVE  h \in Found(api, offered, req)
<1>. hour >= h /\ hour - 1 \in Int /\ hour - Period \in Int /\ hour - HoursPerDay \in Int
     /\ NewestStored \in Int
  BY ApiAssumed, NewestIs, Later
<1>1. CASE api = "tsystems"
  <2>1. hour = h
    BY <1>1 DEF ChancesOf
  <2>2. HourOf(req.from) = hour - 1 /\ HourOf(req.to) = hour
    BY <1>1, StampInverse DEF Timerange, TsystemsTimerange, Range
  <2>. QED BY <1>1, <2>1, <2>2 DEF Found
<1>2. CASE api = "bosch"
  <2>1. hour <= h + Period - 1
    BY <1>2 DEF ChancesOf
  <2>2. HourOf(req.from) = hour - Period /\ HourOf(req.to) = hour
    BY <1>2, StampInverse DEF Timerange, BoschTimerange, Range
  <2>. QED BY <1>2, <2>1, <2>2, ApiAssumed DEF Found
<1>3. CASE api = "dwd"
  <2>. DEFINE q == h \div HoursPerDay
              r == h % HoursPerDay
  <2>1. hour \div HoursPerDay = q + 1
    BY <1>3, ApiAssumed DEF ChancesOf, Stamp
  <2>2. q \in Int /\ r \in 0..(HoursPerDay - 1) /\ q * HoursPerDay + r = h
    BY Division
  <2>3. Stamp(hour).day = q + 1
    BY <2>1 DEF Stamp
  <2>4. req.from = [day |-> q, hr |-> 0] /\ req.to = [day |-> q, hr |-> HoursPerDay - 1]
    <3>1. (q + 1) - 1 = q
      BY <2>2
    <3>. HIDE DEF q
    <3>. QED BY <1>3, <2>3, <3>1 DEF Timerange, DwdTimerange, Range
  <2>. HIDE DEF q, r
  <2>5. HourOf(req.from) <= h /\ h <= HourOf(req.to)
    BY <2>2, <2>4, ApiAssumed DEF HourOf
  <2>. QED BY <1>3, <2>5 DEF Found
<1>4. CASE api = "uba"
  <2>1. hour <= h + 1
    BY <1>4 DEF ChancesOf
  <2>2. HourOf(req.from) = hour - 1 /\ HourOf(req.to) = hour
    BY <1>4, UbaInverse DEF Timerange, UbaTimerange, Range
  <2>. QED BY <1>4, <2>1, <2>2 DEF Found
<1>5. CASE api = "nm"
  <2>1. HourOf(req.from) <= h /\ HourOf(req.to) = hour
    <3>1. HourOf(req.to) = hour
      BY <1>5, StampInverse DEF Timerange, NmTimerange, Range
    <3>2. HourOf(req.from) = NewestStored
      BY <1>5, TimerangeTypes
    <3>. QED BY <1>5, <3>1, <3>2, TimerangeTypes
  <2>. QED BY <1>5, <2>1 DEF Found
<1>6. CASE api = "custom"
  <2>1. hour <= h + HoursPerDay - 1
    BY <1>6 DEF ChancesOf
  <2>2. HourOf(req.from) = hour - HoursPerDay /\ HourOf(req.to) = hour
    BY <1>6, StampInverse DEF Timerange, DefaultTimerange, Range
  <2>. QED BY <1>6, <2>1, <2>2, ApiAssumed DEF Found
<1>7. CASE api = "ttn"
  BY <1>7 DEF Found
<1>. QED BY <1>1, <1>2, <1>3, <1>4, <1>5, <1>6, <1>7, ApiAssumed

LEMMA FoundGrows ==
  ASSUME NEW a, NEW o, NEW p, o \subseteq p, NEW req
  PROVE  Found(a, o, req) \subseteq Found(a, p, req) /\ Found(a, o, req) \subseteq o
  BY DEF Found

-----------------------------------------------------------------------------
(***************************************************************************)
(* The inductive invariant.  GapsHaveACause is not inductive: that a run   *)
(* finds an observation is known when it is published (AwaitedInv), has to *)
(* last until it is fetched (FetchedInv) and written, and an API of the    *)
(* kind of nm only asks for what is newer than the newest stored, so that  *)
(* nothing timely may be missing before that one (NewestInv).              *)
(***************************************************************************)
\* What a run is sure to store.
Timely(h) ==
  h \in First..hour /\ h \notin late /\ (h \in Zeros => api \in {"nm", "custom"})

ClockInv ==
  /\ hour >= First
  /\ offered \subseteq 0..hour /\ late \subseteq 0..hour
  /\ stored \subseteq 0..hour /\ fetched \subseteq 0..hour
  /\ \A h \in 0..hour : h \notin late => h \in offered
  /\ \A i \in DOMAIN runs :
       runs[i].at \in First..hour /\ (api = "nm" => HourOf(runs[i].from) <= hour)
  /\ stage # "idle" => runs # <<>>
  /\ stage = "idle" => fetched = {}
  /\ stage = "publish" => fetched \subseteq stored

\* Each run that should fetch the observation will find it.
AwaitedInv(h) ==
  \A i \in DOMAIN runs :
    runs[i].at \in ChancesOf(api, h) => h \in stored \cup Found(api, offered, runs[i])

FetchedInv(h) ==
  stage # "idle" /\ Head(runs).at \in ChancesOf(api, h) => h \in stored \cup fetched

\* An API of the kind of nm leaves nothing out before the newest observation.
NewestInv(h) ==
  api = "nm" =>
    /\ \A i \in DOMAIN runs : h < HourOf(runs[i].from) => h \in stored
    /\ \A g \in fetched : h <= g => h \in stored \cup fetched
    /\ \A g \in stored : h <= g => h \in stored

CauseInv(h) ==
  h \in stored \/ \A t \in ChancesOf(api, h) : HasRun(t) => t \in lost \cup raised \cup Pending

GapInv(h) == Timely(h) => AwaitedInv(h) /\ FetchedInv(h) /\ NewestInv(h) /\ CauseInv(h)

ApiInv == ApiTypeOK /\ ClockInv /\ \A h \in Nat : GapInv(h)

LEMMA RunOfHead ==
  ASSUME runs \in Seq(Run), runs # <<>>
  PROVE  /\ 1 \in DOMAIN runs /\ Head(runs) = runs[1] /\ Work = runs[1]
         /\ runs[1] \in Run
         /\ Tail(runs) \in Seq(Run)
         /\ \A i \in DOMAIN Tail(runs) : i + 1 \in DOMAIN runs /\ Tail(runs)[i] = runs[i + 1]
         /\ \A i \in DOMAIN runs :
              i = 1 \/ (i - 1 \in DOMAIN Tail(runs) /\ Tail(runs)[i - 1] = runs[i])
  BY DEF Work

LEMMA RunAppended ==
  ASSUME runs \in Seq(Run), NEW req \in Run
  PROVE  /\ Append(runs, req) \in Seq(Run)
         /\ \A i \in DOMAIN Append(runs, req) :
              (i \in DOMAIN runs /\ Append(runs, req)[i] = runs[i]) \/ Append(runs, req)[i] = req
         /\ \A i \in DOMAIN runs : i \in DOMAIN Append(runs, req) /\ Append(runs, req)[i] = runs[i]
         /\ Len(runs) + 1 \in DOMAIN Append(runs, req) /\ Append(runs, req)[Len(runs) + 1] = req
         /\ runs # <<>> => Head(Append(runs, req)) = Head(runs)
         /\ Append(runs, req) # <<>>
  OBVIOUS

LEMMA ApiTypeInit == ApiInit => ApiTypeOK /\ ClockInv
<1>. SUFFICES ASSUME ApiInit PROVE ApiTypeOK /\ ClockInv
  OBVIOUS
<1>1. https \in BOOLEAN
  <2>1. CASE api \in {"bosch", "ttn"}
    BY <2>1 DEF ApiInit
  <2>2. CASE api \notin {"bosch", "ttn"}
    BY <2>2 DEF ApiInit
  <2>. QED BY <2>1, <2>2
<1>2. runs \in Seq(Run) /\ runs = <<>> /\ DOMAIN runs = {}
  BY DEF ApiInit
<1>3. hour \in 0..Horizon /\ hour = First /\ 0..hour \subseteq 0..Horizon
  BY ApiAssumed DEF ApiInit
<1>4. ApiTypeOK
  <2>1. hour \in Hours /\ offered \subseteq Hours /\ late \subseteq Hours /\ fetched \subseteq Hours
        /\ stored \subseteq Hours /\ lost \subseteq Hours /\ raised \subseteq Hours
    BY <1>3, ApiAssumed DEF ApiInit
  <2>2. apiFaults \in 0..MaxApiFaults
    BY ApiAssumed DEF ApiInit
  <2>4. ran \in BOOLEAN /\ syncer \in BOOLEAN
    BY DEF ApiInit
  <2>3. api \in Apis /\ apiQos \in {1, 2} /\ stage \in {"idle", "write", "publish"}
    BY DEF ApiInit
  <2>. QED BY <2>1, <2>2, <2>3, <2>4, <1>1, <1>2 DEF ApiTypeOK
<1>5. ClockInv
  BY <1>2, <1>3, ApiAssumed DEF ApiInit, ClockInv
<1>. QED BY <1>4, <1>5

LEMMA InitGaps == ApiInit => \A h \in Nat : GapInv(h)
<1>. SUFFICES ASSUME ApiInit, NEW h \in Nat, Timely(h)
              PROVE  AwaitedInv(h) /\ FetchedInv(h) /\ NewestInv(h) /\ CauseInv(h)
  BY DEF GapInv
<1>1. api \in Apis
  BY DEF ApiInit
<1>2. \A t \in ChancesOf(api, h) : ~HasRun(t)
  <2>. TAKE t \in ChancesOf(api, h)
  <2>1. t >= h /\ t \in Nat
    BY <1>1, Later
  <2>. QED BY <2>1, ApiAssumed DEF ApiInit, HasRun, Timely
<1>. QED BY <1>2 DEF ApiInit, AwaitedInv, FetchedInv, NewestInv, CauseInv

-----------------------------------------------------------------------------
(***************************************************************************)
(* The steps that end a run, for good (Ends) or until its message comes    *)
(* back (Returns).                                                         *)
(***************************************************************************)
Ends ==
  /\ runs # <<>> /\ runs' = Tail(runs)
  /\ stage' = "idle" /\ fetched' = {}
  /\ Work.at \in lost' \cup raised' \/ stage = "publish"
  /\ lost \subseteq lost' /\ raised \subseteq raised'
  /\ UNCHANGED <<api, hour, ran, offered, late, stored>>

Returns ==
  /\ runs # <<>> /\ runs' = runs
  /\ stage' = "idle" /\ fetched' = {}
  /\ lost \subseteq lost' /\ raised \subseteq raised'
  /\ UNCHANGED <<api, hour, ran, offered, late, stored>>

LEMMA EndsOrReturns ==
  ASSUME ApiTypeOK, LoadFails \/ RequestFails \/ FetchRaises \/ BreakApi \/ PublishParsed
  PROVE  Ends \/ Returns
<1>1. CASE LoadFails
  BY <1>1 DEF LoadFails, Acknowledge, Ends, At
<1>2. CASE RequestFails
  BY <1>2 DEF RequestFails, Acknowledge, Ends, At
<1>3. CASE FetchRaises
  BY <1>3 DEF FetchRaises, ExitApi, Ends, Returns, At
<1>4. CASE BreakApi
  BY <1>4 DEF BreakApi, ExitApi, Ends, Returns
<1>5. CASE PublishParsed
  BY <1>5 DEF PublishParsed, Acknowledge, Ends, At
<1>. QED BY <1>1, <1>2, <1>3, <1>4, <1>5

LEMMA SettledTypes ==
  ASSUME ApiTypeOK, LoadFails \/ RequestFails \/ FetchRaises \/ BreakApi \/ PublishParsed
  PROVE  ApiTypeOK'
<1>1. Ends \/ Returns
  BY EndsOrReturns
<1>2. runs # <<>> /\ runs \in Seq(Run) /\ Work.at \in Hours /\ runs' \in Seq(Run)
  <2>1. runs # <<>> /\ runs \in Seq(Run)
    BY <1>1 DEF Ends, Returns, ApiTypeOK
  <2>2. Work.at \in Hours /\ Tail(runs) \in Seq(Run)
    BY <2>1, RunOfHead DEF Run
  <2>. QED BY <1>1, <2>1, <2>2 DEF Ends, Returns
<1>3. apiFaults' \in 0..MaxApiFaults /\ lost' \subseteq Hours /\ raised' \subseteq Hours
      /\ syncer' \in BOOLEAN /\ UNCHANGED <<https, apiQos>>
  <2>1. UNCHANGED apiFaults \/ Strike
    BY DEF LoadFails, RequestFails, FetchRaises, BreakApi, PublishParsed
  <2>2. apiFaults' \in 0..MaxApiFaults
    BY <2>1, ApiAssumed DEF Strike, ApiTypeOK
  <2>3. syncer' \in BOOLEAN
    BY DEF ApiTypeOK, LoadFails, RequestFails, FetchRaises, BreakApi, PublishParsed, ExitApi
  <2>4. lost' \in {lost, lost \cup {Work.at}} /\ raised' \in {raised, raised \cup {Work.at}}
        /\ UNCHANGED <<https, apiQos>>
    <3>1. CASE LoadFails
      BY <3>1 DEF LoadFails
    <3>2. CASE RequestFails
      BY <3>2 DEF RequestFails
    <3>3. CASE FetchRaises
      BY <3>3 DEF FetchRaises
    <3>4. CASE BreakApi
      BY <3>4 DEF BreakApi
    <3>5. CASE PublishParsed
      BY <3>5 DEF PublishParsed
    <3>. QED BY <3>1, <3>2, <3>3, <3>4, <3>5
  <2>5. lost' \subseteq Hours /\ raised' \subseteq Hours
    BY <2>4, <1>2 DEF ApiTypeOK
  <2>. QED BY <2>2, <2>3, <2>4, <2>5
<1>. QED BY <1>1, <1>2, <1>3 DEF Ends, Returns, ApiTypeOK

LEMMA SettledClock ==
  ASSUME ApiTypeOK, ClockInv, Ends \/ Returns
  PROVE  ClockInv'
<1>1. CASE Ends
  <2>1. runs \in Seq(Run) /\ runs # <<>>
    BY <1>1 DEF Ends, ApiTypeOK
  <2>2. \A i \in DOMAIN runs' : i + 1 \in DOMAIN runs /\ runs'[i] = runs[i + 1]
    BY <1>1, <2>1, RunOfHead DEF Ends
  <2>3. \A i \in DOMAIN runs' :
          runs'[i].at \in First..hour' /\ (api' = "nm" => HourOf(runs'[i].from) <= hour')
    BY <1>1, <2>2 DEF Ends, ClockInv
  <2>. QED BY <1>1, <2>3 DEF Ends, ClockInv
<1>2. CASE Returns
  BY <1>2 DEF Returns, ClockInv
<1>. QED BY <1>1, <1>2

LEMMA SettledGaps ==
  ASSUME ApiTypeOK, ClockInv, NEW h \in Nat, GapInv(h), Ends \/ Returns
  PROVE  GapInv(h)'
<1>. SUFFICES ASSUME Timely(h)'
              PROVE  AwaitedInv(h)' /\ FetchedInv(h)' /\ NewestInv(h)' /\ CauseInv(h)'
  BY DEF GapInv
<1>0. UNCHANGED <<api, hour, ran, offered, late, stored>> /\ stage' = "idle" /\ fetched' = {}
      /\ lost \subseteq lost' /\ raised \subseteq raised'
      /\ runs \in Seq(Run) /\ runs # <<>>
  BY DEF Ends, Returns, ApiTypeOK
<1>1. Timely(h)
  BY <1>0 DEF Timely
<1>2. AwaitedInv(h) /\ FetchedInv(h) /\ NewestInv(h) /\ CauseInv(h)
  BY <1>1 DEF GapInv
<1>3. \A i \in DOMAIN runs' : \E j \in DOMAIN runs : runs'[i] = runs[j]
  <2>1. CASE Ends
    BY <2>1, <1>0, RunOfHead DEF Ends
  <2>2. CASE Returns
    BY <2>2 DEF Returns
  <2>. QED BY <2>1, <2>2
<1>4. AwaitedInv(h)'
  <2>. SUFFICES ASSUME NEW i \in DOMAIN runs', runs'[i].at \in ChancesOf(api, h)
                PROVE  h \in stored \cup Found(api, offered, runs'[i])
    BY <1>0 DEF AwaitedInv
  <2>1. PICK j \in DOMAIN runs : runs'[i] = runs[j]
    BY <1>3
  <2>. QED BY <2>1, <1>2 DEF AwaitedInv
<1>5. FetchedInv(h)'
  BY <1>0 DEF FetchedInv
<1>6. NewestInv(h)'
  <2>. SUFFICES ASSUME api = "nm"
                PROVE  /\ \A i \in DOMAIN runs' : h < HourOf(runs'[i].from) => h \in stored
                       /\ \A g \in stored : h <= g => h \in stored
    BY <1>0 DEF NewestInv
  <2>1. \A j \in DOMAIN runs : h < HourOf(runs[j].from) => h \in stored
    BY <1>2 DEF NewestInv
  <2>. QED BY <2>1, <1>2, <1>3 DEF NewestInv
<1>7. CauseInv(h)'
  <2>. SUFFICES ASSUME h \notin stored, NEW t \in ChancesOf(api, h), HasRun(t)
                PROVE  t \in lost' \cup raised' \cup Pending'
    BY <1>0 DEF CauseInv, HasRun
  <2>1. t \in lost \cup raised \cup Pending
    BY <1>2 DEF CauseInv
  <2>2. CASE t \in lost \cup raised
    BY <2>2, <1>0
  <2>3. CASE t \in Pending
    <3>1. PICK j \in DOMAIN runs : runs[j].at = t
      BY <2>3 DEF Pending
    <3>2. CASE Returns
      BY <3>1, <3>2 DEF Returns, Pending
    <3>3. CASE Ends /\ j # 1
      <4>1. j - 1 \in DOMAIN runs' /\ runs'[j - 1] = runs[j]
        BY <3>3, <1>0, RunOfHead DEF Ends
      <4>. QED BY <3>1, <4>1 DEF Pending
    <3>4. CASE Ends /\ j = 1
      <4>1. Work.at = t /\ Head(runs).at = t
        BY <3>1, <3>4, <1>0, RunOfHead
      <4>2. CASE stage = "publish"
        <5>1. h \in stored \cup fetched
          BY <4>1, <4>2, <1>2 DEF FetchedInv
        <5>. QED BY <5>1, <4>2 DEF ClockInv
      <4>. QED BY <4>1, <4>2, <3>4 DEF Ends
    <3>. QED BY <3>2, <3>3, <3>4
  <2>. QED BY <2>1, <2>2, <2>3
<1>. QED BY <1>4, <1>5, <1>6, <1>7

-----------------------------------------------------------------------------
(***************************************************************************)
(* The other steps.                                                        *)
(***************************************************************************)
LEMMA NextHourKeeps ==
  ASSUME ApiTypeOK, ClockInv, NEW punctual \in BOOLEAN, NextHour(punctual)
  PROVE  ApiTypeOK' /\ ClockInv' /\ \A h \in Nat : GapInv(h) => GapInv(h)'
<1>0. hour \in Nat /\ hour < Horizon /\ hour' = hour + 1 /\ hour' \in Hours /\ api \in Apis
      /\ 0..hour \subseteq 0..hour' /\ hour + 1 \in 0..hour' /\ 0..hour' = 0..hour \cup {hour + 1}
      /\ ran' = FALSE /\ First \in Nat
      /\ UNCHANGED <<api, https, apiQos, runs, stage, fetched, syncer, stored, raised, apiFaults>>
  BY ApiAssumed DEF ApiTypeOK, NextHour
<1>1. /\ offered' \subseteq 0..hour' /\ late' \subseteq 0..hour' /\ late \subseteq late'
      /\ \A h \in 0..hour : h \in late' => h \in late
      /\ \A h \in 0..hour' : h \notin late' => h \in offered'
      /\ lost' = IF ran THEN lost ELSE lost \cup {hour}
      /\ offered \subseteq offered'
  <2>1. CASE punctual
    BY <2>1, <1>0 DEF NextHour, ClockInv
  <2>2. CASE ~punctual
    BY <2>2, <1>0 DEF NextHour, ClockInv
  <2>. QED BY <2>1, <2>2
<1>2. ApiTypeOK'
  <2>1. offered' \subseteq Hours /\ late' \subseteq Hours /\ lost' \subseteq Hours
    BY <1>0, <1>1, ApiAssumed DEF ApiTypeOK
  <2>. QED BY <1>0, <2>1 DEF ApiTypeOK
<1>3. ClockInv'
  <2>1. ASSUME NEW i \in DOMAIN runs
        PROVE  runs[i].at \in First..hour' /\ (api = "nm" => HourOf(runs[i].from) <= hour')
    <3>1. runs[i].at \in First..hour /\ (api = "nm" => HourOf(runs[i].from) <= hour)
      BY DEF ClockInv
    <3>2. HourOf(runs[i].from) \in Int
      <4>1. runs[i] \in Run
        BY DEF ApiTypeOK
      <4>. QED BY <4>1, ApiAssumed DEF Run, Stamps, HourOf
    <3>. QED BY <3>1, <3>2, <1>0
  <2>2. hour' >= First
    BY <1>0 DEF ClockInv
  <2>3. stored' \subseteq 0..hour' /\ fetched' \subseteq 0..hour'
    BY <1>0 DEF ClockInv
  <2>. QED BY <1>0, <1>1, <2>1, <2>2, <2>3 DEF ClockInv
<1>4. ASSUME NEW h \in Nat, GapInv(h), Timely(h)'
      PROVE  AwaitedInv(h)' /\ FetchedInv(h)' /\ NewestInv(h)' /\ CauseInv(h)'
  <2>1. h \in First..hour + 1 /\ h \notin late'
    BY <1>4, <1>0 DEF Timely
  <2>2. ASSUME h # hour + 1 PROVE AwaitedInv(h) /\ FetchedInv(h) /\ NewestInv(h) /\ CauseInv(h)
    <3>1. h \in First..hour
      BY <2>1, <2>2, <1>0
    <3>2. Timely(h)
      BY <3>1, <1>4, <1>0, <1>1 DEF Timely
    <3>. QED BY <3>2, <1>4 DEF GapInv
  <2>3. ASSUME NEW t \in ChancesOf(api, h), h = hour + 1 PROVE t > hour
    BY <2>3, Later, <1>0
  <2>4. CASE h # hour + 1
    <3>1. AwaitedInv(h)'
      <4>. SUFFICES ASSUME NEW i \in DOMAIN runs, runs[i].at \in ChancesOf(api, h)
                    PROVE  h \in stored \cup Found(api, offered', runs[i])
        BY <1>0 DEF AwaitedInv
      <4>1. h \in stored \cup Found(api, offered, runs[i])
        BY <2>2, <2>4 DEF AwaitedInv
      <4>. QED BY <4>1, <1>1, FoundGrows
    <3>2. FetchedInv(h)'
      BY <1>0, <2>2, <2>4 DEF FetchedInv
    <3>3. NewestInv(h)'
      BY <1>0, <2>2, <2>4 DEF NewestInv
    <3>4. CauseInv(h)'
      <4>. SUFFICES ASSUME h \notin stored, NEW t \in ChancesOf(api, h), HasRun(t)'
                    PROVE  t \in lost' \cup raised \cup Pending
        BY <1>0 DEF CauseInv, Pending
      <4>1. t \in Nat /\ t < hour + 1
        <5>1. t \in Nat
          BY Later, <1>0
        <5>. QED BY <5>1, <1>0 DEF HasRun
      <4>2. CASE t = hour /\ ~ran
        BY <4>2, <1>1
      <4>3. CASE ~(t = hour /\ ~ran)
        <5>1. HasRun(t)
          BY <4>1, <4>3, <1>0 DEF HasRun
        <5>2. t \in lost \cup raised \cup Pending
          BY <5>1, <2>2, <2>4 DEF CauseInv
        <5>. QED BY <5>2, <1>1
      <4>. QED BY <4>2, <4>3
    <3>. QED BY <3>1, <3>2, <3>3, <3>4
  <2>5. CASE h = hour + 1
    <3>0. \A i \in DOMAIN runs : runs[i].at \notin ChancesOf(api, h)
      <4>. SUFFICES ASSUME NEW i \in DOMAIN runs, runs[i].at \in ChancesOf(api, h) PROVE FALSE
        OBVIOUS
      <4>1. runs[i].at > hour
        BY <2>3, <2>5
      <4>2. runs[i].at \in First..hour
        BY DEF ClockInv
      <4>. QED BY <4>1, <4>2, <1>0
    <3>1. AwaitedInv(h)'
      BY <3>0, <1>0 DEF AwaitedInv
    <3>2. FetchedInv(h)'
      <4>. SUFFICES ASSUME stage # "idle", Head(runs).at \in ChancesOf(api, h) PROVE FALSE
        BY <1>0 DEF FetchedInv
      <4>1. 1 \in DOMAIN runs /\ Head(runs) = runs[1]
        BY RunOfHead DEF ClockInv, ApiTypeOK
      <4>. QED BY <4>1, <3>0
    <3>3. NewestInv(h)'
      <4>. SUFFICES ASSUME api = "nm"
                    PROVE  /\ \A i \in DOMAIN runs : ~(h < HourOf(runs[i].from))
                           /\ \A g \in fetched : ~(h <= g)
                           /\ \A g \in stored : ~(h <= g)
        BY <1>0 DEF NewestInv
      <4>1. \A g \in 0..hour : ~(h <= g)
        BY <2>5, <1>0
      <4>2. ASSUME NEW i \in DOMAIN runs PROVE ~(h < HourOf(runs[i].from))
        <5>1. runs[i] \in Run
          BY DEF ApiTypeOK
        <5>2. HourOf(runs[i].from) \in Int
          BY <5>1, ApiAssumed DEF Run, Stamps, HourOf
        <5>3. HourOf(runs[i].from) <= hour
          BY DEF ClockInv
        <5>. QED BY <5>2, <5>3, <2>5, <1>0
      <4>. QED BY <4>1, <4>2 DEF ClockInv
    <3>4. CauseInv(h)'
      <4>. SUFFICES ASSUME NEW t \in ChancesOf(api, h), HasRun(t)' PROVE FALSE
        BY <1>0 DEF CauseInv
      <4>1. t > hour /\ t \in Nat
        BY <2>3, <2>5, Later, <1>0
      <4>. QED BY <4>1, <1>0 DEF HasRun
    <3>. QED BY <3>1, <3>2, <3>3, <3>4
  <2>. QED BY <2>4, <2>5
<1>. QED BY <1>2, <1>3, <1>4 DEF GapInv

LEMMA OfferLateKeeps ==
  ASSUME ApiTypeOK, ClockInv, NEW l \in late, OfferLate(l)
  PROVE  ApiTypeOK' /\ ClockInv' /\ \A h \in Nat : GapInv(h) => GapInv(h)'
<1>0. offered' = offered \cup {l}
      /\ UNCHANGED <<api, https, apiQos, hour, ran, late, runs, stage, fetched, syncer,
                     stored, lost, raised, apiFaults>>
  BY DEF OfferLate
<1>1. ApiTypeOK'
  BY <1>0 DEF ApiTypeOK
<1>2. ClockInv'
  BY <1>0 DEF ClockInv
<1>3. ASSUME NEW h \in Nat, GapInv(h), Timely(h)'
      PROVE  AwaitedInv(h)' /\ FetchedInv(h)' /\ NewestInv(h)' /\ CauseInv(h)'
  <2>1. Timely(h)
    BY <1>3, <1>0 DEF Timely
  <2>2. AwaitedInv(h) /\ FetchedInv(h) /\ NewestInv(h) /\ CauseInv(h)
    BY <2>1, <1>3 DEF GapInv
  <2>3. AwaitedInv(h)'
    <3>. SUFFICES ASSUME NEW i \in DOMAIN runs, runs[i].at \in ChancesOf(api, h)
                  PROVE  h \in stored \cup Found(api, offered', runs[i])
      BY <1>0 DEF AwaitedInv
    <3>1. h \in stored \cup Found(api, offered, runs[i])
      BY <2>2 DEF AwaitedInv
    <3>. QED BY <3>1, <1>0, FoundGrows
  <2>4. FetchedInv(h)' /\ NewestInv(h)'
    BY <1>0, <2>2 DEF FetchedInv, NewestInv
  <2>5. CauseInv(h)'
    BY <1>0, <2>2 DEF CauseInv, HasRun, Pending
  <2>. QED BY <2>3, <2>4, <2>5
<1>. QED BY <1>1, <1>2, <1>3 DEF GapInv

LEMMA PublishKeeps ==
  ASSUME ApiTypeOK, ClockInv, PublishApi
  PROVE  ApiTypeOK' /\ ClockInv'
         /\ \A h \in Nat : GapInv(h) => GapInv(h)'
<1>. DEFINE req == [from |-> Timerange(hour).from, to |-> Timerange(hour).to, at |-> hour]
<1>0. /\ ran' = TRUE /\ runs' = Append(runs, req) /\ hour \in Nat /\ hour \in Hours
      /\ api \in Apis /\ stored \subseteq 0..hour /\ runs \in Seq(Run) /\ hour >= First
      /\ UNCHANGED <<api, https, apiQos, hour, offered, late, stage, fetched, syncer,
                     stored, lost, raised, apiFaults>>
  BY ApiAssumed DEF PublishApi, ApiTypeOK, ClockInv
<1>1. req \in Run /\ req.at = hour /\ req.from = Timerange(hour).from /\ req.to = Timerange(hour).to
  <2>1. Timerange(hour).from \in Stamps /\ Timerange(hour).to \in Stamps
    BY <1>0, TimerangeTypes
  <2>. QED BY <1>0, <2>1 DEF Run
<1>2. api = "nm" => HourOf(req.from) = NewestStored
  BY <1>0, <1>1, TimerangeTypes
<1>3. NewestStored \in 0..hour /\ (stored # {} => NewestStored \in stored)
      /\ (stored = {} => NewestStored = 0)
  BY <1>0, NewestIs
<1>. HIDE DEF req
<1>4. /\ runs' \in Seq(Run) /\ runs' # <<>>
      /\ \A i \in DOMAIN runs' : (i \in DOMAIN runs /\ runs'[i] = runs[i]) \/ runs'[i] = req
      /\ \A i \in DOMAIN runs : i \in DOMAIN runs' /\ runs'[i] = runs[i]
      /\ Len(runs) + 1 \in DOMAIN runs' /\ runs'[Len(runs) + 1] = req
      /\ runs # <<>> => Head(runs') = Head(runs)
  BY <1>0, <1>1, RunAppended
<1>5. ApiTypeOK'
  BY <1>0, <1>4 DEF ApiTypeOK
<1>6. ClockInv'
  <2>1. ASSUME NEW i \in DOMAIN runs'
        PROVE  runs'[i].at \in First..hour /\ (api = "nm" => HourOf(runs'[i].from) <= hour)
    <3>1. CASE i \in DOMAIN runs /\ runs'[i] = runs[i]
      BY <3>1 DEF ClockInv
    <3>2. CASE runs'[i] = req
      BY <3>2, <1>0, <1>1, <1>2, <1>3, ApiAssumed
    <3>. QED BY <3>1, <3>2, <1>4
  <2>. QED BY <2>1, <1>0, <1>4 DEF ClockInv
<1>7. ASSUME NEW h \in Nat, GapInv(h), Timely(h)'
      PROVE  AwaitedInv(h)' /\ FetchedInv(h)' /\ NewestInv(h)' /\ CauseInv(h)'
  <2>1. Timely(h)
    BY <1>7, <1>0 DEF Timely
  <2>2. AwaitedInv(h) /\ FetchedInv(h) /\ NewestInv(h) /\ CauseInv(h)
    BY <2>1, <1>7 DEF GapInv
  <2>3. api = "nm" /\ h < NewestStored => h \in stored
    BY <2>2, <1>3 DEF NewestInv
  <2>4. AwaitedInv(h)'
    <3>. SUFFICES ASSUME NEW i \in DOMAIN runs', runs'[i].at \in ChancesOf(api, h)
                  PROVE  h \in stored \cup Found(api, offered, runs'[i])
      BY <1>0 DEF AwaitedInv
    <3>1. CASE i \in DOMAIN runs /\ runs'[i] = runs[i]
      BY <3>1, <2>2 DEF AwaitedInv
    <3>2. CASE runs'[i] = req /\ ~(api = "nm" /\ h < NewestStored)
      <4>1. h \in offered /\ h >= First /\ (h \in Zeros => api \in {"nm", "custom"})
        <5>1. h \in First..hour /\ h \notin late /\ (h \in Zeros => api \in {"nm", "custom"})
          BY <2>1 DEF Timely
        <5>2. h \in 0..hour /\ h >= First
          BY <5>1, <1>0, ApiAssumed
        <5>. QED BY <5>1, <5>2 DEF ClockInv
      <4>2. hour \in ChancesOf(api, h)
        BY <3>2, <1>1
      <4>3. api = "nm" => h >= HourOf(Timerange(hour).from)
        BY <3>2, <1>1, <1>2, <1>3
      <4>4. h \in Found(api, offered, req)
        BY <4>1, <4>2, <4>3, <1>0, <1>1, ChanceFinds
      <4>. QED BY <3>2, <4>4
    <3>3. CASE api = "nm" /\ h < NewestStored
      BY <3>3, <2>3
    <3>. QED BY <3>1, <3>2, <3>3, <1>4
  <2>5. FetchedInv(h)'
    BY <1>0, <1>4, <2>2 DEF FetchedInv, ClockInv
  <2>6. NewestInv(h)'
    <3>. SUFFICES ASSUME api = "nm"
                  PROVE  /\ \A i \in DOMAIN runs' : h < HourOf(runs'[i].from) => h \in stored
                         /\ \A g \in fetched : h <= g => h \in stored \cup fetched
                         /\ \A g \in stored : h <= g => h \in stored
      BY <1>0 DEF NewestInv
    <3>1. ASSUME NEW i \in DOMAIN runs', h < HourOf(runs'[i].from) PROVE h \in stored
      <4>1. CASE i \in DOMAIN runs /\ runs'[i] = runs[i]
        BY <3>1, <4>1, <2>2 DEF NewestInv
      <4>2. CASE runs'[i] = req
        BY <3>1, <4>2, <2>3, <1>2
      <4>. QED BY <4>1, <4>2, <1>4
    <3>. QED BY <3>1, <2>2 DEF NewestInv
  <2>7. CauseInv(h)'
    <3>. SUFFICES ASSUME h \notin stored, NEW t \in ChancesOf(api, h), HasRun(t)'
                  PROVE  t \in lost \cup raised \cup Pending'
      BY <1>0 DEF CauseInv
    <3>1. CASE HasRun(t)
      <4>1. t \in lost \cup raised \cup Pending
        BY <3>1, <2>2 DEF CauseInv
      <4>2. Pending \subseteq Pending'
        BY <1>4 DEF Pending
      <4>. QED BY <4>1, <4>2
    <3>2. CASE ~HasRun(t)
      <4>1. t = hour
        BY <3>2, <1>0 DEF HasRun
      <4>. QED BY <4>1, <1>4, <1>1 DEF Pending
    <3>. QED BY <3>1, <3>2
  <2>. QED BY <2>4, <2>5, <2>6, <2>7
<1>. QED BY <1>5, <1>6, <1>7 DEF GapInv

LEMMA FetchKeeps ==
  ASSUME ApiTypeOK, ClockInv, Fetch
  PROVE  ApiTypeOK' /\ ClockInv' /\ \A h \in Nat : GapInv(h) => GapInv(h)'
<1>0. /\ runs # <<>> /\ runs \in Seq(Run) /\ stage = "idle" /\ stage' = "write"
      /\ api \in Apis /\ offered \subseteq 0..hour /\ hour \in Nat /\ fetched' = Observations(Work)
      /\ UNCHANGED <<api, https, apiQos, hour, ran, offered, late, runs, syncer, stored,
                     lost, raised, apiFaults>>
  BY ApiAssumed DEF Fetch, At, ApiTypeOK, ClockInv
<1>1. fetched' = Found(api, offered, runs[1]) /\ 1 \in DOMAIN runs /\ Head(runs) = runs[1]
      /\ runs[1] \in Run
  <2>1. offered \subseteq Nat
    BY <1>0
  <2>2. Work = runs[1] /\ 1 \in DOMAIN runs /\ Head(runs) = runs[1] /\ runs[1] \in Run
    BY <1>0, RunOfHead
  <2>. QED BY <1>0, <2>1, <2>2, ObservedIsFound
<1>2. fetched' \subseteq offered
  BY <1>1, FoundGrows
<1>3. ApiTypeOK'
  BY <1>0, <1>2 DEF ApiTypeOK
<1>4. ClockInv'
  BY <1>0, <1>2 DEF ClockInv
<1>5. ASSUME NEW h \in Nat, GapInv(h), Timely(h)'
      PROVE  AwaitedInv(h)' /\ FetchedInv(h)' /\ NewestInv(h)' /\ CauseInv(h)'
  <2>1. Timely(h)
    BY <1>5, <1>0 DEF Timely
  <2>2. AwaitedInv(h) /\ FetchedInv(h) /\ NewestInv(h) /\ CauseInv(h)
    BY <2>1, <1>5 DEF GapInv
  <2>3. AwaitedInv(h)' /\ CauseInv(h)'
    BY <1>0, <2>2 DEF AwaitedInv, CauseInv, HasRun, Pending
  <2>4. FetchedInv(h)'
    BY <1>0, <1>1, <2>2 DEF FetchedInv, AwaitedInv
  <2>5. NewestInv(h)'
    <3>. SUFFICES ASSUME api = "nm", NEW g \in fetched', h <= g
                  PROVE  h \in stored \cup fetched'
      BY <1>0, <2>2 DEF NewestInv
    <3>1. h < HourOf(runs[1].from) => h \in stored
      BY <1>1, <2>2 DEF NewestInv
    <3>2. h \in offered
      <4>1. g \in 0..hour
        BY <1>0, <1>2
      <4>2. h \in 0..hour /\ h \notin late
        BY <4>1, <1>0, <2>1 DEF Timely
      <4>. QED BY <4>2 DEF ClockInv
    <3>3. HourOf(runs[1].from) \in Int /\ HourOf(runs[1].to) \in Int /\ g \in Nat
      <4>1. g \in Nat
        BY <1>0, <1>2
      <4>2. runs[1].from \in Stamps /\ runs[1].to \in Stamps
        BY <1>1 DEF Run
      <4>3. ASSUME NEW st \in Stamps PROVE HourOf(st) \in Int
        BY ApiAssumed DEF Stamps, HourOf
      <4>. QED BY <4>1, <4>2, <4>3
    <3>4. g <= HourOf(runs[1].to)
      BY <1>1 DEF Found
    <3>5. CASE h >= HourOf(runs[1].from)
      <4>1. h <= HourOf(runs[1].to)
        BY <3>3, <3>4
      <4>2. h \in Found(api, offered, runs[1])
        BY <3>2, <3>5, <4>1 DEF Found
      <4>. QED BY <4>2, <1>1
    <3>. QED BY <3>1, <3>3, <3>5
  <2>. QED BY <2>3, <2>4, <2>5
<1>. QED BY <1>3, <1>4, <1>5 DEF GapInv

LEMMA WriteKeepsGaps ==
  ASSUME ApiTypeOK, ClockInv, WriteObservations
  PROVE  ApiTypeOK' /\ ClockInv' /\ \A h \in Nat : GapInv(h) => GapInv(h)'
<1>0. /\ runs # <<>> /\ stage = "write" /\ stage' = "publish" /\ stored' = stored \cup fetched
      /\ UNCHANGED <<api, https, apiQos, hour, ran, offered, late, runs, fetched, syncer,
                     lost, raised, apiFaults>>
  BY DEF WriteObservations, At
<1>1. ApiTypeOK'
  BY <1>0 DEF ApiTypeOK
<1>2. ClockInv'
  BY <1>0 DEF ClockInv
<1>3. ASSUME NEW h \in Nat, GapInv(h), Timely(h)'
      PROVE  AwaitedInv(h)' /\ FetchedInv(h)' /\ NewestInv(h)' /\ CauseInv(h)'
  <2>1. Timely(h)
    BY <1>3, <1>0 DEF Timely
  <2>2. AwaitedInv(h) /\ FetchedInv(h) /\ NewestInv(h) /\ CauseInv(h)
    BY <2>1, <1>3 DEF GapInv
  <2>3. AwaitedInv(h)'
    BY <1>0, <2>2 DEF AwaitedInv
  <2>4. FetchedInv(h)'
    BY <1>0, <2>2 DEF FetchedInv
  <2>5. NewestInv(h)'
    BY <1>0, <2>2 DEF NewestInv
  <2>6. CauseInv(h)'
    BY <1>0, <2>2 DEF CauseInv, HasRun, Pending
  <2>. QED BY <2>3, <2>4, <2>5, <2>6
<1>. QED BY <1>1, <1>2, <1>3 DEF GapInv

LEMMA IdleKeeps ==
  ASSUME ApiTypeOK, ClockInv, LoadSyncer \/ UNCHANGED apiVars
  PROVE  ApiTypeOK' /\ ClockInv' /\ \A h \in Nat : GapInv(h) => GapInv(h)'
<1>0. syncer' \in BOOLEAN
      /\ UNCHANGED <<api, https, apiQos, hour, ran, offered, late, runs, stage, fetched,
                     stored, lost, raised, apiFaults>>
  BY DEF LoadSyncer, apiVars, ApiTypeOK
<1>1. ApiTypeOK'
  BY <1>0 DEF ApiTypeOK
<1>2. ClockInv'
  BY <1>0 DEF ClockInv
<1>3. ASSUME NEW h \in Nat, GapInv(h) PROVE GapInv(h)'
  BY <1>3, <1>0
  DEF GapInv, Timely, AwaitedInv, FetchedInv, NewestInv, CauseInv, HasRun, Pending
<1>. QED BY <1>1, <1>2, <1>3

LEMMA ApiStep == ApiInv /\ [ApiNext]_apiVars => ApiInv'
<1>. SUFFICES ASSUME ApiInv, [ApiNext]_apiVars
              PROVE  ApiTypeOK' /\ ClockInv' /\ \A h \in Nat : GapInv(h) => GapInv(h)'
  BY DEF ApiInv
<1>0. ApiTypeOK /\ ClockInv
  BY DEF ApiInv
<1>1. ASSUME NEW punctual \in BOOLEAN, NextHour(punctual)
      PROVE  ApiTypeOK' /\ ClockInv' /\ \A h \in Nat : GapInv(h) => GapInv(h)'
  BY <1>0, <1>1, NextHourKeeps
<1>2. ASSUME NEW l \in late, OfferLate(l)
      PROVE  ApiTypeOK' /\ ClockInv' /\ \A h \in Nat : GapInv(h) => GapInv(h)'
  BY <1>0, <1>2, OfferLateKeeps
<1>3. CASE LoadFails \/ RequestFails \/ FetchRaises \/ BreakApi \/ PublishParsed
  <2>1. Ends \/ Returns
    BY <1>0, <1>3, EndsOrReturns
  <2>2. ApiTypeOK'
    BY <1>0, <1>3, SettledTypes
  <2>3. ClockInv'
    BY <1>0, <2>1, SettledClock
  <2>4. ASSUME NEW h \in Nat, GapInv(h) PROVE GapInv(h)'
    BY <1>0, <2>1, <2>4, SettledGaps
  <2>. QED BY <2>2, <2>3, <2>4
<1>4. CASE PublishApi
  BY <1>0, <1>4, PublishKeeps
<1>5. CASE Fetch
  BY <1>0, <1>5, FetchKeeps
<1>6. CASE WriteObservations
  BY <1>0, <1>6, WriteKeepsGaps
<1>7. CASE LoadSyncer \/ UNCHANGED apiVars
  BY <1>0, <1>7, IdleKeeps
<1>. QED BY <1>1, <1>2, <1>3, <1>4, <1>5, <1>6, <1>7 DEF ApiNext, ApiEnv, ApiWork

LEMMA ApiInvariance == ApiSpec => []ApiInv
<1>1. ApiInit => ApiInv
  BY ApiTypeInit, InitGaps DEF ApiInv
<1>. QED BY <1>1, ApiStep, PTL DEF ApiSpec

(***************************************************************************)
(* The types of the import of an API hold for every type of API, whatever  *)
(* the length of the day, the period, the faults and the late              *)
(* observations: no stamp that mqtt_sync_wrapper.py writes is out of its   *)
(* range, but for the hour 24 of UBA, which is in it.                      *)
(***************************************************************************)
THEOREM ApiTypeCorrect == ApiSpec => []ApiTypeOK
<1>1. ApiInv => ApiTypeOK
  BY DEF ApiInv
<1>. QED BY <1>1, ApiInvariance, PTL

(***************************************************************************)
(* However long the queue of the worker and however late it comes to a     *)
(* run, no observation that the provider offered in time is missing unless *)
(* all the runs that should fetch it were missed, failed or are still to   *)
(* come (the ranges of mqtt_sync_wrapper.py, the syncers of                *)
(* timeio/ext_api.py and the exits of sync_extapi_manager.py).             *)
(***************************************************************************)
THEOREM GapsExplained == ApiSpec => []GapsHaveACause
<1>1. ApiInv => GapsHaveACause
  <2>. SUFFICES ASSUME ApiInv, NEW h \in First..hour, h \notin late,
                       h \in Zeros => api \in {"nm", "custom"}, h \notin stored,
                       NEW t \in Chances(h), HasRun(t)
                PROVE  t \in lost \cup raised \cup Pending
    BY DEF GapsHaveACause
  <2>1. h \in Nat
    BY ApiAssumed DEF ApiInv, ApiTypeOK
  <2>2. Timely(h) /\ GapInv(h)
    BY <2>1 DEF Timely, ApiInv
  <2>3. t \in ChancesOf(api, h)
    BY DEF Chances, ChancesOf
  <2>. QED BY <2>2, <2>3 DEF GapInv, CauseInv
<1>. QED BY <1>1, ApiInvariance, PTL
-----------------------------------------------------------------------------
(***************************************************************************)
(* The composition.                                                        *)
(***************************************************************************)
\* A step of one part leaves the others alone.
LEMMA StepOfParts ==
  ASSUME [Next]_vars
  PROVE  [SftpNext]_sftpVars /\ [ApiNext]_apiVars /\ [SmsNext]_smsVars
<1>1. CASE OfSftp(SftpNext)
  BY <1>1 DEF OfSftp
<1>2. CASE OfApi(ApiNext)
  BY <1>2 DEF OfApi
<1>3. CASE OfSms(SmsNext)
  BY <1>3 DEF OfSms
<1>4. CASE UNCHANGED vars
  BY <1>4 DEF vars
<1>5. QED
  BY <1>1, <1>2, <1>3, <1>4 DEF Next

\* Each part starts as it does by itself.
LEMMA InitOfParts == Init => SftpInit /\ ApiInit /\ SmsInit
  BY DEF Init

\* So a behaviour of the composition is one of each part.
LEMMA ImplementsParts == Spec => SftpSpec /\ ApiSpec /\ SmsSpec
  BY StepOfParts, InitOfParts, PTL DEF Spec, SftpSpec, ApiSpec, SmsSpec

(***************************************************************************)
(* So the comparison of files hides no more under the job than it does by  *)
(* itself ...                                                              *)
(***************************************************************************)
THEOREM JobsOverlookLittle == Spec => []HiddenOnlyDuringUpload
  BY ImplementsParts, OverlooksLittle, PTL

(***************************************************************************)
(* ... and no job uploads again what is in the bucket, but for a file whose *)
(* time is later than its copy.                                            *)
(***************************************************************************)
THEOREM JobsUploadNews == Spec => EveryUploadIsNews
  BY ImplementsParts, UploadsAreNews, PTL

(***************************************************************************)
(* Nor is anything missing without a cause of what the job of a thing with *)
(* an API should have fetched.                                             *)
(***************************************************************************)
THEOREM JobsLeaveNoGap == Spec => []GapsHaveACause
  BY ImplementsParts, GapsExplained, PTL
=============================================================================
