------------------------- MODULE FileIngest_proofs -------------------------
(***************************************************************************)
(* For every set of files, contents and parsers and every number of        *)
(* uploads, changes, reparsings and faults: the types of FileIngest, and   *)
(* what tags and observations of a file at rest tell of its latest         *)
(* version.                                                                *)
(***************************************************************************)
EXTENDS FileIngest, SequenceTheorems, WellFoundedInduction, TLAPS

(***************************************************************************)
(* The inductive invariant.  Whoever names a file names one that exists.   *)
(***************************************************************************)
Exists(f) == Versions(f) # {}

KnownInv ==
  /\ \A i \in DOMAIN events : Exists(events[i][1])
  /\ \A f \in todo : Exists(f)
  /\ pc # "idle" => Exists(job.file)

JobInv ==
  /\ (job.file = NoFile) <=> (pc = "idle")
  /\ pc \in {"store", "announce"} => job.status = "successful"

TypeInv == TypeOK /\ KnownInv /\ JobInv

\* Why the latest version of the file in work will be truthful in the end.
Towards(f) ==
  /\ pc \in {"store", "mark", "announce"} => job.version = Latest(f)
  /\ pc \in {"mark", "announce"} /\ job.status = "successful" =>
       stored[f].version = Latest(f) /\ stored[f].label = job.label
  /\ pc = "announce" =>
       objects[Latest(f)].tag = [parser |-> job.label, status |-> "successful"]

\* ... and why it will be ingested.
Readable(f) == parser \in ReadableBy[objects[Latest(f)].content]

TowardsFresh(f) ==
  /\ job.reader = parser
  /\ pc \in {"store", "mark", "announce"} => (Readable(f) <=> job.status # "failed")
  /\ pc \in {"mark", "announce"} /\ job.status = "successful" => stored[f].reader = parser

\* Truthful but for the parser that the tag names.
Accounted(f) ==
  /\ objects[Latest(f)].tag # NoTag
  /\ objects[Latest(f)].tag.status = "successful" => Described(f)

Concerned(f) == Exists(f) /\ f \notin lost /\ ~Pending(f)

FileInv(f) ==
  Concerned(f) =>
    /\ job.file = f => Towards(f) /\ (f \notin stale => TowardsFresh(f))
    /\ job.file # f => Accounted(f) /\ (f \notin stale => Ingested(f))

IngestInv == \A f \in Matching : FileInv(f)

(***************************************************************************)
(* The parsers that tags name.  A job takes its label over from a tag of   *)
(* the file, or it is the parser that reads; that one is among those that  *)
(* have read the file when the job sets its tag.                           *)
(***************************************************************************)
RightName(i) == Successful(i) => objects[i].tag.parser \in HaveRead(objects[i].file)

NamesInv ==
  /\ \A i \in DOMAIN objects : RightName(i)
  /\ pc # "idle" => job.label = job.reader \/ job.label \in HaveRead(job.file)
  /\ pc \in {"mark", "announce"} /\ job.status = "successful" =>
       job.reader \in HaveRead(job.file)

Inv == TypeInv /\ IngestInv /\ NamesInv
-----------------------------------------------------------------------------
LEMMA LastIsLast ==
  ASSUME NEW n \in Nat, NEW S \in SUBSET (1..n), S # {}
  PROVE  Last(S) \in S /\ \A j \in S : j <= Last(S)
<1> DEFINE R == OpToRel(<, Nat)
           T == {n - i : i \in S}
<1>1. IsWellFoundedOn(R, Nat)
  BY NatLessThanWellFounded
<1>2. T \subseteq Nat /\ T # {}
  <2>1. ASSUME NEW i \in S PROVE n - i \in Nat
    <3>1. i \in 1..n
      OBVIOUS
    <3>. QED BY <3>1
  <2>2. T # {}
    <3>1. PICK i \in S : TRUE
      OBVIOUS
    <3>2. n - i \in T
      OBVIOUS
    <3>. QED BY <3>2
  <2>. QED BY <2>1, <2>2
<1>3. PICK x \in T : \A y \in T : ~(<<y, x>> \in R)
  <2>1. \E x \in T : \A y \in T : ~(<<y, x>> \in R)
    <3>. HIDE DEF R, T
    <3>. QED BY <1>1, <1>2, WFMin
  <2>. QED BY <2>1
<1>4. \A y \in T : ~(y < x)
  <2>1. \A y \in T : <<y, x>> \in R <=> y < x
    BY <1>2 DEF OpToRel
  <2>. QED BY <2>1, <1>3
<1>5. PICK i \in S : x = n - i
  OBVIOUS
<1>6. \A j \in S : j <= i
  <2>1. ASSUME NEW j \in S PROVE j <= i
    <3>1. ~(n - j < n - i)
      BY <1>4, <1>5
    <3>. QED BY <3>1
  <2>. QED BY <2>1
<1>. QED
  BY <1>6 DEF Last

\* Stops(f) lies in the versions, which are numbered from 1.
LEMMA LatestIsVersion ==
  ASSUME TypeOK, NEW f, Exists(f)
  PROVE  /\ Latest(f) \in Versions(f) /\ Latest(f) \in DOMAIN objects /\ Latest(f) \in Nat
         /\ objects[Latest(f)].file = f
         /\ objects[Latest(f)] \in Object
<1>1. Versions(f) \in SUBSET (1..Len(objects)) /\ Len(objects) \in Nat
  BY DEF TypeOK, Versions
<1>2. Latest(f) \in Versions(f)
  BY <1>1, LastIsLast DEF Exists, Latest
<1>3. Latest(f) \in DOMAIN objects /\ objects[Latest(f)].file = f
  BY <1>2 DEF Versions
<1>4. QED
  BY <1>1, <1>2, <1>3, ElementOfSeq DEF TypeOK

LEMMA StopIsListed ==
  ASSUME TypeOK, NEW f, Stops(f) # {}
  PROVE  Last(Stops(f)) \in Stops(f)
<1>1. Stops(f) \in SUBSET (1..Len(objects)) /\ Len(objects) \in Nat
  BY DEF TypeOK, Stops, Listed
<1>2. QED
  BY <1>1, LastIsLast

(***************************************************************************)
(* The types of the state, for every value of the constants.               *)
(***************************************************************************)
LEMMA InitTypes == Init => TypeInv
<1> SUFFICES ASSUME Init PROVE TypeOK /\ KnownInv /\ JobInv
  BY DEF TypeInv
<1>. USE IngestAssumption DEF Init, NoJob, NoData
<1>1. TypeOK
  BY DEF TypeOK, Statuses
<1>2. KnownInv /\ JobInv
  BY DEF KnownInv, JobInv
<1>3. QED
  BY <1>1, <1>2

\* Giving up a job leaves a state of the right type.
LEMMA ExitTypes ==
  ASSUME TypeInv, NEW f \in Files, Exit(f)
  PROVE  /\ pc' = "idle" /\ job' = NoJob /\ job'.file = NoFile
         /\ job' \in [file : Files \cup {NoFile}, reader : Parsers \cup {NoParser},
                      label : Parsers \cup {NoParser}, version : Nat, status : Statuses]
         /\ lost' \subseteq Files
  BY DEF TypeInv, TypeOK, Exit, NoJob, Statuses

LEMMA IdleTypes ==
  /\ NoJob \in [file : Files \cup {NoFile}, reader : Parsers \cup {NoParser},
                label : Parsers \cup {NoParser}, version : Nat, status : Statuses]
  /\ NoJob.file = NoFile
  BY DEF NoJob, Statuses

(***************************************************************************)
(* What the operations do to the existence of files.                       *)
(***************************************************************************)
LEMMA SameObjects ==
  ASSUME objects' = objects
  PROVE  /\ \A f : Versions(f)' = Versions(f) /\ Latest(f)' = Latest(f)
         /\ \A f : Exists(f)' <=> Exists(f)
  BY DEF Versions, Latest, Exists

LEMMA UploadObjects ==
  ASSUME TypeOK, NEW f \in Files, NEW c \in Contents, NEW kind \in Kinds, Upload(f, c, kind)
  PROVE  /\ objects' \in Seq(Object)
         /\ Exists(f)'
         /\ \A g : Exists(g) => Exists(g)'
         /\ \A g : g # f => Versions(g)' = Versions(g)
         /\ \A i \in DOMAIN objects : i \in DOMAIN objects' /\ objects'[i] = objects[i]
<1> DEFINE o == [file |-> f, content |-> c, tag |-> NoTag]
<1>1. o \in Object /\ o.file = f
  BY DEF Object
<1>2. objects' = Append(objects, o) /\ objects \in Seq(Object)
  BY DEF Upload, TypeOK
<1>. HIDE DEF o
<1>3. /\ objects' \in Seq(Object) /\ Len(objects') = Len(objects) + 1
      /\ \A i \in 1..Len(objects) : objects'[i] = objects[i]
      /\ objects'[Len(objects) + 1] = o
      /\ Len(objects) \in Nat
      /\ DOMAIN objects = 1..Len(objects) /\ DOMAIN objects' = 1..(Len(objects) + 1)
  BY <1>1, <1>2, AppendProperties
<1>4. \A i \in DOMAIN objects : i \in DOMAIN objects' /\ objects'[i] = objects[i]
  BY <1>3
<1>5. Len(objects) + 1 \in Versions(f)'
  BY <1>1, <1>3 DEF Versions
<1>6. \A g : Versions(g) \subseteq Versions(g)'
  BY <1>4 DEF Versions
<1>7. ASSUME NEW g, g # f
      PROVE  Versions(g)' = Versions(g)
  <2>1. ASSUME NEW i \in Versions(g)'
        PROVE  i \in Versions(g)
    BY <1>1, <1>3, <1>7, <2>1 DEF Versions
  <2>2. QED
    BY <1>6, <2>1
<1>8. QED
  BY <1>3, <1>4, <1>5, <1>6, <1>7 DEF Exists

LEMMA TagObjects ==
  ASSUME TypeInv, pc = "mark", objects' = Tagged
  PROVE  /\ objects' \in Seq(Object) /\ DOMAIN objects' = DOMAIN objects
         /\ \A f : Versions(f)' = Versions(f) /\ Latest(f)' = Latest(f)
         /\ \A f : Exists(f)' <=> Exists(f)
         /\ \A i \in DOMAIN objects : objects'[i].content = objects[i].content
         /\ \A i \in DOMAIN objects : i # Latest(job.file) => objects'[i] = objects[i]
         /\ objects'[Latest(job.file)].tag = [parser |-> job.label, status |-> job.status]
<1> DEFINE k == Latest(job.file)
           t == [parser |-> job.label, status |-> job.status]
<1>1. k \in DOMAIN objects /\ k \in 1..Len(objects)
  BY LatestIsVersion DEF TypeInv, TypeOK, KnownInv
<1>2. t \in Tag
  BY DEF Tag, TypeInv, TypeOK
<1>3. objects' = [objects EXCEPT ![k].tag = t] /\ objects \in Seq(Object)
  BY DEF Tagged, Target, TypeInv, TypeOK
<1>. HIDE DEF k, t
<1>4. /\ objects' = [objects EXCEPT ![k] = [objects[k] EXCEPT !.tag = t]]
      /\ objects[k] \in Object
  BY <1>1, <1>3, ElementOfSeq
<1>5. /\ [objects[k] EXCEPT !.tag = t] \in Object
      /\ [objects[k] EXCEPT !.tag = t].tag = t
      /\ [objects[k] EXCEPT !.tag = t].file = objects[k].file
      /\ [objects[k] EXCEPT !.tag = t].content = objects[k].content
  BY <1>2, <1>4 DEF Object
<1>6. /\ objects' \in Seq(Object) /\ DOMAIN objects' = DOMAIN objects
      /\ objects'[k] = [objects[k] EXCEPT !.tag = t]
      /\ \A i \in DOMAIN objects : i # k => objects'[i] = objects[i]
  BY <1>1, <1>3, <1>4, <1>5, ExceptSeq
<1>7. \A i \in DOMAIN objects :
        objects'[i].file = objects[i].file /\ objects'[i].content = objects[i].content
  BY <1>5, <1>6
<1>8. \A f : Versions(f)' = Versions(f)
  BY <1>6, <1>7 DEF Versions
<1>9. QED
  BY <1>5, <1>6, <1>7, <1>8 DEF Latest, Exists, k, t

(***************************************************************************)
(* What the operations do to the news of files.                            *)
(***************************************************************************)
LEMMA AppendNews ==
  ASSUME TypeOK, NEW g \in Files, NEW k \in Kinds, events' = Append(events, <<g, k>>)
  PROVE  /\ events' \in Seq(Files \X Kinds)
         /\ \A i \in DOMAIN events' : events'[i][1] = g \/ (i \in DOMAIN events /\ events'[i] = events[i])
         /\ \A f : Pending(f) => Pending(f)'
         /\ k = "Put" => Pending(g)'
<1> DEFINE e == <<g, k>>
<1>1. e \in Files \X Kinds /\ e[1] = g /\ e[2] = k
  OBVIOUS
<1>2. events' = Append(events, e) /\ events \in Seq(Files \X Kinds)
  BY DEF TypeOK
<1>. HIDE DEF e
<1>3. /\ events' \in Seq(Files \X Kinds)
      /\ \A i \in 1..Len(events) : events'[i] = events[i]
      /\ events'[Len(events) + 1] = e
      /\ Len(events) \in Nat
      /\ DOMAIN events = 1..Len(events) /\ DOMAIN events' = 1..(Len(events) + 1)
  BY <1>1, <1>2, AppendProperties
<1>4. \A i \in DOMAIN events' : i \in DOMAIN events \/ i = Len(events) + 1
  BY <1>3
<1>5. \A i \in DOMAIN events : i \in DOMAIN events' /\ events'[i] = events[i]
  BY <1>3
<1>6. \A f : Pending(f) => Pending(f)'
  BY <1>5 DEF Pending, IsValidEvent
<1>7. k = "Put" => Pending(g)'
  BY <1>1, <1>3 DEF Pending, IsValidEvent
<1>8. QED
  BY <1>1, <1>3, <1>4, <1>5, <1>6, <1>7

LEMMA TailNews ==
  ASSUME TypeOK, events # <<>>, events' = Tail(events)
  PROVE  /\ events' \in Seq(Files \X Kinds)
         /\ 1 \in DOMAIN events /\ Head(events) = events[1]
         /\ Head(events) \in Files \X Kinds /\ Head(events)[1] \in Files
         /\ \A i \in DOMAIN events' : i + 1 \in DOMAIN events /\ events'[i] = events[i + 1]
         /\ \A f : (Pending(f) /\ (f # Head(events)[1] \/ ~IsValidEvent(Head(events)))) => Pending(f)'
<1>1. /\ events \in Seq(Files \X Kinds) /\ events # <<>>
      /\ Len(events) \in Nat /\ Len(events) # 0 /\ DOMAIN events = 1..Len(events)
  BY EmptySeq, LenProperties DEF TypeOK
<1>2. /\ events' \in Seq(Files \X Kinds) /\ Len(events') = Len(events) - 1
      /\ \A i \in 1..Len(events') : events'[i] = events[i + 1]
      /\ DOMAIN events' = 1..Len(events')
  BY <1>1, HeadTailProperties, LenProperties
<1>3. 1 \in DOMAIN events /\ Head(events) = events[1]
  BY <1>1
<1>4. Head(events) \in Files \X Kinds
  BY <1>1, <1>3, ElementOfSeq
<1>5. \A i \in DOMAIN events' : i + 1 \in DOMAIN events /\ events'[i] = events[i + 1]
  BY <1>1, <1>2
<1>6. ASSUME NEW f, Pending(f), f # Head(events)[1] \/ ~IsValidEvent(Head(events))
      PROVE  Pending(f)'
  <2>1. PICK i \in DOMAIN events : events[i][1] = f /\ IsValidEvent(events[i])
    BY <1>6 DEF Pending
  <2>2. i # 1
    BY <1>3, <1>6, <2>1
  <2>3. i - 1 \in DOMAIN events' /\ events'[i - 1] = events[i]
    BY <1>1, <1>2, <2>2
  <2>4. QED
    BY <2>1, <2>3 DEF Pending, IsValidEvent
<1>7. QED
  BY <1>2, <1>3, <1>4, <1>5, <1>6

LEMMA NextTypes == TypeInv /\ [Next]_vars => TypeInv'
<1> SUFFICES ASSUME TypeInv, [Next]_vars
             PROVE  TypeOK' /\ KnownInv' /\ JobInv'
  BY DEF TypeInv
<1>a. TypeOK /\ KnownInv /\ JobInv
  BY DEF TypeInv
<1>. USE <1>a, IngestAssumption
<1>1. ASSUME NEW f \in Files, NEW c \in Contents, NEW kind \in Kinds, Upload(f, c, kind)
      PROVE  TypeOK' /\ KnownInv' /\ JobInv'
  <2>1. /\ objects' \in Seq(Object) /\ Exists(f)' /\ \A g : Exists(g) => Exists(g)'
    BY <1>1, UploadObjects
  <2>2. /\ events' \in Seq(Files \X Kinds)
        /\ \A i \in DOMAIN events' :
             events'[i][1] = f \/ (i \in DOMAIN events /\ events'[i] = events[i])
    BY <1>1, AppendNews DEF Upload
  <2>3. KnownInv'
    BY <1>1, <2>1, <2>2 DEF KnownInv, Upload
  <2>4. TypeOK' /\ JobInv'
    BY <1>1, <2>1, <2>2 DEF TypeOK, JobInv, Upload
  <2>5. QED
    BY <2>3, <2>4
<1>2. ASSUME NEW p \in Parsers, ChangeParser(p)
      PROVE  TypeOK' /\ KnownInv' /\ JobInv'
  BY <1>2, SameObjects DEF ChangeParser, TypeOK, KnownInv, JobInv
<1>3. ASSUME NEW S \in SUBSET Matching, StartReparsing(S)
      PROVE  TypeOK' /\ KnownInv' /\ JobInv'
  BY <1>3, SameObjects DEF StartReparsing, Exists, TypeOK, KnownInv, JobInv
<1>4. ASSUME NEW f \in Files, Reparse(f)
      PROVE  TypeOK' /\ KnownInv' /\ JobInv'
  <2>1. /\ events' \in Seq(Files \X Kinds)
        /\ \A i \in DOMAIN events' :
             events'[i][1] = f \/ (i \in DOMAIN events /\ events'[i] = events[i])
    BY <1>4, AppendNews DEF Reparse, Kinds
  <2>2. KnownInv'
    BY <1>4, <2>1, SameObjects DEF Reparse, KnownInv
  <2>3. TypeOK' /\ JobInv'
    BY <1>4, <2>1 DEF Reparse, TypeOK, JobInv
  <2>4. QED
    BY <2>2, <2>3
<1>5. CASE Ignore
  <2>1. /\ events' \in Seq(Files \X Kinds)
        /\ \A i \in DOMAIN events' : i + 1 \in DOMAIN events /\ events'[i] = events[i + 1]
    BY <1>5, TailNews DEF Ignore
  <2>2. KnownInv'
    BY <1>5, <2>1, SameObjects DEF Ignore, KnownInv
  <2>3. TypeOK' /\ JobInv'
    BY <1>5, <2>1 DEF Ignore, TypeOK, JobInv
  <2>4. QED
    BY <2>2, <2>3
<1>6. CASE TakeWithoutParser
  <2>1. /\ events' \in Seq(Files \X Kinds) /\ Head(events)[1] \in Files
        /\ \A i \in DOMAIN events' : i + 1 \in DOMAIN events /\ events'[i] = events[i + 1]
    BY <1>6, TailNews DEF TakeWithoutParser
  <2>2. KnownInv'
    BY <1>6, <2>1, SameObjects DEF TakeWithoutParser, KnownInv, Exit
  <2>3. TypeOK' /\ JobInv'
    BY <1>6, <2>1, ExitTypes DEF TakeWithoutParser, TypeOK, JobInv
  <2>4. QED
    BY <2>2, <2>3
<1>7. CASE Take
  <2> DEFINE f == Head(events)[1]
  <2>1. /\ events' \in Seq(Files \X Kinds) /\ 1 \in DOMAIN events /\ Head(events) = events[1]
        /\ \A i \in DOMAIN events' : i + 1 \in DOMAIN events /\ events'[i] = events[i + 1]
    BY <1>7, TailNews DEF Take
  <2>2. f \in Matching /\ f # NoFile /\ Exists(f) /\ parser \in Parsers
    BY <1>7, <2>1 DEF Take, Included, KnownInv, TypeOK
  <2>3. job' = [NoJob EXCEPT !.file = f, !.reader = parser, !.label = parser] /\ pc' = "look"
    BY <1>7 DEF Take
  <2>. HIDE DEF f
  <2>4. /\ job' \in [file : Files \cup {NoFile}, reader : Parsers \cup {NoParser},
                     label : Parsers \cup {NoParser}, version : Nat, status : Statuses]
        /\ job'.file = f /\ job'.reader = parser /\ job'.label = parser
    BY <2>2, <2>3 DEF NoJob, Statuses
  <2>5. KnownInv'
    BY <1>7, <2>1, <2>2, <2>4, SameObjects DEF Take, KnownInv
  <2>6. lost' \subseteq Files /\ stale' \subseteq Files
    BY <1>7 DEF Take, TypeOK
  <2>7. UNCHANGED <<objects, parser, todo, stored, replaced, announced>>
    BY <1>7 DEF Take
  <2>8. TypeOK' /\ JobInv'
    BY <2>1, <2>2, <2>3, <2>4, <2>6, <2>7 DEF TypeOK, JobInv
  <2>9. QED
    BY <2>5, <2>8
<1>8. CASE Look
  <2> DEFINE k == Last(Stops(job.file))
  <2>1. job' = [job EXCEPT !.label = IF Stops(job.file) = {} THEN @ ELSE objects[k].tag.parser]
    BY <1>8 DEF Look
  <2>2. ASSUME Stops(job.file) # {}
        PROVE  objects[k].tag.parser \in Parsers
    <3>1. k \in Stops(job.file) /\ objects[k].file = job.file
      BY <1>8, <2>2, StopIsListed DEF Look
    <3>2. k \in DOMAIN objects /\ objects[k].tag # NoTag
      BY <3>1 DEF Stops, Listed, Successful
    <3>3. objects[k] \in Object
      BY <3>2, ElementOfSeq DEF TypeOK
    <3>4. QED
      BY <3>2, <3>3 DEF Object, Tag
  <2>3. pc # "idle" /\ job.file \in Matching /\ job.reader \in Parsers /\ job.label \in Parsers
    BY <1>8 DEF Look, TypeOK
  <2>. HIDE DEF k
  <2>4. /\ job' \in [file : Files \cup {NoFile}, reader : Parsers \cup {NoParser},
                     label : Parsers \cup {NoParser}, version : Nat, status : Statuses]
        /\ job'.file = job.file /\ job'.reader = job.reader /\ job'.label \in Parsers
    BY <2>1, <2>2, <2>3 DEF TypeOK
  <2>5. pc' = "read" /\ UNCHANGED <<objects, events, parser, todo, stored, replaced, announced, lost, stale>>
    BY <1>8 DEF Look
  <2>6. KnownInv'
    BY <2>3, <2>4, <2>5, SameObjects DEF KnownInv
  <2>7. TypeOK' /\ JobInv'
    BY <2>3, <2>4, <2>5 DEF TypeOK, JobInv
  <2>8. QED
    BY <2>6, <2>7
<1>9. CASE LookFails
  <2>1. pc # "idle" /\ job.file \in Files
    BY <1>9 DEF LookFails, TypeOK
  <2>2. QED
    BY <1>9, <2>1, ExitTypes, SameObjects DEF LookFails, TypeOK, KnownInv, JobInv
<1>10. CASE Read
  <2> DEFINE i == Source(job.file)
             good == job.reader \in ReadableBy[objects[i].content]
  <2>1. pc # "idle" /\ job.file \in Matching /\ Exists(job.file)
    BY <1>10 DEF Read, TypeOK, KnownInv
  <2>2. i \in Nat
    BY <2>1, LatestIsVersion DEF Source
  <2>3. /\ job' = [job EXCEPT !.version = i, !.status = IF good THEN "successful" ELSE "failed"]
        /\ pc' = IF good THEN "store" ELSE "mark"
        /\ UNCHANGED <<objects, events, parser, todo, stored, replaced, announced, lost, stale>>
    BY <1>10 DEF Read
  <2>. HIDE DEF i, good
  <2>4. /\ job' \in [file : Files \cup {NoFile}, reader : Parsers \cup {NoParser},
                     label : Parsers \cup {NoParser}, version : Nat, status : Statuses]
        /\ job'.file = job.file /\ job'.reader = job.reader /\ job'.label = job.label
        /\ job'.status = IF good THEN "successful" ELSE "failed"
    BY <2>2, <2>3 DEF TypeOK, Statuses
  <2>5. KnownInv'
    BY <2>1, <2>3, <2>4, SameObjects DEF KnownInv
  <2>6. TypeOK' /\ JobInv'
    BY <2>1, <2>3, <2>4 DEF TypeOK, JobInv
  <2>7. QED
    BY <2>5, <2>6
<1>11. CASE ReadFails
  <2>1. pc # "idle" /\ job.file \in Files
    BY <1>11 DEF ReadFails, TypeOK
  <2>2. QED
    BY <1>11, <2>1, ExitTypes, SameObjects DEF ReadFails, TypeOK, KnownInv, JobInv
<1>12. ASSUME pc = "store"
       PROVE  /\ Upserted \in [Files -> [version : Nat, reader : Parsers \cup {NoParser},
                                         label : Parsers \cup {NoParser}]]
              /\ [replaced EXCEPT ![job.file] = @ \cup {stored[job.file].reader}]
                   \in [Files -> SUBSET (Parsers \cup {NoParser})]
  BY <1>12, IngestAssumption DEF Upserted, TypeOK
<1>13. CASE Store
  <2>1. KnownInv'
    BY <1>13, SameObjects DEF Store, KnownInv
  <2>2. QED
    BY <1>12, <1>13, <2>1 DEF Store, Upsert, TypeOK, JobInv
<1>14. CASE StoreFails
  <2>1. /\ job' \in [file : Files \cup {NoFile}, reader : Parsers \cup {NoParser},
                     label : Parsers \cup {NoParser}, version : Nat, status : Statuses]
        /\ job'.file = job.file /\ job'.reader = job.reader /\ job'.label = job.label
        /\ pc = "store" /\ pc' = "mark"
        /\ UNCHANGED <<objects, events, parser, todo, announced, lost, stale>>
    BY <1>14 DEF StoreFails, TypeOK, Statuses
  <2>2. KnownInv'
    BY <2>1, SameObjects DEF KnownInv
  <2>3. TypeOK' /\ JobInv'
    BY <1>12, <1>14, <2>1 DEF StoreFails, Upsert, TypeOK, JobInv
  <2>4. QED
    BY <2>2, <2>3
<1>15. CASE Mark
  <2>1. objects' \in Seq(Object) /\ \A f : Exists(f)' <=> Exists(f)
    BY <1>15, TagObjects DEF Mark
  <2>2. KnownInv'
    BY <1>15, <2>1 DEF Mark, KnownInv
  <2>3. TypeOK' /\ JobInv'
    BY <1>15, <2>1, IdleTypes DEF Mark, TypeOK, JobInv
  <2>4. QED
    BY <2>2, <2>3
<1>16. CASE MarkAndExit
  <2>1. objects' \in Seq(Object) /\ \A f : Exists(f)' <=> Exists(f)
    BY <1>16, TagObjects DEF MarkAndExit
  <2>2. pc # "idle" /\ job.file \in Files
    BY <1>16 DEF MarkAndExit, TypeOK
  <2>3. KnownInv'
    BY <1>16, <2>1, <2>2, ExitTypes DEF MarkAndExit, KnownInv
  <2>4. TypeOK' /\ JobInv'
    BY <1>16, <2>1, <2>2, ExitTypes DEF MarkAndExit, TypeOK, JobInv
  <2>5. QED
    BY <2>3, <2>4
<1>17. CASE Announce
  <2>1. announced' \in [Files -> Nat]
    BY <1>17 DEF Announce, TypeOK
  <2>2. QED
    BY <1>17, <2>1, IdleTypes, SameObjects DEF Announce, TypeOK, KnownInv, JobInv
<1>18. CASE Crash
  <2>1. pc # "idle" /\ job.file \in Files
    BY <1>18 DEF Crash, TypeOK
  <2>2. QED
    BY <1>18, <2>1, ExitTypes, SameObjects DEF Crash, TypeOK, KnownInv, JobInv
<1>19. CASE UNCHANGED vars
  BY <1>19, SameObjects DEF vars, TypeOK, KnownInv, JobInv
<1>20. QED
  BY <1>1, <1>2, <1>3, <1>4, <1>5, <1>6, <1>7, <1>8, <1>9, <1>10, <1>11, <1>13, <1>14, <1>15,
     <1>16, <1>17, <1>18, <1>19 DEF Next, Worker

(***************************************************************************)
(* The worker only works on files of its thing that match the pattern and  *)
(* exist, with parsers that exist (ParserJobHandler.act).                  *)
(***************************************************************************)
THEOREM TypeCorrect == Spec => []TypeOK
<1>1. Init => TypeInv
  BY InitTypes
<1>2. TypeInv /\ [Next]_vars => TypeInv'
  BY NextTypes
<1>3. TypeInv => TypeOK
  BY DEF TypeInv
<1>4. QED
  BY <1>1, <1>2, <1>3, PTL DEF Spec

(***************************************************************************)
(* The truth about files at rest.                                          *)
(***************************************************************************)
LEMMA InitIngest == Init => IngestInv
<1> SUFFICES ASSUME Init, NEW f \in Matching PROVE ~Exists(f)
  BY DEF IngestInv, FileInv, Concerned
<1>1. objects = <<>>
  BY DEF Init
<1>2. QED
  BY <1>1 DEF Exists, Versions

(***************************************************************************)
(* A step that touches neither the versions of a file nor its job nor its  *)
(* observations, and takes none of its news, is none of its business.      *)
(***************************************************************************)
LEMMA Untouched ==
  ASSUME TypeInv, NEW f \in Matching, FileInv(f),
         Versions(f)' = Versions(f),
         \A i \in Versions(f) : objects'[i] = objects[i],
         Pending(f) => Pending(f)', f \in lost => f \in lost',
         f \in stale => f \in stale', f \notin stale' => parser' = parser,
         stored'[f] = stored[f], announced'[f] = announced[f],
         (job'.file = f) <=> (job.file = f),
         job.file = f => job' = job /\ pc' = pc
  PROVE  FileInv(f)'
<1> SUFFICES ASSUME Concerned(f)'
             PROVE  /\ (job.file = f)' => Towards(f)' /\ (f \notin stale' => TowardsFresh(f)')
                    /\ (job.file # f)' => Accounted(f)' /\ (f \notin stale' => Ingested(f)')
  BY DEF FileInv
<1>1. Concerned(f)
  BY DEF Concerned, Exists
<1>2. Latest(f)' = Latest(f) /\ objects'[Latest(f)] = objects[Latest(f)]
  BY <1>1, LatestIsVersion DEF Latest, TypeInv, Concerned
<1>3. CASE job.file = f
  <2>1. Towards(f) /\ (f \notin stale => TowardsFresh(f))
    BY <1>1, <1>3 DEF FileInv
  <2>2. Towards(f)'
    BY <1>2, <1>3, <2>1 DEF Towards
  <2>3. f \notin stale' => TowardsFresh(f)'
    BY <1>2, <1>3, <2>1 DEF TowardsFresh, Readable
  <2>4. QED
    BY <1>3, <2>2, <2>3
<1>4. CASE job.file # f
  <2>1. Accounted(f) /\ (f \notin stale => Ingested(f))
    BY <1>1, <1>4 DEF FileInv
  <2>2. Accounted(f)'
    BY <1>2, <2>1 DEF Accounted, Described
  <2>3. f \notin stale' => Ingested(f)'
    BY <1>2, <2>1 DEF Ingested
  <2>4. QED
    BY <1>4, <2>2, <2>3
<1>5. QED
  BY <1>3, <1>4

\* A file whose last news was given up is of no concern until the next ones.
LEMMA GivenUp ==
  ASSUME TypeInv, NEW g, Exit(g), NEW f \in Matching, FileInv(f),
         job.file \in {g, NoFile},
         Versions(f)' = Versions(f), f # g => \A i \in Versions(f) : objects'[i] = objects[i],
         f # g /\ Pending(f) => Pending(f)',
         UNCHANGED <<stale, parser>>,
         f # g => stored'[f] = stored[f] /\ announced'[f] = announced[f]
  PROVE  FileInv(f)'
<1>1. CASE f = g
  BY <1>1 DEF Exit, FileInv, Concerned
<1>2. CASE f # g
  <2>1. job'.file # f /\ job.file # f
    BY <1>2, IdleTypes, IngestAssumption DEF Exit
  <2>2. QED
    BY <1>2, <2>1, Untouched DEF Exit
<1>3. QED
  BY <1>1, <1>2

(***************************************************************************)
(* The steps of the worker on the file of its job.                         *)
(***************************************************************************)
LEMMA TakeOwn ==
  ASSUME TypeInv, Take, NEW f \in Matching, f = Head(events)[1]
  PROVE  FileInv(f)'
<1>1. job' = [NoJob EXCEPT !.file = f, !.reader = parser, !.label = parser]
  BY DEF Take
<1>2. job'.file = f /\ job'.reader = parser
  BY <1>1 DEF NoJob
<1>3. pc' = "look" /\ parser' = parser
  BY DEF Take
<1>4. Towards(f)' /\ TowardsFresh(f)'
  BY <1>2, <1>3 DEF Towards, TowardsFresh
<1>5. QED
  BY <1>2, <1>4 DEF FileInv

LEMMA LookOwn ==
  ASSUME TypeInv, Look, NEW f \in Matching, job.file = f, FileInv(f)
  PROVE  FileInv(f)'
<1>1. job'.file = job.file /\ job'.reader = job.reader
  BY DEF Look, TypeInv, TypeOK
<1>2. pc' = "read" /\ UNCHANGED <<objects, events, parser, lost, stale>>
  BY DEF Look
<1>3. Concerned(f)' <=> Concerned(f)
  BY <1>2, SameObjects DEF Concerned, Pending
<1>4. Towards(f)'
  BY <1>2 DEF Towards
<1>5. Concerned(f) /\ f \notin stale => TowardsFresh(f)'
  BY <1>1, <1>2 DEF FileInv, TowardsFresh
<1>6. QED
  BY <1>1, <1>2, <1>3, <1>4, <1>5 DEF FileInv

LEMMA ReadOwn ==
  ASSUME TypeInv, Read, NEW f \in Matching, job.file = f, FileInv(f)
  PROVE  FileInv(f)'
<1> DEFINE i == Latest(f)
           good == job.reader \in ReadableBy[objects[i].content]
<1>1. /\ job' = [job EXCEPT !.version = i, !.status = IF good THEN "successful" ELSE "failed"]
      /\ pc' = IF good THEN "store" ELSE "mark"
      /\ UNCHANGED <<objects, events, parser, lost, stale>>
  BY DEF Read, Source
<1>. HIDE DEF i, good
<1>2. /\ job'.file = f /\ job'.reader = job.reader /\ job'.version = i
      /\ job'.status = IF good THEN "successful" ELSE "failed"
  BY <1>1 DEF TypeInv, TypeOK
<1>3. Latest(f)' = i /\ (Concerned(f)' <=> Concerned(f))
  BY <1>1, SameObjects DEF Concerned, Pending, i
<1>4. Towards(f)'
  BY <1>1, <1>2, <1>3 DEF Towards
<1>5. ASSUME Concerned(f), f \notin stale
      PROVE  TowardsFresh(f)'
  <2>1. job.reader = parser
    BY <1>5 DEF FileInv, TowardsFresh
  <2>2. Readable(f)' <=> good
    BY <1>1, <1>3, <2>1 DEF Readable, good, i
  <2>3. QED
    BY <1>1, <1>2, <2>1, <2>2 DEF TowardsFresh
<1>6. QED
  BY <1>1, <1>2, <1>3, <1>4, <1>5 DEF FileInv

LEMMA StoreOwn ==
  ASSUME TypeInv, Store \/ StoreFails, NEW f \in Matching, job.file = f, FileInv(f)
  PROVE  FileInv(f)'
<1>1. /\ pc = "store" /\ pc' = "mark"
      /\ UNCHANGED <<objects, events, parser, lost, stale>>
  BY DEF Store, StoreFails
<1>2. /\ job'.file = f /\ job'.reader = job.reader /\ job'.version = job.version
      /\ job'.label = job.label /\ job'.status # "failed"
      /\ job'.status = "successful" => stored' = Upserted
  BY DEF Store, StoreFails, Upsert, TypeInv, TypeOK, JobInv
<1>3. Latest(f)' = Latest(f) /\ (Concerned(f)' <=> Concerned(f)) /\ (Readable(f)' <=> Readable(f))
  BY <1>1, SameObjects DEF Concerned, Pending, Readable
<1>4. Upserted[f] = [version |-> job.version, reader |-> job.reader, label |-> job.label]
  BY IngestAssumption DEF Upserted, TypeInv, TypeOK
<1>5. /\ Upserted[f].version = job.version /\ Upserted[f].reader = job.reader
      /\ Upserted[f].label = job.label
  BY <1>4
<1>6. ASSUME Concerned(f)
      PROVE  Towards(f)' /\ (f \notin stale => TowardsFresh(f)')
  <2>1. Towards(f) /\ (f \notin stale => TowardsFresh(f))
    BY <1>6 DEF FileInv
  <2>2. job.version = Latest(f)
    BY <1>1, <2>1 DEF Towards
  <2>3. Towards(f)'
    BY <1>1, <1>2, <1>3, <1>5, <2>2 DEF Towards
  <2>4. f \notin stale => TowardsFresh(f)'
    BY <1>1, <1>2, <1>3, <1>5, <2>1 DEF TowardsFresh, TypeInv, JobInv
  <2>5. QED
    BY <2>3, <2>4
<1>7. QED
  BY <1>1, <1>2, <1>3, <1>6 DEF FileInv

LEMMA MarkOwn ==
  ASSUME TypeInv, Mark, NEW f \in Matching, job.file = f, FileInv(f)
  PROVE  FileInv(f)'
<1>1. /\ pc = "mark" /\ objects' = Tagged
      /\ UNCHANGED <<events, parser, stored, announced, lost, stale>>
      /\ job.status \in {"successful", "failed"}
  BY DEF Mark, TypeInv, TypeOK, Statuses
<1>2. /\ Latest(f)' = Latest(f) /\ (Concerned(f)' <=> Concerned(f))
      /\ objects'[Latest(f)].tag = [parser |-> job.label, status |-> job.status]
  BY <1>1, TagObjects DEF Concerned, Pending
<1>3. ASSUME Concerned(f)
      PROVE  objects'[Latest(f)].content = objects[Latest(f)].content
  BY <1>1, <1>3, TagObjects, LatestIsVersion DEF TypeInv, Concerned
<1>4. objects'[Latest(f)].tag # NoTag /\ objects'[Latest(f)].tag.status = job.status
      /\ objects'[Latest(f)].tag.parser = job.label
  <2>1. [parser |-> job.label, status |-> job.status]
          \in [parser : Parsers, status : {"successful", "failed", "db_insert_failed"}]
    BY <1>1 DEF TypeInv, TypeOK
  <2>2. QED
    BY <1>2, <2>1, IngestAssumption
<1>5. ASSUME Concerned(f)
      PROVE  /\ Towards(f) /\ (f \notin stale => TowardsFresh(f))
             /\ Readable(f)' <=> Readable(f)
  BY <1>1, <1>2, <1>3, <1>5 DEF FileInv, Readable
<1>6. CASE job.status = "successful"
  <2>1. pc' = "announce" /\ job' = job
    BY <1>6 DEF Mark
  <2>2. Concerned(f) => Towards(f)'
    BY <1>1, <1>2, <1>5, <1>6, <2>1 DEF Towards
  <2>3. Concerned(f) /\ f \notin stale => TowardsFresh(f)'
    BY <1>1, <1>5, <1>6, <2>1 DEF TowardsFresh
  <2>4. QED
    BY <1>1, <1>2, <2>1, <2>2, <2>3 DEF FileInv
<1>7. CASE job.status = "failed"
  <2>1. job' = NoJob /\ job'.file # f
    BY <1>7, IdleTypes, IngestAssumption DEF Mark
  <2>2. Accounted(f)'
    BY <1>2, <1>4, <1>7 DEF Accounted, Described
  <2>3. Concerned(f) /\ f \notin stale => Ingested(f)'
    <3>1. ASSUME Concerned(f), f \notin stale
          PROVE  ~Readable(f)'
      BY <1>1, <1>5, <1>7, <3>1 DEF TowardsFresh
    <3>2. QED
      BY <1>2, <1>4, <1>7, <3>1 DEF Ingested, Readable
  <2>4. QED
    BY <1>1, <1>2, <2>1, <2>2, <2>3 DEF FileInv
<1>8. QED
  BY <1>1, <1>6, <1>7

LEMMA AnnounceOwn ==
  ASSUME TypeInv, Announce, NEW f \in Matching, job.file = f, FileInv(f)
  PROVE  FileInv(f)'
<1>1. /\ pc = "announce" /\ UNCHANGED <<objects, events, parser, stored, lost, stale>>
      /\ job' = NoJob /\ job'.file # f /\ job.status = "successful"
  BY IdleTypes, IngestAssumption DEF Announce, TypeInv, JobInv
<1>2. announced'[f] = job.version
  BY IngestAssumption DEF Announce, TypeInv, TypeOK
<1>3. /\ Latest(f)' = Latest(f) /\ (Concerned(f)' <=> Concerned(f))
      /\ Readable(f)' <=> Readable(f)
  BY <1>1, SameObjects DEF Concerned, Pending, Readable
<1>4. [parser |-> job.label, status |-> "successful"]
        \in [parser : Parsers, status : {"successful", "failed", "db_insert_failed"}]
  BY <1>1 DEF TypeInv, TypeOK
<1>5. ASSUME Concerned(f)
      PROVE  Accounted(f)' /\ (f \notin stale => Ingested(f)')
  <2>1. Towards(f) /\ (f \notin stale => TowardsFresh(f))
    BY <1>5 DEF FileInv
  <2>2. /\ objects[Latest(f)].tag = [parser |-> job.label, status |-> "successful"]
        /\ job.version = Latest(f)
        /\ stored[f].version = Latest(f) /\ stored[f].label = job.label
    BY <1>1, <2>1 DEF Towards
  <2>3. objects[Latest(f)].tag # NoTag /\ objects[Latest(f)].tag.parser = job.label
    BY <1>4, <2>2, IngestAssumption
  <2>4. Accounted(f)'
    BY <1>1, <1>2, <1>3, <2>2, <2>3 DEF Accounted, Described
  <2>5. ASSUME f \notin stale
        PROVE  Readable(f) /\ stored[f].reader = parser
    BY <1>1, <2>1, <2>5 DEF TowardsFresh
  <2>6. f \notin stale => Ingested(f)'
    BY <1>1, <1>3, <2>2, <2>5 DEF Ingested, Readable
  <2>7. QED
    BY <2>4, <2>6
<1>6. QED
  BY <1>1, <1>3, <1>5 DEF FileInv

LEMMA NextIngest == TypeInv /\ IngestInv /\ [Next]_vars => IngestInv'
<1> SUFFICES ASSUME TypeInv, IngestInv, [Next]_vars, NEW f \in Matching
             PROVE  FileInv(f)'
  BY DEF IngestInv
<1>a. FileInv(f) /\ f \in Files /\ TypeOK
  BY IngestAssumption DEF IngestInv, TypeInv
<1>b. \A i \in Versions(f) : i \in DOMAIN objects
  BY DEF Versions
<1>. USE <1>a
<1>1. ASSUME NEW g \in Files, NEW c \in Contents, NEW kind \in Kinds, Upload(g, c, kind)
      PROVE  FileInv(f)'
  <2>1. /\ \A i \in Versions(f) : objects'[i] = objects[i]
        /\ f # g => Versions(f)' = Versions(f)
    BY <1>1, <1>b, UploadObjects
  <2>2. (Pending(f) => Pending(f)') /\ (kind = "Put" => Pending(g)')
    BY <1>1, AppendNews DEF Upload
  <2>3. CASE f = g
    <3>1. ~Concerned(f)'
      BY <1>1, <2>2, <2>3 DEF Upload, Concerned
    <3>2. QED
      BY <3>1 DEF FileInv
  <2>4. CASE f # g
    BY <1>1, <2>1, <2>2, <2>4, Untouched DEF Upload
  <2>5. QED
    BY <2>3, <2>4
<1>2. ASSUME NEW p \in Parsers, ChangeParser(p)
      PROVE  FileInv(f)'
  BY <1>2, SameObjects, Untouched DEF ChangeParser, Pending
<1>3. ASSUME NEW S \in SUBSET Matching, StartReparsing(S)
      PROVE  FileInv(f)'
  BY <1>3, SameObjects, Untouched DEF StartReparsing, Pending
<1>4. ASSUME NEW g \in Files, Reparse(g)
      PROVE  FileInv(f)'
  <2>1. Pending(f) => Pending(f)'
    BY <1>4, AppendNews DEF Reparse, Kinds
  <2>2. QED
    BY <1>4, <2>1, SameObjects, Untouched DEF Reparse
<1>5. CASE Ignore
  <2>1. f # Head(events)[1] \/ ~IsValidEvent(Head(events))
    BY <1>5 DEF Ignore, Included
  <2>2. Pending(f) => Pending(f)'
    BY <1>5, <2>1, TailNews DEF Ignore
  <2>3. QED
    BY <1>5, <2>2, SameObjects, Untouched DEF Ignore
<1>6. CASE TakeWithoutParser
  <2> DEFINE g == Head(events)[1]
  <2>1. f # g /\ Pending(f) => Pending(f)'
    BY <1>6, TailNews DEF TakeWithoutParser
  <2>2. job.file = NoFile /\ Exit(g)
    BY <1>6 DEF TakeWithoutParser, TypeInv, JobInv
  <2>. HIDE DEF g
  <2>3. QED
    BY <1>6, <2>1, <2>2, SameObjects, GivenUp DEF TakeWithoutParser
<1>7. CASE Take
  <2> DEFINE g == Head(events)[1]
  <2>1. CASE f = g
    BY <1>7, <2>1, TakeOwn
  <2>2. CASE f # g
    <3>1. Pending(f) => Pending(f)'
      BY <1>7, <2>2, TailNews DEF Take
    <3>2. job.file = NoFile /\ job' = [NoJob EXCEPT !.file = g, !.reader = parser, !.label = parser]
      BY <1>7 DEF Take, TypeInv, JobInv
    <3>3. lost' = lost \ {g} /\ stale' = stale \ {g}
      BY <1>7 DEF Take
    <3>. HIDE DEF g
    <3>4. job'.file = g /\ job.file # f
      BY <3>2, IngestAssumption DEF NoJob
    <3>5. QED
      BY <1>7, <2>2, <3>1, <3>3, <3>4, SameObjects, Untouched DEF Take
  <2>3. QED
    BY <2>1, <2>2
<1>8. CASE Look
  <2>1. job'.file = job.file
    BY <1>8 DEF Look, TypeOK
  <2>2. CASE job.file = f
    BY <1>8, <2>2, LookOwn
  <2>3. CASE job.file # f
    BY <1>8, <2>1, <2>3, SameObjects, Untouched DEF Look, Pending
  <2>4. QED
    BY <2>2, <2>3
<1>9. CASE LookFails
  BY <1>9, SameObjects, GivenUp DEF LookFails, Pending
<1>10. CASE Read
  <2>1. job'.file = job.file
    BY <1>10 DEF Read, TypeOK
  <2>2. CASE job.file = f
    BY <1>10, <2>2, ReadOwn
  <2>3. CASE job.file # f
    BY <1>10, <2>1, <2>3, SameObjects, Untouched DEF Read, Pending
  <2>4. QED
    BY <2>2, <2>3
<1>11. CASE ReadFails
  BY <1>11, SameObjects, GivenUp DEF ReadFails, Pending
<1>12. CASE Store \/ StoreFails
  <2>1. job'.file = job.file
    BY <1>12 DEF Store, StoreFails, TypeOK
  <2>2. job.file # f => stored'[f] = stored[f]
    BY <1>12 DEF Store, StoreFails, Upsert, Upserted, TypeOK
  <2>3. CASE job.file = f
    BY <1>12, <2>3, StoreOwn
  <2>4. CASE job.file # f
    BY <1>12, <2>1, <2>2, <2>4, SameObjects, Untouched DEF Store, StoreFails, Pending
  <2>5. QED
    BY <2>3, <2>4
<1>13. ASSUME pc = "mark", objects' = Tagged, job.file # f
       PROVE  Versions(f)' = Versions(f) /\ \A i \in Versions(f) : objects'[i] = objects[i]
  <2>1. /\ Versions(f)' = Versions(f)
        /\ \A i \in DOMAIN objects : i # Latest(job.file) => objects'[i] = objects[i]
    BY <1>13, TagObjects
  <2>2. objects[Latest(job.file)].file = job.file
    BY <1>13, LatestIsVersion DEF TypeInv, KnownInv
  <2>3. \A i \in Versions(f) : i # Latest(job.file)
    BY <1>13, <2>2 DEF Versions
  <2>4. QED
    BY <1>b, <2>1, <2>3
<1>14. CASE Mark
  <2>1. CASE job.file = f
    BY <1>14, <2>1, MarkOwn
  <2>2. CASE job.file # f
    <3>1. job'.file # f
      BY <1>14, <2>2, IdleTypes, IngestAssumption DEF Mark
    <3>2. QED
      BY <1>13, <1>14, <2>2, <3>1, Untouched DEF Mark, Pending
  <2>3. QED
    BY <2>1, <2>2
<1>15. CASE MarkAndExit
  <2>1. Versions(f)' = Versions(f)
    BY <1>15, TagObjects DEF MarkAndExit
  <2>2. QED
    BY <1>13, <1>15, <2>1, GivenUp DEF MarkAndExit, Pending
<1>16. CASE Announce
  <2>1. CASE job.file = f
    BY <1>16, <2>1, AnnounceOwn
  <2>2. CASE job.file # f
    <3>1. job'.file # f /\ announced'[f] = announced[f]
      BY <1>16, <2>2, IdleTypes, IngestAssumption DEF Announce, TypeOK
    <3>2. QED
      BY <1>16, <2>2, <3>1, SameObjects, Untouched DEF Announce, Pending
  <2>3. QED
    BY <2>1, <2>2
<1>17. CASE Crash
  BY <1>17, SameObjects, GivenUp DEF Crash, Pending
<1>18. CASE UNCHANGED vars
  BY <1>18, SameObjects, Untouched DEF vars, Pending
<1>19. QED
  BY <1>1, <1>2, <1>3, <1>4, <1>5, <1>6, <1>7, <1>8, <1>9, <1>10, <1>11, <1>12, <1>14, <1>15,
     <1>16, <1>17, <1>18 DEF Next, Worker

(***************************************************************************)
(* What has read a file stays known.                                       *)
(***************************************************************************)
LEMMA ReadersStay ==
  ASSUME TypeInv, UNCHANGED <<stored, replaced>> \/ (pc = "store" /\ Upsert)
  PROVE  /\ \A f \in Files : HaveRead(f) \subseteq HaveRead(f)'
         /\ pc = "store" /\ Upsert =>
              \A f \in Files : f = job.file => job.reader \in HaveRead(f)'
<1>1. CASE UNCHANGED <<stored, replaced>> /\ ~(pc = "store" /\ Upsert)
  BY <1>1 DEF HaveRead
<1>2. CASE pc = "store" /\ Upsert
  <2>1. job.file \in Files /\ stored \in [Files -> [version : Nat, reader : Parsers \cup {NoParser},
                                                    label : Parsers \cup {NoParser}]]
        /\ replaced \in [Files -> SUBSET (Parsers \cup {NoParser})]
    BY <1>2, IngestAssumption DEF TypeInv, TypeOK
  <2>2. /\ \A f \in Files : f # job.file => stored'[f] = stored[f] /\ replaced'[f] = replaced[f]
        /\ replaced'[job.file] = replaced[job.file] \cup {stored[job.file].reader}
        /\ stored'[job.file].reader = job.reader
    BY <1>2, <2>1 DEF Upsert, Upserted
  <2>3. QED
    BY <1>2, <2>1, <2>2 DEF HaveRead
<1>3. QED
  BY <1>1, <1>2

\* A step that sets no tag keeps what the tags name.
LEMMA TagsStay ==
  ASSUME TypeInv, NamesInv,
         \A f \in Files : HaveRead(f) \subseteq HaveRead(f)',
         \A i \in DOMAIN objects' :
           \/ i \in DOMAIN objects /\ objects'[i] = objects[i]
           \/ objects'[i].tag = NoTag
  PROVE  \A i \in DOMAIN objects' : RightName(i)'
<1> SUFFICES ASSUME NEW i \in DOMAIN objects', Successful(i)'
             PROVE  RightName(i)'
  BY DEF RightName
<1>1. i \in DOMAIN objects /\ objects'[i] = objects[i]
  BY DEF Successful
<1>2. Successful(i)
  BY <1>1 DEF Successful
<1>3. objects[i].tag.parser \in HaveRead(objects[i].file)
  BY <1>1, <1>2 DEF NamesInv, RightName
<1>4. objects[i].file \in Files
  <2>1. objects[i] \in Object
    BY <1>1, ElementOfSeq DEF TypeInv, TypeOK
  <2>2. QED
    BY <2>1 DEF Object
<1> DEFINE f == objects[i].file
<1>5. HaveRead(f) \subseteq HaveRead(f)'
  <2>1. PICK g \in Files : g = f
    BY <1>4
  <2>2. HaveRead(g) \subseteq HaveRead(g)'
    OBVIOUS
  <2>3. QED
    BY <1>1, <2>1, <2>2 DEF HaveRead
<1>6. QED
  BY <1>1, <1>3, <1>5 DEF RightName, HaveRead

LEMMA NextNames == TypeInv /\ NamesInv /\ [Next]_vars => NamesInv'
<1> SUFFICES ASSUME TypeInv, NamesInv, [Next]_vars
             PROVE  NamesInv'
  OBVIOUS
<1> DEFINE Label == pc # "idle" => job.label = job.reader \/ job.label \in HaveRead(job.file)
           Reader == pc \in {"mark", "announce"} /\ job.status = "successful" =>
                       job.reader \in HaveRead(job.file)
<1>a. (\A i \in DOMAIN objects : RightName(i)) /\ Label /\ Reader
  BY DEF NamesInv
<1>b. (\A i \in DOMAIN objects' : RightName(i)') /\ Label' /\ Reader' => NamesInv'
  BY DEF NamesInv
<1>c. UNCHANGED objects =>
        \A i \in DOMAIN objects' : i \in DOMAIN objects /\ objects'[i] = objects[i]
  OBVIOUS
<1>d. UNCHANGED <<stored, replaced>> => \A f : HaveRead(f)' = HaveRead(f)
  BY DEF HaveRead
<1>e. ASSUME UNCHANGED <<objects, stored, replaced>>, Label', Reader'
      PROVE  NamesInv'
  BY <1>b, <1>c, <1>d, <1>e, TagsStay
<1>1. ASSUME NEW f \in Files, NEW c \in Contents, NEW kind \in Kinds, Upload(f, c, kind)
      PROVE  NamesInv'
  <2>1. UNCHANGED <<pc, job, stored, replaced>>
    BY <1>1 DEF Upload
  <2>2. \A i \in DOMAIN objects' :
          (i \in DOMAIN objects /\ objects'[i] = objects[i]) \/ objects'[i].tag = NoTag
    <3> DEFINE o == [file |-> f, content |-> c, tag |-> NoTag]
    <3>1. objects' = Append(objects, o) /\ o.tag = NoTag /\ objects \in Seq(Object)
      BY <1>1 DEF Upload, TypeInv, TypeOK
    <3>. HIDE DEF o
    <3>2. QED
      BY <3>1
  <2>3. \A g \in Files : HaveRead(g) \subseteq HaveRead(g)'
    BY <1>d, <2>1
  <2>4. \A i \in DOMAIN objects' : RightName(i)'
    BY <2>2, <2>3, TagsStay
  <2>5. Label' /\ Reader'
    BY <1>a, <1>d, <2>1
  <2>6. QED
    BY <1>b, <2>4, <2>5
<1>2. ASSUME UNCHANGED <<objects, pc, job, stored, replaced>>
      PROVE  NamesInv'
  BY <1>2, <1>a, <1>d, <1>e
<1>3. ASSUME UNCHANGED <<objects, stored, replaced>>, pc' = "idle"
      PROVE  NamesInv'
  BY <1>3, <1>e
<1>4. CASE Take
  <2>1. /\ UNCHANGED <<objects, stored, replaced>> /\ pc' = "look"
        /\ job' = [NoJob EXCEPT !.file = Head(events)[1], !.reader = parser, !.label = parser]
    BY <1>4 DEF Take
  <2>2. job'.label = job'.reader
    BY <2>1 DEF NoJob
  <2>3. QED
    BY <1>e, <2>1, <2>2
<1>5. CASE Look
  <2> DEFINE k == Last(Stops(job.file))
             label == IF Stops(job.file) = {} THEN job.label ELSE objects[k].tag.parser
  <2>1. /\ UNCHANGED <<objects, stored, replaced>> /\ pc = "look" /\ pc' = "read"
        /\ job' = [job EXCEPT !.label = label]
    BY <1>5 DEF Look
  <2>2. Stops(job.file) # {} => objects[k].tag.parser \in HaveRead(job.file)
    <3>1. SUFFICES ASSUME Stops(job.file) # {}
                   PROVE  objects[k].tag.parser \in HaveRead(job.file)
      OBVIOUS
    <3>2. k \in Stops(job.file) /\ objects[k].file = job.file
      BY <1>5, <3>1, StopIsListed DEF Look, TypeInv
    <3>3. k \in DOMAIN objects /\ Successful(k)
      BY <3>2 DEF Stops, Listed
    <3>4. QED
      BY <1>a, <3>2, <3>3 DEF RightName
  <2>. HIDE DEF k
  <2>3. job'.label = label /\ job'.reader = job.reader /\ job'.file = job.file
    BY <2>1 DEF TypeInv, TypeOK
  <2>4. label = job.reader \/ label \in HaveRead(job.file)
    BY <1>a, <2>1, <2>2
  <2>5. Label' /\ Reader'
    BY <1>d, <2>1, <2>3, <2>4
  <2>6. QED
    BY <1>e, <2>1, <2>5
<1>6. CASE Read
  <2> DEFINE good == job.reader \in ReadableBy[objects[Source(job.file)].content]
  <2>1. /\ UNCHANGED <<objects, stored, replaced>> /\ pc = "read"
        /\ pc' = IF good THEN "store" ELSE "mark"
        /\ job' = [job EXCEPT !.version = Source(job.file),
                              !.status = IF good THEN "successful" ELSE "failed"]
    BY <1>6 DEF Read
  <2>. HIDE DEF good
  <2>2. /\ job'.label = job.label /\ job'.reader = job.reader /\ job'.file = job.file
        /\ job'.status = IF good THEN "successful" ELSE "failed"
    BY <2>1 DEF TypeInv, TypeOK
  <2>3. Label' /\ Reader'
    BY <1>a, <1>d, <2>1, <2>2
  <2>4. QED
    BY <1>e, <2>1, <2>3
<1>7. CASE Store \/ StoreFails
  <2>1. /\ UNCHANGED objects /\ pc = "store" /\ pc' = "mark"
        /\ (UNCHANGED <<stored, replaced>> /\ job'.status # "successful") \/ Upsert
        /\ job'.label = job.label /\ job'.reader = job.reader /\ job'.file = job.file
    BY <1>7 DEF Store, StoreFails, TypeInv, TypeOK
  <2>2. PICK f \in Files : f = job.file
    BY <2>1, IngestAssumption DEF TypeInv, TypeOK
  <2>3. /\ \A g \in Files : HaveRead(g) \subseteq HaveRead(g)'
        /\ Upsert => job.reader \in HaveRead(f)'
    BY <2>1, <2>2, ReadersStay
  <2>4. \A i \in DOMAIN objects' : RightName(i)'
    BY <1>c, <2>1, <2>3, TagsStay
  <2>5. f = job'.file /\ HaveRead(f) \subseteq HaveRead(f)'
    BY <2>1, <2>2, <2>3
  <2>6. job.label = job.reader \/ job.label \in HaveRead(f)
    BY <1>a, <2>1, <2>2
  <2>7. Label'
    <3>1. job'.label = job'.reader \/ job'.label \in HaveRead(f)'
      BY <2>1, <2>5, <2>6
    <3>2. QED
      BY <2>5, <3>1 DEF HaveRead
  <2>8. Reader'
    <3>1. job'.status = "successful" => job'.reader \in HaveRead(f)'
      BY <2>1, <2>3
    <3>2. QED
      BY <2>5, <3>1 DEF HaveRead
  <2>9. QED
    BY <1>b, <2>4, <2>7, <2>8
<1>8. ASSUME pc = "mark", objects' = Tagged, UNCHANGED <<stored, replaced>>, Label', Reader'
      PROVE  NamesInv'
  <2>1. Exists(job.file) /\ TypeOK /\ job.file \in Files
    BY <1>8, IngestAssumption DEF TypeInv, TypeOK, KnownInv
  <2>2. PICK f \in Files : f = job.file
    BY <2>1
  <2>3. PICK k \in DOMAIN objects : k = Latest(job.file) /\ objects[k].file = f
    BY <2>1, <2>2, LatestIsVersion
  <2>4. /\ DOMAIN objects' = DOMAIN objects
        /\ \A i \in DOMAIN objects : i # k => objects'[i] = objects[i]
        /\ objects'[k].tag = [parser |-> job.label, status |-> job.status]
        /\ Versions(f)' = Versions(f)
    BY <1>8, <2>3, TagObjects
  <2>5. objects'[k].file = f
    <3>1. k \in Versions(f)
      BY <2>3 DEF Versions
    <3>2. k \in Versions(f)'
      BY <2>4, <3>1
    <3>3. QED
      BY <3>2 DEF Versions
  <2>6. ASSUME NEW i \in DOMAIN objects'
        PROVE  RightName(i)'
    <3>1. CASE i # k
      BY <1>a, <1>8, <2>4, <3>1 DEF Successful, RightName, HaveRead
    <3>2. CASE i = k
      <4>1. objects'[k].tag.parser = job.label /\ objects'[k].tag.status = job.status
        BY <2>4
      <4>2. job.status = "successful" => job.label \in HaveRead(f)
        BY <1>a, <1>8, <2>2
      <4>3. Successful(k)' => job.status = "successful"
        BY <4>1 DEF Successful
      <4>4. Successful(k)' => objects'[k].tag.parser \in HaveRead(f)
        BY <4>1, <4>2, <4>3
      <4>5. QED
        BY <1>8, <2>5, <3>2, <4>4 DEF RightName, HaveRead
    <3>3. QED
      BY <3>1, <3>2
  <2>7. QED
    BY <1>b, <1>8, <2>6
<1>9. CASE Mark
  <2>1. pc = "mark" /\ objects' = Tagged /\ UNCHANGED <<stored, replaced>>
    BY <1>9 DEF Mark
  <2>2. (pc' = "announce" /\ job' = job) \/ pc' = "idle"
    BY <1>9 DEF Mark
  <2>3. Label' /\ Reader'
    BY <1>a, <1>d, <2>1, <2>2
  <2>4. QED
    BY <1>8, <2>1, <2>3
<1>10. CASE MarkAndExit
  BY <1>8, <1>10 DEF MarkAndExit, Exit
<1>11. CASE Ignore
  BY <1>2, <1>11 DEF Ignore
<1>12. CASE TakeWithoutParser \/ LookFails \/ ReadFails \/ Announce \/ Crash
  BY <1>3, <1>12 DEF TakeWithoutParser, LookFails, ReadFails, Announce, Crash, Exit
<1>13. ASSUME NEW p \in Parsers, ChangeParser(p)
       PROVE  NamesInv'
  BY <1>2, <1>13 DEF ChangeParser
<1>14. ASSUME NEW S \in SUBSET Matching, StartReparsing(S)
       PROVE  NamesInv'
  BY <1>2, <1>14 DEF StartReparsing
<1>15. ASSUME NEW f \in Files, Reparse(f)
       PROVE  NamesInv'
  BY <1>2, <1>15 DEF Reparse
<1>16. CASE UNCHANGED vars
  BY <1>2, <1>16 DEF vars
<1>17. QED
  BY <1>1, <1>4, <1>5, <1>6, <1>7, <1>9, <1>10, <1>11, <1>12, <1>13, <1>14, <1>15, <1>16
     DEF Next, Worker

LEMMA Invariance == Spec => []Inv
<1>1. Init => Inv
  <2>1. Init => NamesInv
    BY DEF Init, NamesInv
  <2>2. QED
    BY <2>1, InitTypes, InitIngest DEF Inv
<1>2. Inv /\ [Next]_vars => Inv'
  BY NextTypes, NextIngest, NextNames DEF Inv
<1>3. QED
  BY <1>1, <1>2, PTL DEF Spec

(***************************************************************************)
(* However uploads, changes of the parser, reparsings, crashes and the     *)
(* steps of the worker interleave: the tag of the latest version of a file *)
(* at rest tells what became of it, and a successful one names a parser    *)
(* that has read the file, if not necessarily the last one that did        *)
(* (get_parser_tags, set_tags, run_file_ingest.py:71-77).                  *)
(***************************************************************************)
THEOREM TagsTruthful == Spec => []TagsTellTheTruth
<1>1. ASSUME Inv
      PROVE  TagsTellTheTruth
  <2> SUFFICES ASSUME NEW f \in Matching, Versions(f) # {}, f \notin lost, AtRest(f)
               PROVE  Truthful(f)
    BY DEF TagsTellTheTruth
  <2>1. FileInv(f) /\ NamesInv /\ TypeOK
    BY <1>1 DEF Inv, IngestInv, TypeInv
  <2>2. Accounted(f)
    BY <2>1 DEF FileInv, Concerned, Exists, AtRest
  <2>3. Latest(f) \in DOMAIN objects /\ objects[Latest(f)].file = f
    BY <2>1, LatestIsVersion DEF Exists
  <2>4. Successful(Latest(f)) => objects[Latest(f)].tag.parser \in HaveRead(f)
    BY <2>1, <2>3 DEF NamesInv, RightName
  <2>5. QED
    BY <2>2, <2>4 DEF Accounted, Successful, Truthful
<1>2. QED
  BY <1>1, Invariance, PTL

(***************************************************************************)
(* ... and its observations are those of the latest version, read by the   *)
(* thing's parser, if that can read it (ParserJobHandler.act).             *)
(***************************************************************************)
THEOREM LatestIngested == Spec => []LatestIsIngested
<1>1. Inv => LatestIsIngested
  BY DEF Inv, IngestInv, FileInv, Concerned, Exists, LatestIsIngested, AtRest
<1>2. QED
  BY <1>1, Invariance, PTL
=============================================================================
