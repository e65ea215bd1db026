-------------------------- MODULE ConfigDb_proofs --------------------------
(***************************************************************************)
(* For every set of things, projects, names and messages, and every number *)
(* of crashes and failing commits: the types of ConfigDb, at most one      *)
(* default QC config and at most one QC config of a name in a project, no  *)
(* notification of an update before its transaction has ended, and that    *)
(* the tables say of things, parsers and configs what was announced last.  *)
(***************************************************************************)
EXTENDS ConfigDb, SequenceTheorems, TLAPS

\* A sequence with one element changed is a sequence of the same length.
LEMMA SeqExcept ==
  ASSUME NEW S, NEW q \in Seq(S), NEW i \in DOMAIN q, NEW v \in S
  PROVE  [q EXCEPT ![i] = v] \in Seq(S)
<1>1. PICK n \in Nat : DOMAIN q = 1..n
  OBVIOUS
<1>2. \A j \in DOMAIN q : q[j] \in S
  OBVIOUS
<1>3. [q EXCEPT ![i] = v] = [j \in 1..n |-> IF j = i THEN v ELSE q[j]]
  BY <1>1
<1>4. [j \in 1..n |-> IF j = i THEN v ELSE q[j]] \in [1..n -> S]
  BY <1>1, <1>2
<1>5. QED
  BY <1>3, <1>4

(***************************************************************************)
(* The rows of qaqc.                                                       *)
(***************************************************************************)
LEMMA QcIdFound ==
  ASSUME NEW q \in Seq(QcRow), NEW p, NEW name
  PROVE  /\ QcId(q, p, name) \in {NoRow} \cup DOMAIN q
         /\ QcId(q, p, name) # NoRow =>
              /\ q[QcId(q, p, name)].project = p
              /\ q[QcId(q, p, name)].name = name
         /\ QcId(q, p, name) = NoRow =>
              \A i \in DOMAIN q : ~(q[i].project = p /\ q[i].name = name)
<1> DEFINE ids == {i \in DOMAIN q : q[i].project = p /\ q[i].name = name}
<1>1. 0 \notin DOMAIN q
  OBVIOUS
<1>2. CASE ids = {}
  BY <1>2 DEF QcId, NoRow
<1>3. CASE ids # {}
  <2>1. (CHOOSE i \in ids : TRUE) \in ids
    BY <1>3
  <2>2. QcId(q, p, name) = CHOOSE i \in ids : TRUE
    BY <1>3 DEF QcId
  <2>3. QED
    BY <1>1, <2>1, <2>2 DEF NoRow
<1>4. QED
  BY <1>2, <1>3

\* What the trigger makes of the rows.
LEMMA UndefaultRows ==
  ASSUME NEW q \in Seq(QcRow), NEW row \in QcRow, NEW id
  PROVE  /\ Undefault(q, row, id) \in Seq(QcRow)
         /\ DOMAIN Undefault(q, row, id) = DOMAIN q
         /\ \A i \in DOMAIN q :
              /\ Undefault(q, row, id)[i].project = q[i].project
              /\ Undefault(q, row, id)[i].name = q[i].name
              /\ Undefault(q, row, id)[i].default =>
                   /\ q[i].default
                   /\ i # id => ~(row.default /\ row.project # None /\
                                   q[i].project = row.project)
<1> DEFINE u == Undefault(q, row, id)
<1>1. \A i \in DOMAIN q : q[i] \in QcRow
  OBVIOUS
<1>2. u = [i \in DOMAIN q |->
             IF row.default /\ row.project # None /\ q[i].project = row.project /\ i # id
               THEN [q[i] EXCEPT !.default = FALSE]
               ELSE q[i]]
  BY DEF Undefault
<1>3. ASSUME NEW i \in DOMAIN q
      PROVE  /\ u[i] \in QcRow
             /\ u[i].project = q[i].project
             /\ u[i].name = q[i].name
             /\ u[i].default =>
                  /\ q[i].default
                  /\ i # id => ~(row.default /\ row.project # None /\
                                  q[i].project = row.project)
  <2>1. CASE row.default /\ row.project # None /\ q[i].project = row.project /\ i # id
    <3>1. u[i] = [q[i] EXCEPT !.default = FALSE]
      BY <1>2, <2>1
    <3>2. QED
      BY <1>1, <3>1 DEF QcRow
  <2>2. CASE ~(row.default /\ row.project # None /\ q[i].project = row.project /\ i # id)
    <3>1. u[i] = q[i]
      BY <1>2, <2>2
    <3>2. QED
      BY <1>1, <2>2, <3>1
  <2>3. QED
    BY <2>1, <2>2
<1>4. u \in Seq(QcRow) /\ DOMAIN u = DOMAIN q
  <2>1. PICK n \in Nat : DOMAIN q = 1..n
    OBVIOUS
  <2>2. u \in [1..n -> QcRow]
    BY <1>2, <1>3, <2>1
  <2>3. QED
    BY <2>1, <2>2
<1>5. QED
  BY <1>3, <1>4

\* What an insert or an update of a row leaves behind.
LEMMA StoreQcRowRows ==
  ASSUME NEW q \in Seq(QcRow), NEW row \in QcRow, NEW id \in {NoRow} \cup DOMAIN q
  PROVE  /\ StoreQcRow(q, row, id) \in Seq(QcRow)
         /\ id = NoRow =>
              StoreQcRow(q, row, id) = Append(Undefault(q, row, Len(q) + 1), row)
         /\ id # NoRow =>
              StoreQcRow(q, row, id) = [Undefault(q, row, id) EXCEPT ![id] = row]
<1>1. CASE id = NoRow
  <2>1. Undefault(q, row, Len(q) + 1) \in Seq(QcRow)
    BY UndefaultRows
  <2>2. QED
    BY <1>1, <2>1 DEF StoreQcRow
<1>2. CASE id # NoRow
  <2>1. Undefault(q, row, id) \in Seq(QcRow) /\ id \in DOMAIN Undefault(q, row, id)
    BY <1>2, UndefaultRows
  <2>2. StoreQcRow(q, row, id) = [Undefault(q, row, id) EXCEPT ![id] = row]
    BY <1>2 DEF StoreQcRow
  <2>3. QED
    BY <1>2, <2>1, <2>2, SeqExcept
<1>3. QED
  BY <1>1, <1>2

\* The number of the row that StoreQcRow writes.
Written(q, id) == IF id = NoRow THEN Len(q) + 1 ELSE id

(***************************************************************************)
(* Each row after StoreQcRow is the row written or an old one, in which at *)
(* most the default flag is unset, and was if it competes with the row.    *)
(***************************************************************************)
LEMMA StoreQcRowOrigin ==
  ASSUME NEW q \in Seq(QcRow), NEW row \in QcRow, NEW id \in {NoRow} \cup DOMAIN q
  PROVE  /\ StoreQcRow(q, row, id)[Written(q, id)] = row
         /\ \A i \in DOMAIN StoreQcRow(q, row, id) : i # Written(q, id) =>
              /\ i \in DOMAIN q
              /\ StoreQcRow(q, row, id)[i].project = q[i].project
              /\ StoreQcRow(q, row, id)[i].name = q[i].name
              /\ StoreQcRow(q, row, id)[i].default =>
                   /\ q[i].default
                   /\ ~(row.default /\ row.project # None /\
                          q[i].project = row.project)
<1> DEFINE r == StoreQcRow(q, row, id)
           new == Written(q, id)
           u == Undefault(q, row, new)
<1>1. /\ u \in Seq(QcRow) /\ DOMAIN u = DOMAIN q
      /\ \A i \in DOMAIN q :
           /\ u[i].project = q[i].project
           /\ u[i].name = q[i].name
           /\ u[i].default =>
                /\ q[i].default
                /\ i # new => ~(row.default /\ row.project # None /\
                                 q[i].project = row.project)
  BY UndefaultRows
<1>2. DOMAIN r \subseteq DOMAIN q \cup {new} /\ r[new] = row
      /\ \A i \in DOMAIN r : i # new => i \in DOMAIN q /\ r[i] = u[i]
  <2>1. CASE id = NoRow
    <3>1. r = Append(u, row)
      BY <2>1, StoreQcRowRows DEF Written
    <3>2. Len(u) = Len(q) /\ Len(q) \in Nat /\ DOMAIN q = 1..Len(q)
      BY <1>1
    <3>3. DOMAIN r = 1..(Len(q) + 1) /\ r[Len(q) + 1] = row
          /\ \A i \in 1..Len(q) : r[i] = u[i]
      BY <1>1, <3>1, <3>2
    <3>4. QED
      BY <2>1, <3>2, <3>3 DEF Written
  <2>2. CASE id # NoRow
    <3>1. r = [u EXCEPT ![id] = row]
      BY <2>2, StoreQcRowRows DEF Written
    <3>2. QED
      BY <1>1, <2>2, <3>1 DEF Written
  <2>3. QED
    BY <2>1, <2>2
<1>3. QED
  BY <1>1, <1>2

\* The trigger keeps the default unique.
LEMMA StoreQcRowSingle ==
  ASSUME NEW q \in Seq(QcRow), NEW row \in QcRow, NEW id \in {NoRow} \cup DOMAIN q,
         SingleDefault(q)
  PROVE  SingleDefault(StoreQcRow(q, row, id))
<1> DEFINE r == StoreQcRow(q, row, id)
           new == Written(q, id)
<1>1. /\ r[new] = row
      /\ \A i \in DOMAIN r : i # new =>
           /\ i \in DOMAIN q
           /\ r[i].project = q[i].project
           /\ r[i].default =>
                /\ q[i].default
                /\ ~(row.default /\ row.project # None /\ q[i].project = row.project)
  BY StoreQcRowOrigin
<1> HIDE DEF r, new
<1>2. ASSUME NEW i \in DOMAIN r, NEW j \in DOMAIN r,
             r[i].default, r[j].default, r[i].project = r[j].project,
             r[i].project # None
      PROVE  i = j
  <2>1. CASE i # new /\ j # new
    BY <1>1, <1>2, <2>1 DEF SingleDefault
  <2>2. CASE i = new /\ j # new
    BY <1>1, <1>2, <2>2
  <2>3. CASE i # new /\ j = new
    BY <1>1, <1>2, <2>3
  <2>4. QED
    BY <2>1, <2>2, <2>3
<1>3. QED
  BY <1>2 DEF SingleDefault, r

\* The look-up by project and name keeps the names of a project unique.
LEMMA StoreQcRowUnique ==
  ASSUME NEW q \in Seq(QcRow), NEW row \in QcRow, NEW p, UniqueConfigs(q),
         row.project \in {p, None}
  PROVE  UniqueConfigs(StoreQcRow(q, row, QcId(q, p, row.name)))
<1> DEFINE id == QcId(q, p, row.name)
           r == StoreQcRow(q, row, id)
           new == Written(q, id)
<1>1. /\ id \in {NoRow} \cup DOMAIN q
      /\ id # NoRow => q[id].project = p /\ q[id].name = row.name
      /\ id = NoRow => \A i \in DOMAIN q : ~(q[i].project = p /\ q[i].name = row.name)
  BY QcIdFound
<1>2. /\ r[new] = row
      /\ \A i \in DOMAIN r : i # new =>
           /\ i \in DOMAIN q
           /\ r[i].project = q[i].project
           /\ r[i].name = q[i].name
  BY <1>1, StoreQcRowOrigin
<1>3. ASSUME NEW i \in DOMAIN q, i # new, q[i].project = p, q[i].name = row.name
      PROVE  p = None
  BY <1>1, <1>3 DEF UniqueConfigs, Written
<1> HIDE DEF id, r, new
<1>4. ASSUME NEW i \in DOMAIN r, NEW j \in DOMAIN r,
             r[i].project = r[j].project, r[i].project # None, r[i].name = r[j].name
      PROVE  i = j
  <2>1. CASE i # new /\ j # new
    BY <1>2, <1>4, <2>1 DEF UniqueConfigs
  <2>2. CASE i = new /\ j # new
    BY <1>2, <1>3, <1>4, <2>2
  <2>3. CASE i # new /\ j = new
    BY <1>2, <1>3, <1>4, <2>3
  <2>4. QED
    BY <2>1, <2>2, <2>3
<1>5. QED
  BY <1>4 DEF UniqueConfigs, r, id

(***************************************************************************)
(* The types of the tables.                                                *)
(***************************************************************************)
LEMMA TablesParts ==
  ASSUME NEW d \in Tables
  PROVE  /\ d = [schemaOf |-> d.schemaOf, mapping |-> d.mapping, rows |-> d.rows,
                 parsers |-> d.parsers, storages |-> d.storages,
                 things |-> d.things, qaqc |-> d.qaqc]
         /\ d.schemaOf \in [Projects -> Schemas \cup {None}]
         /\ d.mapping \in SUBSET (Schemas \X Things)
         /\ d.rows \in [Sections -> Nat]
         /\ d.parsers \in Seq(ParserRow)
         /\ d.storages \in Seq(Nat)
         /\ d.things \in [Things -> ThingRow \cup {None}]
         /\ d.qaqc \in Seq(QcRow)
  BY DEF Tables

\* Tables with one part exchanged.
LEMMA TablesExcept ==
  ASSUME NEW d \in Tables, NEW x
  PROVE  /\ [d EXCEPT !.schemaOf = x] =
              [schemaOf |-> x, mapping |-> d.mapping, rows |-> d.rows,
               parsers |-> d.parsers, storages |-> d.storages,
               things |-> d.things, qaqc |-> d.qaqc]
         /\ [d EXCEPT !.mapping = x] =
              [schemaOf |-> d.schemaOf, mapping |-> x, rows |-> d.rows,
               parsers |-> d.parsers, storages |-> d.storages,
               things |-> d.things, qaqc |-> d.qaqc]
         /\ [d EXCEPT !.qaqc = x] =
              [schemaOf |-> d.schemaOf, mapping |-> d.mapping, rows |-> d.rows,
               parsers |-> d.parsers, storages |-> d.storages,
               things |-> d.things, qaqc |-> x]
  BY TablesParts

\* The parts of a thing message.
LEMMA MsgParts ==
  ASSUME NEW m \in ThingMsgs
  PROVE  /\ m.thing \in Things /\ m.project \in Projects /\ m.schema \in Schemas
         /\ m.sections \in SUBSET Sections
         /\ m.parser # None => m.parser \in [name : ParserNames, settings : Contents]
         /\ m.qc # None => m.qc \in [name : QcNames, tests : Contents]
         /\ m # None
<1>1. m \in ThingMsg /\ m # None
  BY ConfigDbAssumption
<1>2. QED
  BY <1>1 DEF ThingMsg

(***************************************************************************)
(* The references between the tables: no row refers to one that is not     *)
(* there (which the look-up of a thing's parser needs to be a number), and *)
(* no two things refer to the same row.                                    *)
(***************************************************************************)
References(d) ==
  /\ \A t \in Things : Known(d, t) =>
       /\ \A s \in Sections : d.things[t].sections[s] <= d.rows[s]
       /\ d.things[t].storage <= Len(d.storages)
  /\ \A i \in DOMAIN d.storages : d.storages[i] <= Len(d.parsers)

NotShared(d) ==
  \A t, u \in Things : (t # u /\ Known(d, t) /\ Known(d, u)) =>
    /\ \A s \in Sections :
         SectionId(d, t, s) # NoRow => SectionId(d, t, s) # SectionId(d, u, s)
    /\ StorageId(d, t) # NoRow => StorageId(d, t) # StorageId(d, u)

DataInv(d) ==
  /\ d \in Tables
  /\ References(d)
  /\ NotShared(d)
  /\ SingleDefault(d.qaqc)
  /\ UniqueConfigs(d.qaqc)

\* The numbers that are fetched are those of rows, or NoRow.
LEMMA FetchedIds ==
  ASSUME NEW d \in Tables, References(d), NEW t \in Things
  PROVE  /\ \A s \in Sections :
              SectionId(d, t, s) \in Nat /\ SectionId(d, t, s) <= d.rows[s]
         /\ StorageId(d, t) \in Nat /\ StorageId(d, t) <= Len(d.storages)
         /\ ParserId(d, t) \in Nat /\ ParserId(d, t) <= Len(d.parsers)
<1>1. /\ d.rows \in [Sections -> Nat] /\ d.storages \in Seq(Nat)
      /\ d.parsers \in Seq(ParserRow)
      /\ d.things[t] # None => d.things[t] \in ThingRow
  BY TablesParts
<1>2. \A s \in Sections : SectionId(d, t, s) \in Nat /\ SectionId(d, t, s) <= d.rows[s]
  <2>1. CASE Known(d, t)
    BY <1>1, <2>1 DEF SectionId, Known, ThingRow, References
  <2>2. CASE ~Known(d, t)
    BY <1>1, <2>2 DEF SectionId, NoRow
  <2>3. QED
    BY <2>1, <2>2
<1>3. StorageId(d, t) \in Nat /\ StorageId(d, t) <= Len(d.storages)
  <2>1. CASE Known(d, t)
    BY <1>1, <2>1 DEF StorageId, Known, ThingRow, References
  <2>2. CASE ~Known(d, t)
    BY <1>1, <2>2 DEF StorageId, NoRow
  <2>3. QED
    BY <2>1, <2>2
<1>4. ParserId(d, t) \in Nat /\ ParserId(d, t) <= Len(d.parsers)
  <2>1. CASE StorageId(d, t) = NoRow
    BY <1>1, <2>1 DEF ParserId, NoRow
  <2>2. CASE StorageId(d, t) # NoRow
    <3>1. StorageId(d, t) \in DOMAIN d.storages
      BY <1>1, <1>3, <2>2 DEF NoRow
    <3>2. QED
      BY <1>1, <2>2, <3>1 DEF ParserId, References
  <2>3. QED
    BY <2>1, <2>2
<1>5. QED
  BY <1>2, <1>3, <1>4

\* The parser of a message gets the number of a row of file_parser.
LEMMA StoreParserRows ==
  ASSUME NEW d \in Tables, References(d), NEW m \in ThingMsgs, m.parser # None
  PROVE  /\ StoreParser(d, m).parsers \in Seq(ParserRow)
         /\ Len(StoreParser(d, m).parsers) >= Len(d.parsers)
         /\ StoredParserId(d, m) \in Nat
         /\ StoredParserId(d, m) <= Len(StoreParser(d, m).parsers)
<1> DEFINE old == ParserId(d, m.thing)
<1>1. d.parsers \in Seq(ParserRow)
  BY TablesParts
<1>2. ParserRowOf(m) \in ParserRow
  <2>1. m.project \in Projects /\ m.parser \in [name : ParserNames, settings : Contents]
    BY MsgParts
  <2>2. QED
    BY <2>1 DEF ParserRowOf, ParserRow
<1>3. old \in Nat /\ old <= Len(d.parsers)
  BY FetchedIds, MsgParts
<1>4. CASE old # NoRow
  <2>1. old \in DOMAIN d.parsers
    BY <1>1, <1>3, <1>4 DEF NoRow
  <2>2. StoreParser(d, m).parsers = [d.parsers EXCEPT ![old] = ParserRowOf(m)]
    BY <1>4, TablesParts DEF StoreParser
  <2>3. [d.parsers EXCEPT ![old] = ParserRowOf(m)] \in Seq(ParserRow)
    BY <1>1, <1>2, <2>1, SeqExcept
  <2>4. Len([d.parsers EXCEPT ![old] = ParserRowOf(m)]) = Len(d.parsers)
    BY <1>1, <1>2, <2>1, ExceptSeq
  <2>5. StoredParserId(d, m) = old
    BY <1>4 DEF StoredParserId
  <2>6. QED
    BY <1>1, <1>3, <2>2, <2>3, <2>4, <2>5
<1>5. CASE old = NoRow /\ Twins(d, m) = {}
  <2>1. StoreParser(d, m).parsers = Append(d.parsers, ParserRowOf(m))
    BY <1>5, TablesParts DEF StoreParser
  <2>2. StoredParserId(d, m) = Len(d.parsers) + 1
    BY <1>5 DEF StoredParserId
  <2>3. QED
    BY <1>1, <1>2, <2>1, <2>2
<1>6. CASE old = NoRow /\ Twins(d, m) # {}
  <2>1. StoreParser(d, m) = d
    BY <1>6 DEF StoreParser
  <2>2. StoredParserId(d, m) \in Twins(d, m)
    BY <1>6 DEF StoredParserId
  <2>3. StoredParserId(d, m) \in DOMAIN d.parsers
    BY <2>2 DEF Twins
  <2>4. QED
    BY <1>1, <2>1, <2>3
<1>7. QED
  BY <1>4, <1>5, <1>6

\* The parser that a storage refers to after a message.
LEMMA StorageParserRow ==
  ASSUME NEW d \in Tables, References(d), NEW m \in ThingMsgs
  PROVE  LET p == (IF m.parser = None THEN d ELSE StoreParser(d, m)).parsers
         IN  /\ p \in Seq(ParserRow) /\ Len(p) >= Len(d.parsers)
             /\ StorageParser(d, m) \in Nat /\ StorageParser(d, m) <= Len(p)
<1>1. CASE m.parser = None
  <2>1. d.parsers \in Seq(ParserRow)
    BY TablesParts
  <2>2. ParserId(d, m.thing) \in Nat /\ ParserId(d, m.thing) <= Len(d.parsers)
    BY FetchedIds, MsgParts
  <2>3. QED
    BY <1>1, <2>1, <2>2 DEF StorageParser
<1>2. CASE m.parser # None
  BY <1>2, StoreParserRows DEF StorageParser
<1>3. QED
  BY <1>1, <1>2

\* The storage of a message gets the number of a row of s3_store.
LEMMA StoreStorageRows ==
  ASSUME NEW d \in Tables, References(d), NEW m \in ThingMsgs, NEW n \in Nat,
         StorageParser(d, m) \in Nat, StorageParser(d, m) <= n, Len(d.parsers) <= n
  PROVE  LET r == StoreStorage(d, m).storages
         IN  /\ r \in Seq(Nat) /\ Len(r) >= Len(d.storages)
             /\ \A i \in DOMAIN r : r[i] <= n
             /\ StorageIdAfter(d, m) \in Nat /\ StorageIdAfter(d, m) <= Len(r)
             /\ StorageIdAfter(d, m) # NoRow =>
                  \/ StorageIdAfter(d, m) = StorageId(d, m.thing)
                  \/ StorageIdAfter(d, m) = Len(d.storages) + 1
<1> DEFINE r == StoreStorage(d, m).storages
           id == StorageId(d, m.thing)
<1>1. d.storages \in Seq(Nat) /\ d.parsers \in Seq(ParserRow)
  BY TablesParts
<1>2. \A i \in DOMAIN d.storages : d.storages[i] <= n
  <2>1. ASSUME NEW i \in DOMAIN d.storages PROVE d.storages[i] <= n
    <3>1. d.storages[i] <= Len(d.parsers) /\ d.storages[i] \in Nat
      BY <1>1 DEF References
    <3>2. QED
      BY <1>1, <3>1
  <2>2. QED
    BY <2>1
<1>3. id \in Nat /\ id <= Len(d.storages)
  BY FetchedIds, MsgParts
<1>4. CASE ~m.storage
  <2>1. StoreStorage(d, m) = d /\ StorageIdAfter(d, m) = NoRow
    BY <1>4 DEF StoreStorage, StorageIdAfter
  <2>2. QED
    BY <1>1, <1>2, <2>1 DEF NoRow
<1>5. CASE m.storage /\ id = NoRow
  <2>1. r = Append(d.storages, StorageParser(d, m))
    BY <1>5, TablesParts DEF StoreStorage
  <2>2. StorageIdAfter(d, m) = Len(d.storages) + 1
    BY <1>5 DEF StorageIdAfter
  <2>3. r \in Seq(Nat) /\ Len(r) = Len(d.storages) + 1
    BY <1>1, <2>1
  <2>4. \A i \in DOMAIN r : r[i] <= n
    BY <1>1, <1>2, <2>1
  <2>5. QED
    BY <1>1, <2>2, <2>3, <2>4
<1>6. CASE m.storage /\ id # NoRow
  <2>1. r = [d.storages EXCEPT ![id] = StorageParser(d, m)]
    BY <1>6, TablesParts DEF StoreStorage
  <2>2. id \in 1..Len(d.storages)
    BY <1>1, <1>3, <1>6 DEF NoRow
  <2>3. r \in Seq(Nat) /\ Len(r) = Len(d.storages)
    BY <1>1, <2>1, <2>2, ExceptSeq
  <2>4. \A i \in DOMAIN r : r[i] <= n
    BY <1>1, <1>2, <2>1, <2>2
  <2>5. StorageIdAfter(d, m) = id
    BY <1>6 DEF StorageIdAfter
  <2>6. QED
    BY <1>1, <1>3, <2>3, <2>4, <2>5
<1>7. QED
  BY <1>4, <1>5, <1>6

\* The section of a message gets the number of a row of its table.
LEMMA StoreSectionRows ==
  ASSUME NEW d \in Tables, References(d), NEW m \in ThingMsgs
  PROVE  /\ StoreSections(d, m).rows \in [Sections -> Nat]
         /\ \A s \in Sections :
              /\ StoreSections(d, m).rows[s] >= d.rows[s]
              /\ SectionIdAfter(d, m, s) \in Nat
              /\ SectionIdAfter(d, m, s) <= StoreSections(d, m).rows[s]
              /\ SectionIdAfter(d, m, s) # NoRow =>
                   \/ SectionIdAfter(d, m, s) = SectionId(d, m.thing, s)
                   \/ SectionIdAfter(d, m, s) = d.rows[s] + 1
<1>1. d.rows \in [Sections -> Nat]
  BY TablesParts
<1>2. StoreSections(d, m).rows =
        [s \in Sections |-> IF s \in m.sections /\ SectionId(d, m.thing, s) = NoRow
                              THEN d.rows[s] + 1 ELSE d.rows[s]]
  BY TablesParts DEF StoreSections
<1>3. StoreSections(d, m).rows \in [Sections -> Nat]
  BY <1>1, <1>2
<1>4. ASSUME NEW s \in Sections
      PROVE  /\ StoreSections(d, m).rows[s] >= d.rows[s]
             /\ SectionIdAfter(d, m, s) \in Nat
             /\ SectionIdAfter(d, m, s) <= StoreSections(d, m).rows[s]
             /\ SectionIdAfter(d, m, s) # NoRow =>
                  \/ SectionIdAfter(d, m, s) = SectionId(d, m.thing, s)
                  \/ SectionIdAfter(d, m, s) = d.rows[s] + 1
  <2>1. SectionId(d, m.thing, s) \in Nat /\ SectionId(d, m.thing, s) <= d.rows[s]
    BY FetchedIds, MsgParts
  <2>2. d.rows[s] \in Nat
    BY <1>1
  <2>3. StoreSections(d, m).rows[s] =
          IF s \in m.sections /\ SectionId(d, m.thing, s) = NoRow
            THEN d.rows[s] + 1 ELSE d.rows[s]
    BY <1>2
  <2>4. QED
    BY <2>1, <2>2, <2>3 DEF SectionIdAfter, NoRow
<1>5. QED
  BY <1>3, <1>4

(***************************************************************************)
(* The tables after store_thing_config, table by table.                    *)
(***************************************************************************)
LEMMA StoreThingParts ==
  ASSUME NEW d \in Tables, NEW m, NEW qid
  PROVE  StoreThing(d, m, qid) =
           [schemaOf |-> d.schemaOf, mapping |-> d.mapping \cup {<<m.schema, m.thing>>},
            rows |-> StoreSections(d, m).rows,
            parsers |-> (IF m.parser = None THEN d ELSE StoreParser(d, m)).parsers,
            storages |-> StoreStorage(d, m).storages,
            things |-> [d.things EXCEPT ![m.thing] = ThingRowAfter(d, m, qid)],
            qaqc |-> d.qaqc]
<1> DEFINE r == StoreThing(d, m, qid)
           row == ThingRowAfter(d, m, qid)
           parsers == (IF m.parser = None THEN d ELSE StoreParser(d, m)).parsers
           storages == StoreStorage(d, m).storages
           rows == StoreSections(d, m).rows
<1>1. StoreMapping(d, m.thing, m.schema) =
        [schemaOf |-> d.schemaOf, mapping |-> d.mapping \cup {<<m.schema, m.thing>>},
         rows |-> d.rows, parsers |-> d.parsers, storages |-> d.storages,
         things |-> d.things, qaqc |-> d.qaqc]
  BY TablesExcept DEF StoreMapping
<1>2. r = [StoreMapping(d, m.thing, m.schema) EXCEPT
             !.rows = rows, !.parsers = parsers, !.storages = storages,
             !.things = [d.things EXCEPT ![m.thing] = row]]
  BY <1>1 DEF StoreThing
<1> DEFINE mapping == d.mapping \cup {<<m.schema, m.thing>>}
           things == [d.things EXCEPT ![m.thing] = row]
<1>3. r = [[schemaOf |-> d.schemaOf, mapping |-> mapping, rows |-> d.rows,
            parsers |-> d.parsers, storages |-> d.storages,
            things |-> d.things, qaqc |-> d.qaqc] EXCEPT
             !.rows = rows, !.parsers = parsers, !.storages = storages,
             !.things = things]
  BY <1>1, <1>2, Zenon
<1> HIDE DEF r, row, parsers, storages, rows, mapping, things
<1>4. r = [schemaOf |-> d.schemaOf, mapping |-> mapping, rows |-> rows,
           parsers |-> parsers, storages |-> storages, things |-> things,
           qaqc |-> d.qaqc]
  BY <1>3
<1>5. QED
  BY <1>4 DEF r, row, parsers, storages, rows, mapping, things

(***************************************************************************)
(* store_thing_config keeps all of it: the numbers of new rows are larger  *)
(* than those that other things refer to.                                  *)
(***************************************************************************)
LEMMA StoreThingData ==
  ASSUME NEW d, DataInv(d), NEW m \in ThingMsgs, NEW qid \in Nat
  PROVE  DataInv(StoreThing(d, m, qid))
<1> DEFINE r == StoreThing(d, m, qid)
           row == ThingRowAfter(d, m, qid)
           parsers == (IF m.parser = None THEN d ELSE StoreParser(d, m)).parsers
           storages == StoreStorage(d, m).storages
           rows == StoreSections(d, m).rows
<1>1. d \in Tables /\ References(d) /\ NotShared(d)
  BY DEF DataInv
<1>2. r = [schemaOf |-> d.schemaOf, mapping |-> d.mapping \cup {<<m.schema, m.thing>>},
           rows |-> rows, parsers |-> parsers, storages |-> storages,
           things |-> [d.things EXCEPT ![m.thing] = row], qaqc |-> d.qaqc]
  BY <1>1, StoreThingParts
<1>3. /\ parsers \in Seq(ParserRow) /\ Len(parsers) >= Len(d.parsers)
      /\ StorageParser(d, m) \in Nat /\ StorageParser(d, m) <= Len(parsers)
  BY <1>1, StorageParserRow
<1>4. Len(parsers) \in Nat
  BY <1>3
<1>5. /\ storages \in Seq(Nat) /\ Len(storages) >= Len(d.storages)
      /\ \A i \in DOMAIN storages : storages[i] <= Len(parsers)
      /\ StorageIdAfter(d, m) \in Nat /\ StorageIdAfter(d, m) <= Len(storages)
      /\ StorageIdAfter(d, m) # NoRow =>
           \/ StorageIdAfter(d, m) = StorageId(d, m.thing)
           \/ StorageIdAfter(d, m) = Len(d.storages) + 1
  <2>1. Len(d.parsers) <= Len(parsers)
    <3>1. Len(d.parsers) \in Nat
      BY <1>1, TablesParts
    <3>2. QED
      BY <1>3, <1>4, <3>1
  <2> HIDE DEF parsers
  <2>2. QED
    BY <1>1, <1>3, <1>4, <2>1, StoreStorageRows
<1>6. /\ rows \in [Sections -> Nat]
      /\ \A s \in Sections :
           /\ rows[s] >= d.rows[s]
           /\ SectionIdAfter(d, m, s) \in Nat
           /\ SectionIdAfter(d, m, s) <= rows[s]
           /\ SectionIdAfter(d, m, s) # NoRow =>
                \/ SectionIdAfter(d, m, s) = SectionId(d, m.thing, s)
                \/ SectionIdAfter(d, m, s) = d.rows[s] + 1
  BY <1>1, StoreSectionRows
<1>7. row = [project |-> m.project,
             sections |-> [s \in Sections |-> SectionIdAfter(d, m, s)],
             storage |-> StorageIdAfter(d, m), qc |-> qid]
  BY DEF ThingRowAfter
<1>8. row \in ThingRow /\ row # None
  <2>1. row \in ThingRow
    BY <1>5, <1>6, <1>7, MsgParts DEF ThingRow
  <2>2. QED
    BY <2>1, ConfigDbAssumption
<1> HIDE DEF r, row, parsers, storages, rows
<1>9. r \in Tables
  <2>1. [d.things EXCEPT ![m.thing] = row] \in [Things -> ThingRow \cup {None}]
    BY <1>1, <1>8, TablesParts
  <2>2. d.mapping \cup {<<m.schema, m.thing>>} \in SUBSET (Schemas \X Things)
    BY <1>1, TablesParts, MsgParts
  <2>3. QED
    BY <1>1, <1>2, <1>3, <1>5, <1>6, <2>1, <2>2, TablesParts DEF Tables
<1>10. ASSUME NEW t \in Things, NEW s \in Sections
       PROVE  /\ SectionId(r, t, s) =
                   IF t = m.thing THEN SectionIdAfter(d, m, s) ELSE SectionId(d, t, s)
              /\ StorageId(r, t) =
                   IF t = m.thing THEN StorageIdAfter(d, m) ELSE StorageId(d, t)
              /\ Known(r, t) <=> (t = m.thing \/ Known(d, t))
  <2>1. r.things = [d.things EXCEPT ![m.thing] = row] /\ m.thing \in Things
        /\ DOMAIN d.things = Things
    BY <1>1, <1>2, TablesParts, MsgParts
  <2>2. CASE t = m.thing
    BY <1>7, <1>8, <2>1, <2>2 DEF SectionId, StorageId, Known
  <2>3. CASE t # m.thing
    BY <2>1, <2>3 DEF SectionId, StorageId, Known
  <2>4. QED
    BY <2>2, <2>3
<1>11. ASSUME NEW t \in Things
       PROVE  /\ StorageId(r, t) =
                   IF t = m.thing THEN StorageIdAfter(d, m) ELSE StorageId(d, t)
              /\ Known(r, t) <=> (t = m.thing \/ Known(d, t))
  <2>1. r.things = [d.things EXCEPT ![m.thing] = row] /\ m.thing \in Things
        /\ DOMAIN d.things = Things
    BY <1>1, <1>2, TablesParts, MsgParts
  <2>2. CASE t = m.thing
    BY <1>7, <1>8, <2>1, <2>2 DEF StorageId, Known
  <2>3. CASE t # m.thing
    BY <2>1, <2>3 DEF StorageId, Known
  <2>4. QED
    BY <2>2, <2>3
<1>12. /\ r.rows = rows /\ r.storages = storages /\ r.parsers = parsers
       /\ r.qaqc = d.qaqc
  BY <1>2
<1>13. References(r)
  <2>1. ASSUME NEW t \in Things, Known(r, t)
        PROVE  /\ \A s \in Sections : r.things[t].sections[s] <= r.rows[s]
               /\ r.things[t].storage <= Len(r.storages)
    <3>1. ASSUME NEW s \in Sections PROVE SectionId(r, t, s) <= rows[s]
      <4>1. SectionId(d, t, s) \in Nat /\ SectionId(d, t, s) <= d.rows[s]
        BY <1>1, FetchedIds
      <4>2. d.rows[s] \in Nat /\ rows[s] \in Nat
        BY <1>1, <1>6, TablesParts
      <4>3. QED
        BY <1>6, <1>10, <4>1, <4>2
    <3>2. StorageId(r, t) <= Len(storages)
      <4>1. StorageId(d, t) \in Nat /\ StorageId(d, t) <= Len(d.storages)
        BY <1>1, FetchedIds
      <4>2. Len(d.storages) \in Nat /\ Len(storages) \in Nat
        BY <1>1, <1>5, TablesParts
      <4>3. QED
        BY <1>5, <1>11, <4>1, <4>2
    <3>3. QED
      BY <1>12, <2>1, <3>1, <3>2 DEF SectionId, StorageId
  <2>2. QED
    BY <1>5, <1>12, <2>1 DEF References
<1>14. NotShared(r)
  <2>1. ASSUME NEW t \in Things, NEW u \in Things, t # u, Known(r, t), Known(r, u),
               NEW s \in Sections, SectionId(r, t, s) # NoRow
        PROVE  SectionId(r, t, s) # SectionId(r, u, s)
    <3>1. /\ SectionId(d, t, s) \in Nat /\ SectionId(d, t, s) <= d.rows[s]
          /\ SectionId(d, u, s) \in Nat /\ SectionId(d, u, s) <= d.rows[s]
          /\ d.rows[s] \in Nat
      BY <1>1, FetchedIds, TablesParts
    <3>2. SectionId(d, t, s) # NoRow => Known(d, t)
      BY DEF SectionId
    <3>3. SectionId(d, u, s) # NoRow => Known(d, u)
      BY DEF SectionId
    <3>4. SectionId(d, t, s) # NoRow /\ SectionId(d, u, s) # NoRow =>
            SectionId(d, t, s) # SectionId(d, u, s)
      BY <1>1, <2>1, <3>2, <3>3 DEF NotShared
    <3>5. QED
      BY <1>6, <1>10, <2>1, <3>1, <3>4 DEF NoRow
  <2>2. ASSUME NEW t \in Things, NEW u \in Things, t # u, Known(r, t), Known(r, u),
               StorageId(r, t) # NoRow
        PROVE  StorageId(r, t) # StorageId(r, u)
    <3>1. /\ StorageId(d, t) \in Nat /\ StorageId(d, t) <= Len(d.storages)
          /\ StorageId(d, u) \in Nat /\ StorageId(d, u) <= Len(d.storages)
          /\ Len(d.storages) \in Nat
      BY <1>1, FetchedIds, TablesParts
    <3>2. StorageId(d, t) # NoRow => Known(d, t)
      BY DEF StorageId
    <3>3. StorageId(d, u) # NoRow => Known(d, u)
      BY DEF StorageId
    <3>4. StorageId(d, t) # NoRow /\ StorageId(d, u) # NoRow =>
            StorageId(d, t) # StorageId(d, u)
      BY <1>1, <2>2, <3>2, <3>3 DEF NotShared
    <3>5. QED
      BY <1>5, <1>11, <2>2, <3>1, <3>4 DEF NoRow
  <2>3. QED
    BY <2>1, <2>2 DEF NotShared
<1>15. QED
  BY <1>9, <1>12, <1>13, <1>14 DEF DataInv, r

\* Only the schema of a project, or only the rows of qaqc, are exchanged.
LEMMA OtherPartsData ==
  ASSUME NEW d, DataInv(d), NEW e \in Tables,
         e.rows = d.rows, e.parsers = d.parsers, e.storages = d.storages,
         e.things = d.things, SingleDefault(e.qaqc), UniqueConfigs(e.qaqc)
  PROVE  DataInv(e)
<1>1. References(e)
  BY DEF DataInv, References, Known
<1>2. NotShared(e)
  BY DEF DataInv, NotShared, Known, SectionId, StorageId
<1>3. QED
  BY <1>1, <1>2 DEF DataInv

LEMMA StoreProjectData ==
  ASSUME NEW d, DataInv(d), NEW p \in Projects, NEW schema \in Schemas
  PROVE  DataInv(StoreProject(d, p, schema))
<1> DEFINE e == StoreProject(d, p, schema)
<1>1. d \in Tables /\ SingleDefault(d.qaqc) /\ UniqueConfigs(d.qaqc)
  BY DEF DataInv
<1>2. e = [schemaOf |-> [d.schemaOf EXCEPT ![p] = schema], mapping |-> d.mapping,
           rows |-> d.rows, parsers |-> d.parsers, storages |-> d.storages,
           things |-> d.things, qaqc |-> d.qaqc]
  BY <1>1, TablesExcept DEF StoreProject
<1>3. [d.schemaOf EXCEPT ![p] = schema] \in [Projects -> Schemas \cup {None}]
  BY <1>1, TablesParts
<1>4. e \in Tables
  BY <1>1, <1>2, <1>3, TablesParts DEF Tables
<1>5. QED
  BY <1>1, <1>2, <1>4, OtherPartsData

\* A row is stored whose number was looked up by project p and its own name.
LEMMA StoreQcRowData ==
  ASSUME NEW d, DataInv(d), NEW row \in QcRow, NEW p, row.project \in {p, None}
  PROVE  DataInv([d EXCEPT !.qaqc = StoreQcRow(@, row, QcId(@, p, row.name))])
<1> DEFINE q == StoreQcRow(d.qaqc, row, QcId(d.qaqc, p, row.name))
           e == [d EXCEPT !.qaqc = StoreQcRow(@, row, QcId(@, p, row.name))]
<1>1. /\ d \in Tables /\ SingleDefault(d.qaqc) /\ UniqueConfigs(d.qaqc)
      /\ d.qaqc \in Seq(QcRow)
  BY TablesParts DEF DataInv
<1>2. e = [schemaOf |-> d.schemaOf, mapping |-> d.mapping,
           rows |-> d.rows, parsers |-> d.parsers, storages |-> d.storages,
           things |-> d.things, qaqc |-> q]
  BY <1>1, TablesParts
<1>3. QcId(d.qaqc, p, row.name) \in {NoRow} \cup DOMAIN d.qaqc
  BY <1>1, QcIdFound
<1>4. q \in Seq(QcRow)
  BY <1>1, <1>3, StoreQcRowRows
<1>5. SingleDefault(q)
  BY <1>1, <1>3, StoreQcRowSingle
<1>6. UniqueConfigs(q)
  BY <1>1, StoreQcRowUnique
<1> HIDE DEF q
<1>7. e \in Tables
  BY <1>1, <1>2, <1>4, TablesParts DEF Tables
<1>8. QED
  BY <1>2, <1>5, <1>6, <1>7, OtherPartsData

LEMMA StoreQcData ==
  ASSUME NEW d, DataInv(d), NEW c \in QcMsgs
  PROVE  DataInv(StoreQc(d, c))
<1> DEFINE row == [name |-> c.name, project |-> c.project,
                   default |-> c.default, tests |-> c.tests]
<1>1. c \in QcMsg
  BY ConfigDbAssumption
<1>2. row \in QcRow /\ row.project \in {c.project, None} /\ row.name = c.name
  BY <1>1 DEF QcMsg, QcRow
<1>3. DataInv([d EXCEPT !.qaqc = StoreQcRow(@, row, QcId(@, c.project, row.name))])
  BY <1>2, StoreQcRowData
<1>4. QED
  BY <1>3 DEF StoreQc

LEMMA StoreLegacyQcData ==
  ASSUME NEW d, DataInv(d), NEW m \in ThingMsgs
  PROVE  DataInv(StoreLegacyQc(d, m))
<1>1. CASE m.qc = None
  BY <1>1 DEF StoreLegacyQc
<1>2. CASE m.qc # None
  <2>1. m.qc \in [name : QcNames, tests : Contents]
    BY <1>2, MsgParts
  <2>2. /\ LegacyRow(m) \in QcRow /\ LegacyRow(m).project \in {m.project, None}
        /\ LegacyRow(m).name = m.qc.name
    BY <2>1 DEF LegacyRow, QcRow
  <2>3. DataInv([d EXCEPT !.qaqc =
                   StoreQcRow(@, LegacyRow(m), QcId(@, m.project, LegacyRow(m).name))])
    BY <2>2, StoreQcRowData
  <2>4. QED
    BY <1>2, <2>2, <2>3 DEF StoreLegacyQc
<1>3. QED
  BY <1>1, <1>2

\* The transaction of thing_update.
LEMMA ThingUpdatedData ==
  ASSUME NEW d, DataInv(d), NEW m \in ThingMsgs
  PROVE  DataInv(ThingUpdated(d, m))
<1> DEFINE e == StoreProject(d, m.project, m.schema)
<1>1. DataInv(e)
  BY StoreProjectData, MsgParts
<1>2. LegacyId(e, m) \in Nat
  <2>1. e.qaqc \in Seq(QcRow)
    BY <1>1, TablesParts DEF DataInv
  <2>2. QcId(e.qaqc, m.project, m.qc.name) \in {NoRow} \cup DOMAIN e.qaqc
    BY <2>1, QcIdFound
  <2>3. QED
    BY <2>1, <2>2 DEF LegacyId, NoRow
<1>3. DataInv(StoreLegacyQc(e, m))
  BY <1>1, StoreLegacyQcData
<1>4. DataInv(StoreThing(StoreLegacyQc(e, m), m, LegacyId(e, m)))
  BY <1>2, <1>3, StoreThingData
<1>5. DataInv(StoreThing(e, m, NoRow))
  BY <1>1, StoreThingData DEF NoRow
<1>6. QED
  BY <1>4, <1>5 DEF ThingUpdated

(***************************************************************************)
(* The steps of the worker.                                                *)
(***************************************************************************)
Inv == TypeOK /\ DataInv(db) /\ DataInv(txn)

LEMMA EmptyDbData == DataInv(EmptyDb)
<1>1. EmptyDb \in Tables
  <2>1. [t \in Things |-> None] \in [Things -> ThingRow \cup {None}]
    OBVIOUS
  <2>2. [p \in Projects |-> None] \in [Projects -> Schemas \cup {None}]
    OBVIOUS
  <2>3. [s \in Sections |-> 0] \in [Sections -> Nat]
    OBVIOUS
  <2>4. <<>> \in Seq(ParserRow) /\ <<>> \in Seq(Nat) /\ <<>> \in Seq(QcRow)
    OBVIOUS
  <2>5. {} \in SUBSET (Schemas \X Things)
    OBVIOUS
  <2>6. QED
    BY <2>1, <2>2, <2>3, <2>4, <2>5 DEF EmptyDb, Tables
<1>2. \A t \in Things : ~Known(EmptyDb, t)
  BY DEF EmptyDb, Known
<1>3. EmptyDb.qaqc = <<>> /\ EmptyDb.storages = <<>>
  BY DEF EmptyDb
<1>4. References(EmptyDb) /\ NotShared(EmptyDb)
  BY <1>2, <1>3 DEF References, NotShared
<1>5. SingleDefault(EmptyDb.qaqc) /\ UniqueConfigs(EmptyDb.qaqc)
  BY <1>3 DEF SingleDefault, UniqueConfigs
<1>6. QED
  BY <1>1, <1>4, <1>5 DEF DataInv

LEMMA InitInv == Init => Inv
<1>. SUFFICES ASSUME Init PROVE Inv
  OBVIOUS
<1>1. DataInv(db) /\ DataInv(txn)
  BY EmptyDbData DEF Init
<1>2. /\ msg \in ThingMsgs \cup {None}
      /\ pc \in {"idle", "commit", "send"} /\ ((pc = "idle") <=> (msg = None))
  BY DEF Init
<1>3. commits \in [Things -> Nat] /\ aborted \in [Things -> Nat] /\ notified \in [Things -> Nat]
  BY DEF Init
<1>4. last \in [Things -> ThingMsgs \cup {None}] /\ failed \subseteq ThingMsgs
  BY DEF Init
<1>5. qcLog \in Seq(QcMsgs)
  BY DEF Init
<1>6. received \in 0..MaxMsgs /\ crashes \in 0..MaxCrashes
  BY ConfigDbAssumption DEF Init
<1>7. QED
  BY <1>1, <1>2, <1>3, <1>4, <1>5, <1>6 DEF Inv, TypeOK, DataInv

\* A message more is still in the range of the bound.
LEMMA OneMore ==
  ASSUME NEW x, NEW n \in Nat, x \in 0..n, x < n
  PROVE  x + 1 \in 0..n
  OBVIOUS

LEMMA NextInv == Inv /\ [Next]_vars => Inv'
<1>. SUFFICES ASSUME Inv, [Next]_vars PROVE Inv'
  OBVIOUS
<1>. USE ConfigDbAssumption
<1>0. TypeOK /\ DataInv(db) /\ DataInv(txn)
  BY DEF Inv
<1>1. ASSUME NEW m \in ThingMsgs, UpdateThing(m) PROVE Inv'
  <2>1. DataInv(txn')
    BY <1>0, <1>1, ThingUpdatedData DEF UpdateThing
  <2>2. DataInv(db') /\ db' = db
    BY <1>0, <1>1 DEF UpdateThing
  <2>3. msg' \in ThingMsgs /\ msg' # None /\ pc' = "commit"
    BY <1>1, MsgParts DEF UpdateThing
  <2>4. received' \in 0..MaxMsgs
    BY <1>0, <1>1, OneMore DEF UpdateThing, TypeOK
  <2>5. UNCHANGED <<commits, aborted, notified, last, qcLog, failed, crashes>>
    BY <1>1 DEF UpdateThing
  <2>6. QED
    BY <1>0, <2>1, <2>2, <2>3, <2>4, <2>5 DEF Inv, TypeOK, DataInv
<1>2. ASSUME NEW c \in QcMsgs, UpdateQc(c) PROVE Inv'
  <2>1. DataInv(db') /\ DataInv(txn')
    BY <1>0, <1>2, StoreQcData DEF UpdateQc
  <2>2. received' \in 0..MaxMsgs
    BY <1>0, <1>2, OneMore DEF UpdateQc, TypeOK
  <2>3. qcLog' \in Seq(QcMsgs)
    BY <1>0, <1>2 DEF UpdateQc, TypeOK
  <2>4. UNCHANGED <<msg, pc, commits, aborted, notified, last, failed, crashes>>
    BY <1>2 DEF UpdateQc
  <2>5. QED
    BY <1>0, <2>1, <2>2, <2>3, <2>4 DEF Inv, TypeOK, DataInv
<1>3. ASSUME NEW m \in ThingMsgs, RejectThing(m) PROVE Inv'
  <2>1. UNCHANGED <<db, txn, msg, pc, commits, aborted, notified, last, qcLog, crashes>>
    BY <1>3 DEF RejectThing
  <2>2. received' \in 0..MaxMsgs
    BY <1>0, <1>3, OneMore DEF RejectThing, TypeOK
  <2>3. failed' \subseteq ThingMsgs
    BY <1>0, <1>3 DEF RejectThing, TypeOK
  <2>4. QED
    BY <1>0, <2>1, <2>2, <2>3 DEF Inv, TypeOK
<1>4. ASSUME Reject PROVE Inv'
  <2>1. UNCHANGED <<db, txn, msg, pc, commits, aborted, notified, last, qcLog, failed, crashes>>
    BY <1>4 DEF Reject
  <2>2. received' \in 0..MaxMsgs
    BY <1>0, <1>4, OneMore DEF Reject, TypeOK
  <2>3. QED
    BY <1>0, <2>1, <2>2 DEF Inv, TypeOK
<1>5. ASSUME Commit PROVE Inv'
  <2>1. DataInv(db') /\ DataInv(txn')
    BY <1>0, <1>5 DEF Commit
  <2>2. msg \in ThingMsgs /\ msg.thing \in Things /\ msg # None
    <3>1. msg \in ThingMsgs
      BY <1>0, <1>5 DEF Commit, TypeOK
    <3>2. QED
      BY <3>1, MsgParts
  <2>3. commits' \in [Things -> Nat]
    BY <1>0, <1>5, <2>2 DEF Commit, TypeOK
  <2>4. last' \in [Things -> ThingMsgs \cup {None}]
    BY <1>0, <1>5, <2>2 DEF Commit, TypeOK
  <2>5. pc' = "send" /\ UNCHANGED <<msg, aborted, notified, qcLog, failed, received, crashes>>
    BY <1>5 DEF Commit
  <2>6. QED
    BY <1>0, <2>1, <2>2, <2>3, <2>4, <2>5 DEF Inv, TypeOK, DataInv
<1>6. ASSUME CommitFails PROVE Inv'
  <2>1. DataInv(db') /\ DataInv(txn')
    BY <1>0, <1>6 DEF CommitFails
  <2>2. msg # None /\ pc' = "send"
    BY <1>0, <1>6 DEF CommitFails, TypeOK
  <2>3. UNCHANGED <<msg, commits, notified, last, qcLog, failed, received, crashes>>
    BY <1>6 DEF CommitFails
  <2>4. aborted' \in [Things -> Nat]
    <3>1. msg \in ThingMsgs
      BY <1>0, <1>6 DEF CommitFails, TypeOK
    <3>2. msg.thing \in Things
      BY <3>1, MsgParts
    <3>3. QED
      BY <1>0, <1>6, <3>2 DEF CommitFails, TypeOK
  <2>5. QED
    BY <1>0, <2>1, <2>2, <2>3, <2>4 DEF Inv, TypeOK, DataInv
<1>7. ASSUME Notify PROVE Inv'
  <2>1. notified' \in [Things -> Nat]
    <3>1. msg \in ThingMsgs
      BY <1>0, <1>7 DEF Notify, TypeOK
    <3>2. msg.thing \in Things
      BY <3>1, MsgParts
    <3>3. QED
      BY <1>0, <1>7, <3>2 DEF Notify, TypeOK
  <2>2. msg' = None /\ pc' = "idle"
    BY <1>7 DEF Notify
  <2>3. UNCHANGED <<db, txn, commits, aborted, last, qcLog, failed, received, crashes>>
    BY <1>7 DEF Notify
  <2>4. QED
    BY <1>0, <2>1, <2>2, <2>3 DEF Inv, TypeOK
<1>8. ASSUME Crash PROVE Inv'
  <2>1. DataInv(db') /\ DataInv(txn')
    BY <1>0, <1>8 DEF Crash
  <2>2. crashes' \in 0..MaxCrashes
    BY <1>0, <1>8, OneMore DEF Crash, TypeOK
  <2>3. msg' = None /\ pc' = "idle"
    BY <1>8 DEF Crash
  <2>4. UNCHANGED <<commits, aborted, notified, last, qcLog, failed, received>>
    BY <1>8 DEF Crash
  <2>5. QED
    BY <1>0, <2>1, <2>2, <2>3, <2>4 DEF Inv, TypeOK, DataInv
<1>9. ASSUME UNCHANGED vars PROVE Inv'
  BY <1>0, <1>9 DEF vars, Inv, TypeOK
<1>10. QED
  BY <1>1, <1>2, <1>3, <1>4, <1>5, <1>6, <1>7, <1>8, <1>9 DEF Next

LEMMA Invariance == Spec => []Inv
  BY InitInv, NextInv, PTL DEF Spec

(***************************************************************************)
(* The types of the state: among them that every number by which the       *)
(* tables refer to each other is one.                                      *)
(***************************************************************************)
THEOREM TypeCorrect == Spec => []TypeOK
<1>1. Inv => TypeOK
  BY DEF Inv
<1>2. QED
  BY <1>1, Invariance, PTL

\* A project never has two default QC configs (the trigger of V2_11).
THEOREM DefaultIsUnique == Spec => []OneDefaultPerProject
<1>1. Inv => OneDefaultPerProject
  BY DEF Inv, DataInv, OneDefaultPerProject
<1>2. QED
  BY <1>1, Invariance, PTL

\* A project never has two QC configs of one name (store_qaqc_config).
THEOREM NameIsUnique == Spec => []OneConfigPerName
<1>1. Inv => OneConfigPerName
  BY DEF Inv, DataInv, OneConfigPerName
<1>2. QED
  BY <1>1, Invariance, PTL

\* No two things share a row of a section or of s3_store (store_thing_config).
THEOREM RowsAreOwn == Spec => []OwnRows
<1>1. Inv => OwnRows
  BY DEF Inv, DataInv, NotShared, OwnRows
<1>2. QED
  BY <1>1, Invariance, PTL

(***************************************************************************)
(* Nobody is informed of an update before its transaction has ended, also  *)
(* if COMMIT may fail, and no ended one is kept quiet but by a crash.      *)
(***************************************************************************)
THEOREM InformedIsDecided == Spec => []NotifiedIsDecided
<1>1. Init => NotifiedIsDecided
  BY DEF Init, NotifiedIsDecided, Untold
<1>2. Inv /\ NotifiedIsDecided /\ [Next]_vars => NotifiedIsDecided'
  <2>. SUFFICES ASSUME Inv, NotifiedIsDecided, [Next]_vars, NEW t \in Things
                PROVE  /\ notified'[t] + Untold(t)' <= commits'[t] + aborted'[t]
                       /\ commits'[t] + aborted'[t] <= notified'[t] + Untold(t)' + crashes'
    BY DEF NotifiedIsDecided
  <2>0. /\ commits \in [Things -> Nat] /\ aborted \in [Things -> Nat]
        /\ notified \in [Things -> Nat] /\ crashes \in Nat
        /\ commits[t] \in Nat /\ aborted[t] \in Nat /\ notified[t] \in Nat
        /\ notified[t] + Untold(t) <= commits[t] + aborted[t]
        /\ commits[t] + aborted[t] <= notified[t] + Untold(t) + crashes
        /\ Untold(t) \in {0, 1}
    BY ConfigDbAssumption DEF Inv, TypeOK, NotifiedIsDecided, Untold
  <2>1. ASSUME UNCHANGED <<commits, aborted, notified, crashes>>, Untold(t)' = Untold(t)
        PROVE  /\ notified'[t] + Untold(t)' <= commits'[t] + aborted'[t]
               /\ commits'[t] + aborted'[t] <= notified'[t] + Untold(t)' + crashes'
    BY <2>0, <2>1
  <2>2. ASSUME NEW m \in ThingMsgs, UpdateThing(m) \/ RejectThing(m)
        PROVE  UNCHANGED <<commits, aborted, notified, crashes>> /\ Untold(t)' = Untold(t)
    BY <2>2 DEF UpdateThing, RejectThing, Untold
  <2>3. ASSUME NEW c \in QcMsgs, UpdateQc(c)
        PROVE  UNCHANGED <<commits, aborted, notified, crashes>> /\ Untold(t)' = Untold(t)
    BY <2>3 DEF UpdateQc, Untold
  <2>4. ASSUME Reject \/ UNCHANGED vars
        PROVE  UNCHANGED <<commits, aborted, notified, crashes>> /\ Untold(t)' = Untold(t)
    BY <2>4 DEF Reject, vars, Untold
  <2>5. CASE Commit
    <3>1. Untold(t) = 0 /\ Untold(t)' = (IF msg.thing = t THEN 1 ELSE 0)
      BY <2>5 DEF Commit, Untold
    <3>2. UNCHANGED <<aborted, notified, crashes>>
          /\ commits'[t] = (IF msg.thing = t THEN commits[t] + 1 ELSE commits[t])
      BY <2>0, <2>5 DEF Commit
    <3>. QED BY <2>0, <3>1, <3>2
  <2>6. CASE CommitFails
    <3>1. Untold(t) = 0 /\ Untold(t)' = (IF msg.thing = t THEN 1 ELSE 0)
      BY <2>6 DEF CommitFails, Untold
    <3>2. UNCHANGED <<commits, notified, crashes>>
          /\ aborted'[t] = (IF msg.thing = t THEN aborted[t] + 1 ELSE aborted[t])
      BY <2>0, <2>6 DEF CommitFails
    <3>. QED BY <2>0, <3>1, <3>2
  <2>7. CASE Notify
    <3>1. Untold(t) = (IF msg.thing = t THEN 1 ELSE 0) /\ Untold(t)' = 0
      BY <2>7 DEF Notify, Untold
    <3>2. UNCHANGED <<commits, aborted, crashes>>
          /\ notified'[t] = (IF msg.thing = t THEN notified[t] + 1 ELSE notified[t])
      BY <2>0, <2>7 DEF Notify
    <3>. QED BY <2>0, <3>1, <3>2
  <2>8. CASE Crash
    <3>1. Untold(t)' = 0 /\ UNCHANGED <<commits, aborted, notified>> /\ crashes' = crashes + 1
      BY <2>8 DEF Crash, Untold
    <3>. QED BY <2>0, <3>1
  <2>. QED
    BY <2>1, <2>2, <2>3, <2>4, <2>5, <2>6, <2>7, <2>8 DEF Next
<1>. QED
  BY <1>1, <1>2, Invariance, PTL DEF Spec

(***************************************************************************)
(* What store_thing_config changes beside the types: the thing of the      *)
(* message gets the row that the message describes, every other thing      *)
(* keeps its row, and nothing is taken out of the mapping.                 *)
(***************************************************************************)
AnnouncedIn(d, t, m) ==
  LET row == d.things[t] IN
  /\ row # None
  /\ row.project = m.project
  /\ {s \in Sections : row.sections[s] # NoRow} = m.sections
  /\ (row.storage # NoRow) <=> m.storage
  /\ (row.qc # NoRow) <=> m.legacy
  /\ <<m.schema, t>> \in d.mapping

OthersKept(d, e, t) ==
  /\ \A u \in Things \ {t} : e.things[u] = d.things[u]
  /\ d.mapping \subseteq e.mapping

\* The row of the thing is what the message says, the other rows are kept.
LEMMA StoreThingAnnounced ==
  ASSUME NEW d, DataInv(d), NEW m \in ThingMsgs, NEW qid \in Nat,
         (qid # NoRow) <=> m.legacy
  PROVE  /\ AnnouncedIn(StoreThing(d, m, qid), m.thing, m)
         /\ OthersKept(d, StoreThing(d, m, qid), m.thing)
<1> DEFINE row == ThingRowAfter(d, m, qid)
           r == StoreThing(d, m, qid)
<1>1. d \in Tables /\ References(d) /\ m.thing \in Things /\ m.sections \subseteq Sections
  BY MsgParts DEF DataInv
<1>2. /\ r.things = [d.things EXCEPT ![m.thing] = row]
      /\ r.mapping = d.mapping \cup {<<m.schema, m.thing>>}
      /\ DOMAIN d.things = Things
  BY <1>1, StoreThingParts, TablesParts
<1>3. r.things[m.thing] = row
  BY <1>1, <1>2
<1>4. /\ row.project = m.project /\ row.qc = qid
      /\ row.storage = StorageIdAfter(d, m)
      /\ \A s \in Sections : row.sections[s] = SectionIdAfter(d, m, s)
  BY DEF ThingRowAfter
<1>5. row # None
  <2>1. r.things[m.thing] \in ThingRow \cup {None}
    BY <1>1, StoreThingData, TablesParts DEF DataInv
  <2>2. StorageIdAfter(d, m) \in Nat
    <3>1. Len(d.parsers) \in Nat
      BY <1>1, TablesParts
    <3>2. Len((IF m.parser = None THEN d ELSE StoreParser(d, m)).parsers) \in Nat
      BY <1>1, StorageParserRow
    <3>3. QED
      BY <1>1, <3>1, <3>2, StorageParserRow, StoreStorageRows
  <2>3. [s \in Sections |-> SectionIdAfter(d, m, s)] \in [Sections -> Nat]
    BY <1>1, StoreSectionRows
  <2>4. row \in ThingRow
    BY <2>2, <2>3, MsgParts DEF ThingRowAfter, ThingRow
  <2>5. QED
    BY <2>4, ConfigDbAssumption
<1>6. ASSUME NEW s \in Sections
      PROVE  (SectionIdAfter(d, m, s) # NoRow) <=> s \in m.sections
  <2>1. d.rows[s] \in Nat
    BY <1>1, TablesParts
  <2>2. QED
    BY <2>1 DEF SectionIdAfter, NoRow
<1>7. (StorageIdAfter(d, m) # NoRow) <=> m.storage
  <2>1. Len(d.storages) \in Nat
    BY <1>1, TablesParts
  <2>2. QED
    BY <2>1 DEF StorageIdAfter, NoRow
<1>8. {s \in Sections : row.sections[s] # NoRow} = m.sections
  BY <1>1, <1>4, <1>6
<1>9. AnnouncedIn(r, m.thing, m)
  <2> HIDE DEF row, r
  <2>1. <<m.schema, m.thing>> \in r.mapping
    BY <1>2
  <2>2. QED
    BY <1>3, <1>4, <1>5, <1>7, <1>8, <2>1 DEF AnnouncedIn
<1>10. OthersKept(d, r, m.thing)
  <2> HIDE DEF row, r
  <2>1. QED
    BY <1>1, <1>2 DEF OthersKept
<1>11. QED
  BY <1>9, <1>10

(***************************************************************************)
(* The parsers of the storages: a storage of another thing keeps its       *)
(* parser, and so does that of the thing if the message names none.        *)
(***************************************************************************)
ParsersKept(d, e, m) ==
  \A t \in Things :
    (t # m.thing \/ m.parser = None) /\ ParserId(d, t) # NoRow /\ StorageId(e, t) # NoRow
      => ParserId(e, t) = ParserId(d, t)

LEMMA StoreThingParsers ==
  ASSUME NEW d, DataInv(d), NEW m \in ThingMsgs, NEW qid \in Nat
  PROVE  ParsersKept(d, StoreThing(d, m, qid), m)
<1> DEFINE r == StoreThing(d, m, qid)
           id == StorageId(d, m.thing)
           storages == StoreStorage(d, m).storages
<1>1. d \in Tables /\ References(d) /\ NotShared(d) /\ m.thing \in Things
  BY MsgParts DEF DataInv
<1>2. /\ r.things = [d.things EXCEPT ![m.thing] = ThingRowAfter(d, m, qid)]
      /\ r.storages = storages
      /\ DOMAIN d.things = Things
      /\ d.storages \in Seq(Nat)
  <2>1. /\ r.things = [d.things EXCEPT ![m.thing] = ThingRowAfter(d, m, qid)]
        /\ r.storages = storages
    BY <1>1, StoreThingParts
  <2>2. DOMAIN d.things = Things /\ d.storages \in Seq(Nat)
    BY <1>1, TablesParts
  <2>3. QED
    BY <2>1, <2>2
<1>3. ThingRowAfter(d, m, qid) # None
  <2>1. DataInv(r)
    BY StoreThingData
  <2>2. r.things[m.thing] = ThingRowAfter(d, m, qid)
    BY <1>1, <1>2
  <2>3. StorageIdAfter(d, m) \in Nat
    <3>1. Len(d.parsers) \in Nat
      BY <1>1, TablesParts
    <3>2. Len((IF m.parser = None THEN d ELSE StoreParser(d, m)).parsers) \in Nat
      BY <1>1, StorageParserRow
    <3>3. QED
      BY <1>1, <3>1, <3>2, StorageParserRow, StoreStorageRows
  <2>4. [s \in Sections |-> SectionIdAfter(d, m, s)] \in [Sections -> Nat]
    BY <1>1, StoreSectionRows
  <2>5. ThingRowAfter(d, m, qid) \in ThingRow
    BY <2>3, <2>4, MsgParts DEF ThingRowAfter, ThingRow
  <2>6. QED
    BY <2>5, ConfigDbAssumption
<1>4. /\ id \in Nat /\ id <= Len(d.storages)
      /\ \A t \in Things : StorageId(d, t) \in Nat /\ StorageId(d, t) <= Len(d.storages)
  BY <1>1, FetchedIds
<1>5. /\ (~m.storage) => storages = d.storages
      /\ (m.storage /\ id = NoRow) => storages = Append(d.storages, StorageParser(d, m))
      /\ (m.storage /\ id # NoRow) =>
            storages = [d.storages EXCEPT ![id] = StorageParser(d, m)]
  <2>1. CASE ~m.storage
    BY <2>1 DEF StoreStorage
  <2>2. CASE m.storage /\ id = NoRow
    <3>1. StoreStorage(d, m) = [d EXCEPT !.storages = Append(@, StorageParser(d, m))]
      BY <2>2 DEF StoreStorage
    <3>2. QED
      BY <1>1, <2>2, <3>1, TablesParts
  <2>3. CASE m.storage /\ id # NoRow
    <3>1. StoreStorage(d, m) =
            [d EXCEPT !.storages[StorageId(d, m.thing)] = StorageParser(d, m)]
      BY <2>3 DEF StoreStorage
    <3>2. QED
      BY <1>1, <2>3, <3>1, TablesParts
  <2>4. QED
    BY <2>1, <2>2, <2>3
<1> HIDE DEF storages, id, r
<1>6. ASSUME NEW t \in Things, t # m.thing, StorageId(r, t) # NoRow
      PROVE  ParserId(r, t) = ParserId(d, t)
  <2>1. r.things[t] = d.things[t]
    BY <1>1, <1>2, <1>6
  <2>2. StorageId(r, t) = StorageId(d, t) /\ Known(d, t)
    BY <1>6, <2>1 DEF StorageId, Known
  <2>3. id # NoRow => StorageId(d, t) # id
    BY <1>1, <1>6, <2>2 DEF NotShared, StorageId, id
  <2>4. StorageId(d, t) \in 1..Len(d.storages)
    BY <1>4, <1>6, <2>2 DEF NoRow
  <2>5. storages[StorageId(d, t)] = d.storages[StorageId(d, t)]
    BY <1>2, <1>5, <2>3, <2>4
  <2>6. QED
    BY <1>2, <1>6, <2>2, <2>5 DEF ParserId
<1>7. ASSUME m.parser = None, ParserId(d, m.thing) # NoRow, StorageId(r, m.thing) # NoRow
      PROVE  ParserId(r, m.thing) = ParserId(d, m.thing)
  <2>1. id # NoRow /\ ParserId(d, m.thing) = d.storages[id]
    BY <1>7 DEF ParserId, id
  <2>2. StorageId(r, m.thing) = StorageIdAfter(d, m)
    BY <1>1, <1>2, <1>3 DEF StorageId, Known, ThingRowAfter
  <2>3. m.storage /\ StorageIdAfter(d, m) = id
    BY <1>7, <2>1, <2>2 DEF StorageIdAfter, id
  <2>4. storages = [d.storages EXCEPT ![id] = ParserId(d, m.thing)]
    BY <1>5, <1>7, <2>1, <2>3 DEF StorageParser
  <2>5. storages[id] = ParserId(d, m.thing)
    BY <1>2, <1>4, <2>1, <2>4
  <2>6. QED
    BY <1>2, <1>7, <2>2, <2>3, <2>5 DEF ParserId
<1>8. QED
  BY <1>6, <1>7 DEF ParsersKept, r

(***************************************************************************)
(* The transaction of thing_update: d are the tables before it.            *)
(***************************************************************************)
LEMMA ThingUpdatedAnnounced ==
  ASSUME NEW d, DataInv(d), NEW m \in ThingMsgs, ~ThingFails(d, m)
  PROVE  /\ AnnouncedIn(ThingUpdated(d, m), m.thing, m)
         /\ OthersKept(d, ThingUpdated(d, m), m.thing)
         /\ ParsersKept(d, ThingUpdated(d, m), m)
<1> DEFINE e == StoreProject(d, m.project, m.schema)
           f == StoreLegacyQc(e, m)
<1>1. DataInv(e) /\ DataInv(f) /\ d \in Tables
  BY StoreProjectData, StoreLegacyQcData, MsgParts DEF DataInv
<1>2. /\ e.things = d.things /\ e.mapping = d.mapping /\ e.storages = d.storages
  <2>1. e = [schemaOf |-> [d.schemaOf EXCEPT ![m.project] = m.schema],
             mapping |-> d.mapping, rows |-> d.rows, parsers |-> d.parsers,
             storages |-> d.storages, things |-> d.things, qaqc |-> d.qaqc]
    BY <1>1, TablesExcept DEF StoreProject
  <2>2. QED
    BY <2>1
<1> HIDE DEF e
<1>3. /\ f.things = d.things /\ f.mapping = d.mapping /\ f.storages = d.storages
  <2>1. CASE m.qc = None
    BY <1>2, <2>1 DEF StoreLegacyQc
  <2>2. CASE m.qc # None
    <3> DEFINE q == StoreQcRow(e.qaqc, LegacyRow(m), QcId(e.qaqc, m.project, m.qc.name))
    <3>1. f = [e EXCEPT !.qaqc = q]
      BY <2>2 DEF StoreLegacyQc
    <3> HIDE DEF q
    <3>2. e \in Tables
      BY <1>1 DEF DataInv
    <3>3. QED
      BY <1>2, <3>1, <3>2, TablesExcept
  <2>3. QED
    BY <2>1, <2>2
<1>4. LegacyId(e, m) \in Nat /\ LegacyId(e, m) # NoRow
  <2>1. e.qaqc \in Seq(QcRow)
    BY <1>1, TablesParts DEF DataInv
  <2>2. QcId(e.qaqc, m.project, m.qc.name) \in {NoRow} \cup DOMAIN e.qaqc
    BY <2>1, QcIdFound
  <2>3. QED
    BY <2>1, <2>2 DEF LegacyId, NoRow
<1> HIDE DEF f
<1>5. CASE m.legacy
  <2> DEFINE r == StoreThing(f, m, LegacyId(e, m))
  <2>1. ThingUpdated(d, m) = r
    BY <1>5 DEF ThingUpdated, e, f
  <2>2. AnnouncedIn(r, m.thing, m) /\ OthersKept(f, r, m.thing) /\ ParsersKept(f, r, m)
    BY <1>1, <1>4, <1>5, StoreThingAnnounced, StoreThingParsers
  <2> HIDE DEF r
  <2>3. QED
    BY <1>3, <2>1, <2>2 DEF OthersKept, ParsersKept, ParserId, StorageId, Known
<1>6. CASE ~m.legacy
  <2> DEFINE r == StoreThing(e, m, NoRow)
  <2>1. ThingUpdated(d, m) = r
    BY <1>6 DEF ThingUpdated, e
  <2>2. NoRow \in Nat
    BY DEF NoRow
  <2>3. AnnouncedIn(r, m.thing, m) /\ OthersKept(e, r, m.thing) /\ ParsersKept(e, r, m)
    BY <1>1, <1>6, <2>2, StoreThingAnnounced, StoreThingParsers
  <2> HIDE DEF r
  <2>4. QED
    BY <1>2, <2>1, <2>3 DEF OthersKept, ParsersKept, ParserId, StorageId, Known
<1>7. QED
  BY <1>5, <1>6

\* qaqc_update touches none of these tables.
LEMMA StoreQcOther ==
  ASSUME NEW d \in Tables, NEW c
  PROVE  /\ StoreQc(d, c).things = d.things
         /\ StoreQc(d, c).mapping = d.mapping
         /\ StoreQc(d, c).storages = d.storages
<1> DEFINE q == StoreQcRow(d.qaqc, [name |-> c.name, project |-> c.project,
                                    default |-> c.default, tests |-> c.tests],
                           QcId(d.qaqc, c.project, c.name))
<1>1. StoreQc(d, c) = [d EXCEPT !.qaqc = q]
  BY DEF StoreQc
<1> HIDE DEF q
<1>2. QED
  BY <1>1, TablesExcept

(***************************************************************************)
(* What an open transaction has in store, against the committed tables.    *)
(***************************************************************************)
InStore ==
  pc = "commit" =>
    /\ AnnouncedIn(txn, msg.thing, msg)
    /\ OthersKept(db, txn, msg.thing)
    /\ ParsersKept(db, txn, msg)

FollowInv == ThingAsAnnounced /\ InStore

LEMMA InitFollow == Init => FollowInv
  BY DEF Init, FollowInv, ThingAsAnnounced, InStore

LEMMA NextFollow == Inv /\ FollowInv /\ [Next]_vars => FollowInv'
<1>. SUFFICES ASSUME Inv, FollowInv, [Next]_vars PROVE FollowInv'
  OBVIOUS
<1>0. /\ DataInv(db) /\ db \in Tables /\ ThingAsAnnounced /\ InStore
      /\ msg \in ThingMsgs \cup {None} /\ (pc = "idle" <=> msg = None)
      /\ last \in [Things -> ThingMsgs \cup {None}]
  BY DEF Inv, TypeOK, FollowInv
<1>1. ASSUME NEW m \in ThingMsgs, UpdateThing(m) PROVE FollowInv'
  <2>1. ~ThingFails(db, m) /\ txn' = ThingUpdated(db, m) /\ msg' = m /\ db' = db
        /\ last' = last
    BY <1>1 DEF UpdateThing
  <2>2. /\ AnnouncedIn(txn', m.thing, m)
        /\ OthersKept(db, txn', m.thing)
        /\ ParsersKept(db, txn', m)
    BY <1>0, <2>1, ThingUpdatedAnnounced
  <2>3. InStore'
    BY <2>1, <2>2 DEF InStore
  <2>4. ThingAsAnnounced'
    BY <1>0, <2>1 DEF ThingAsAnnounced, Announced
  <2>5. QED
    BY <2>3, <2>4 DEF FollowInv
<1>2. ASSUME NEW c \in QcMsgs, UpdateQc(c) PROVE FollowInv'
  <2>1. /\ db'.things = db.things /\ db'.mapping = db.mapping
        /\ last' = last /\ pc' = "idle"
    BY <1>0, <1>2, StoreQcOther DEF UpdateQc
  <2>2. QED
    BY <1>0, <2>1 DEF FollowInv, ThingAsAnnounced, Announced, InStore
<1>3. ASSUME NEW m \in ThingMsgs, RejectThing(m) PROVE FollowInv'
  BY <1>0, <1>3 DEF RejectThing, FollowInv, ThingAsAnnounced, Announced, InStore
<1>4. CASE Reject
  BY <1>0, <1>4 DEF Reject, FollowInv, ThingAsAnnounced, Announced, InStore
<1>5. CASE Commit
  <2>1. /\ db' = txn /\ pc' = "send" /\ pc = "commit" /\ msg \in ThingMsgs
        /\ last' = [last EXCEPT ![msg.thing] = msg]
    BY <1>0, <1>5 DEF Commit
  <2>2. AnnouncedIn(txn, msg.thing, msg) /\ OthersKept(db, txn, msg.thing)
    BY <1>0, <2>1 DEF InStore
  <2>3. ASSUME NEW t \in Things, last'[t] # None PROVE Announced(t, last[t])'
    <3>1. CASE t = msg.thing
      <4>1. last'[t] = msg
        BY <1>0, <2>1, <3>1
      <4>2. QED
        BY <2>1, <2>2, <3>1, <4>1 DEF Announced, AnnouncedIn
    <3>2. CASE t # msg.thing
      <4>1. last'[t] = last[t]
        BY <1>0, <2>1, <3>2
      <4>2. Announced(t, last[t])
        BY <1>0, <2>3, <4>1 DEF ThingAsAnnounced
      <4>3. db'.things[t] = db.things[t] /\ db.mapping \subseteq db'.mapping
        BY <2>1, <2>2, <3>2 DEF OthersKept
      <4>4. QED
        BY <4>1, <4>2, <4>3 DEF Announced
    <3>3. QED
      BY <3>1, <3>2
  <2>4. ThingAsAnnounced'
    BY <2>3 DEF ThingAsAnnounced
  <2>5. QED
    BY <2>1, <2>4 DEF FollowInv, InStore
<1>6. CASE CommitFails
  BY <1>0, <1>6 DEF CommitFails, FollowInv, ThingAsAnnounced, Announced, InStore
<1>7. CASE Notify
  BY <1>0, <1>7 DEF Notify, FollowInv, ThingAsAnnounced, Announced, InStore
<1>8. CASE Crash
  BY <1>0, <1>8 DEF Crash, FollowInv, ThingAsAnnounced, Announced, InStore
<1>9. CASE UNCHANGED vars
  BY <1>0, <1>9 DEF vars, FollowInv, ThingAsAnnounced, Announced, InStore
<1>10. QED
  BY <1>1, <1>2, <1>3, <1>4, <1>5, <1>6, <1>7, <1>8, <1>9 DEF Next

(***************************************************************************)
(* The tables of a thing are what its last committed message said, for any *)
(* messages in any order, with roll backs, failing commits and crashes     *)
(* (thing_update and store_thing_config).                                  *)
(***************************************************************************)
THEOREM TablesFollow == Spec => []ThingAsAnnounced
<1>1. FollowInv => ThingAsAnnounced
  BY DEF FollowInv
<1>2. QED
  BY <1>1, InitFollow, NextFollow, Invariance, PTL DEF Spec

(***************************************************************************)
(* A storage that stays keeps its parser if the message names none, and no *)
(* message of another thing touches it (upsert_table_s3_store).            *)
(***************************************************************************)
THEOREM ParserStays == Spec => ParserPreserved
<1> DEFINE Kept ==
      \A t \in Things :
        (ParserId(db, t) # NoRow /\ StorageId(db', t) # NoRow /\
         last'[t].parser = None)
          => ParserId(db', t) = ParserId(db, t)
<1>1. Inv /\ FollowInv /\ [Next]_vars => [Kept]_vars
  <2>. SUFFICES ASSUME Inv, FollowInv, [Next]_vars PROVE Kept
    OBVIOUS
  <2>0. /\ db \in Tables /\ InStore
        /\ msg \in ThingMsgs \cup {None} /\ (pc = "idle" <=> msg = None)
        /\ last \in [Things -> ThingMsgs \cup {None}]
    BY DEF Inv, TypeOK, FollowInv
  <2>1. CASE db'.things = db.things /\ db'.storages = db.storages
    BY <2>1 DEF ParserId, StorageId, Known
  <2>2. CASE Commit
    <3>1. /\ db' = txn /\ pc = "commit" /\ msg \in ThingMsgs
          /\ last' = [last EXCEPT ![msg.thing] = msg]
      BY <2>0, <2>2 DEF Commit
    <3>2. ParsersKept(db, txn, msg)
      BY <2>0, <3>1 DEF InStore
    <3>3. ASSUME NEW t \in Things, ParserId(db, t) # NoRow, StorageId(db', t) # NoRow,
                 last'[t].parser = None
          PROVE  ParserId(db', t) = ParserId(db, t)
      <4>1. t # msg.thing \/ msg.parser = None
        BY <2>0, <3>1, <3>3
      <4>2. QED
        BY <3>1, <3>2, <3>3, <4>1 DEF ParsersKept
    <3>4. QED
      BY <3>3
  <2>3. ASSUME NEW c \in QcMsgs, UpdateQc(c)
        PROVE  db'.things = db.things /\ db'.storages = db.storages
    BY <2>0, <2>3, StoreQcOther DEF UpdateQc
  <2>4. Commit \/ (\E c \in QcMsgs : UpdateQc(c)) \/ db' = db
    BY DEF Next, UpdateThing, RejectThing, Reject, CommitFails, Notify, Crash, vars
  <2>5. QED
    BY <2>1, <2>2, <2>3, <2>4
<1>2. QED
  BY <1>1, InitFollow, NextFollow, Invariance, PTL DEF Spec, ParserPreserved

(***************************************************************************)
(* The rows that a message does not name are kept, and the default flag of *)
(* each is unset exactly if it competes with the row that is written.      *)
(***************************************************************************)
LEMMA StoreQcRowKeeps ==
  ASSUME NEW q \in Seq(QcRow), NEW row \in QcRow, NEW id \in {NoRow} \cup DOMAIN q
  PROVE  /\ Written(q, id) \in DOMAIN StoreQcRow(q, row, id)
         /\ StoreQcRow(q, row, id)[Written(q, id)] = row
         /\ \A i \in DOMAIN q : i # Written(q, id) =>
              /\ i \in DOMAIN StoreQcRow(q, row, id)
              /\ StoreQcRow(q, row, id)[i].project = q[i].project
              /\ StoreQcRow(q, row, id)[i].name = q[i].name
              /\ StoreQcRow(q, row, id)[i].tests = q[i].tests
              /\ StoreQcRow(q, row, id)[i].default <=>
                   /\ q[i].default
                   /\ ~(row.default /\ row.project # None /\
                          q[i].project = row.project)
<1> DEFINE r == StoreQcRow(q, row, id)
           new == Written(q, id)
           u == Undefault(q, row, new)
<1>1. u \in Seq(QcRow) /\ DOMAIN u = DOMAIN q
  BY UndefaultRows
<1>2. ASSUME NEW i \in DOMAIN q, i # new
      PROVE  /\ u[i].project = q[i].project
             /\ u[i].name = q[i].name
             /\ u[i].tests = q[i].tests
             /\ u[i].default <=>
                  /\ q[i].default
                  /\ ~(row.default /\ row.project # None /\ q[i].project = row.project)
  <2>1. q[i] \in QcRow
    OBVIOUS
  <2>2. CASE row.default /\ row.project # None /\ q[i].project = row.project
    <3>1. u[i] = [q[i] EXCEPT !.default = FALSE]
      BY <1>2, <2>2 DEF Undefault
    <3>2. QED
      BY <2>1, <2>2, <3>1 DEF QcRow
  <2>3. CASE ~(row.default /\ row.project # None /\ q[i].project = row.project)
    <3>1. u[i] = q[i]
      BY <1>2, <2>3 DEF Undefault
    <3>2. QED
      BY <2>3, <3>1
  <2>4. QED
    BY <2>2, <2>3
<1> HIDE DEF u
<1>3. /\ new \in DOMAIN r /\ r[new] = row
      /\ \A i \in DOMAIN q : i # new => i \in DOMAIN r /\ r[i] = u[i]
  <2>1. CASE id = NoRow
    <3>1. r = Append(u, row)
      BY <2>1, StoreQcRowRows DEF Written, u
    <3>2. Len(u) = Len(q) /\ Len(q) \in Nat /\ DOMAIN q = 1..Len(q)
      BY <1>1
    <3>3. DOMAIN r = 1..(Len(q) + 1) /\ r[Len(q) + 1] = row
          /\ \A i \in 1..Len(q) : r[i] = u[i]
      BY <1>1, <3>1, <3>2
    <3>4. QED
      BY <2>1, <3>2, <3>3 DEF Written
  <2>2. CASE id # NoRow
    <3>1. r = [u EXCEPT ![id] = row]
      BY <2>2, StoreQcRowRows DEF Written, u
    <3>2. QED
      BY <1>1, <2>2, <3>1 DEF Written
  <2>3. QED
    BY <2>1, <2>2
<1> HIDE DEF r
<1>4. QED
  BY <1>2, <1>3 DEF r

\* The configs q against the log of the messages of qaqc_settings_update.
Superseded(log, i) ==
  \E j \in DOMAIN log :
    j > i /\ log[j].project = log[i].project /\ log[j].name = log[i].name

Deposed(log, i) ==
  \E j \in DOMAIN log : j > i /\ log[j].project = log[i].project /\ log[j].default

LoggedIn(q, log) ==
  \A i \in DOMAIN log :
    ~Superseded(log, i) =>
      \E k \in DOMAIN q :
        /\ q[k].project = log[i].project
        /\ q[k].name = log[i].name
        /\ q[k].tests = log[i].tests
        /\ q[k].default <=> (log[i].default /\ ~Deposed(log, i))

LEMMA LoggedInTables == LoggedIn(db.qaqc, qcLog) <=> QcAsAnnounced
  BY DEF LoggedIn, Superseded, Deposed, QcAsAnnounced, Outdated

\* A message of qaqc_settings_update: what it supersedes and deposes.
LEMMA StoreQcLogged ==
  ASSUME NEW d \in Tables, NEW log \in Seq(QcMsgs), NEW c \in QcMsgs,
         LoggedIn(d.qaqc, log)
  PROVE  LoggedIn(StoreQc(d, c).qaqc, Append(log, c))
<1> DEFINE q == d.qaqc
           row == [name |-> c.name, project |-> c.project,
                   default |-> c.default, tests |-> c.tests]
           id == QcId(q, c.project, c.name)
           r == StoreQcRow(q, row, id)
           new == Written(q, id)
           n == Len(log)
           log2 == Append(log, c)
<1>1. q \in Seq(QcRow)
  BY TablesParts
<1>2. c \in QcMsg /\ row \in QcRow /\ c.project # None /\ c.default \in BOOLEAN
  BY ConfigDbAssumption DEF QcMsg, QcRow
<1>3. /\ row.name = c.name /\ row.project = c.project
      /\ row.default = c.default /\ row.tests = c.tests
  OBVIOUS
<1>4. StoreQc(d, c).qaqc = r
  <2>1. StoreQc(d, c) = [d EXCEPT !.qaqc = r]
    BY DEF StoreQc
  <2> HIDE DEF r
  <2>2. QED
    BY <2>1, TablesExcept
<1>5. /\ id \in {NoRow} \cup DOMAIN q
      /\ id # NoRow => q[id].project = c.project /\ q[id].name = c.name
  BY <1>1, QcIdFound
<1> HIDE DEF row, id, q
<1>6. /\ new \in DOMAIN r /\ r[new] = row
      /\ \A k \in DOMAIN q : k # new =>
           /\ k \in DOMAIN r
           /\ r[k].project = q[k].project
           /\ r[k].name = q[k].name
           /\ r[k].tests = q[k].tests
           /\ r[k].default <=>
                (q[k].default /\ ~(c.default /\ q[k].project = c.project))
  <2>1. /\ new \in DOMAIN r /\ r[new] = row
        /\ \A k \in DOMAIN q : k # new =>
             /\ k \in DOMAIN r
             /\ r[k].project = q[k].project
             /\ r[k].name = q[k].name
             /\ r[k].tests = q[k].tests
             /\ r[k].default <=>
                  /\ q[k].default
                  /\ ~(row.default /\ row.project # None /\ q[k].project = row.project)
    BY <1>1, <1>2, <1>5, StoreQcRowKeeps
  <2> HIDE DEF r, new
  <2>2. QED
    BY <1>2, <1>3, <2>1
<1>7. \A k \in DOMAIN q : k = new => q[k].project = c.project /\ q[k].name = c.name
  BY <1>1, <1>5 DEF Written
<1> HIDE DEF r, new
<1>8. /\ n \in Nat /\ DOMAIN log = 1..n /\ DOMAIN log2 = 1..(n + 1)
      /\ log2[n + 1] = c /\ \A i \in 1..n : log2[i] = log[i]
  OBVIOUS
<1> HIDE DEF log2, n
<1>9. ASSUME NEW i \in DOMAIN log2, ~Superseded(log2, i)
      PROVE  \E k \in DOMAIN r :
               /\ r[k].project = log2[i].project
               /\ r[k].name = log2[i].name
               /\ r[k].tests = log2[i].tests
               /\ r[k].default <=> (log2[i].default /\ ~Deposed(log2, i))
  <2>1. CASE i = n + 1
    <3>1. ~Deposed(log2, i)
      BY <1>8, <2>1 DEF Deposed
    <3>2. QED
      BY <1>3, <1>6, <1>8, <2>1, <3>1
  <2>2. CASE i # n + 1
    <3>1. i \in 1..n /\ log2[i] = log[i] /\ n + 1 \in DOMAIN log2 /\ n + 1 > i
      BY <1>8, <2>2
    <3>2. ~Superseded(log, i)
      BY <1>8, <1>9, <3>1 DEF Superseded
    <3>3. ~(c.project = log[i].project /\ c.name = log[i].name)
      BY <1>8, <1>9, <3>1 DEF Superseded
    <3>4. Deposed(log2, i) <=> (Deposed(log, i) \/ (c.default /\ c.project = log[i].project))
      BY <1>8, <3>1 DEF Deposed
    <3>5. PICK k \in DOMAIN q :
            /\ q[k].project = log[i].project
            /\ q[k].name = log[i].name
            /\ q[k].tests = log[i].tests
            /\ q[k].default <=> (log[i].default /\ ~Deposed(log, i))
      BY <1>8, <3>1, <3>2 DEF LoggedIn, q
    <3>6. k # new
      BY <1>7, <3>3, <3>5
    <3>7. /\ k \in DOMAIN r
          /\ r[k].project = log2[i].project
          /\ r[k].name = log2[i].name
          /\ r[k].tests = log2[i].tests
      BY <1>6, <3>1, <3>5, <3>6
    <3>8. r[k].default <=> (log2[i].default /\ ~Deposed(log2, i))
      BY <1>6, <3>1, <3>4, <3>5, <3>6
    <3>9. QED
      BY <3>7, <3>8
  <2>3. QED
    BY <2>1, <2>2
<1>10. LoggedIn(r, log2)
  BY <1>9 DEF LoggedIn
<1>11. QED
  BY <1>4, <1>10 DEF log2

(***************************************************************************)
(* A legacy config takes the row of the project's config of its name away; *)
(* "Apart" says that the legacy messages name no project config.           *)
(***************************************************************************)
Apart ==
  \A m \in ThingMsgs : \A c \in QcMsgs :
    (m.legacy /\ m.qc # None) => ~(m.project = c.project /\ m.qc.name = c.name)

LEMMA ThingUpdatedLogged ==
  ASSUME Apart, NEW d, DataInv(d), NEW log \in Seq(QcMsgs), NEW m \in ThingMsgs,
         LoggedIn(d.qaqc, log)
  PROVE  LoggedIn(ThingUpdated(d, m).qaqc, log)
<1> DEFINE e == StoreProject(d, m.project, m.schema)
           f == StoreLegacyQc(e, m)
<1>1. DataInv(e) /\ DataInv(f) /\ d \in Tables /\ e \in Tables /\ f \in Tables
  BY StoreProjectData, StoreLegacyQcData, MsgParts DEF DataInv
<1>2. e.qaqc = d.qaqc /\ d.qaqc \in Seq(QcRow)
  <2>1. e = [schemaOf |-> [d.schemaOf EXCEPT ![m.project] = m.schema],
             mapping |-> d.mapping, rows |-> d.rows, parsers |-> d.parsers,
             storages |-> d.storages, things |-> d.things, qaqc |-> d.qaqc]
    BY <1>1, TablesExcept DEF StoreProject
  <2>2. QED
    BY <1>1, <2>1, TablesParts
<1>3. ASSUME m.legacy PROVE LoggedIn(f.qaqc, log)
  <2>1. CASE m.qc = None
    BY <1>2, <2>1 DEF StoreLegacyQc
  <2>2. CASE m.qc # None
    <3> DEFINE q == d.qaqc
               id == QcId(q, m.project, m.qc.name)
               row == LegacyRow(m)
               r == StoreQcRow(q, row, id)
               new == Written(q, id)
    <3>1. f.qaqc = r
      <4>1. f = [e EXCEPT !.qaqc = r]
        BY <1>2, <2>2 DEF StoreLegacyQc
      <4> HIDE DEF r, e, f
      <4>2. QED
        BY <1>1, <4>1, TablesExcept
    <3>2. row \in QcRow /\ row.project = None
      BY <2>2, MsgParts DEF LegacyRow, QcRow
    <3>3. /\ id \in {NoRow} \cup DOMAIN q
          /\ id # NoRow => q[id].project = m.project /\ q[id].name = m.qc.name
      BY <1>2, QcIdFound
    <3> HIDE DEF id, row
    <3>4. \A k \in DOMAIN q : k # new =>
             /\ k \in DOMAIN r
             /\ r[k].project = q[k].project
             /\ r[k].name = q[k].name
             /\ r[k].tests = q[k].tests
             /\ r[k].default <=>
                  /\ q[k].default
                  /\ ~(row.default /\ row.project # None /\ q[k].project = row.project)
      BY <1>2, <3>2, <3>3, StoreQcRowKeeps
    <3>5. \A k \in DOMAIN q : k = new => q[k].project = m.project /\ q[k].name = m.qc.name
      BY <1>2, <3>3 DEF Written
    <3> HIDE DEF r, new
    <3>6. ASSUME NEW i \in DOMAIN log, ~Superseded(log, i)
          PROVE  \E k \in DOMAIN r :
                   /\ r[k].project = log[i].project
                   /\ r[k].name = log[i].name
                   /\ r[k].tests = log[i].tests
                   /\ r[k].default <=> (log[i].default /\ ~Deposed(log, i))
      <4>1. PICK k \in DOMAIN q :
              /\ q[k].project = log[i].project
              /\ q[k].name = log[i].name
              /\ q[k].tests = log[i].tests
              /\ q[k].default <=> (log[i].default /\ ~Deposed(log, i))
        BY <3>6 DEF LoggedIn
      <4>2. log[i] \in QcMsgs
        OBVIOUS
      <4>3. k # new
        BY <1>3, <2>2, <3>5, <4>1, <4>2 DEF Apart
      <4>4. QED
        BY <3>2, <3>4, <4>1, <4>3
    <3>7. QED
      BY <3>1, <3>6 DEF LoggedIn
  <2>3. QED
    BY <2>1, <2>2
<1> HIDE DEF e, f
<1>4. CASE m.legacy
  BY <1>1, <1>3, <1>4, StoreThingParts DEF ThingUpdated, e, f
<1>5. CASE ~m.legacy
  BY <1>1, <1>2, <1>5, StoreThingParts DEF ThingUpdated, e
<1>6. QED
  BY <1>4, <1>5

(***************************************************************************)
(* The configs of a project are those announced last (store_qaqc_config    *)
(* and the trigger of V2_11), if the legacy messages name none of them:    *)
(* also those an open transaction will leave behind.                       *)
(***************************************************************************)
LogInv == LoggedIn(db.qaqc, qcLog) /\ LoggedIn(txn.qaqc, qcLog)

THEOREM ConfigsFollow ==
  ASSUME Apart
  PROVE  Spec => []QcAsAnnounced
<1>1. Init => LogInv
  BY DEF Init, LogInv, LoggedIn
<1>2. Inv /\ LogInv /\ [Next]_vars => LogInv'
  <2>. SUFFICES ASSUME Inv, LogInv, [Next]_vars PROVE LogInv'
    OBVIOUS
  <2>0. /\ DataInv(db) /\ db \in Tables /\ qcLog \in Seq(QcMsgs)
        /\ LoggedIn(db.qaqc, qcLog) /\ LoggedIn(txn.qaqc, qcLog)
    BY DEF Inv, TypeOK, LogInv
  <2>1. ASSUME NEW m \in ThingMsgs, UpdateThing(m) PROVE LogInv'
    <3>1. LoggedIn(ThingUpdated(db, m).qaqc, qcLog)
      BY <2>0, Apart, ThingUpdatedLogged
    <3>2. txn' = ThingUpdated(db, m) /\ db' = db /\ qcLog' = qcLog
      BY <2>1 DEF UpdateThing
    <3>3. QED
      BY <2>0, <3>1, <3>2 DEF LogInv
  <2>2. ASSUME NEW c \in QcMsgs, UpdateQc(c) PROVE LogInv'
    <3>1. LoggedIn(StoreQc(db, c).qaqc, Append(qcLog, c))
      BY <2>0, StoreQcLogged
    <3>2. db' = StoreQc(db, c) /\ txn' = db' /\ qcLog' = Append(qcLog, c)
      BY <2>2 DEF UpdateQc
    <3>3. QED
      BY <3>1, <3>2 DEF LogInv
  <2>3. CASE Commit
    BY <2>0, <2>3 DEF Commit, LogInv
  <2>4. CASE CommitFails \/ Crash
    BY <2>0, <2>4 DEF CommitFails, Crash, LogInv
  <2>5. ASSUME NEW m \in ThingMsgs, RejectThing(m) PROVE LogInv'
    BY <2>0, <2>5 DEF RejectThing, LogInv
  <2>6. CASE Reject \/ Notify \/ UNCHANGED vars
    BY <2>0, <2>6 DEF Reject, Notify, vars, LogInv
  <2>7. QED
    BY <2>1, <2>2, <2>3, <2>4, <2>5, <2>6 DEF Next
<1>3. LogInv => QcAsAnnounced
  BY LoggedInTables DEF LogInv
<1>4. QED
  BY <1>1, <1>2, <1>3, Invariance, PTL DEF Spec

(***************************************************************************)
(* A thing that has a row was committed before, and a message that failed  *)
(* is a legacy one without a QC config or of such a thing.                 *)
(***************************************************************************)
StoredInv ==
  /\ \A t \in Things : Known(db, t) => last[t] # None
  /\ NewThingIsStored

(***************************************************************************)
(* With a unique index on file_parser.uuid, which upsert_table_file_parser *)
(* relies on ("INSERT ... ON CONFLICT"), a first message of a thing can be *)
(* stored.  Without it the code does not keep this promise.                *)
(***************************************************************************)
THEOREM FirstIsStored ==
  ASSUME ParserUuidUnique
  PROVE  Spec => []NewThingIsStored
<1>1. Init => StoredInv
  BY DEF Init, StoredInv, NewThingIsStored, EmptyDb, Known
<1>2. Inv /\ FollowInv /\ StoredInv /\ [Next]_vars => StoredInv'
  <2>. SUFFICES ASSUME Inv, FollowInv, StoredInv, [Next]_vars PROVE StoredInv'
    OBVIOUS
  <2>0. /\ db \in Tables /\ InStore /\ failed \subseteq ThingMsgs
        /\ msg \in ThingMsgs \cup {None} /\ (pc = "idle" <=> msg = None)
        /\ last \in [Things -> ThingMsgs \cup {None}]
        /\ \A t \in Things : Known(db, t) => last[t] # None
        /\ NewThingIsStored
    BY DEF Inv, TypeOK, FollowInv, StoredInv
  <2>1. ASSUME NEW m \in ThingMsgs, UpdateThing(m) PROVE StoredInv'
    BY <2>0, <2>1 DEF UpdateThing, StoredInv, Known, NewThingIsStored
  <2>2. ASSUME NEW c \in QcMsgs, UpdateQc(c) PROVE StoredInv'
    <3>1. db'.things = db.things /\ UNCHANGED <<last, failed>>
      BY <2>0, <2>2, StoreQcOther DEF UpdateQc
    <3>2. QED
      BY <2>0, <3>1 DEF StoredInv, Known, NewThingIsStored
  <2>3. ASSUME NEW m \in ThingMsgs, RejectThing(m) PROVE StoredInv'
    <3>1. /\ UNCHANGED <<db, last>> /\ failed' = failed \cup {m} /\ ThingFails(db, m)
      BY <2>3 DEF RejectThing
    <3>2. m.legacy \/ Known(db, m.thing)
      BY <3>1, ParserUuidUnique DEF ThingFails, ParserFails, ParserId, StorageId
    <3>3. m.legacy \/ last[m.thing] # None
      BY <2>0, <3>2, MsgParts
    <3>4. QED
      BY <2>0, <3>1, <3>3 DEF StoredInv, Known, NewThingIsStored
  <2>4. CASE Commit
    <3>1. /\ db' = txn /\ pc = "commit" /\ msg \in ThingMsgs /\ msg # None
          /\ last' = [last EXCEPT ![msg.thing] = msg] /\ failed' = failed
      BY <2>0, <2>4 DEF Commit
    <3>2. /\ msg.thing \in Things
          /\ \A u \in Things \ {msg.thing} : txn.things[u] = db.things[u]
      BY <2>0, <3>1, MsgParts DEF InStore, OthersKept
    <3>3. \A t \in Things : last[t] # None => last'[t] # None
      BY <2>0, <3>1
    <3>4. ASSUME NEW t \in Things, Known(db', t) PROVE last'[t] # None
      BY <2>0, <3>1, <3>2, <3>4 DEF Known
    <3>5. ASSUME NEW m \in failed' PROVE m.legacy \/ last'[m.thing] # None
      BY <2>0, <3>1, <3>3, MsgParts DEF NewThingIsStored
    <3>6. QED
      BY <3>4, <3>5 DEF StoredInv, Known, NewThingIsStored
  <2>5. CASE CommitFails \/ Crash
    BY <2>0, <2>5 DEF CommitFails, Crash, StoredInv, Known, NewThingIsStored
  <2>6. CASE Reject \/ Notify \/ UNCHANGED vars
    BY <2>0, <2>6 DEF Reject, Notify, vars, StoredInv, Known, NewThingIsStored
  <2>7. QED
    BY <2>1, <2>2, <2>3, <2>4, <2>5, <2>6 DEF Next
<1>3. StoredInv => NewThingIsStored
  BY DEF StoredInv
<1>4. QED
  BY <1>1, <1>2, <1>3, InitFollow, NextFollow, Invariance, PTL DEF Spec
=============================================================================
