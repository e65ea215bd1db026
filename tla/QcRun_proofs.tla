---------------------------- MODULE QcRun_proofs ----------------------------
(***************************************************************************)
(* Proofs about the worker that runs the tests of a QC config: the types,  *)
(* what its cache holds, which labels a run may change, and that every row *)
(* is judged by all the tests of its stream.                               *)
(***************************************************************************)
EXTENDS QcRun, SequenceTheorems, FiniteSetTheorems, TLAPS

Loading == {"load", "oldest", "end", "context"}

\* What waits to be run, or to be announced, is without dates or has both.
MessagesInv ==
  \A m \in unsent \cup Range(queue) :
    IF m.from = None THEN m.to = None ELSE m.to # None /\ m.from <= m.to

\* The rows that there were when the run began, and those excused since.
RowsInv ==
  /\ \A s \in Streams : before[s] \subseteq rows[s]
  /\ pc # "idle" => \A s \in Streams : rows[s] \subseteq before[s] \cup excused[s]

\* Between two runs there is no cache; a test runs while streams are loaded.
PhaseInv ==
  /\ pc = "idle" =>
       /\ opened = << >>
       /\ \A n \in Names : cached[n] = {} /\ pointer[n] = None /\ unflagged[n] = Unread
  /\ pc \in Loading => test \in TestIds
  /\ pc \in {"end", "context"} => range.from # None

\* What the load of a name has fetched already.
FetchedInv ==
  /\ pc = "end" => cached[Current] # {}
  /\ pc \in {"end", "context"} =>
       \A n \in Names : n # Current /\ cached[n] # {} => pointer[n] # None
  /\ pc = "end" => pointer[Current] # None
  /\ pc = "context" /\ pointer[Current] = None =>
       \A t \in cached[Current] : range.from <= t /\ t <= range.to

\* The cache of the name that is loaded has each row from the start on, up to its last one ...
StartCovered ==
  pc \in {"end", "context"} =>
    \A t \in before[StreamOf[Current]] : \A u \in cached[Current] :
      range.from <= t /\ t <= u => t \in cached[Current]

\* ... and then each row of the dates.
EndCovered ==
  pc = "context" /\ range.to # Open =>
    \A t \in before[StreamOf[Current]] :
      range.from <= t /\ t <= range.to => t \in cached[Current]

CacheInv ==
  /\ TypeOK /\ MessagesInv /\ RowsInv /\ PhaseInv
  /\ FetchedInv /\ CacheHasNoHoles /\ StartCovered /\ EndCovered

\* A message with dates: they are the range, the upload starts with it, and what is cached after
\* it keeps its labels.
DatedInv ==
  pc # "idle" /\ Head(queue).from # None =>
    /\ range = MessageRange(Head(queue))
    /\ \A n \in Names :
         /\ pointer[n] \in {None, Head(queue).from}
         /\ \A t \in frame[n] : t <= Head(queue).to
         /\ \A t \in cached[n] : t > Head(queue).to => clabel[n][t] = label[StreamOf[n]][t]
-----------------------------------------------------------------------------
\* The tests that load n first, and flag it.
TestsOfName(n) ==
  {i \in TestIds : Tests[i].names # << >> /\ Head(Tests[i].names) = n /\ n \in Tests[i].flags}

Covers(m, t) == m.from = None \/ (m.from <= t /\ t <= m.to)

\* What a run has to judge of n.
Due(n) ==
  LET s == StreamOf[n] m == Head(queue) IN
  IF m.from = None THEN {t \in before[s] \ excused[s] : label[s][t] = {}}
  ELSE {t \in before[s] : m.from <= t /\ t <= m.to}

Judged(n) ==
  \A t \in rows[StreamOf[n]] \ excused[StreamOf[n]] :
    \/ TestsOfName(n) \subseteq label[StreamOf[n]][t]
    \/ /\ label[StreamOf[n]][t] = {}
       /\ \E m \in unsent \cup Range(queue) : Covers(m, t)

\* No label is lost in the cache.
LabelsCached(n) ==
  \A t \in cached[n] : label[StreamOf[n]][t] \subseteq clabel[n][t]

\* Nothing of the current test was loaded yet.
Fresh == left = Tests[test].names

\* What the first name of a test has seen of the rows without labels.
Seen(n) ==
  pc # "idle" /\ Head(queue).from = None =>
    /\ unflagged[n] # Unread =>
         /\ \A t \in Due(n) : unflagged[n].from # None /\ unflagged[n].from <= t
         /\ \A t \in Due(n) : t <= unflagged[n].to /\ unflagged[n].to # Open
    /\ pc = "oldest" /\ n = Current => \A t \in Due(n) : newest # None /\ t <= newest

\* The test is about to load n, its first name.
Begun(n) ==
  pc \in Loading /\ test \in TestsOfName(n) =>
    \/ /\ Fresh
       /\ pc \in {"load", "oldest"} => range = MessageRange(Head(queue))
       /\ pc \in {"end", "context"} =>
            \A t \in Due(n) : range.from <= t /\ t <= range.to /\ range.to # Open
    \/ /\ n \notin Range(left)
       /\ n \in Range(opened)
       /\ Due(n) \subseteq frame[n] \cap cached[n]
       /\ \A t \in Due(n) : pointer[n] # None /\ pointer[n] <= t

Finished(i) == pc = "upload" \/ (pc \in Loading /\ i < test)

\* The tests that are over have labelled what is due, in the cache.
Labelled(n) ==
  \A i \in TestsOfName(n) : Finished(i) =>
    /\ n \in Range(opened)
    /\ \A t \in Due(n) : /\ t \in cached[n] /\ i \in clabel[n][t]
                         /\ pointer[n] # None /\ pointer[n] <= t

\* An upload leaves out no stream.
UploadsLeft(n) ==
  pc = "upload" /\ TestsOfName(n) # {} =>
    \/ n \in Range(left)
    \/ \A t \in Due(n) : TestsOfName(n) \subseteq label[StreamOf[n]][t]

JudgeOf(n) ==
  /\ Judged(n) /\ LabelsCached(n) /\ Seen(n)
  /\ Begun(n) /\ Labelled(n) /\ UploadsLeft(n)

JudgeInv == OneName => \A n \in Names : JudgeOf(n)
-----------------------------------------------------------------------------
(***************************************************************************)
(* The operators.                                                          *)
(***************************************************************************)
LEMMA TimesNat == MaxTime \in Nat /\ Times \subseteq Nat /\ Times \subseteq Int /\ None \notin Times /\ Open \notin Times
  BY QcAssumption DEF Times, None, Open

LEMMA DatesInt == \A t \in Times \cup {None, Open} : t \in Int
  BY TimesNat DEF None, Open

\* Nat is well founded.
LEMMA MinExists ==
  ASSUME NEW S, S \subseteq Nat, S # {}
  PROVE  \E t \in S : \A u \in S : t <= u
<1>1. IsWellFoundedOn(OpToRel(<, Nat), Nat)
  BY NatLessThanWellFounded
<1>2. PICK t \in S : \A u \in S : ~(<<u, t>> \in OpToRel(<, Nat))
  BY <1>1, WFMin
<1>3. \A u \in S : ~(u < t)
  BY <1>2 DEF OpToRel
<1>4. \A u \in S : t <= u
  BY <1>3
<1>5. QED
  BY <1>4

LEMMA LeastIn ==
  ASSUME NEW S, S \subseteq Times, S # {}
  PROVE  Least(S) \in S /\ Least(S) \in Times /\ \A u \in S : Least(S) <= u
<1>1. \E t \in S : \A u \in S : t <= u
  BY MinExists, TimesNat
<1>2. QED
  BY <1>1 DEF Least

LEMMA GreatestIn ==
  ASSUME NEW S, S \subseteq Times, S # {}
  PROVE  Greatest(S) \in S /\ Greatest(S) \in Times /\ \A u \in S : u <= Greatest(S)
<1> DEFINE R == {MaxTime - t : t \in S}
<1>1. R \subseteq Nat /\ R # {}
  <2>1. \A t \in S : MaxTime - t \in Nat
    BY TimesNat DEF Times
  <2>2. QED
    BY <2>1
<1>2. PICK r \in R : \A u \in R : r <= u
  <2> HIDE DEF R
  <2>1. QED
    BY <1>1, MinExists
<1>3. PICK t \in S : r = MaxTime - t
  BY <1>2
<1>4. \A u \in S : u <= t
  <2>1. TAKE u \in S
  <2>2. MaxTime - u \in R
    BY <2>1
  <2>3. r <= MaxTime - u
    BY <1>2, <2>2
  <2>4. QED
    BY <1>3, <2>3, TimesNat
<1>5. QED
  BY <1>4 DEF Greatest

LEMMA FiniteTimes ==
  ASSUME NEW S, S \subseteq Times
  PROVE  IsFiniteSet(S) /\ Cardinality(S) \in Nat
<1>1. IsFiniteSet(Times)
  BY FS_Interval, TimesNat DEF Times
<1>2. IsFiniteSet(S)
  BY <1>1, FS_Subset
<1>3. QED
  BY <1>2, FS_CardinalityType

LEMMA FewerTimes ==
  ASSUME NEW T, T \subseteq Times, NEW S, S \subseteq T
  PROVE  Cardinality(S) <= Cardinality(T)
<1>1. IsFiniteSet(T)
  BY FiniteTimes
<1>2. QED
  BY <1>1, FS_Subset

\* The newest of some rows have no hole.
LEMMA NewestIsUpper ==
  ASSUME NEW S, S \subseteq Times, NEW k \in Int, NEW u \in Newest(S, k), NEW t \in S, u <= t
  PROVE  t \in Newest(S, k)
<1> DEFINE A == {v \in S : v > u}
           B == {v \in S : v > t}
<1>1. B \subseteq A /\ A \subseteq Times
  <2>1. u \in S
    BY DEF Newest
  <2>2. \A v \in Times : v > t => v > u
    BY <2>1, TimesNat
  <2>3. QED
    BY <2>1, <2>2
<1>2. Cardinality(B) <= Cardinality(A)
  BY <1>1, FewerTimes
<1>3. Cardinality(A) < k
  BY DEF Newest
<1>4. Cardinality(A) \in Nat /\ Cardinality(B) \in Nat
  BY FiniteTimes
<1> HIDE DEF A
<1>5. Cardinality(B) < k
  BY <1>2, <1>3, <1>4
<1>6. QED
  BY <1>5 DEF Newest

\* They are as many as one asks for, or all.
LEMMA NewestIsLarge ==
  ASSUME NEW S, S \subseteq Times, NEW k \in Nat
  PROVE  Newest(S, k) = S \/ Cardinality(Newest(S, k)) >= k
<1> DEFINE R == S \ Newest(S, k)
<1>1. SUFFICES ASSUME R # {} PROVE Cardinality(Newest(S, k)) >= k
  BY DEF Newest
<1> DEFINE g == Greatest(R)
           A == {v \in S : v > g}
<1>2. R \subseteq Times
  OBVIOUS
<1>3. g \in R /\ \A v \in R : v <= g
  BY <1>1, <1>2, GreatestIn
<1>4. A \subseteq Newest(S, k)
  <2> HIDE DEF g
  <2>1. \A v \in S : v > g => ~(v <= g)
    BY <1>2, <1>3, TimesNat
  <2>2. QED
    BY <1>3, <2>1 DEF R
<1>5. ~(Cardinality(A) < k)
  <2>1. g \in S /\ g \notin Newest(S, k)
    BY <1>3
  <2>2. QED
    BY <2>1 DEF Newest
<1>6. Newest(S, k) \subseteq Times
  BY DEF Newest
<1> HIDE DEF A
<1>7. Cardinality(A) <= Cardinality(Newest(S, k))
  BY <1>4, <1>6, FewerTimes
<1>8. Cardinality(A) \in Nat /\ Cardinality(Newest(S, k)) \in Nat
  BY <1>4, <1>6, FiniteTimes
<1>9. QED
  BY <1>5, <1>7, <1>8

LEMMA TailIn ==
  ASSUME NEW S, NEW seq \in Seq(S), seq # << >>
  PROVE  /\ Tail(seq) \in Seq(S) /\ Head(seq) \in S
         /\ 1 \in DOMAIN seq /\ Head(seq) = seq[1]
         /\ \A i \in DOMAIN Tail(seq) : i + 1 \in DOMAIN seq /\ i + 1 # 1 /\ Tail(seq)[i] = seq[i + 1]
         /\ Range(seq) = {Head(seq)} \cup Range(Tail(seq))
<1>1. /\ Tail(seq) \in Seq(S) /\ Head(seq) \in S /\ Len(Tail(seq)) = Len(seq) - 1
      /\ \A i \in 1 .. Len(Tail(seq)) : Tail(seq)[i] = seq[i + 1]
  BY HeadTailProperties
<1>2. DOMAIN seq = 1 .. Len(seq) /\ Len(seq) \in Nat /\ DOMAIN Tail(seq) = 1 .. Len(Tail(seq))
  BY <1>1, LenProperties
<1>3. Len(seq) # 0
  BY <1>2, EmptySeq
<1>4. Head(seq) = seq[1]
  BY <1>1
<1>5. \A i \in DOMAIN seq : i = 1 \/ (i - 1 \in DOMAIN Tail(seq) /\ Tail(seq)[i - 1] = seq[i])
  BY <1>1, <1>2, <1>3
<1>6. \A i \in DOMAIN Tail(seq) : i + 1 \in DOMAIN seq /\ i + 1 # 1 /\ Tail(seq)[i] = seq[i + 1]
  BY <1>1, <1>2, <1>3
<1>7. 1 \in DOMAIN seq
  BY <1>2, <1>3
<1>8. Range(seq) = {Head(seq)} \cup Range(Tail(seq))
  <2>1. \A x \in Range(seq) : x = Head(seq) \/ x \in Range(Tail(seq))
    BY <1>4, <1>5 DEF Range
  <2>2. \A x \in Range(Tail(seq)) : x \in Range(seq)
    BY <1>6 DEF Range
  <2>3. Head(seq) \in Range(seq)
    BY <1>4, <1>7 DEF Range
  <2>4. QED
    BY <2>1, <2>2, <2>3
<1>9. QED
  BY <1>1, <1>4, <1>6, <1>7, <1>8

LEMMA AppendIn ==
  ASSUME NEW S, NEW seq \in Seq(S), NEW e \in S
  PROVE  /\ Append(seq, e) \in Seq(S) /\ Append(seq, e) # << >>
         /\ Range(Append(seq, e)) = Range(seq) \cup {e}
         /\ seq # << >> => Head(Append(seq, e)) = Head(seq)
<1>1. /\ Append(seq, e) \in Seq(S) /\ Append(seq, e) # << >>
      /\ Len(Append(seq, e)) = Len(seq) + 1
      /\ \A i \in 1 .. Len(seq) : Append(seq, e)[i] = seq[i]
      /\ Append(seq, e)[Len(seq) + 1] = e
  BY AppendProperties
<1>2. /\ DOMAIN seq = 1 .. Len(seq) /\ Len(seq) \in Nat
      /\ DOMAIN Append(seq, e) = 1 .. (Len(seq) + 1)
  BY <1>1, LenProperties
<1>3. DOMAIN Append(seq, e) = DOMAIN seq \cup {Len(seq) + 1}
  BY <1>2
<1>4. Range(Append(seq, e)) = Range(seq) \cup {e}
  BY <1>1, <1>2, <1>3 DEF Range
<1>5. seq # << >> => Head(Append(seq, e)) = Head(seq)
  <2>1. ASSUME seq # << >> PROVE Head(Append(seq, e)) = Head(seq)
    <3>1. Head(seq) = seq[1] /\ 1 \in DOMAIN seq
      BY <2>1, TailIn
    <3>2. Head(Append(seq, e)) = Append(seq, e)[1]
      BY <1>1, TailIn
    <3>3. QED
      BY <3>1, <3>2, <1>1, <1>2
  <2>2. QED
    BY <2>1
<1>6. QED
  BY <1>1, <1>4, <1>5

LEMMA AddToIn ==
  ASSUME NEW seq \in Seq(Names), NEW n \in Names
  PROVE  AddTo(seq, n) \in Seq(Names) /\ Range(AddTo(seq, n)) = Range(seq) \cup {n}
<1>1. CASE \E i \in DOMAIN seq : seq[i] = n
  BY <1>1 DEF AddTo, Range
<1>2. CASE ~\E i \in DOMAIN seq : seq[i] = n
  <2>1. AddTo(seq, n) = Append(seq, n)
    BY <1>2 DEF AddTo
  <2>2. QED
    BY <2>1, AppendIn
<1>3. QED
  BY <1>1, <1>2

-----------------------------------------------------------------------------
(***************************************************************************)
(* The types, and what the cache holds.                                    *)
(***************************************************************************)
LEMMA NoRangeType == NoRange \in Dates /\ Unread \in Dates
  BY DEF NoRange, Unread, Dates

LEMMA InitCache == Init => CacheInv
<1> SUFFICES ASSUME Init PROVE CacheInv
  OBVIOUS
<1> USE DEF Init
<1>1. TypeOK
  <2>1. 0 \in 0 .. MaxArrivals /\ 0 \in 0 .. MaxTriggers /\ 0 \in 0 .. MaxFaults
    BY QcAssumption
  <2>2. << >> \in Seq(Names) /\ << >> \in Seq(Message)
    BY EmptySeq
  <2>3. QED
    BY <2>1, <2>2, NoRangeType DEF TypeOK
<1>2. MessagesInv
  BY DEF MessagesInv, Range
<1>3. RowsInv /\ PhaseInv /\ FetchedInv /\ CacheHasNoHoles /\ StartCovered /\ EndCovered
  BY DEF RowsInv, PhaseInv, FetchedInv, CacheHasNoHoles, StartCovered, EndCovered, Loading
<1>4. QED
  BY <1>1, <1>2, <1>3 DEF CacheInv

\* A message that waits is one of the types.
LEMMA QueueTypes ==
  ASSUME TypeOK, queue # << >>
  PROVE  /\ Head(queue) \in Message /\ Tail(queue) \in Seq(Message)
         /\ MessageRange(Head(queue)) \in Dates
         /\ Range(queue) = {Head(queue)} \cup Range(Tail(queue))
<1>1. queue \in Seq(Message)
  BY DEF TypeOK
<1>2. /\ Tail(queue) \in Seq(Message) /\ Head(queue) \in Message
      /\ Range(queue) = {Head(queue)} \cup Range(Tail(queue))
  BY <1>1, TailIn
<1>3. MessageRange(Head(queue)) \in Dates
  BY <1>2 DEF Message, MessageRange, Dates
<1>4. QED
  BY <1>2, <1>3

LEMMA LeftTypes ==
  ASSUME TypeOK, left # << >>
  PROVE  Current \in Names /\ Tail(left) \in Seq(Names) /\ StreamOf[Current] \in Streams
<1>1. left \in Seq(Names)
  BY DEF TypeOK
<1>2. Head(left) \in Names /\ Tail(left) \in Seq(Names)
  BY <1>1, TailIn
<1>3. QED
  BY <1>2, QcAssumption DEF Current

LEMMA ArriveCache ==
  ASSUME CacheInv, NEW new \in Uploads, NEW dated \in BOOLEAN, Arrive(new, dated)
  PROVE  CacheInv'
<1> DEFINE all == UNION {new[s] : s \in Streams}
           m == [from |-> IF dated THEN Least(all) ELSE None,
                 to |-> IF dated THEN Greatest(all) ELSE None, thing |-> TRUE]
<1> USE DEF CacheInv
<1>1. /\ all # {} /\ arrivals < MaxArrivals
      /\ rows' = [s \in Streams |-> rows[s] \cup new[s]]
      /\ unsent' = unsent \cup {m}
      /\ excused' = IF pc = "idle" THEN excused ELSE [s \in Streams |-> excused[s] \cup new[s]]
      /\ arrivals' = arrivals + 1
      /\ UNCHANGED <<window, label, queue, run, before, triggers, faults>>
  BY DEF Arrive
<1>2. new \in [Streams -> SUBSET Times]
  BY QcAssumption
<1>3. all \subseteq Times
  BY <1>2
<1>4. Least(all) \in Times /\ Greatest(all) \in Times /\ Least(all) <= Greatest(all)
  <2> HIDE DEF all
  <2>1. QED
    BY <1>1, <1>3, LeastIn, GreatestIn
<1>5. m \in Message /\ (IF m.from = None THEN m.to = None ELSE m.to # None /\ m.from <= m.to)
  <2> HIDE DEF all
  <2>1. QED
    BY <1>4, TimesNat DEF Message
<1> HIDE DEF m, all
<1>6. TypeOK'
  BY <1>1, <1>2, <1>5, QcAssumption DEF TypeOK, run
<1>7. MessagesInv'
  BY <1>1, <1>5 DEF MessagesInv
<1>8. RowsInv'
  BY <1>1, <1>2 DEF RowsInv, run, TypeOK
<1>9. (PhaseInv /\ FetchedInv /\ CacheHasNoHoles /\ StartCovered /\ EndCovered)'
  BY <1>1 DEF PhaseInv, FetchedInv, CacheHasNoHoles, StartCovered, EndCovered, run, Current
<1>10. QED
  BY <1>6, <1>7, <1>8, <1>9

LEMMA QueueCache ==
  ASSUME CacheInv,
         \/ \E m \in unsent : Announce(m)
         \/ \E span \in Spans : Trigger(span[1], span[2])
  PROVE  CacheInv'
<1> USE DEF CacheInv
<1>1. PICK m \in Message :
        /\ IF m.from = None THEN m.to = None ELSE m.to # None /\ m.from <= m.to
        /\ queue' = Append(queue, m) /\ unsent' \subseteq unsent
        /\ triggers' \in 0 .. MaxTriggers
        /\ UNCHANGED <<window, rows, label, run, before, excused, arrivals, faults>>
  <2>1. CASE \E m \in unsent : Announce(m)
    BY <2>1 DEF Announce, TypeOK, MessagesInv
  <2>2. CASE \E span \in Spans : Trigger(span[1], span[2])
    <3>1. PICK span \in Spans : Trigger(span[1], span[2])
      BY <2>2
    <3>2. span[1] \in Times /\ span[2] \in Times /\ span[1] <= span[2]
      BY QcAssumption
    <3>3. [from |-> span[1], to |-> span[2], thing |-> FALSE] \in Message
      BY <3>2 DEF Message
    <3>4. triggers + 1 \in 0 .. MaxTriggers
      BY <3>1, QcAssumption DEF Trigger, TypeOK
    <3>5. QED
      BY <3>1, <3>2, <3>3, <3>4, TimesNat DEF Trigger
  <2>3. QED
    BY <2>1, <2>2
<1>2. /\ queue' \in Seq(Message) /\ queue' # << >>
      /\ Range(queue') = Range(queue) \cup {m}
  <2>1. queue \in Seq(Message)
    BY DEF TypeOK
  <2>2. /\ Append(queue, m) \in Seq(Message) /\ Append(queue, m) # << >>
        /\ Range(Append(queue, m)) = Range(queue) \cup {m}
    BY <2>1, AppendIn
  <2>3. QED
    BY <1>1, <2>2
<1>3. TypeOK'
  BY <1>1, <1>2 DEF TypeOK, run
<1>4. MessagesInv'
  BY <1>1, <1>2 DEF MessagesInv
<1>5. (RowsInv /\ PhaseInv /\ FetchedInv /\ CacheHasNoHoles /\ StartCovered /\ EndCovered)'
  BY <1>1 DEF RowsInv, PhaseInv, FetchedInv, CacheHasNoHoles, StartCovered, EndCovered, run, Current
<1>6. QED
  BY <1>3, <1>4, <1>5

\* After each way to give the message back, or to be done with it.
LEMMA IdleCache ==
  ASSUME CacheInv, queue # << >>, BecomeIdle,
         queue' = queue \/ queue' = Tail(queue),
         excused' \in [Streams -> SUBSET Times],
         faults' \in 0 .. MaxFaults,
         UNCHANGED <<window, rows, label, unsent, before, arrivals, triggers>>
  PROVE  CacheInv'
<1> USE DEF CacheInv
<1>1. queue' \in Seq(Message) /\ Range(queue') \subseteq Range(queue)
  BY QueueTypes DEF TypeOK
<1>2. /\ << >> \in Seq(Names) /\ 0 \in TestIds \cup {0} /\ NoRange \in Dates /\ Unread \in Dates
  BY EmptySeq, NoRangeType
<1>3. TypeOK'
  BY <1>1, <1>2 DEF TypeOK, BecomeIdle
<1>4. MessagesInv'
  BY <1>1 DEF MessagesInv
<1>5. (RowsInv /\ PhaseInv /\ FetchedInv /\ CacheHasNoHoles /\ StartCovered /\ EndCovered)'
  BY DEF RowsInv, PhaseInv, FetchedInv, CacheHasNoHoles, StartCovered, EndCovered, BecomeIdle, Loading
<1>6. QED
  BY <1>3, <1>4, <1>5

LEMMA UnjudgedTypes ==
  ASSUME TypeOK
  PROVE  \A s \in Streams : Unjudged(s) \subseteq rows[s] /\ Unjudged(s) \in SUBSET Times
  BY DEF Unjudged, Unlabelled, Between, TypeOK

\* The ends of a run, as seen by what it excuses.
EndsRun ==
  /\ BecomeIdle /\ queue # << >>
  /\ UNCHANGED <<window, rows, label, unsent, before, arrivals, triggers>>
  /\ faults' \in 0 .. MaxFaults
  /\ \/ /\ queue' = Tail(queue)
        /\ excused' = [s \in Streams |-> excused[s] \cup Unjudged(s)]
     \/ queue' = queue /\ excused' = excused
     \/ Finish

LEMMA RunEnds ==
  ASSUME TypeOK, Refuse \/ TestFails \/ NoContextFails \/ Finish \/ \E again \in BOOLEAN : Exit(again)
  PROVE  EndsRun /\ excused' \in [Streams -> SUBSET Times]
<1>1. faults < MaxFaults => faults + 1 \in 0 .. MaxFaults
  BY QcAssumption DEF TypeOK
<1>2. CASE Refuse \/ TestFails \/ NoContextFails
  BY <1>1, <1>2, UnjudgedTypes DEF Refuse, TestFails, NoContextFails, GiveUp, EndsRun, TypeOK
<1>3. CASE Finish
  BY <1>3 DEF Finish, EndsRun, TypeOK
<1>4. CASE \E again \in BOOLEAN : Exit(again)
  BY <1>1, <1>4, UnjudgedTypes DEF Exit, EndsRun, TypeOK
<1>5. QED
  BY <1>2, <1>3, <1>4

LEMMA UploadCache == ASSUME CacheInv, Upload PROVE CacheInv'
<1> USE DEF CacheInv
<1> DEFINE n == Current
<1>1. /\ pc = "upload" /\ left # << >> /\ left' = Tail(left)
      /\ label' = [label EXCEPT ![StreamOf[n]] = [t \in Times |->
           IF t \in Uploaded(n) THEN clabel[n][t] ELSE @[t]]]
      /\ UNCHANGED <<window, rows, unsent, queue, pc, test, range, newest, opened, unflagged,
                     cached, clabel, pointer, frame, before, excused, arrivals, triggers, faults>>
  BY DEF Upload
<1>2. n \in Names /\ Tail(left) \in Seq(Names) /\ StreamOf[n] \in Streams
  BY <1>1, LeftTypes
<1> HIDE DEF n
<1>3. Uploaded(n) \subseteq rows[StreamOf[n]]
  BY <1>2 DEF Uploaded, TypeOK
<1>4. label' \in [Streams -> [Times -> SUBSET TestIds]]
  BY <1>1, <1>2 DEF TypeOK
<1>5. \A s \in Streams, t \in Times : label'[s][t] # {} => t \in rows[s]
  BY <1>1, <1>2, <1>3 DEF TypeOK
<1>6. TypeOK'
  BY <1>1, <1>2, <1>4, <1>5 DEF TypeOK
<1>7. (MessagesInv /\ RowsInv /\ PhaseInv /\ FetchedInv)'
  BY <1>1 DEF MessagesInv, RowsInv, PhaseInv, FetchedInv, Loading
<1>8. (CacheHasNoHoles /\ StartCovered /\ EndCovered)'
  BY <1>1 DEF CacheHasNoHoles, StartCovered, EndCovered
<1>9. QED
  BY <1>6, <1>7, <1>8

LEMMA NamesType ==
  ASSUME NEW i \in TestIds, NEW thing
  PROVE  NamesOf(i, thing) \in Seq(Names) /\ i \in DOMAIN Tests /\ Tests[i].names \in Seq(Names)
<1>1. DOMAIN Tests = 1 .. Len(Tests) /\ Tests \in [1 .. Len(Tests) -> [names : Seq(Names), flags : SUBSET Names]]
  BY QcAssumption, LenProperties
<1>2. Tests[i] \in [names : Seq(Names), flags : SUBSET Names]
  BY <1>1 DEF TestIds
<1>3. QED
  BY <1>1, <1>2, QcAssumption DEF TestIds, NamesOf

\* The next test, or the upload.
LEMMA NextTestCache ==
  ASSUME CacheInv, queue # << >>, NEW i \in Nat \ {0}, NEW names \in Seq(Names), NextTest(i, names),
         pc \in {"idle", "load"},
         (pc = "load" /\ before' = before) \/ (pc = "idle" /\ before' = rows),
         clabel' \in [Names -> [Times -> SUBSET TestIds]],
         UNCHANGED <<window, rows, label, unsent, queue, newest, opened, unflagged, cached,
                     pointer, excused, arrivals, triggers, faults>>
  PROVE  CacheInv'
<1> USE DEF CacheInv
<1>1. /\ range' = MessageRange(Head(queue)) /\ frame' = [n \in Names |-> {}]
      /\ pc' \in {"load", "upload"}
      /\ test' \in TestIds \cup {0} /\ (pc' = "load" => test' \in TestIds)
      /\ left' \in Seq(Names)
  BY NamesType DEF NextTest
<1>2. range' \in Dates
  BY <1>1, QueueTypes
<1>3. \A n \in Names : cached[n] # {} => pointer[n] # None
  BY DEF TypeOK, PhaseInv
<1>4. before' \in [Streams -> SUBSET Times] /\ \A s \in Streams : before'[s] \subseteq rows[s]
  BY DEF TypeOK, RowsInv
<1>5. TypeOK'
  BY <1>1, <1>2, <1>3, <1>4 DEF TypeOK
<1>6. MessagesInv'
  BY DEF MessagesInv
<1>7. RowsInv'
  BY <1>4 DEF RowsInv
<1>8. (PhaseInv /\ FetchedInv /\ StartCovered /\ EndCovered)'
  BY <1>1 DEF PhaseInv, FetchedInv, StartCovered, EndCovered, Loading
<1>9. CacheHasNoHoles'
  BY DEF CacheHasNoHoles, PhaseInv
<1>10. QED
  BY <1>5, <1>6, <1>7, <1>8, <1>9

LEMMA TakeCache == ASSUME CacheInv, Take PROVE CacheInv'
<1>1. << >> \in Seq(Names) /\ 1 \in Nat \ {0}
  BY EmptySeq
<1>2. /\ pc = "idle" /\ queue # << >> /\ NextTest(1, << >>) /\ before' = rows
      /\ clabel' \in [Names -> [Times -> SUBSET TestIds]]
      /\ UNCHANGED <<window, rows, label, unsent, queue, newest, opened, unflagged, cached,
                     pointer, excused, arrivals, triggers, faults>>
  BY DEF Take, CacheInv, TypeOK
<1>3. QED
  BY <1>1, <1>2, NextTestCache

LEMMA RunTestCache == ASSUME CacheInv, RunTest PROVE CacheInv'
<1>1. test \in TestIds /\ opened \in Seq(Names) /\ queue # << >>
  BY DEF RunTest, CacheInv, TypeOK, PhaseInv, Loading
<1>2. test + 1 \in Nat \ {0}
  BY <1>1 DEF TestIds
<1>3. clabel' \in [Names -> [Times -> SUBSET TestIds]]
  BY <1>1 DEF RunTest, CacheInv, TypeOK
<1>4. QED
  BY <1>1, <1>2, <1>3, NextTestCache DEF RunTest

LEMMA QueryCache == ASSUME CacheInv, ReadNewest \/ ReadOldest PROVE CacheInv'
<1> USE DEF CacheInv
<1> DEFINE S == Unlabelled(StreamOf[Current])
<1>1. left # << >> /\ Current \in Names /\ StreamOf[Current] \in Streams
  BY LeftTypes DEF ReadNewest, ReadOldest, TypeOK
<1>2. S \subseteq Times
  BY <1>1 DEF Unlabelled, TypeOK
<1> HIDE DEF S
<1>3. S # {} => Greatest(S) \in Times /\ Least(S) \in Times
  BY <1>2, LeastIn, GreatestIn
<1>4. CASE ReadNewest
  <2>1. newest' \in Times \cup {None}
    BY <1>3, <1>4 DEF ReadNewest, S
  <2>2. TypeOK'
    BY <1>1, <1>4, <2>1 DEF TypeOK, ReadNewest
  <2>3. (MessagesInv /\ RowsInv /\ PhaseInv /\ FetchedInv)'
    BY <1>4 DEF MessagesInv, RowsInv, PhaseInv, FetchedInv, ReadNewest, Loading
  <2>4. (CacheHasNoHoles /\ StartCovered /\ EndCovered)'
    BY <1>4 DEF CacheHasNoHoles, StartCovered, EndCovered, ReadNewest
  <2>5. QED
    BY <2>2, <2>3, <2>4
<1>5. CASE ReadOldest
  <2>1. unflagged' \in [Names -> Dates]
    <3> DEFINE oldest == IF S = {} THEN None ELSE Least(S)
               r == [from |-> oldest, to |-> IF oldest # None /\ newest = None THEN Open ELSE newest]
    <3>1. oldest \in Times \cup {None}
      BY <1>3
    <3>2. unflagged' = [unflagged EXCEPT ![Current] = r]
      BY <1>5 DEF ReadOldest, S
    <3> HIDE DEF oldest
    <3>3. r \in Dates
      BY <3>1 DEF Dates, TypeOK
    <3> HIDE DEF r
    <3>4. QED
      BY <3>2, <3>3 DEF TypeOK
  <2>2. TypeOK'
    BY <1>1, <1>5, <2>1 DEF TypeOK, ReadOldest
  <2>3. (MessagesInv /\ RowsInv /\ PhaseInv /\ FetchedInv)'
    BY <1>5 DEF MessagesInv, RowsInv, PhaseInv, FetchedInv, ReadOldest, Loading
  <2>4. (CacheHasNoHoles /\ StartCovered /\ EndCovered)'
    BY <1>5 DEF CacheHasNoHoles, StartCovered, EndCovered, ReadOldest
  <2>5. QED
    BY <2>2, <2>3, <2>4
<1>6. QED
  BY <1>4, <1>5

\* What is fetched joins the cache, with the labels it has.
LEMMA CacheGrows ==
  ASSUME TypeOK, NEW n \in Names, NEW F, F \subseteq rows[StreamOf[n]], Cache(n, F)
  PROVE  /\ cached' \in [Names -> SUBSET Times] /\ clabel' \in [Names -> [Times -> SUBSET TestIds]]
         /\ cached'[n] = cached[n] \cup F
         /\ \A m \in Names : m # n => cached'[m] = cached[m] /\ clabel'[m] = clabel[m]
         /\ \A m \in Names : cached'[m] \subseteq rows[StreamOf[m]]
         /\ \A t \in Times : clabel'[n][t] = IF t \in F \ cached[n] THEN label[StreamOf[n]][t]
                                             ELSE clabel[n][t]
<1>1. /\ cached \in [Names -> SUBSET Times] /\ clabel \in [Names -> [Times -> SUBSET TestIds]]
      /\ label \in [Streams -> [Times -> SUBSET TestIds]] /\ StreamOf[n] \in Streams
      /\ F \subseteq Times /\ \A m \in Names : cached[m] \subseteq rows[StreamOf[m]]
  BY QcAssumption DEF TypeOK
<1>2. /\ cached' = [cached EXCEPT ![n] = @ \cup F]
      /\ clabel' = [clabel EXCEPT ![n] = [t \in Times |->
           IF t \in F \ cached[n] THEN label[StreamOf[n]][t] ELSE @[t]]]
  BY DEF Cache
<1>3. cached' \in [Names -> SUBSET Times]
  BY <1>1, <1>2
<1>4. clabel' \in [Names -> [Times -> SUBSET TestIds]]
  BY <1>1, <1>2
<1>5. /\ cached'[n] = cached[n] \cup F
      /\ \A m \in Names : m # n => cached'[m] = cached[m] /\ clabel'[m] = clabel[m]
      /\ \A t \in Times : clabel'[n][t] = IF t \in F \ cached[n] THEN label[StreamOf[n]][t]
                                          ELSE clabel[n][t]
  BY <1>1, <1>2
<1>6. \A m \in Names : cached'[m] \subseteq rows[StreamOf[m]]
  BY <1>1, <1>5
<1>7. QED
  BY <1>3, <1>4, <1>5, <1>6

LEMMA NamesPointed ==
  ASSUME CacheInv, left # << >>
  PROVE  /\ pc = "load" => \A n \in Names : cached[n] # {} => pointer[n] # None
         /\ pc \in {"end", "context"} =>
              \A n \in Names : cached[n] # {} /\ n # Current => pointer[n] # None
  BY DEF CacheInv, TypeOK, FetchedInv

LEMMA RangeOfType ==
  ASSUME TypeOK, left # << >>
  PROVE  RangeOf(Current) \in Dates
  BY LeftTypes DEF RangeOf, TypeOK

LEMMA EmptyCache == ASSUME CacheInv, LoadNothing \/ LoadEmpty PROVE CacheInv'
<1> USE DEF CacheInv
<1>1. /\ left # << >> /\ Current \in Names /\ Tail(left) \in Seq(Names) /\ pc \in {"load", "context"}
      /\ left' = Tail(left) /\ pc' = "load" /\ opened' = AddTo(opened, Current)
      /\ frame' = [frame EXCEPT ![Current] = {}]
      /\ UNCHANGED <<window, rows, label, unsent, queue, test, range, newest, unflagged, cached,
                     clabel, pointer, before, excused, arrivals, triggers, faults>>
  BY LeftTypes DEF LoadNothing, LoadEmpty, NextName, TypeOK
<1>2. opened' \in Seq(Names)
  BY <1>1, AddToIn DEF TypeOK
<1>3. \A n \in Names : cached[n] # {} => pointer[n] # None
  <2>1. CASE LoadNothing
    BY <2>1, <1>1, NamesPointed DEF LoadNothing
  <2>2. CASE LoadEmpty
    <3>1. pc = "context" /\ Chunk(Current) = {}
      BY <2>2 DEF LoadEmpty
    <3>2. pointer[Current] = None => cached[Current] = {}
      BY <3>1 DEF FetchedInv, Chunk, Between
    <3>3. QED
      BY <3>1, <3>2, <1>1, NamesPointed
  <2>3. QED
    BY <2>1, <2>2
<1>4. TypeOK'
  BY <1>1, <1>2, <1>3 DEF TypeOK
<1>5. (MessagesInv /\ RowsInv)'
  BY <1>1 DEF MessagesInv, RowsInv
<1>6. (PhaseInv /\ FetchedInv /\ StartCovered /\ EndCovered /\ CacheHasNoHoles)'
  BY <1>1 DEF PhaseInv, FetchedInv, StartCovered, EndCovered, CacheHasNoHoles, Loading
<1>7. QED
  BY <1>4, <1>5, <1>6

LEMMA FetchCache == ASSUME CacheInv, Fetch PROVE CacheInv'
<1> USE DEF CacheInv
<1> DEFINE n == Current
           r == RangeOf(n)
           S == rows[StreamOf[n]]
           low == Least(cached[n])
           F == CASE cached[n] = {} -> Between(S, r.from, r.to)
                  [] cached[n] # {} /\ MissingStart(n) -> Between(S, r.from, low)
                  [] OTHER -> {}
<1>1. /\ pc = "load" /\ left # << >> /\ r.from # None /\ range' = r /\ Cache(n, F)
      /\ pc' = IF cached[n] = {} THEN "context" ELSE "end"
      /\ UNCHANGED <<window, rows, label, unsent, queue, test, left, newest, opened, unflagged,
                     pointer, frame, before, excused, arrivals, triggers, faults>>
  BY DEF Fetch
<1>2. /\ n \in Names /\ StreamOf[n] \in Streams /\ r \in Dates /\ Current' = n
      /\ cached[n] \subseteq Times /\ S \subseteq Times /\ cached[n] \subseteq S
      /\ before[StreamOf[n]] \subseteq S
  BY <1>1, LeftTypes, RangeOfType DEF TypeOK, Current, RowsInv
<1>3. F \subseteq S
  BY DEF Between
<1>4. /\ cached' \in [Names -> SUBSET Times] /\ clabel' \in [Names -> [Times -> SUBSET TestIds]]
      /\ cached'[n] = cached[n] \cup F /\ \A m \in Names : m # n => cached'[m] = cached[m]
      /\ \A m \in Names : cached'[m] \subseteq rows[StreamOf[m]]
  <2> HIDE DEF F, n
  <2>1. TypeOK /\ n \in Names /\ F \subseteq rows[StreamOf[n]] /\ Cache(n, F)
    BY <1>1, <1>2, <1>3
  <2>2. QED
    BY <2>1, CacheGrows
<1>5. r.from \in Times /\ r.to \in Times \cup {None, Open} /\ r.from \in Int /\ r.to \in Int
  <2>1. r.from \in Times /\ r.to \in Times \cup {None, Open}
    BY <1>1, <1>2 DEF Dates
  <2> HIDE DEF r
  <2>2. QED
    BY <2>1, DatesInt DEF Dates
<1>6. cached[n] # {} => low \in cached[n] /\ low \in Times /\ \A u \in cached[n] : low <= u
  BY <1>2, LeastIn
<1>7. CASE cached[n] = {}
  <2>1. F = Between(S, r.from, r.to) /\ pc' = "context"
    BY <1>1, <1>7
  <2> HIDE DEF F, S, r, low
  <2>2. F = {t \in S : r.from <= t /\ t <= r.to}
    BY <2>1 DEF Between
  <2>3. /\ cached' \in [Names -> SUBSET Times] /\ clabel' \in [Names -> [Times -> SUBSET TestIds]]
        /\ cached'[n] = F /\ \A m \in Names : m # n => cached'[m] = cached[m]
        /\ \A m \in Names : cached'[m] \subseteq rows[StreamOf[m]]
    BY <1>7, <1>4
  <2>4. TypeOK'
    BY <1>1, <1>2, <2>1, <2>3 DEF TypeOK
  <2>5. (MessagesInv /\ RowsInv)'
    BY <1>1, <2>1 DEF MessagesInv, RowsInv
  <2>6. PhaseInv'
    BY <1>1, <2>1 DEF PhaseInv, Loading
  <2>7. \A m \in Names : m # n /\ cached'[m] # {} => pointer'[m] # None
    BY <1>1, <2>3, NamesPointed
  <2>8. FetchedInv'
    BY <1>1, <1>2, <2>1, <2>2, <2>3, <2>7 DEF FetchedInv
  <2>9. StartCovered'
    <3>1. SUFFICES ASSUME NEW t \in before[StreamOf[n]], NEW u \in F, r.from <= t, t <= u
                   PROVE  t \in F
      BY <1>1, <1>2, <2>1, <2>3 DEF StartCovered
    <3>2. t \in S /\ t \in Int /\ u \in Int /\ u <= r.to
      BY <1>2, <1>3, <2>2, TimesNat
    <3>3. t <= r.to
      BY <1>5, <3>1, <3>2
    <3>4. QED
      BY <2>2, <3>1, <3>2, <3>3
  <2>10. EndCovered'
    <3>1. SUFFICES ASSUME NEW t \in before[StreamOf[n]], r.from <= t, t <= r.to
                   PROVE  t \in F
      BY <1>1, <1>2, <2>1, <2>3 DEF EndCovered
    <3>2. QED
      BY <1>2, <2>2, <3>1
  <2>11. CacheHasNoHoles'
    <3>1. SUFFICES ASSUME NEW t \in before[StreamOf[n]], NEW u \in F, NEW v \in F, u <= t, t <= v
                   PROVE  t \in F
      BY <1>1, <1>2, <2>3 DEF CacheHasNoHoles
    <3>2. t \in S /\ t \in Int /\ u \in Int /\ v \in Int /\ r.from <= u /\ v <= r.to
      BY <1>2, <1>3, <2>2, TimesNat
    <3>3. r.from <= t /\ t <= r.to
      BY <1>5, <3>1, <3>2
    <3>4. QED
      BY <2>2, <3>2, <3>3
  <2>12. QED
    BY <2>4, <2>5, <2>6, <2>8, <2>9, <2>10, <2>11
<1>8. CASE cached[n] # {}
  <2>1. pc' = "end" /\ F = IF r.from < low THEN Between(S, r.from, low) ELSE {}
    BY <1>1, <1>8 DEF MissingStart
  <2> HIDE DEF F, S, r, low
  <2>2. F = {t \in S : r.from < low /\ r.from <= t /\ t <= low}
    BY <2>1 DEF Between
  <2>3. /\ cached' \in [Names -> SUBSET Times] /\ clabel' \in [Names -> [Times -> SUBSET TestIds]]
        /\ cached'[n] = cached[n] \cup F /\ \A m \in Names : m # n => cached'[m] = cached[m]
        /\ \A m \in Names : cached'[m] \subseteq rows[StreamOf[m]]
    BY <1>4
  <2>4. TypeOK'
    BY <1>1, <1>2, <2>1, <2>3 DEF TypeOK
  <2>5. (MessagesInv /\ RowsInv)'
    BY <1>1, <2>1 DEF MessagesInv, RowsInv
  <2>6. PhaseInv'
    BY <1>1, <2>1 DEF PhaseInv, Loading
  <2>7. \A m \in Names : m # n /\ cached'[m] # {} => pointer'[m] # None
    BY <1>1, <2>3, NamesPointed
  <2>8. FetchedInv'
    <3>1. pointer[n] # None
      BY <1>1, <1>2, <1>8, NamesPointed
    <3>2. QED
      BY <1>1, <1>2, <1>8, <2>1, <2>3, <2>7, <3>1 DEF FetchedInv
  <2>9. ASSUME NEW t \in before[StreamOf[n]], NEW v \in cached[n] \cup F,
               (r.from <= t) \/ (\E u \in cached[n] \cup F : u <= t), t <= v
        PROVE  t \in cached[n] \cup F
    <3>1. /\ t \in S /\ t \in Int /\ v \in Int /\ low \in Int
          /\ \A u \in F : u \in Int /\ r.from < low /\ r.from <= u /\ u <= low
          /\ \A u \in cached[n] : u \in Int /\ low <= u
      BY <1>2, <1>3, <1>6, <1>8, <2>2, TimesNat
    <3>2. r.from <= t \/ low <= t
      BY <1>5, <2>9, <3>1
    <3>3. CASE t <= low /\ r.from < low
      <4>1. r.from <= t
        BY <1>5, <3>1, <3>2, <3>3
      <4>2. QED
        BY <2>2, <3>1, <3>3, <4>1
    <3>4. CASE t <= low /\ ~(r.from < low)
      <4>1. t = low
        BY <1>5, <3>1, <3>2, <3>4
      <4>2. QED
        BY <1>6, <1>8, <4>1
    <3>5. CASE low < t
      <4>1. v \notin F
        BY <2>9, <3>1, <3>5
      <4>2. v \in cached[n] /\ low \in cached[n] /\ low <= t
        BY <1>6, <1>8, <3>1, <3>5, <4>1
      <4>3. t \in cached[n]
        BY <1>2, <2>9, <4>2 DEF CacheHasNoHoles
      <4>4. QED
        BY <4>3
    <3>6. QED
      BY <1>5, <3>1, <3>3, <3>4, <3>5
  <2>10. StartCovered'
    BY <1>1, <1>2, <2>1, <2>3, <2>9 DEF StartCovered
  <2>11. EndCovered'
    BY <2>1 DEF EndCovered
  <2>12. CacheHasNoHoles'
    <3>1. SUFFICES ASSUME NEW t \in before[StreamOf[n]], NEW u \in cached[n] \cup F,
                          NEW v \in cached[n] \cup F, u <= t, t <= v
                   PROVE  t \in cached[n] \cup F
      BY <1>1, <1>2, <2>3 DEF CacheHasNoHoles
    <3>2. QED
      BY <2>9, <3>1
  <2>13. QED
    BY <2>4, <2>5, <2>6, <2>8, <2>10, <2>11, <2>12
<1>9. QED
  BY <1>7, <1>8

LEMMA FetchEndCache == ASSUME CacheInv, FetchEnd PROVE CacheInv'
<1> USE DEF CacheInv
<1> DEFINE n == Current
           S == rows[StreamOf[n]]
           high == Greatest(cached[n])
           F == IF MissingEnd(n) THEN Between(S, high, range.to) ELSE {}
<1>1. /\ pc = "end" /\ pc' = "context" /\ Cache(n, F)
      /\ UNCHANGED <<window, rows, label, unsent, queue, test, left, range, newest, opened,
                     unflagged, pointer, frame, before, excused, arrivals, triggers, faults>>
  BY DEF FetchEnd
<1>2. /\ n \in Names /\ StreamOf[n] \in Streams /\ Current' = n /\ left # << >>
      /\ cached[n] \subseteq Times /\ S \subseteq Times /\ cached[n] \subseteq S
      /\ before[StreamOf[n]] \subseteq S /\ cached[n] # {} /\ pointer[n] # None
  BY <1>1, LeftTypes DEF TypeOK, Current, RowsInv, FetchedInv
<1>3. F \subseteq S
  BY DEF Between
<1>4. /\ cached' \in [Names -> SUBSET Times] /\ clabel' \in [Names -> [Times -> SUBSET TestIds]]
      /\ cached'[n] = cached[n] \cup F /\ \A m \in Names : m # n => cached'[m] = cached[m]
      /\ \A m \in Names : cached'[m] \subseteq rows[StreamOf[m]]
  <2> HIDE DEF F, n
  <2>1. TypeOK /\ n \in Names /\ F \subseteq rows[StreamOf[n]] /\ Cache(n, F)
    BY <1>1, <1>2, <1>3
  <2>2. QED
    BY <2>1, CacheGrows
<1>5. range.from \in Int /\ range.to \in Int
  BY DatesInt DEF TypeOK, Dates
<1>6. high \in cached[n] /\ high \in Int /\ \A u \in cached[n] : u \in Int /\ u <= high
  BY <1>2, GreatestIn, TimesNat
<1>7. F = {t \in S : range.to # Open /\ range.to > high /\ high <= t /\ t <= range.to}
  <2>1. MissingEnd(n) <=> range.to # Open /\ range.to > high
    BY DEF MissingEnd
  <2>2. QED
    BY <2>1 DEF Between
<1> HIDE DEF F, high, S
<1>8. /\ \A t \in S : t \in Int
      /\ \A u \in F : u \in Int /\ range.to # Open /\ range.to > high /\ high <= u /\ u <= range.to
  BY <1>2, <1>7, TimesNat
<1>9. ASSUME NEW t \in before[StreamOf[n]], range.from <= t, t <= high
      PROVE  t \in cached[n]
  BY <1>1, <1>6, <1>9 DEF StartCovered
<1>10. ASSUME NEW t \in before[StreamOf[n]], NEW v \in cached[n] \cup F, t <= v,
              range.from <= t \/ \E u \in cached[n] \cup F : u <= t
       PROVE  t \in cached[n] \cup F
  <2>1. t \in S /\ t \in Int /\ v \in Int
    BY <1>2, <1>6, <1>8
  <2>2. CASE t <= high /\ range.from <= t
    BY <1>9, <2>2
  <2>3. CASE t <= high /\ ~(range.from <= t)
    <3>1. PICK u \in cached[n] \cup F : u <= t
      BY <1>10, <2>3
    <3>2. CASE u \in cached[n]
      BY <1>2, <1>6, <2>3, <3>1, <3>2 DEF CacheHasNoHoles
    <3>3. CASE u \in F
      <4>1. t = high
        BY <1>6, <1>8, <2>1, <2>3, <3>1, <3>3
      <4>2. QED
        BY <1>6, <4>1
    <3>4. QED
      BY <3>2, <3>3
  <2>4. CASE high < t
    <3>1. v \in F
      BY <1>6, <1>10, <2>1, <2>4
    <3>2. range.to # Open /\ range.to > high /\ t <= range.to
      BY <1>5, <1>8, <1>10, <2>1, <3>1
    <3>3. high <= t
      BY <1>6, <2>1, <2>4
    <3>4. QED
      BY <1>7, <2>1, <3>2, <3>3
  <2>5. QED
    BY <1>6, <2>1, <2>2, <2>3, <2>4
<1>11. TypeOK'
  BY <1>1, <1>2, <1>4 DEF TypeOK
<1>12. (MessagesInv /\ RowsInv)'
  BY <1>1 DEF MessagesInv, RowsInv
<1>13. PhaseInv'
  BY <1>1 DEF PhaseInv, Loading
<1>14. FetchedInv'
  <2>1. \A m \in Names : m # n /\ cached'[m] # {} => pointer'[m] # None
    BY <1>1, <1>2, <1>4, NamesPointed
  <2>2. QED
    BY <1>1, <1>2, <2>1 DEF FetchedInv
<1>15. StartCovered'
  BY <1>1, <1>2, <1>4, <1>10 DEF StartCovered
<1>16. EndCovered'
  <2>1. SUFFICES ASSUME NEW t \in before[StreamOf[n]], range.from <= t, t <= range.to, range.to # Open
                 PROVE  t \in cached[n] \cup F
    BY <1>1, <1>2, <1>4 DEF EndCovered
  <2>2. t \in S /\ t \in Int
    BY <1>2, <1>8
  <2>3. CASE t <= high
    BY <1>9, <2>1, <2>3
  <2>4. CASE high < t
    <3>1. range.to > high /\ high <= t
      BY <1>5, <1>6, <2>1, <2>2, <2>4
    <3>2. QED
      BY <1>7, <2>1, <2>2, <3>1
  <2>5. QED
    BY <1>6, <2>2, <2>3, <2>4
<1>17. CacheHasNoHoles'
  <2>1. SUFFICES ASSUME NEW t \in before[StreamOf[n]], NEW u \in cached[n] \cup F,
                        NEW v \in cached[n] \cup F, u <= t, t <= v
                 PROVE  t \in cached[n] \cup F
    BY <1>1, <1>2, <1>4 DEF CacheHasNoHoles
  <2>2. QED
    BY <1>10, <2>1
<1>18. QED
  BY <1>11, <1>12, <1>13, <1>14, <1>15, <1>16, <1>17

LEMMA WindowType ==
  ASSUME TypeOK
  PROVE  window.kind \in {"rows", "time"} /\ window.size \in Nat
  BY QcAssumption DEF TypeOK

\* The context reaches from the cache back without a hole.
LEMMA ContextFetched ==
  ASSUME TypeOK, NEW n \in Names, cached[n] # {}
  PROVE  LET F == FetchedContext(n)
             S == rows[StreamOf[n]]
             low == Least(cached[n]) IN
         /\ F \subseteq S /\ \A u \in F : u <= low
         /\ \A u \in F : \A t \in S : u <= t /\ t <= low => t \in F
<1> DEFINE F == FetchedContext(n)
           S == rows[StreamOf[n]]
           low == Least(cached[n])
           A == UpTo(S, low)
           overlap == window.size + 1 - Cardinality(UpTo(cached[n], range.from))
<1>1. S \subseteq Times /\ cached[n] \subseteq Times
  BY QcAssumption DEF TypeOK
<1>2. low \in Int /\ range.from \in Int /\ window.size \in Nat
  BY <1>1, LeastIn, DatesInt, WindowType DEF TypeOK, Dates
<1>3. \A t \in S : t \in Int
  BY <1>1, TimesNat
<1> HIDE DEF S, low
<1>4. CASE window.kind = "time"
  <2>1. F = {t \in S : range.from - window.size <= t /\ t <= low}
    BY <1>4 DEF FetchedContext, ContextTime, Between, S, low
  <2> HIDE DEF F
  <2>2. \A u \in F : \A t \in S : u <= t /\ t <= low => t \in F
    BY <1>2, <1>3, <2>1
  <2>3. F \subseteq S /\ \A u \in F : u <= low
    BY <2>1
  <2>4. QED
    BY <2>2, <2>3 DEF F, S, low
<1>5. CASE window.kind = "rows" /\ window.size > 0
  <2>1. F = IF overlap > 1 THEN Newest(A, overlap) ELSE {}
    BY <1>5 DEF FetchedContext, ContextRows, S, low
  <2>2. overlap \in Int
    <3>1. UpTo(cached[n], range.from) \subseteq Times
      BY <1>1 DEF UpTo
    <3>2. QED
      BY <1>2, <3>1, FiniteTimes
  <2>3. A \subseteq Times /\ A = {t \in S : t <= low}
    BY <1>1 DEF UpTo
  <2> HIDE DEF F, A, overlap
  <2>4. F \subseteq A
    BY <2>1 DEF Newest
  <2>5. \A u \in F : \A t \in A : u <= t => t \in F
    BY <2>1, <2>2, <2>3, NewestIsUpper
  <2>6. /\ F \subseteq S /\ \A u \in F : u <= low
        /\ \A u \in F : \A t \in S : u <= t /\ t <= low => t \in F
    BY <2>3, <2>4, <2>5
  <2>7. QED
    BY <2>6 DEF F, S, low
<1>6. CASE ~(window.kind = "time") /\ ~(window.kind = "rows" /\ window.size > 0)
  <2>1. F = {}
    BY <1>6 DEF FetchedContext
  <2> HIDE DEF F
  <2>2. /\ F \subseteq S /\ \A u \in F : u <= low
        /\ \A u \in F : \A t \in S : u <= t /\ t <= low => t \in F
    BY <2>1
  <2>3. QED
    BY <2>2 DEF F, S, low
<1>7. QED
  BY <1>4, <1>5, <1>6

LEMMA ContextSubset ==
  ASSUME NEW S
  PROVE  Context(S) \subseteq S
  BY DEF Context, Between, Newest, UpTo

LEMMA FetchContextCache == ASSUME CacheInv, FetchContext PROVE CacheInv'
<1> USE DEF CacheInv
<1> DEFINE n == Current
           S == rows[StreamOf[n]]
           low == Least(cached[n])
           F == FetchedContext(n)
           all == cached[n] \cup F
<1>1. /\ pc = "context" /\ pc' = "load" /\ Cache(n, F) /\ Chunk(n) # {}
      /\ pointer' = [pointer EXCEPT ![n] = Lowered(n)]
      /\ frame' = [frame EXCEPT ![n] = Context(all) \cup Between(all, range.from, range.to)]
      /\ left' = Tail(left) /\ opened' = AddTo(opened, n)
      /\ UNCHANGED <<window, rows, label, unsent, queue, test, range, newest, unflagged,
                     before, excused, arrivals, triggers, faults>>
  BY DEF FetchContext, NextName
<1>2. /\ n \in Names /\ StreamOf[n] \in Streams /\ left # << >> /\ Tail(left) \in Seq(Names)
      /\ cached[n] \subseteq Times /\ S \subseteq Times /\ cached[n] \subseteq S
      /\ before[StreamOf[n]] \subseteq S /\ cached[n] # {}
  BY <1>1, LeftTypes DEF TypeOK, Current, RowsInv, Chunk, Between
<1>3. /\ F \subseteq S /\ \A u \in F : u <= low
      /\ \A u \in F : \A t \in S : u <= t /\ t <= low => t \in F
  BY <1>2, ContextFetched
<1>4. /\ cached' \in [Names -> SUBSET Times] /\ clabel' \in [Names -> [Times -> SUBSET TestIds]]
      /\ cached'[n] = all /\ \A m \in Names : m # n => cached'[m] = cached[m]
      /\ \A m \in Names : cached'[m] \subseteq rows[StreamOf[m]]
  <2> HIDE DEF F, n
  <2>1. TypeOK /\ n \in Names /\ F \subseteq rows[StreamOf[n]] /\ Cache(n, F)
    BY <1>1, <1>2, <1>3
  <2>2. QED
    BY <2>1, CacheGrows
<1>5. low \in cached[n] /\ low \in Int /\ \A u \in cached[n] : u \in Int /\ low <= u
  BY <1>2, LeastIn, TimesNat
<1>6. Lowered(n) \in Times
  <2>1. range.from # None /\ range.from \in Times
    BY <1>1 DEF PhaseInv, TypeOK, Dates
  <2>2. QED
    BY <1>2, <2>1 DEF Lowered, TypeOK
<1> HIDE DEF F, low, S
<1>7. Context(all) \cup Between(all, range.from, range.to) \subseteq Times
  BY <1>2, <1>3, ContextSubset DEF Between
<1>8. frame' \in [Names -> SUBSET Times] /\ opened' \in Seq(Names)
  BY <1>1, <1>2, <1>7, AddToIn DEF TypeOK
<1>9. \A m \in Names : cached'[m] # {} => pointer'[m] # None
  BY <1>1, <1>2, <1>4, <1>6, NamesPointed, TimesNat DEF TypeOK
<1>10. pointer' \in [Names -> Times \cup {None}]
  BY <1>1, <1>6 DEF TypeOK
<1>11. TypeOK'
  BY <1>1, <1>2, <1>4, <1>8, <1>9, <1>10 DEF TypeOK
<1>12. (MessagesInv /\ RowsInv)'
  BY <1>1 DEF MessagesInv, RowsInv
<1>13. (PhaseInv /\ FetchedInv /\ StartCovered /\ EndCovered)'
  BY <1>1 DEF PhaseInv, Loading, FetchedInv, StartCovered, EndCovered
<1>14. CacheHasNoHoles'
  <2>1. SUFFICES ASSUME NEW t \in before[StreamOf[n]], NEW u \in all, NEW v \in all, u <= t, t <= v
                 PROVE  t \in all
    BY <1>1, <1>2, <1>4 DEF CacheHasNoHoles
  <2>2. t \in S /\ t \in Int /\ u \in Int /\ v \in Int
    BY <1>2, <1>3, TimesNat
  <2>3. CASE t < low
    <3>1. u \in F /\ t <= low
      BY <1>5, <2>1, <2>2, <2>3
    <3>2. QED
      BY <1>3, <2>1, <2>2, <3>1
  <2>4. CASE t = low
    BY <1>5, <2>4
  <2>5. CASE low < t
    <3>1. v \in cached[n] /\ low <= t
      BY <1>3, <1>5, <2>1, <2>2, <2>5
    <3>2. QED
      BY <1>2, <1>5, <2>1, <3>1 DEF CacheHasNoHoles
  <2>6. QED
    BY <1>5, <2>2, <2>3, <2>4, <2>5
<1>15. QED
  BY <1>11, <1>12, <1>13, <1>14

LEMMA NextCache == CacheInv /\ [Next]_vars => CacheInv'
<1> SUFFICES ASSUME CacheInv, [Next]_vars PROVE CacheInv'
  OBVIOUS
<1>1. ASSUME NEW new \in Uploads, NEW dated \in BOOLEAN, Arrive(new, dated) PROVE CacheInv'
  BY <1>1, ArriveCache
<1>2. CASE \/ \E m \in unsent : Announce(m)
           \/ \E span \in Spans : Trigger(span[1], span[2])
  BY <1>2, QueueCache
<1>3. CASE Take
  BY <1>3, TakeCache
<1>4. CASE ReadNewest \/ ReadOldest
  BY <1>4, QueryCache
<1>5. CASE LoadNothing \/ LoadEmpty
  BY <1>5, EmptyCache
<1>6. CASE Fetch
  BY <1>6, FetchCache
<1>7. CASE FetchEnd
  BY <1>7, FetchEndCache
<1>8. CASE FetchContext
  BY <1>8, FetchContextCache
<1>9. CASE RunTest
  BY <1>9, RunTestCache
<1>10. CASE Upload
  BY <1>10, UploadCache
<1>11. CASE Refuse \/ TestFails \/ NoContextFails \/ Finish \/ \E again \in BOOLEAN : Exit(again)
  <2>1. TypeOK
    BY DEF CacheInv
  <2>2. EndsRun /\ excused' \in [Streams -> SUBSET Times]
    BY <1>11, <2>1, RunEnds
  <2>3. BecomeIdle /\ queue # << >> /\ (queue' = queue \/ queue' = Tail(queue))
    BY <2>2 DEF EndsRun, Finish
  <2>4. QED
    BY <2>2, <2>3, IdleCache DEF EndsRun
<1>12. CASE UNCHANGED vars
  BY <1>12 DEF vars, run, CacheInv, TypeOK, MessagesInv, RowsInv, PhaseInv, FetchedInv, CacheHasNoHoles,
               StartCovered, EndCovered, Current
<1>13. QED
  BY <1>1, <1>2, <1>3, <1>4, <1>5, <1>6, <1>7, <1>8, <1>9, <1>10, <1>11, <1>12 DEF Next, Run

\* The variables of a run have their types: what is cached is in the database, labels are those of
\* rows, and a stream with data has a start for its upload (_upload_ptr is set before it is read).
THEOREM TypeCorrect == Spec => []TypeOK
<1>1. CacheInv => TypeOK
  BY DEF CacheInv
<1>2. QED
  BY <1>1, InitCache, NextCache, PTL DEF Spec

\* For all streams, tests, windows and timestamps, whatever arrives between two queries: the cache
\* of a name has no hole among the rows there were when the worker took the message (get_data and
\* _fetch_context of datastream.py ask only for what lies before the first row or after the last).
THEOREM NoHoles == Spec => []CacheHasNoHoles
<1>1. CacheInv => CacheHasNoHoles
  BY DEF CacheInv
<1>2. QED
  BY <1>1, InitCache, NextCache, PTL DEF Spec

-----------------------------------------------------------------------------
(***************************************************************************)
(* Labels outside of the dates of the message.                             *)
(***************************************************************************)
\* What the queries of get_data change.
LEMMA CacheCopies ==
  ASSUME CacheInv, Fetch \/ FetchEnd \/ FetchContext
  PROVE  /\ left # << >> /\ Current \in Names
         /\ \A m \in Names :
              /\ cached[m] \subseteq cached'[m] /\ cached'[m] \subseteq Times
              /\ \A t \in cached'[m] :
                   clabel'[m][t] = IF t \in cached[m] THEN clabel[m][t] ELSE label[StreamOf[m]][t]
<1> USE DEF CacheInv
<1>1. left # << >> /\ Current \in Names
  BY LeftTypes DEF Fetch, FetchEnd, FetchContext, TypeOK
<1>2. PICK F : F \subseteq rows[StreamOf[Current]] /\ Cache(Current, F)
  <2>1. CASE Fetch
    <3> DEFINE n == Current
               r == RangeOf(n)
               S == rows[StreamOf[n]]
               F == CASE cached[n] = {} -> Between(S, r.from, r.to)
                      [] cached[n] # {} /\ MissingStart(n) -> Between(S, r.from, Least(cached[n]))
                      [] OTHER -> {}
    <3>1. Cache(n, F)
      BY <2>1 DEF Fetch
    <3>2. F \subseteq S
      BY DEF Between
    <3> HIDE DEF F
    <3>3. QED
      BY <3>1, <3>2
  <2>2. CASE FetchEnd
    <3> DEFINE n == Current
               F == IF MissingEnd(n) THEN Between(rows[StreamOf[n]], Greatest(cached[n]), range.to)
                    ELSE {}
    <3>1. Cache(n, F) /\ F \subseteq rows[StreamOf[n]]
      BY <2>2 DEF FetchEnd, Between
    <3> HIDE DEF F
    <3>2. QED
      BY <3>1
  <2>3. CASE FetchContext
    <3>1. Cache(Current, FetchedContext(Current)) /\ cached[Current] # {}
      BY <2>3 DEF FetchContext, Chunk, Between
    <3>2. FetchedContext(Current) \subseteq rows[StreamOf[Current]]
      BY <1>1, <3>1, ContextFetched
    <3>3. QED
      BY <3>1, <3>2
  <2>4. QED
    BY <2>1, <2>2, <2>3
<1>3. TypeOK
  OBVIOUS
<1>4. /\ cached' \in [Names -> SUBSET Times]
      /\ cached'[Current] = cached[Current] \cup F
      /\ \A m \in Names : m # Current => cached'[m] = cached[m] /\ clabel'[m] = clabel[m]
      /\ \A t \in Times : clabel'[Current][t] = IF t \in F \ cached[Current]
                                                THEN label[StreamOf[Current]][t]
                                                ELSE clabel[Current][t]
  BY <1>1, <1>2, <1>3, CacheGrows
<1>5. \A m \in Names : cached'[m] \subseteq Times
  BY <1>4
<1>6. ASSUME NEW m \in Names, m # Current
      PROVE  /\ cached[m] \subseteq cached'[m]
             /\ \A t \in cached'[m] :
                  clabel'[m][t] = IF t \in cached[m] THEN clabel[m][t] ELSE label[StreamOf[m]][t]
  BY <1>4, <1>6
<1>7. /\ cached[Current] \subseteq cached'[Current]
      /\ \A t \in cached'[Current] :
           clabel'[Current][t] = IF t \in cached[Current] THEN clabel[Current][t]
                                 ELSE label[StreamOf[Current]][t]
  BY <1>1, <1>4, <1>5
<1>8. QED
  BY <1>1, <1>5, <1>6, <1>7

LEMMA ContextIsEarlier ==
  ASSUME CacheInv, NEW S, S \subseteq Times, pc = "context"
  PROVE  \A t \in Context(S) : t <= range.from
<1>1. range.from \in Int /\ window.size \in Nat /\ \A t \in S : t \in Int
  BY DatesInt, WindowType, TimesNat DEF CacheInv, TypeOK, Dates
<1>2. CASE window.kind = "time"
  <2>1. Context(S) = {t \in S : range.from - window.size <= t /\ t <= range.from - 1}
    BY <1>2 DEF Context, Between
  <2>2. QED
    BY <1>1, <2>1
<1>3. CASE window.kind = "rows" /\ window.size > 0
  BY <1>3 DEF Context, Newest, UpTo
<1>4. CASE ~(window.kind = "time") /\ ~(window.kind = "rows" /\ window.size > 0)
  BY <1>4 DEF Context
<1>5. QED
  BY <1>2, <1>3, <1>4

LEMMA HeadDates ==
  ASSUME CacheInv, queue # << >>, Head(queue).from # None
  PROVE  /\ Head(queue).from \in Times /\ Head(queue).to \in Times
         /\ Head(queue).from <= Head(queue).to
         /\ Head(queue).from \in Int /\ Head(queue).to \in Int
<1>1. Head(queue) \in Message /\ Head(queue) \in Range(queue)
  BY QueueTypes DEF CacheInv
<1>2. Head(queue).to # None /\ Head(queue).from <= Head(queue).to
  BY <1>1 DEF CacheInv, MessagesInv
<1>3. QED
  BY <1>1, <1>2, DatesInt DEF Message

\* What the worker runs stays at the head of the queue.
LEMMA HeadStays ==
  ASSUME CacheInv, pc # "idle",
         \/ \E m \in unsent : Announce(m)
         \/ \E span \in Spans : Trigger(span[1], span[2])
  PROVE  Head(queue') = Head(queue) /\ UNCHANGED <<rows, label, run, before, excused>>
<1>1. queue # << >> /\ queue \in Seq(Message) /\ unsent \subseteq Message
  BY DEF CacheInv, TypeOK
<1>2. PICK m \in Message : queue' = Append(queue, m) /\ UNCHANGED <<rows, label, run, before, excused>>
  <2>1. CASE \E m \in unsent : Announce(m)
    BY <1>1, <2>1 DEF Announce
  <2>2. CASE \E span \in Spans : Trigger(span[1], span[2])
    <3>1. PICK span \in Spans : Trigger(span[1], span[2])
      BY <2>2
    <3>2. [from |-> span[1], to |-> span[2], thing |-> FALSE] \in Message
      BY QcAssumption DEF Message
    <3>3. QED
      BY <3>1, <3>2 DEF Trigger
  <2>3. QED
    BY <2>1, <2>2
<1>3. QED
  BY <1>1, <1>2, AppendIn

LEMMA DatedLoad ==
  ASSUME CacheInv, DatedInv, Fetch \/ FetchEnd \/ FetchContext
  PROVE  DatedInv'
<1> DEFINE m == Head(queue)
<1>1. /\ pc # "idle" /\ pc' # "idle" /\ UNCHANGED <<queue, label>>
  BY DEF Fetch, FetchEnd, FetchContext, NextName
<1>2. SUFFICES ASSUME m.from # None
               PROVE  /\ range' = MessageRange(m)
                      /\ \A n \in Names :
                           /\ pointer'[n] \in {None, m.from}
                           /\ \A t \in frame'[n] : t <= m.to
                           /\ \A t \in cached'[n] : t > m.to => clabel'[n][t] = label[StreamOf[n]][t]
  BY <1>1 DEF DatedInv
<1>3. /\ range = MessageRange(m) /\ range.from = m.from /\ range.to = m.to
      /\ \A n \in Names :
           /\ pointer[n] \in {None, m.from}
           /\ \A t \in frame[n] : t <= m.to
           /\ \A t \in cached[n] : t > m.to => clabel[n][t] = label[StreamOf[n]][t]
  BY <1>1, <1>2 DEF DatedInv, MessageRange
<1>4. m.from \in Int /\ m.to \in Int /\ m.from <= m.to
  BY <1>1, <1>2, HeadDates DEF CacheInv, TypeOK
<1>5. left # << >> /\ Current \in Names
  BY CacheCopies
<1>6. ASSUME NEW n \in Names, NEW t \in cached'[n], t > m.to
      PROVE  clabel'[n][t] = label[StreamOf[n]][t]
  <2>1. clabel'[n][t] = IF t \in cached[n] THEN clabel[n][t] ELSE label[StreamOf[n]][t]
    BY CacheCopies
  <2>2. QED
    BY <1>3, <1>6, <2>1
<1> HIDE DEF m
<1>7. range' = range
  BY <1>2, <1>3 DEF Fetch, FetchEnd, FetchContext, RangeOf
<1>8. CASE Fetch \/ FetchEnd
  BY <1>3, <1>6, <1>7, <1>8 DEF Fetch, FetchEnd
<1>9. CASE FetchContext
  <2> DEFINE all == cached[Current] \cup FetchedContext(Current)
  <2>1. /\ frame' = [frame EXCEPT ![Current] = Context(all) \cup Between(all, range.from, range.to)]
        /\ pointer' = [pointer EXCEPT ![Current] = Lowered(Current)]
        /\ pc = "context" /\ cached[Current] # {}
    BY <1>9 DEF FetchContext, Chunk, Between
  <2>2. all \subseteq Times
    BY <1>5, <2>1, ContextFetched, QcAssumption DEF CacheInv, TypeOK
  <2>3. \A t \in Context(all) : t <= range.from /\ t \in all
    <3> HIDE DEF all
    <3>1. QED
      BY <2>1, <2>2, ContextIsEarlier, ContextSubset
  <2>4. \A t \in all : t \in Int
    BY <2>2, TimesNat
  <2> HIDE DEF all
  <2>5. \A t \in Context(all) \cup Between(all, range.from, range.to) : t <= m.to
    BY <1>3, <1>4, <2>3, <2>4 DEF Between
  <2>6. \A n \in Names : \A t \in frame'[n] : t <= m.to
    BY <1>3, <2>1, <2>5 DEF CacheInv, TypeOK
  <2>7. Lowered(Current) \in {None, m.from}
    BY <1>3, <1>5 DEF Lowered
  <2>8. \A n \in Names : pointer'[n] \in {None, m.from}
    BY <1>3, <2>1, <2>7 DEF CacheInv, TypeOK
  <2>9. QED
    BY <1>3, <1>6, <1>7, <2>6, <2>8
<1>10. QED
  BY <1>8, <1>9

LEMMA DatedNextTest ==
  ASSUME CacheInv, DatedInv, Take \/ RunTest
  PROVE  DatedInv'
<1> DEFINE m == Head(queue)
<1>1. /\ pc' # "idle" /\ UNCHANGED <<queue, label, pointer, cached>>
      /\ range' = MessageRange(m) /\ frame' = [n \in Names |-> {}]
  BY DEF Take, RunTest, NextTest
<1>2. SUFFICES ASSUME m.from # None
               PROVE  \A n \in Names :
                        /\ pointer[n] \in {None, m.from}
                        /\ \A t \in cached[n] : t > m.to => clabel'[n][t] = label[StreamOf[n]][t]
  BY <1>1 DEF DatedInv
<1>3. CASE Take
  BY <1>3 DEF Take, CacheInv, PhaseInv
<1>4. CASE RunTest
  <2>1. pc # "idle" /\ queue # << >>
    BY <1>4 DEF RunTest, CacheInv, TypeOK
  <2>2. m.to \in Int
    BY <1>2, <2>1, HeadDates
  <2>3. \A n \in Names :
           /\ pointer[n] \in {None, m.from}
           /\ \A t \in frame[n] : t <= m.to
           /\ \A t \in cached[n] : t > m.to => clabel[n][t] = label[StreamOf[n]][t]
    BY <1>2, <2>1 DEF DatedInv
  <2>4. \A n \in Names : \A t \in cached[n] : t \in Int /\ t \in Times
    BY TimesNat DEF CacheInv, TypeOK
  <2> HIDE DEF m
  <2>5. \A n \in Names : \A t \in cached[n] : t > m.to => clabel'[n][t] = clabel[n][t]
    <3>1. \A n \in Names : \A t \in Times :
            clabel'[n][t] = IF n \in FlagsOf(test) /\ t \in frame[n] THEN clabel[n][t] \cup {test}
                            ELSE clabel[n][t]
      BY <1>4 DEF RunTest
    <3>2. ASSUME NEW n \in Names, NEW t \in cached[n], t > m.to PROVE clabel'[n][t] = clabel[n][t]
      <4>1. t \in Int /\ t \in Times
        BY <2>4
      <4>2. ~(t <= m.to)
        BY <2>2, <3>2, <4>1
      <4>3. t \notin frame[n]
        BY <2>3, <4>2
      <4>4. QED
        BY <3>1, <4>1, <4>3
    <3>3. QED
      BY <3>2
  <2>6. QED
    BY <2>3, <2>5
<1>5. QED
  BY <1>3, <1>4

\* What one upload writes is new within the dates only.
LEMMA UploadInDates ==
  ASSUME CacheInv, DatedInv, Upload, Head(queue).from # None,
         NEW s \in Streams, NEW t \in Times, label'[s][t] # label[s][t]
  PROVE  Head(queue).from <= t /\ t <= Head(queue).to
<1> DEFINE n == Current
           m == Head(queue)
<1>1. pc = "upload" /\ left # << >> /\ queue # << >>
  BY DEF Upload, CacheInv, TypeOK
<1>2. n \in Names /\ StreamOf[n] \in Streams
  BY <1>1, LeftTypes DEF CacheInv
<1>3. label' = [label EXCEPT ![StreamOf[n]] = [u \in Times |->
           IF u \in Uploaded(n) THEN clabel[n][u] ELSE @[u]]]
  BY DEF Upload
<1> HIDE DEF n
<1>4. s = StreamOf[n] /\ t \in Uploaded(n) /\ clabel[n][t] # label[s][t]
  BY <1>2, <1>3 DEF CacheInv, TypeOK
<1>5. t \in cached[n] /\ pointer[n] <= t /\ pointer[n] # None
  BY <1>1, <1>2, <1>4 DEF Uploaded, CacheInv, TypeOK
<1>6. pointer[n] \in {None, m.from} /\ (t > m.to => clabel[n][t] = label[StreamOf[n]][t])
  BY <1>1, <1>2, <1>5 DEF DatedInv
<1>7. t \in Int /\ m.to \in Int
  BY <1>1, HeadDates, TimesNat
<1> HIDE DEF m
<1>8. m.from <= t /\ t <= m.to
  BY <1>4, <1>5, <1>6, <1>7
<1>9. QED
  BY <1>8 DEF m

LEMMA DatedUpload ==
  ASSUME CacheInv, DatedInv, Upload
  PROVE  DatedInv'
<1>1. /\ pc = "upload"
      /\ UNCHANGED <<queue, pc, range, pointer, frame, cached, clabel>>
  BY DEF Upload
<1>2. SUFFICES ASSUME Head(queue).from # None, NEW n \in Names, NEW t \in cached[n], t > Head(queue).to
               PROVE  clabel[n][t] = label'[StreamOf[n]][t]
  BY <1>1 DEF DatedInv
<1>3. clabel[n][t] = label[StreamOf[n]][t]
  BY <1>1, <1>2 DEF DatedInv
<1>4. t \in Times /\ StreamOf[n] \in Streams /\ t \in Int /\ Head(queue).to \in Int
  BY <1>1, <1>2, HeadDates, TimesNat, QcAssumption DEF CacheInv, TypeOK
<1>5. ~(t <= Head(queue).to)
  BY <1>2, <1>4
<1>6. QED
  BY <1>2, <1>3, <1>4, <1>5, UploadInDates

LEMMA NextDated == CacheInv /\ DatedInv /\ [Next]_vars => DatedInv'
<1> SUFFICES ASSUME CacheInv, DatedInv, [Next]_vars PROVE DatedInv'
  OBVIOUS
<1>1. ASSUME NEW new \in Uploads, NEW dated \in BOOLEAN, Arrive(new, dated) PROVE DatedInv'
  BY <1>1 DEF Arrive, DatedInv, run
<1>2. CASE \/ \E m \in unsent : Announce(m)
           \/ \E span \in Spans : Trigger(span[1], span[2])
  <2>1. pc' = pc
    BY <1>2 DEF Announce, Trigger, run
  <2>2. pc # "idle" => Head(queue') = Head(queue) /\ UNCHANGED <<rows, label, run, before, excused>>
    BY <1>2, HeadStays
  <2>3. QED
    BY <2>1, <2>2 DEF DatedInv, run
<1>3. CASE Take \/ RunTest
  BY <1>3, DatedNextTest
<1>4. CASE ReadNewest \/ ReadOldest
  BY <1>4 DEF ReadNewest, ReadOldest, DatedInv
<1>5. CASE LoadNothing \/ LoadEmpty
  <2>1. /\ pc # "idle" /\ frame' = [frame EXCEPT ![Current] = {}]
        /\ UNCHANGED <<queue, range, pointer, cached, clabel, label>>
    BY <1>5 DEF LoadNothing, LoadEmpty
  <2>2. \A n \in Names : frame'[n] \subseteq frame[n]
    BY <2>1 DEF CacheInv, TypeOK
  <2>3. QED
    BY <2>1, <2>2 DEF DatedInv
<1>6. CASE Fetch \/ FetchEnd \/ FetchContext
  BY <1>6, DatedLoad
<1>7. CASE Upload
  BY <1>7, DatedUpload
<1>8. CASE Refuse \/ TestFails \/ NoContextFails \/ Finish \/ \E again \in BOOLEAN : Exit(again)
  BY <1>8, RunEnds DEF CacheInv, EndsRun, BecomeIdle, DatedInv
<1>9. CASE UNCHANGED vars
  BY <1>9 DEF vars, run, DatedInv
<1>10. QED
  BY <1>1, <1>2, <1>3, <1>4, <1>5, <1>6, <1>7, <1>8, <1>9 DEF Next, Run

\* For all configs and windows: a run for some dates changes no label outside of them, although its
\* cache holds the context of the tests and, after another test, rows behind them.  The upload
\* starts with the smallest start date of the run (_upload_ptr), and what was cached after the end
\* date still has the labels it was read with.
THEOREM LabelsInRange == Spec => OnlyItsRange
<1>1. Init => DatedInv
  BY DEF Init, DatedInv
<1>2. CacheInv /\ DatedInv /\ [Next]_vars =>
        [\A s \in Streams, t \in Times :
           label'[s][t] # label[s][t] /\ Head(queue).from # None =>
             Head(queue).from <= t /\ t <= Head(queue).to]_vars
  <2> SUFFICES ASSUME CacheInv, DatedInv, [Next]_vars, NEW s \in Streams, NEW t \in Times,
                      label'[s][t] # label[s][t], Head(queue).from # None
               PROVE  Head(queue).from <= t /\ t <= Head(queue).to
    OBVIOUS
  <2>1. Upload
    <3>1. label' = label \/ Upload
      BY DEF Next, Run, Arrive, Announce, Trigger, Take, ReadNewest, ReadOldest, LoadNothing, Fetch,
             FetchEnd, LoadEmpty, FetchContext, RunTest, NoContextFails, Finish, Refuse, TestFails,
             Exit, vars
    <3>2. QED
      BY <3>1
  <2>2. QED
    BY <2>1, UploadInDates
<1>3. QED
  BY <1>1, <1>2, InitCache, NextCache, NextDated, PTL DEF Spec, OnlyItsRange

-----------------------------------------------------------------------------
(***************************************************************************)
(* The context of a test.                                                  *)
(***************************************************************************)
LEMMA CountUnion ==
  ASSUME NEW S, S \subseteq Times, NEW T, T \subseteq Times
  PROVE  /\ Cardinality(S \cup T) <= Cardinality(S) + Cardinality(T)
         /\ Cardinality(S \cup T) = Cardinality(S) + Cardinality(T) - Cardinality(S \cap T)
<1>1. IsFiniteSet(S) /\ IsFiniteSet(T) /\ S \cap T \subseteq Times
  BY FiniteTimes
<1>2. Cardinality(S) \in Nat /\ Cardinality(T) \in Nat /\ Cardinality(S \cap T) \in Nat
  BY <1>1, FiniteTimes
<1>3. Cardinality(S \cup T) = Cardinality(S) + Cardinality(T) - Cardinality(S \cap T)
  BY <1>1, FS_Union
<1>4. QED
  BY <1>2, <1>3

LEMMA CountOne ==
  ASSUME NEW x, NEW S, S \subseteq {x}
  PROVE  Cardinality(S) \in Nat /\ Cardinality(S) <= 1
<1>1. IsFiniteSet({x}) /\ Cardinality({x}) = 1
  BY FS_Singleton
<1>2. IsFiniteSet(S) /\ Cardinality(S) <= 1
  BY <1>1, FS_Subset
<1>3. QED
  BY <1>2, FS_CardinalityType

LEMMA CountWithout ==
  ASSUME NEW S, S \subseteq Times, NEW x
  PROVE  Cardinality(S \ {x}) >= Cardinality(S) - 1
<1>1. IsFiniteSet(S) /\ Cardinality(S) \in Nat
  BY FiniteTimes
<1>2. Cardinality(S \ {x}) = IF x \in S THEN Cardinality(S) - 1 ELSE Cardinality(S)
  BY <1>1, FS_RemoveElement
<1>3. QED
  BY <1>1, <1>2

\* The rows that the fetched context adds: with the cached ones they are enough, or all there are.
LEMMA RowsForContext ==
  ASSUME CacheInv, FetchContext, window.kind = "rows", window.size > 0
  PROVE  LET n == Current
             s == StreamOf[n]
             W == UpTo(cached[n] \cup FetchedContext(n), range.from)
             earlier == {t \in before[s] : t < range.from}
             late == {t \in rows[s] \ before[s] : range.from <= t} IN
         earlier \subseteq W \/ Cardinality(W) + Cardinality(late) >= window.size
<1> DEFINE n == Current
           s == StreamOf[n]
           S == rows[s]
           C == cached[n]
           low == Least(C)
           F == FetchedContext(n)
           W == UpTo(C \cup F, range.from)
           earlier == {t \in before[s] : t < range.from}
           late == {t \in S \ before[s] : range.from <= t}
           D == UpTo(C, range.from)
           k == window.size + 1 - Cardinality(D)
           X == UpTo(S, low)
<1> USE DEF CacheInv
<1>1. pc = "context" /\ Chunk(n) # {} /\ left # << >>
  BY DEF FetchContext, TypeOK
<1>2. /\ n \in Names /\ s \in Streams /\ C \subseteq S /\ S \subseteq Times /\ before[s] \subseteq S
  BY <1>1, LeftTypes DEF TypeOK, RowsInv
<1>3. /\ range.from \in Int /\ window.size \in Nat /\ \A t \in S : t \in Int
  BY <1>2, DatesInt, WindowType, TimesNat DEF TypeOK, Dates
<1>4. PICK v \in C : range.from <= v
  BY <1>1 DEF Chunk, Between
<1>5. low \in C /\ low \in Int /\ \A u \in C : low <= u
  BY <1>2, <1>3, <1>4, LeastIn
<1>6. F = IF k > 1 THEN Newest(X, k) ELSE {}
  BY DEF FetchedContext, ContextRows
<1>7. F \subseteq S /\ \A u \in F : u <= low
  BY <1>2, <1>4, ContextFetched
<1>8. ASSUME NEW t \in before[s], low <= t, t < range.from PROVE t \in C
  <2>1. t <= v
    BY <1>2, <1>3, <1>4, <1>8
  <2>2. QED
    BY <1>2, <1>4, <1>5, <1>8, <2>1 DEF CacheHasNoHoles
<1>9. ASSUME NEW t \in before[s], range.from <= t, t <= low PROVE t = low
  <2>1. t \in C
    BY <1>1, <1>5, <1>9 DEF StartCovered
  <2>2. QED
    BY <1>2, <1>3, <1>5, <1>9, <2>1
<1>10. /\ W = {t \in C \cup F : t <= range.from} /\ D = {t \in C : t <= range.from}
       /\ X = {t \in S : t <= low}
  BY DEF UpTo
<1> HIDE DEF n, s, S, C, low, F, D, W, X, k
<1>11. /\ low \in Int /\ \A t \in C : t \in Int /\ low <= t
       /\ \A t \in F : t \in Int /\ t <= low
  BY <1>2, <1>3, <1>5, <1>7
<1>12. W \subseteq Times /\ D \subseteq Times /\ X \subseteq Times /\ late \subseteq Times /\ F \subseteq Times
  BY <1>2, <1>7, <1>10
<1>13. /\ Cardinality(W) \in Nat /\ Cardinality(D) \in Nat /\ Cardinality(late) \in Nat
       /\ Cardinality(F) \in Nat
  BY <1>12, FiniteTimes
<1>14. k = window.size + 1 - Cardinality(D)
  BY DEF k
<1> HIDE DEF late, earlier
<1>15. CASE ~(k > 1)
  <2>1. Cardinality(D) <= Cardinality(W)
    BY <1>10, <1>12, FewerTimes
  <2>2. Cardinality(W) + Cardinality(late) >= window.size
    BY <1>3, <1>13, <1>14, <1>15, <2>1
  <2>3. QED
    BY <2>2 DEF W, late, n, s, S, C, F
<1>16. CASE k > 1
  <2>1. k \in Nat /\ F = Newest(X, k)
    BY <1>3, <1>6, <1>13, <1>14, <1>16
  <2>2. F = X \/ Cardinality(F) >= k
    BY <1>12, <2>1, NewestIsLarge
  <2>3. CASE F = X
    <3>1. \A t \in earlier : t \in W
      <4>1. TAKE t \in earlier
      <4>2. t \in before[s] /\ t < range.from /\ t \in S /\ t \in Int
        BY <1>2, <1>3 DEF earlier
      <4>3. t \in C \cup F
        BY <1>5, <1>8, <1>10, <2>3, <4>2
      <4>4. QED
        BY <1>3, <1>10, <4>2, <4>3
    <3>2. QED
      BY <3>1 DEF W, earlier, n, s, C, F
  <2>4. CASE Cardinality(F) >= k /\ low <= range.from
    <3>1. F \cup D \subseteq W
      <4>1. \A t \in F : t <= range.from
        BY <1>3, <1>11, <2>4
      <4>2. QED
        BY <1>10, <4>1
    <3>2. F \cap D \subseteq {low}
      <4>1. \A t \in F \cap D : t \in F /\ t \in C
        BY <1>10
      <4>2. QED
        BY <1>11, <4>1
    <3>3. Cardinality(F \cap D) \in Nat /\ Cardinality(F \cap D) <= 1
      BY <3>2, CountOne
    <3>4. Cardinality(F \cup D) = Cardinality(F) + Cardinality(D) - Cardinality(F \cap D)
      BY <1>12, CountUnion
    <3>5. Cardinality(F \cup D) <= Cardinality(W)
      BY <1>12, <3>1, FewerTimes
    <3>6. Cardinality(W) + Cardinality(late) >= window.size
      BY <1>3, <1>13, <1>14, <2>4, <3>3, <3>4, <3>5
    <3>7. QED
      BY <3>6 DEF W, late, n, s, S, C, F
  <2>5. CASE Cardinality(F) >= k /\ ~(low <= range.from)
    <3>1. D = {}
      <4>1. \A t \in C : ~(t <= range.from)
        BY <1>3, <1>11, <2>5
      <4>2. QED
        BY <1>10, <4>1
    <3>2. Cardinality(D) = 0
      BY <3>1, FS_EmptySet
    <3>3. F \subseteq (W \cup late) \cup {low}
      <4>1. SUFFICES ASSUME NEW t \in F, t \notin W, t # low PROVE t \in late
        OBVIOUS
      <4>2. t \in S /\ t \in Int /\ t <= low
        BY <1>2, <1>3, <1>7
      <4>3. ~(t <= range.from)
        BY <1>10, <4>1
      <4>4. range.from <= t
        BY <1>3, <4>2, <4>3
      <4>5. t \notin before[s]
        BY <1>9, <4>1, <4>2, <4>4
      <4>6. QED
        BY <4>2, <4>4, <4>5 DEF late
    <3>4. W \cup late \subseteq Times /\ {low} \subseteq Times /\ (W \cup late) \cup {low} \subseteq Times
      BY <1>2, <1>5, <1>12
    <3>5. Cardinality(F) <= Cardinality((W \cup late) \cup {low})
      BY <3>3, <3>4, FewerTimes
    <3>6. Cardinality((W \cup late) \cup {low}) <= Cardinality(W \cup late) + Cardinality({low})
      BY <3>4, CountUnion
    <3>7. Cardinality(W \cup late) <= Cardinality(W) + Cardinality(late)
      BY <1>12, CountUnion
    <3>8. Cardinality({low}) \in Nat /\ Cardinality({low}) <= 1
      BY CountOne
    <3>9. Cardinality(W \cup late) \in Nat /\ Cardinality((W \cup late) \cup {low}) \in Nat
      BY <3>4, FiniteTimes
    <3>10. Cardinality(W) + Cardinality(late) >= window.size
      BY <1>3, <1>13, <1>14, <2>5, <3>2, <3>5, <3>6, <3>7, <3>8, <3>9
    <3>11. QED
      BY <3>10 DEF W, late, n, s, S, C, F
  <2>6. QED
    BY <2>2, <2>3, <2>4, <2>5
<1>17. QED
  BY <1>15, <1>16

LEMMA ContextOfRows ==
  ASSUME CacheInv, FetchContext, window.kind = "rows"
  PROVE  LET n == Current
             s == StreamOf[n]
             earlier == {t \in before[s] : t < range.from}
             late == {t \in rows[s] \ before[s] : range.from <= t}
             context == {t \in frame'[n] : t < range.from} IN
         earlier \subseteq context \/ Cardinality(context) + Cardinality(late) >= window.size - 1
<1> DEFINE n == Current
           s == StreamOf[n]
           all == cached[n] \cup FetchedContext(n)
           W == UpTo(all, range.from)
           N == Newest(W, window.size + 1)
           earlier == {t \in before[s] : t < range.from}
           late == {t \in rows[s] \ before[s] : range.from <= t}
           context == {t \in frame'[n] : t < range.from}
<1> USE DEF CacheInv
<1>1. /\ pc = "context" /\ Chunk(n) # {} /\ left # << >>
      /\ frame' = [frame EXCEPT ![n] = Context(all) \cup Between(all, range.from, range.to)]
  BY DEF FetchContext, TypeOK
<1>2. /\ n \in Names /\ s \in Streams /\ cached[n] \subseteq Times /\ cached[n] # {}
      /\ rows[s] \subseteq Times /\ before[s] \subseteq Times
  BY <1>1, LeftTypes DEF TypeOK, Chunk, Between
<1>3. all \subseteq Times
  BY <1>2, ContextFetched
<1>4. /\ range.from \in Int /\ window.size \in Nat /\ \A t \in Times : t \in Int
  BY DatesInt, WindowType, TimesNat DEF TypeOK, Dates
<1>5. frame'[n] = Context(all) \cup Between(all, range.from, range.to)
  BY <1>1, <1>2 DEF TypeOK
<1>6. context \subseteq Times /\ late \subseteq Times
  <2>1. Context(all) \cup Between(all, range.from, range.to) \subseteq Times
    BY <1>3, ContextSubset DEF Between
  <2>2. QED
    BY <1>2, <1>5, <2>1
<1>7. Cardinality(context) \in Nat /\ Cardinality(late) \in Nat
  BY <1>6, FiniteTimes
<1>8. CASE ~(window.size > 0)
  <2> HIDE DEF context, late
  <2>1. Cardinality(context) + Cardinality(late) >= window.size - 1
    BY <1>4, <1>7, <1>8
  <2>2. QED
    BY <2>1 DEF context, late
<1>9. CASE window.size > 0
  <2>1. Context(all) = N \ {range.from}
    BY <1>9 DEF Context
  <2>2. W \subseteq Times /\ \A t \in W : t <= range.from
    BY <1>3 DEF UpTo
  <2>3. N \subseteq W
    BY DEF Newest
  <2>4. N = W \/ Cardinality(N) >= window.size + 1
    <3>1. window.size + 1 \in Nat
      BY <1>4
    <3>2. QED
      BY <2>2, <3>1, NewestIsLarge
  <2>5. earlier \subseteq W \/ Cardinality(W) + Cardinality(late) >= window.size
    BY <1>9, RowsForContext
  <2> HIDE DEF N, W, all
  <2>6. N \ {range.from} \subseteq context
    BY <1>4, <1>5, <2>1, <2>2, <2>3
  <2>7. \A t \in earlier : t # range.from
    BY <1>2, <1>4
  <2> HIDE DEF context, earlier, late
  <2>8. Cardinality(N \ {range.from}) >= Cardinality(N) - 1
    BY <2>2, <2>3, CountWithout
  <2>9. Cardinality(N \ {range.from}) <= Cardinality(context)
    BY <1>6, <2>6, FewerTimes
  <2>10. Cardinality(N) \in Nat /\ Cardinality(N \ {range.from}) \in Nat
    BY <2>2, <2>3, FiniteTimes
  <2>11. CASE N = W /\ earlier \subseteq W
    <3>1. earlier \subseteq context
      BY <2>6, <2>7, <2>11
    <3>2. QED
      BY <3>1 DEF earlier, context
  <2>12. CASE N = W /\ Cardinality(W) + Cardinality(late) >= window.size
    <3>1. Cardinality(context) + Cardinality(late) >= window.size - 1
      BY <1>4, <1>7, <2>8, <2>9, <2>10, <2>12
    <3>2. QED
      BY <3>1 DEF late, context
  <2>13. CASE Cardinality(N) >= window.size + 1
    <3>1. Cardinality(context) + Cardinality(late) >= window.size - 1
      BY <1>4, <1>7, <2>8, <2>9, <2>10, <2>13
    <3>2. QED
      BY <3>1 DEF late, context
  <2>14. QED
    BY <2>4, <2>5, <2>11, <2>12, <2>13
<1>10. QED
  BY <1>8, <1>9

LEMMA ContextOfTime ==
  ASSUME CacheInv, FetchContext, window.kind = "time"
  PROVE  {t \in before[StreamOf[Current]] : t < range.from /\ t >= range.from - window.size}
           \subseteq frame'[Current]
<1> DEFINE n == Current
           S == rows[StreamOf[n]]
           low == Least(cached[n])
           F == FetchedContext(n)
           all == cached[n] \cup F
<1> USE DEF CacheInv
<1>1. /\ pc = "context" /\ Chunk(n) # {} /\ left # << >>
      /\ frame' = [frame EXCEPT ![n] = Context(all) \cup Between(all, range.from, range.to)]
  BY DEF FetchContext, TypeOK
<1>2. /\ n \in Names /\ S \subseteq Times /\ cached[n] \subseteq S /\ before[StreamOf[n]] \subseteq S
  BY <1>1, LeftTypes DEF TypeOK, RowsInv
<1>3. /\ range.from \in Int /\ window.size \in Nat /\ \A t \in S : t \in Int
  BY <1>2, DatesInt, WindowType, TimesNat DEF TypeOK, Dates
<1>4. PICK v \in cached[n] : range.from <= v
  BY <1>1 DEF Chunk, Between
<1>5. low \in cached[n] /\ low \in Int
  BY <1>2, <1>3, <1>4, LeastIn
<1>6. F = {t \in S : range.from - window.size <= t /\ t <= low}
  BY DEF FetchedContext, ContextTime, Between
<1>7. Context(all) = {t \in all : range.from - window.size <= t /\ t <= range.from - 1}
  BY DEF Context, Between
<1>8. frame'[n] = Context(all) \cup Between(all, range.from, range.to)
  BY <1>1, <1>2 DEF TypeOK
<1> HIDE DEF F, low, S
<1>9. ASSUME NEW t \in before[StreamOf[n]], t < range.from, t >= range.from - window.size
      PROVE  t \in frame'[n]
  <2>1. t \in S /\ t \in Int /\ v \in Int
    BY <1>2, <1>3, <1>4
  <2>2. t \in all
    <3>1. CASE t <= low
      BY <1>3, <1>6, <1>9, <2>1, <3>1
    <3>2. CASE ~(t <= low)
      <4>1. low <= t /\ t <= v
        BY <1>3, <1>4, <1>5, <1>9, <2>1, <3>2
      <4>2. t \in cached[n]
        BY <1>2, <1>4, <1>5, <1>9, <4>1 DEF CacheHasNoHoles
      <4>3. QED
        BY <4>2
    <3>3. QED
      BY <3>1, <3>2
  <2>3. t <= range.from - 1 /\ range.from - window.size <= t
    BY <1>3, <1>9, <2>1
  <2> HIDE DEF all
  <2>4. QED
    BY <1>7, <1>8, <2>2, <2>3
<1>10. QED
  BY <1>9

\* For all windows and whatever the tests before have cached: the test gets the rows of a duration,
\* and of a number of rows at most one less than it asks for, and one for each row that came in
\* late, or all there were (the early return and the limit nr_obs of _fetch_context).
THEOREM ContextComplete == Spec => ContextIsAlmostFull
<1>1. CacheInv /\ [Next]_vars =>
        [\A n \in Names :
           LET s == StreamOf[n]
               earlier == {t \in before[s] : t < range.from}
               late == {t \in rows[s] \ before[s] : range.from <= t}
               context == {t \in frame'[n] : t < range.from} IN
           FetchContext /\ n = Current =>
             IF window.kind = "time"
             THEN {t \in earlier : t >= range.from - window.size} \subseteq context
             ELSE \/ earlier \subseteq context
                  \/ Cardinality(context) + Cardinality(late) >= window.size - 1]_vars
  <2> SUFFICES ASSUME CacheInv, FetchContext
               PROVE  LET n == Current
                          s == StreamOf[n]
                          earlier == {t \in before[s] : t < range.from}
                          late == {t \in rows[s] \ before[s] : range.from <= t}
                          context == {t \in frame'[n] : t < range.from} IN
                      IF window.kind = "time"
                      THEN {t \in earlier : t >= range.from - window.size} \subseteq context
                      ELSE \/ earlier \subseteq context
                           \/ Cardinality(context) + Cardinality(late) >= window.size - 1
    OBVIOUS
  <2>1. window.kind = "rows" \/ window.kind = "time"
    BY WindowType DEF CacheInv
  <2>2. CASE window.kind = "rows"
    BY <2>2, ContextOfRows
  <2>3. CASE window.kind = "time"
    BY <2>3, ContextOfTime
  <2>4. QED
    BY <2>1, <2>2, <2>3
<1>2. QED
  BY <1>1, InitCache, NextCache, PTL DEF Spec, ContextIsAlmostFull

-----------------------------------------------------------------------------
(***************************************************************************)
(* Every row is judged, by all tests of its stream or by none.             *)
(***************************************************************************)
LEMMA DueType ==
  ASSUME CacheInv, NEW n \in Names
  PROVE  /\ StreamOf[n] \in Streams
         /\ \A t \in Due(n) : /\ t \in before[StreamOf[n]] /\ t \in rows[StreamOf[n]]
                              /\ t \in Times /\ t \in Int
                              /\ Head(queue).from # None =>
                                   Head(queue).from <= t /\ t <= Head(queue).to
                              /\ Head(queue).from = None => label[StreamOf[n]][t] = {}
<1>1. StreamOf[n] \in Streams
  BY QcAssumption
<1>2. before[StreamOf[n]] \subseteq rows[StreamOf[n]] /\ rows[StreamOf[n]] \subseteq Times
  BY <1>1 DEF CacheInv, TypeOK, RowsInv
<1>3. \A t \in Due(n) : t \in before[StreamOf[n]]
  BY DEF Due
<1>4. \A t \in Due(n) : /\ Head(queue).from # None =>
                             Head(queue).from <= t /\ t <= Head(queue).to
                        /\ Head(queue).from = None => label[StreamOf[n]][t] = {}
  BY DEF Due
<1>5. QED
  BY <1>1, <1>2, <1>3, <1>4, TimesNat

LEMMA TestsOfNameType ==
  ASSUME NEW n \in Names, NEW i \in TestsOfName(n)
  PROVE  /\ i \in TestIds /\ i \in Int /\ i \in DOMAIN Tests
         /\ Tests[i].names \in Seq(Names) /\ Tests[i].names # << >>
         /\ Head(Tests[i].names) = n /\ n \in Tests[i].flags
         /\ \A thing : NamesOf(i, thing) = Tests[i].names
<1>1. i \in TestIds /\ Tests[i].names # << >> /\ Head(Tests[i].names) = n /\ n \in Tests[i].flags
  BY DEF TestsOfName
<1>2. i \in DOMAIN Tests /\ Tests[i].names \in Seq(Names)
  BY <1>1, NamesType
<1>3. QED
  BY <1>1, <1>2 DEF NamesOf, TestIds

\* A test names no stream twice.
LEMMA HeadOnce ==
  ASSUME NEW n \in Names, NEW i \in TestsOfName(n)
  PROVE  n \notin Range(Tail(Tests[i].names))
<1> DEFINE names == Tests[i].names
<1>1. names \in Seq(Names) /\ names # << >> /\ Head(names) = n /\ i \in DOMAIN Tests
  BY TestsOfNameType
<1>2. \A j, k \in DOMAIN names : names[j] = names[k] => j = k
  BY <1>1, QcAssumption DEF Distinct
<1> HIDE DEF names
<1>3. /\ 1 \in DOMAIN names /\ Head(names) = names[1]
      /\ \A j \in DOMAIN Tail(names) : j + 1 \in DOMAIN names /\ j + 1 # 1 /\ Tail(names)[j] = names[j + 1]
  BY <1>1, TailIn
<1>4. \A j \in DOMAIN Tail(names) : Tail(names)[j] # n
  BY <1>1, <1>2, <1>3
<1>5. n \notin Range(Tail(names))
  BY <1>4 DEF Range
<1>6. QED
  BY <1>5 DEF names

LEMMA LeftHead ==
  ASSUME CacheInv, left # << >>
  PROVE  /\ Current \in Range(left) /\ Range(left) = {Current} \cup Range(Tail(left))
<1>1. left \in Seq(Names)
  BY DEF CacheInv, TypeOK
<1>2. QED
  BY <1>1, TailIn DEF Current

LEMMA FreshHead ==
  ASSUME CacheInv, NEW n \in Names, test \in TestsOfName(n), Fresh
  PROVE  left # << >> /\ Current = n /\ n \notin Range(Tail(left))
  BY TestsOfNameType, HeadOnce DEF Fresh, Current

\* Most steps do not touch what the rows and messages are.
LEMMA DueStays ==
  ASSUME NEW n \in Names, UNCHANGED <<rows, label, unsent, queue, before, excused>>
  PROVE  Due(n)' = Due(n) /\ (Judged(n) => Judged(n)')
<1>1. Due(n)' = Due(n)
  BY DEF Due
<1>2. Judged(n) => Judged(n)'
  BY DEF Judged
<1>3. QED
  BY <1>1, <1>2

LEMMA ArriveJudge ==
  ASSUME CacheInv, NEW n \in Names, JudgeOf(n),
         NEW new \in Uploads, NEW dated \in BOOLEAN, Arrive(new, dated)
  PROVE  JudgeOf(n)'
<1> DEFINE all == UNION {new[u] : u \in Streams}
           m == [from |-> IF dated THEN Least(all) ELSE None,
                 to |-> IF dated THEN Greatest(all) ELSE None, thing |-> TRUE]
           s == StreamOf[n]
<1>1. /\ all # {} /\ \A u \in Streams : new[u] \cap rows[u] = {}
      /\ rows' = [u \in Streams |-> rows[u] \cup new[u]]
      /\ unsent' = unsent \cup {m}
      /\ excused' = IF pc = "idle" THEN excused ELSE [u \in Streams |-> excused[u] \cup new[u]]
      /\ UNCHANGED <<label, queue, run, before>>
  BY DEF Arrive
<1>2. s \in Streams /\ new \in [Streams -> SUBSET Times]
  BY QcAssumption
<1>3. all \subseteq Times /\ new[s] \subseteq all
  BY <1>2
<1>4. \A t \in new[s] : Covers(m, t)
  <2>1. dated => /\ m.from = Least(all) /\ m.to = Greatest(all)
    OBVIOUS
  <2>2. ~dated => m.from = None
    OBVIOUS
  <2> HIDE DEF all, m
  <2>3. \A t \in all : Least(all) <= t /\ t <= Greatest(all)
    BY <1>1, <1>3, LeastIn, GreatestIn
  <2>4. QED
    BY <1>3, <2>1, <2>2, <2>3 DEF Covers
<1> HIDE DEF all, m, s
<1>5. rows'[s] = rows[s] \cup new[s]
  BY <1>1, <1>2
<1>6. excused'[s] = IF pc = "idle" THEN excused[s] ELSE excused[s] \cup new[s]
  BY <1>1, <1>2
<1>7. \A t \in new[s] : label[s][t] = {}
  BY <1>1, <1>2 DEF CacheInv, TypeOK
<1>8. Judged(n)'
  <2>1. SUFFICES ASSUME NEW t \in rows'[s] \ excused'[s]
                 PROVE  \/ TestsOfName(n) \subseteq label[s][t]
                        \/ /\ label[s][t] = {}
                           /\ \E q \in unsent' \cup Range(queue) : Covers(q, t)
    BY <1>1 DEF Judged, s
  <2>2. CASE t \in new[s]
    BY <1>1, <1>4, <1>7, <2>2
  <2>3. CASE t \in rows[s] \ excused[s]
    BY <1>1, <2>3 DEF JudgeOf, Judged, s
  <2>4. QED
    BY <1>5, <1>6, <2>1, <2>2, <2>3
<1>9. Due(n)' \subseteq Due(n)
  <2>1. excused[s] \subseteq excused'[s]
    BY <1>6
  <2>2. Head(queue)' = Head(queue) /\ before' = before /\ label' = label
    BY <1>1
  <2>3. CASE Head(queue).from = None
    <3>1. /\ Due(n) = {t \in before[s] \ excused[s] : label[s][t] = {}}
          /\ Due(n)' = {t \in before[s] \ excused'[s] : label[s][t] = {}}
      BY <2>2, <2>3 DEF Due, s
    <3>2. QED
      BY <2>1, <3>1
  <2>4. CASE Head(queue).from # None
    BY <2>2, <2>4 DEF Due
  <2>5. QED
    BY <2>3, <2>4
<1>10. /\ UNCHANGED <<pc, test, left, range, newest, opened, unflagged, cached, clabel, pointer, frame>>
       /\ label' = label /\ Head(queue)' = Head(queue)
  BY <1>1 DEF run
<1>11. LabelsCached(n)'
  BY <1>10 DEF JudgeOf, LabelsCached
<1>12. Seen(n)' /\ Begun(n)'
  BY <1>9, <1>10 DEF JudgeOf, Seen, Begun, Current, Fresh, MessageRange
<1>13. Labelled(n)' /\ UploadsLeft(n)'
  BY <1>9, <1>10 DEF JudgeOf, Labelled, UploadsLeft, Finished
<1>14. QED
  BY <1>8, <1>11, <1>12, <1>13 DEF JudgeOf

LEMMA QueueJudge ==
  ASSUME CacheInv, NEW n \in Names, JudgeOf(n),
         \/ \E m \in unsent : Announce(m)
         \/ \E span \in Spans : Trigger(span[1], span[2])
  PROVE  JudgeOf(n)'
<1>1. UNCHANGED <<rows, label, run, before, excused>>
  BY DEF Announce, Trigger
<1>2. unsent \cup Range(queue) \subseteq unsent' \cup Range(queue')
  <2>1. queue \in Seq(Message) /\ unsent \subseteq Message
    BY DEF CacheInv, TypeOK
  <2>2. CASE \E m \in unsent : Announce(m)
    <3>1. PICK m \in unsent : Announce(m)
      BY <2>2
    <3>2. unsent' = unsent \ {m} /\ queue' = Append(queue, m) /\ m \in Message
      BY <2>1, <3>1 DEF Announce
    <3>3. Range(queue') = Range(queue) \cup {m}
      BY <2>1, <3>2, AppendIn
    <3>4. QED
      BY <3>2, <3>3
  <2>3. CASE \E span \in Spans : Trigger(span[1], span[2])
    <3>1. PICK span \in Spans : Trigger(span[1], span[2])
      BY <2>3
    <3> DEFINE m == [from |-> span[1], to |-> span[2], thing |-> FALSE]
    <3>2. unsent' = unsent /\ queue' = Append(queue, m)
      BY <3>1 DEF Trigger
    <3>3. m \in Message
      BY QcAssumption DEF Message
    <3> HIDE DEF m
    <3>4. Range(queue') = Range(queue) \cup {m}
      BY <2>1, <3>2, <3>3, AppendIn
    <3>5. QED
      BY <3>2, <3>4
  <2>4. QED
    BY <2>2, <2>3
<1>3. Judged(n)'
  BY <1>1, <1>2 DEF JudgeOf, Judged
<1>4. LabelsCached(n)'
  BY <1>1 DEF JudgeOf, LabelsCached, run
<1>5. CASE pc = "idle"
  BY <1>1, <1>3, <1>4, <1>5 DEF JudgeOf, Seen, Begun, Labelled, UploadsLeft, Finished, Loading, run
<1>6. CASE pc # "idle"
  <2>1. Head(queue)' = Head(queue)
    BY <1>6, HeadStays
  <2>2. Due(n)' = Due(n)
    BY <1>1, <2>1 DEF Due
  <2>3. /\ UNCHANGED <<pc, test, left, range, newest, opened, unflagged, cached, clabel, pointer, frame>>
        /\ label' = label
    BY <1>1 DEF run
  <2>4. Seen(n)' /\ Begun(n)'
    BY <2>1, <2>2, <2>3 DEF JudgeOf, Seen, Begun, Current, Fresh, MessageRange
  <2>5. Labelled(n)' /\ UploadsLeft(n)'
    BY <2>2, <2>3 DEF JudgeOf, Labelled, UploadsLeft, Finished
  <2>6. QED
    BY <1>3, <1>4, <2>4, <2>5 DEF JudgeOf
<1>7. QED
  BY <1>5, <1>6

LEMMA TakeJudge ==
  ASSUME CacheInv, NEW n \in Names, JudgeOf(n), Take
  PROVE  JudgeOf(n)'
<1>1. /\ pc = "idle" /\ range' = MessageRange(Head(queue))
      /\ pc' = IF 1 \in TestIds THEN "load" ELSE "upload"
      /\ 1 \in TestIds => test' = 1 /\ left' = NamesOf(1, Head(queue).thing)
      /\ UNCHANGED <<rows, label, unsent, queue, opened, unflagged, cached, clabel, pointer, excused>>
  BY DEF Take, NextTest
<1>2. cached[n] = {} /\ unflagged[n] = Unread
  BY <1>1 DEF CacheInv, PhaseInv
<1>3. Judged(n)'
  BY <1>1 DEF JudgeOf, Judged
<1>4. LabelsCached(n)' /\ Seen(n)'
  BY <1>1, <1>2 DEF LabelsCached, Seen
<1>5. Begun(n)'
  <2>1. SUFFICES ASSUME pc' = "load", test' \in TestsOfName(n)
                 PROVE  Fresh' /\ range' = MessageRange(Head(queue))
    BY <1>1 DEF Begun, Loading
  <2>2. test' = 1 /\ left' = NamesOf(1, Head(queue).thing)
    BY <1>1, <2>1
  <2>3. NamesOf(1, Head(queue).thing) = Tests[1].names
    BY <2>1, <2>2, TestsOfNameType
  <2>4. QED
    BY <1>1, <2>2, <2>3 DEF Fresh
<1>6. 1 \notin TestIds => TestsOfName(n) = {}
  <2>1. Len(Tests) \in Nat
    BY QcAssumption, LenProperties
  <2>2. QED
    BY <2>1 DEF TestIds, TestsOfName
<1>7. Labelled(n)'
  <2>1. SUFFICES ASSUME NEW i \in TestsOfName(n), Finished(i)' PROVE FALSE
    BY DEF Labelled
  <2>2. 1 \in TestIds /\ i \in 1 .. Len(Tests)
    BY <1>6, <2>1 DEF TestsOfName, TestIds
  <2>3. pc' = "load" /\ test' = 1
    BY <1>1, <2>2
  <2>4. i < 1
    BY <2>1, <2>3 DEF Finished
  <2>5. QED
    BY <2>2, <2>4
<1>8. UploadsLeft(n)'
  BY <1>1, <1>6 DEF UploadsLeft
<1>9. QED
  BY <1>3, <1>4, <1>5, <1>7, <1>8 DEF JudgeOf

\* A message without dates, and the first name of a test of it: what is due has no labels.
LEMMA DueUnlabelled ==
  ASSUME CacheInv, NEW n \in Names, Head(queue).from = None
  PROVE  Due(n) \subseteq Unlabelled(StreamOf[n]) /\ Unlabelled(StreamOf[n]) \subseteq Times
<1>1. StreamOf[n] \in Streams /\ \A t \in Due(n) : t \in rows[StreamOf[n]] /\ label[StreamOf[n]][t] = {}
  BY DueType
<1>2. rows[StreamOf[n]] \subseteq Times
  BY <1>1 DEF CacheInv, TypeOK
<1>3. QED
  BY <1>1, <1>2 DEF Unlabelled

LEMMA QueryJudge ==
  ASSUME CacheInv, NEW n \in Names, JudgeOf(n), ReadNewest \/ ReadOldest
  PROVE  JudgeOf(n)'
<1> DEFINE S == Unlabelled(StreamOf[Current])
<1>1. /\ pc \in {"load", "oldest"} /\ pc' \in {"load", "oldest"} /\ left # << >> /\ Current' = Current
      /\ UNCHANGED <<rows, label, unsent, queue, test, left, range, opened, cached, clabel,
                     pointer, frame, before, excused>>
  BY DEF ReadNewest, ReadOldest, CacheInv, TypeOK, Current
<1>2. Due(n)' = Due(n) /\ Judged(n)'
  BY <1>1, DueStays DEF JudgeOf
<1>3. LabelsCached(n)'
  BY <1>1 DEF JudgeOf, LabelsCached
<1>4. Begun(n)'
  BY <1>1, <1>2 DEF JudgeOf, Begun, Fresh, Loading
<1>5. Labelled(n)' /\ UploadsLeft(n)'
  BY <1>1, <1>2 DEF JudgeOf, Labelled, UploadsLeft, Finished, Loading
<1>6. Current \in Names
  BY <1>1, LeftTypes DEF CacheInv
<1>7. ASSUME Head(queue).from = None, n = Current, NEW t \in Due(n)
      PROVE  t \in S /\ S # {} /\ S \subseteq Times
  BY <1>7, DueUnlabelled
<1> HIDE DEF S
<1>8. \A t \in Due(n) : t \in Int
  BY DueType
<1>9. Seen(n)'
  <2>1. CASE ReadNewest
    <3>1. /\ newest' = IF S = {} THEN None ELSE Greatest(S)
          /\ pc' = "oldest" /\ unflagged' = unflagged
      BY <2>1 DEF ReadNewest, S
    <3>2. ASSUME Head(queue).from = None, n = Current, NEW t \in Due(n)
          PROVE  newest' # None /\ t <= newest'
      BY <1>7, <3>1, <3>2, GreatestIn, TimesNat
    <3>3. QED
      BY <1>1, <1>2, <3>1, <3>2 DEF JudgeOf, Seen
  <2>2. CASE ReadOldest
    <3> DEFINE oldest == IF S = {} THEN None ELSE Least(S)
               r == [from |-> oldest, to |-> IF oldest # None /\ newest = None THEN Open ELSE newest]
    <3>1. /\ unflagged' = [unflagged EXCEPT ![Current] = r]
          /\ pc = "oldest" /\ pc' = "load"
      BY <2>2 DEF ReadOldest, S
    <3>2. unflagged'[Current] = r /\ (n # Current => unflagged'[n] = unflagged[n])
      BY <1>6, <3>1 DEF CacheInv, TypeOK
    <3>3. ASSUME Head(queue).from = None, n = Current, NEW t \in Due(n)
          PROVE  /\ unflagged'[n].from # None /\ unflagged'[n].from <= t
                 /\ t <= unflagged'[n].to /\ unflagged'[n].to # Open
      <4>1. oldest = Least(S) /\ oldest # None /\ oldest <= t
        BY <1>7, <3>3, LeastIn, TimesNat
      <4>2. newest # None /\ t <= newest /\ newest # Open
        BY <3>1, <3>3, TimesNat DEF JudgeOf, Seen, CacheInv, TypeOK, None, Open
      <4> HIDE DEF oldest
      <4>3. r.from = oldest /\ r.to = newest
        BY <4>1, <4>2
      <4>4. QED
        BY <3>2, <3>3, <4>1, <4>2, <4>3
    <3> HIDE DEF r
    <3>4. QED
      BY <1>1, <1>2, <3>1, <3>2, <3>3 DEF JudgeOf, Seen
  <2>3. QED
    BY <2>1, <2>2
<1>10. QED
  BY <1>2, <1>3, <1>4, <1>5, <1>9 DEF JudgeOf

\* The range of the first name of a test holds what is due.
LEMMA FirstRange ==
  ASSUME CacheInv, DatedInv, NEW n \in Names, JudgeOf(n), pc = "load", test \in TestsOfName(n), Fresh,
         Known(n), NEW t \in Due(n)
  PROVE  LET r == RangeOf(n) IN
         r.from # None /\ r.from <= t /\ t <= r.to /\ r.to # Open
<1>1. n = Current /\ n \in Range(left) /\ pc # "idle" /\ queue # << >>
  BY FreshHead, LeftHead DEF CacheInv, TypeOK
<1>2. range.from = Head(queue).from /\ range.to = Head(queue).to
  BY <1>1 DEF JudgeOf, Begun, Loading, MessageRange
<1>3. CASE Head(queue).from # None
  <2>1. RangeOf(n) = range
    BY <1>2, <1>3 DEF RangeOf
  <2>2. Head(queue).to \in Times
    BY <1>1, <1>3, HeadDates
  <2>3. QED
    BY <1>2, <1>3, <2>1, <2>2, DueType, TimesNat
<1>4. CASE Head(queue).from = None
  <2>1. RangeOf(n) = unflagged[n] /\ unflagged[n] # Unread
    BY <1>2, <1>4 DEF RangeOf, Known
  <2>2. QED
    BY <1>1, <1>4, <2>1 DEF JudgeOf, Seen
<1>5. QED
  BY <1>3, <1>4

LEMMA EmptyJudge ==
  ASSUME CacheInv, DatedInv, NEW n \in Names, JudgeOf(n), LoadNothing \/ LoadEmpty
  PROVE  JudgeOf(n)'
<1>1. /\ left # << >> /\ Current \in Names /\ pc \in {"load", "context"}
      /\ left' = Tail(left) /\ pc' = "load" /\ opened' = AddTo(opened, Current)
      /\ frame' = [frame EXCEPT ![Current] = {}]
      /\ UNCHANGED <<rows, label, unsent, queue, test, range, newest, unflagged, cached,
                     clabel, pointer, before, excused>>
  BY LeftTypes DEF LoadNothing, LoadEmpty, NextName, CacheInv, TypeOK
<1>2. Due(n)' = Due(n) /\ Judged(n)'
  BY <1>1, DueStays DEF JudgeOf
<1>3. LabelsCached(n)'
  BY <1>1 DEF JudgeOf, LabelsCached
<1>4. Seen(n)'
  BY <1>1, <1>2 DEF JudgeOf, Seen
<1>5. opened \in Seq(Names) /\ Range(opened') = Range(opened) \cup {Current}
  BY <1>1, AddToIn DEF CacheInv, TypeOK
<1>6. Labelled(n)' /\ UploadsLeft(n)'
  BY <1>1, <1>2, <1>5 DEF JudgeOf, Labelled, UploadsLeft, Finished, Loading
<1>7. Begun(n)'
  <2>1. SUFFICES ASSUME test \in TestsOfName(n)
                 PROVE  /\ n \notin Range(Tail(left)) /\ n \in Range(opened')
                        /\ Due(n) \subseteq frame'[n] \cap cached[n]
                        /\ \A t \in Due(n) : pointer[n] # None /\ pointer[n] <= t
    BY <1>1, <1>2 DEF Begun
  <2>2. CASE Fresh
    <3>1. n = Current /\ n \notin Range(Tail(left))
      BY <2>1, <2>2, FreshHead
    <3>2. Due(n) = {}
      <4>1. SUFFICES ASSUME NEW t \in Due(n) PROVE FALSE
        OBVIOUS
      <4>2. CASE LoadNothing
        BY <2>1, <2>2, <3>1, <4>2, FirstRange DEF LoadNothing
      <4>3. CASE LoadEmpty
        <5>1. pc = "context" /\ Chunk(n) = {}
          BY <3>1, <4>3 DEF LoadEmpty
        <5>2. range.from <= t /\ t <= range.to /\ range.to # Open
          BY <2>1, <2>2, <3>1, <5>1, LeftHead, <1>1 DEF JudgeOf, Begun, Loading
        <5>3. t \in before[StreamOf[n]]
          BY DueType
        <5>4. t \in cached[n]
          BY <3>1, <5>1, <5>2, <5>3 DEF CacheInv, EndCovered
        <5>5. QED
          BY <5>1, <5>2, <5>4 DEF Chunk, Between
      <4>4. QED
        BY <4>2, <4>3
    <3>3. QED
      BY <1>5, <3>1, <3>2
  <2>3. CASE ~Fresh
    <3>1. /\ n \notin Range(left) /\ n \in Range(opened)
          /\ Due(n) \subseteq frame[n] \cap cached[n]
          /\ \A t \in Due(n) : pointer[n] # None /\ pointer[n] <= t
      BY <1>1, <2>1, <2>3 DEF JudgeOf, Begun, Loading
    <3>2. n # Current /\ n \notin Range(Tail(left))
      BY <1>1, <3>1, LeftHead
    <3>3. frame'[n] = frame[n]
      BY <1>1, <3>2 DEF CacheInv, TypeOK
    <3>4. QED
      BY <1>5, <3>1, <3>2, <3>3
  <2>4. QED
    BY <2>2, <2>3
<1>8. QED
  BY <1>2, <1>3, <1>4, <1>6, <1>7 DEF JudgeOf

LEMMA FetchJudge ==
  ASSUME CacheInv, DatedInv, NEW n \in Names, JudgeOf(n), Fetch \/ FetchEnd
  PROVE  JudgeOf(n)'
<1>1. /\ left # << >> /\ Current \in Names /\ Current' = Current
      /\ pc \in {"load", "end"} /\ pc' \in {"end", "context"}
      /\ UNCHANGED <<rows, label, unsent, queue, test, left, opened, unflagged, pointer, frame,
                     before, excused>>
  BY CacheCopies DEF Fetch, FetchEnd, Current
<1>2. Due(n)' = Due(n) /\ Judged(n)'
  BY <1>1, DueStays DEF JudgeOf
<1>3. /\ cached[n] \subseteq cached'[n]
      /\ \A t \in cached'[n] :
           clabel'[n][t] = IF t \in cached[n] THEN clabel[n][t] ELSE label[StreamOf[n]][t]
  BY CacheCopies
<1>4. LabelsCached(n)'
  BY <1>1, <1>3 DEF JudgeOf, LabelsCached
<1>5. Seen(n)'
  BY <1>1, <1>2 DEF JudgeOf, Seen
<1>6. Labelled(n)'
  BY <1>1, <1>2, <1>3 DEF JudgeOf, Labelled, Finished, Loading
<1>7. UploadsLeft(n)'
  BY <1>1 DEF UploadsLeft
<1>8. Begun(n)'
  <2>1. SUFFICES ASSUME test \in TestsOfName(n)
                 PROVE  \/ /\ Fresh
                           /\ \A t \in Due(n) : range'.from <= t /\ t <= range'.to /\ range'.to # Open
                        \/ /\ n \notin Range(left) /\ n \in Range(opened)
                           /\ Due(n) \subseteq frame[n] \cap cached'[n]
                           /\ \A t \in Due(n) : pointer[n] # None /\ pointer[n] <= t
    BY <1>1, <1>2 DEF Begun, Fresh
  <2>2. CASE Fresh
    <3>1. n = Current /\ n \in Range(left)
      BY <2>1, <2>2, FreshHead, LeftHead
    <3>2. CASE Fetch
      <4>1. pc = "load" /\ Known(n) /\ range' = RangeOf(n)
        BY <3>1, <3>2 DEF Fetch
      <4>2. \A t \in Due(n) : range'.from <= t /\ t <= range'.to /\ range'.to # Open
        BY <2>1, <2>2, <4>1, FirstRange
      <4>3. QED
        BY <2>2, <4>2
    <3>3. CASE FetchEnd
      BY <2>1, <2>2, <3>1, <3>3 DEF FetchEnd, JudgeOf, Begun, Loading
    <3>4. QED
      BY <3>2, <3>3
  <2>3. CASE ~Fresh
    BY <1>1, <1>3, <2>1, <2>3 DEF JudgeOf, Begun, Loading
  <2>4. QED
    BY <2>2, <2>3
<1>9. QED
  BY <1>2, <1>4, <1>5, <1>6, <1>7, <1>8 DEF JudgeOf

LEMMA ContextJudge ==
  ASSUME CacheInv, DatedInv, NEW n \in Names, JudgeOf(n), FetchContext
  PROVE  JudgeOf(n)'
<1> DEFINE c == Current
           all == cached[c] \cup FetchedContext(c)
<1>1. /\ left # << >> /\ c \in Names /\ pc = "context" /\ pc' = "load"
      /\ left' = Tail(left) /\ opened' = AddTo(opened, c)
      /\ pointer' = [pointer EXCEPT ![c] = Lowered(c)]
      /\ frame' = [frame EXCEPT ![c] = Context(all) \cup Between(all, range.from, range.to)]
      /\ UNCHANGED <<rows, label, unsent, queue, test, range, newest, unflagged, before, excused>>
  BY CacheCopies DEF FetchContext, NextName
<1>2. Due(n)' = Due(n) /\ Judged(n)'
  BY <1>1, DueStays DEF JudgeOf
<1>3. /\ cached[n] \subseteq cached'[n]
      /\ \A t \in cached'[n] :
           clabel'[n][t] = IF t \in cached[n] THEN clabel[n][t] ELSE label[StreamOf[n]][t]
  BY CacheCopies
<1>4. LabelsCached(n)'
  BY <1>1, <1>3 DEF JudgeOf, LabelsCached
<1>5. Seen(n)'
  BY <1>1, <1>2 DEF JudgeOf, Seen
<1>6. Range(opened') = Range(opened) \cup {c}
  BY <1>1, AddToIn DEF CacheInv, TypeOK
<1>7. /\ range.from # None /\ range.from \in Int
      /\ pointer \in [Names -> Times \cup {None}] /\ pointer[n] \in Int
  <2>1. range.from # None /\ range.from \in Int /\ pointer \in [Names -> Times \cup {None}]
    BY <1>1, DatesInt DEF CacheInv, TypeOK, PhaseInv, Dates
  <2>2. pointer[n] \in Times \cup {None}
    BY <2>1
  <2>3. QED
    BY <2>1, <2>2, DatesInt
<1> HIDE DEF c, all
<1>8. pointer'[n] = IF n = c THEN Lowered(n) ELSE pointer[n]
  BY <1>1, <1>7
<1>9. ASSUME pointer[n] # None, NEW t \in Int, pointer[n] <= t
      PROVE  pointer'[n] # None /\ pointer'[n] <= t
  BY <1>7, <1>8, <1>9 DEF Lowered
<1>10. \A t \in Due(n) : t \in Int
  BY DueType
<1>11. Labelled(n)' /\ UploadsLeft(n)'
  <2>1. UploadsLeft(n)'
    BY <1>1 DEF UploadsLeft
  <2>2. SUFFICES ASSUME NEW i \in TestsOfName(n), Finished(i)'
                 PROVE  /\ n \in Range(opened')
                        /\ \A t \in Due(n) : /\ t \in cached'[n] /\ i \in clabel'[n][t]
                                             /\ pointer'[n] # None /\ pointer'[n] <= t
    BY <1>2, <2>1 DEF Labelled
  <2>3. Finished(i)
    BY <1>1, <2>2 DEF Finished, Loading
  <2>4. /\ n \in Range(opened)
        /\ \A t \in Due(n) : /\ t \in cached[n] /\ i \in clabel[n][t]
                             /\ pointer[n] # None /\ pointer[n] <= t
    BY <2>3 DEF JudgeOf, Labelled
  <2>5. QED
    BY <1>3, <1>6, <1>9, <1>10, <2>4
<1>12. Begun(n)'
  <2>1. SUFFICES ASSUME test \in TestsOfName(n)
                 PROVE  /\ n \notin Range(Tail(left)) /\ n \in Range(opened')
                        /\ Due(n) \subseteq frame'[n] \cap cached'[n]
                        /\ \A t \in Due(n) : pointer'[n] # None /\ pointer'[n] <= t
    BY <1>1, <1>2 DEF Begun
  <2>2. CASE Fresh
    <3>1. n = c /\ n \notin Range(Tail(left)) /\ n \in Range(left)
      BY <2>1, <2>2, FreshHead, LeftHead DEF c
    <3>2. \A t \in Due(n) : range.from <= t /\ t <= range.to /\ range.to # Open
      BY <1>1, <2>1, <2>2, <3>1 DEF JudgeOf, Begun, Loading
    <3>3. \A t \in Due(n) : t \in cached[n]
      BY <1>1, <3>1, <3>2, DueType DEF CacheInv, EndCovered, c
    <3>4. frame'[n] = Context(all) \cup Between(all, range.from, range.to)
      BY <1>1, <3>1 DEF CacheInv, TypeOK
    <3>5. \A t \in Due(n) : t \in frame'[n]
      BY <3>1, <3>2, <3>3, <3>4 DEF all, Between
    <3>6. \A t \in Due(n) : pointer'[n] # None /\ pointer'[n] <= t
      BY <1>7, <1>8, <1>10, <3>1, <3>2 DEF Lowered
    <3>7. QED
      BY <1>3, <1>6, <3>1, <3>3, <3>5, <3>6
  <2>3. CASE ~Fresh
    <3>1. /\ n \notin Range(left) /\ n \in Range(opened)
          /\ Due(n) \subseteq frame[n] \cap cached[n]
          /\ \A t \in Due(n) : pointer[n] # None /\ pointer[n] <= t
      BY <1>1, <2>1, <2>3 DEF JudgeOf, Begun, Loading
    <3>2. n # c /\ n \notin Range(Tail(left))
      BY <1>1, <3>1, LeftHead DEF c
    <3>3. frame'[n] = frame[n] /\ pointer'[n] = pointer[n]
      BY <1>1, <1>8, <3>2 DEF CacheInv, TypeOK
    <3>4. QED
      BY <1>3, <1>6, <3>1, <3>2, <3>3
  <2>4. QED
    BY <2>2, <2>3
<1>13. QED
  BY <1>2, <1>4, <1>5, <1>11, <1>12 DEF JudgeOf

LEMMA RunTestJudge ==
  ASSUME CacheInv, NEW n \in Names, JudgeOf(n), RunTest
  PROVE  JudgeOf(n)'
<1>1. /\ pc = "load" /\ left = << >> /\ range' = MessageRange(Head(queue))
      /\ IF test + 1 \in TestIds
         THEN test' = test + 1 /\ pc' = "load" /\ left' = NamesOf(test + 1, Head(queue).thing)
         ELSE pc' = "upload" /\ left' = opened
      /\ clabel' = [m \in Names |-> [t \in Times |->
           IF m \in FlagsOf(test) /\ t \in frame[m] THEN clabel[m][t] \cup {test} ELSE clabel[m][t]]]
      /\ UNCHANGED <<rows, label, unsent, queue, opened, unflagged, cached, pointer, before, excused>>
  BY DEF RunTest, NextTest
<1>2. Due(n)' = Due(n) /\ Judged(n)'
  BY <1>1, DueStays DEF JudgeOf
<1>3. test \in TestIds /\ test \in Int /\ cached[n] \subseteq Times
  BY <1>1 DEF CacheInv, TypeOK, PhaseInv, Loading, TestIds
<1>4. \A t \in Times : clabel'[n][t] = IF n \in FlagsOf(test) /\ t \in frame[n]
                                       THEN clabel[n][t] \cup {test} ELSE clabel[n][t]
  BY <1>1
<1>5. LabelsCached(n)'
  <2>1. \A t \in cached[n] : label[StreamOf[n]][t] \subseteq clabel[n][t]
    BY DEF JudgeOf, LabelsCached
  <2>2. QED
    BY <1>1, <1>3, <1>4, <2>1 DEF LabelsCached
<1>6. Seen(n)'
  BY <1>1, <1>2 DEF JudgeOf, Seen
<1>7. Begun(n)'
  <2>1. SUFFICES ASSUME pc' = "load", test' \in TestsOfName(n)
                 PROVE  Fresh' /\ range' = MessageRange(Head(queue))
    BY <1>1 DEF Begun, Loading
  <2>2. test' = test + 1 /\ left' = NamesOf(test', Head(queue).thing)
    BY <1>1, <2>1
  <2>3. NamesOf(test', Head(queue).thing) = Tests[test'].names
    BY <2>1, TestsOfNameType
  <2>4. QED
    BY <1>1, <2>2, <2>3 DEF Fresh
<1>8. Labelled(n)'
  <2>1. SUFFICES ASSUME NEW i \in TestsOfName(n), Finished(i)'
                 PROVE  /\ n \in Range(opened)
                        /\ \A t \in Due(n) : /\ t \in cached[n] /\ i \in clabel'[n][t]
                                             /\ pointer[n] # None /\ pointer[n] <= t
    BY <1>1, <1>2 DEF Labelled
  <2>2. i \in TestIds /\ i \in Int
    BY TestsOfNameType
  <2>3. i < test \/ i = test
    <3>1. CASE test + 1 \in TestIds
      <4>1. i < test + 1
        BY <1>1, <2>1, <3>1 DEF Finished, Loading
      <4>2. QED
        BY <1>3, <2>2, <4>1
    <3>2. CASE test + 1 \notin TestIds
      <4>1. Len(Tests) \in Nat
        BY QcAssumption, LenProperties
      <4>2. QED
        BY <1>3, <2>2, <3>2, <4>1 DEF TestIds
    <3>3. QED
      BY <3>1, <3>2
  <2>4. CASE i < test
    <3>1. /\ n \in Range(opened)
          /\ \A t \in Due(n) : /\ t \in cached[n] /\ i \in clabel[n][t]
                               /\ pointer[n] # None /\ pointer[n] <= t
      BY <1>1, <2>4 DEF JudgeOf, Labelled, Finished, Loading
    <3>2. QED
      BY <1>3, <1>4, <3>1
  <2>5. CASE i = test
    <3>1. Tests[test].names # << >> /\ n \in FlagsOf(test)
      BY <2>5, TestsOfNameType DEF FlagsOf
    <3>2. ~Fresh
      BY <1>1, <3>1 DEF Fresh
    <3>3. /\ n \in Range(opened) /\ Due(n) \subseteq frame[n] \cap cached[n]
          /\ \A t \in Due(n) : pointer[n] # None /\ pointer[n] <= t
      BY <1>1, <2>5, <3>2 DEF JudgeOf, Begun, Loading
    <3>4. QED
      BY <1>3, <1>4, <2>5, <3>1, <3>3
  <2>6. QED
    BY <2>3, <2>4, <2>5
<1>9. UploadsLeft(n)'
  <2>1. SUFFICES ASSUME pc' = "upload", TestsOfName(n) # {} PROVE n \in Range(left')
    BY DEF UploadsLeft
  <2>2. PICK i \in TestsOfName(n) : TRUE
    BY <2>1
  <2>3. Finished(i)'
    BY <2>1 DEF Finished
  <2>4. n \in Range(opened')
    BY <1>8, <2>3 DEF Labelled
  <2>5. QED
    BY <1>1, <2>1, <2>4
<1>10. QED
  BY <1>2, <1>5, <1>6, <1>7, <1>8, <1>9 DEF JudgeOf

LEMMA UploadJudge ==
  ASSUME CacheInv, DatedInv, OneName, NEW n \in Names, JudgeOf(n), Upload
  PROVE  JudgeOf(n)'
<1> DEFINE s == StreamOf[n]
           T == TestsOfName(n)
           m == Head(queue)
<1>1. /\ pc = "upload" /\ left # << >> /\ left' = Tail(left) /\ queue # << >>
      /\ label' = [label EXCEPT ![StreamOf[Current]] = [t \in Times |->
           IF t \in Uploaded(Current) THEN clabel[Current][t] ELSE @[t]]]
      /\ UNCHANGED <<rows, unsent, queue, pc, test, range, newest, opened, unflagged, cached,
                     clabel, pointer, frame, before, excused>>
  BY DEF Upload, CacheInv, TypeOK
<1>2. Current \in Names /\ s \in Streams
  BY <1>1, LeftTypes, QcAssumption DEF CacheInv
<1>3. Range(left) = {Current} \cup Range(Tail(left))
  BY <1>1, LeftHead
<1>4. CASE n # Current
  <2>1. s # StreamOf[Current]
    BY <1>2, <1>4 DEF OneName
  <2>2. label'[s] = label[s]
    BY <1>1, <1>2, <2>1 DEF CacheInv, TypeOK
  <2>3. Due(n)' = Due(n)
    BY <1>1, <2>2 DEF Due
  <2>4. Judged(n)'
    BY <1>1, <2>2 DEF JudgeOf, Judged
  <2>5. LabelsCached(n)'
    BY <1>1, <2>2 DEF JudgeOf, LabelsCached
  <2>6. Seen(n)' /\ Begun(n)'
    BY <1>1, <2>3 DEF JudgeOf, Seen, Begun, Loading
  <2>7. Labelled(n)'
    BY <1>1, <2>3 DEF JudgeOf, Labelled, Finished, Loading
  <2>8. UploadsLeft(n)'
    BY <1>1, <1>3, <1>4, <2>2, <2>3 DEF JudgeOf, UploadsLeft
  <2>9. QED
    BY <2>4, <2>5, <2>6, <2>7, <2>8 DEF JudgeOf
<1>5. CASE n = Current
  <2>1. \A t \in Times : label'[s][t] = IF t \in Uploaded(n) THEN clabel[n][t] ELSE label[s][t]
    BY <1>1, <1>2, <1>5 DEF CacheInv, TypeOK
  <2>2. cached[n] \subseteq rows[s] /\ rows[s] \subseteq Times /\ rows[s] \subseteq before[s] \cup excused[s]
    BY <1>1, <1>2 DEF CacheInv, TypeOK, RowsInv
  <2>3. Uploaded(n) = {t \in cached[n] : pointer[n] <= t}
    BY DEF Uploaded
  <2>4. \A t \in cached[n] : label[s][t] \subseteq clabel[n][t]
    BY DEF JudgeOf, LabelsCached
  <2>5. ASSUME T # {}, NEW t \in Due(n)
        PROVE  t \in Uploaded(n) /\ T \subseteq clabel[n][t]
    <3>1. \A i \in T : t \in cached[n] /\ pointer[n] <= t /\ i \in clabel[n][t]
      BY <1>1 DEF JudgeOf, Labelled, Finished
    <3>2. QED
      BY <2>3, <2>5, <3>1
  <2>6. Due(n)' \subseteq Due(n)
    <3>1. CASE m.from = None
      <4>1. /\ Due(n) = {t \in before[s] \ excused[s] : label[s][t] = {}}
            /\ Due(n)' = {t \in before[s] \ excused[s] : label'[s][t] = {}}
        BY <1>1, <3>1 DEF Due
      <4>2. before[s] \subseteq Times
        BY <1>2 DEF CacheInv, TypeOK
      <4>3. \A t \in Times : label'[s][t] = {} => label[s][t] = {}
        BY <2>1, <2>3, <2>4
      <4>4. QED
        BY <4>1, <4>2, <4>3
    <3>2. CASE m.from # None
      BY <1>1, <3>2 DEF Due
    <3>3. QED
      BY <3>1, <3>2
  <2>7. Judged(n)'
    <3>1. SUFFICES ASSUME T # {}, NEW t \in rows[s] \ excused[s]
                   PROVE  \/ T \subseteq label'[s][t]
                          \/ /\ label'[s][t] = {}
                             /\ \E q \in unsent \cup Range(queue) : Covers(q, t)
      BY <1>1 DEF Judged
    <3>2. /\ t \in Times /\ t \in Int /\ t \in before[s]
          /\ \/ T \subseteq label[s][t]
             \/ /\ label[s][t] = {}
                /\ \E q \in unsent \cup Range(queue) : Covers(q, t)
      BY <2>2, <3>1, TimesNat DEF JudgeOf, Judged
    <3>3. CASE t \notin Uploaded(n)
      BY <2>1, <3>2, <3>3
    <3>4. CASE t \in Uploaded(n) /\ T \subseteq label[s][t]
      BY <2>1, <2>3, <2>4, <3>2, <3>4
    <3>5. CASE t \in Uploaded(n) /\ t \in Due(n)
      BY <2>1, <2>5, <3>1, <3>2, <3>5
    <3>6. CASE t \in Uploaded(n) /\ t \notin Due(n) /\ label[s][t] = {}
      <4>1. m.from # None /\ ~(m.from <= t /\ t <= m.to)
        BY <3>1, <3>2, <3>6 DEF Due
      <4>2. t \in cached[n] /\ pointer[n] <= t /\ pointer[n] # None
        BY <1>1, <2>3, <3>6 DEF CacheInv, TypeOK
      <4>3. pointer[n] = m.from
        BY <1>1, <4>1, <4>2 DEF DatedInv
      <4>4. m.to \in Int
        BY <1>1, <4>1, HeadDates
      <4> HIDE DEF m
      <4>5. t > m.to
        BY <3>2, <4>1, <4>2, <4>3, <4>4
      <4>6. clabel[n][t] = label[s][t]
        BY <1>1, <4>1, <4>2, <4>5 DEF DatedInv, m
      <4>7. QED
        BY <2>1, <3>2, <3>6, <4>6
    <3>7. QED
      BY <3>2, <3>3, <3>4, <3>5, <3>6
  <2>8. LabelsCached(n)'
    <3>1. \A t \in cached[n] : label'[s][t] \subseteq clabel[n][t]
      BY <2>1, <2>2, <2>4
    <3>2. QED
      BY <1>1, <3>1 DEF LabelsCached
  <2>9. Seen(n)' /\ Begun(n)'
    BY <1>1, <2>6 DEF JudgeOf, Seen, Begun, Loading
  <2>10. Labelled(n)'
    BY <1>1, <2>6 DEF JudgeOf, Labelled, Finished, Loading
  <2>11. UploadsLeft(n)'
    <3>1. SUFFICES ASSUME T # {}, NEW t \in Due(n)' PROVE T \subseteq label'[s][t]
      BY DEF UploadsLeft
    <3>2. t \in Due(n) /\ t \in Times
      BY <2>6, <3>1, DueType
    <3>3. QED
      BY <2>1, <2>5, <3>1, <3>2
  <2>12. QED
    BY <2>7, <2>8, <2>9, <2>10, <2>11 DEF JudgeOf
<1>6. QED
  BY <1>4, <1>5

\* Each way to end a run judges what is due, excuses it, or keeps the message.
LEMMA EndsJudge ==
  ASSUME CacheInv, NEW n \in Names, JudgeOf(n), EndsRun
  PROVE  JudgeOf(n)'
<1> DEFINE s == StreamOf[n]
           T == TestsOfName(n)
           m == Head(queue)
<1>1. /\ queue # << >> /\ pc' = "idle" /\ cached'[n] = {}
      /\ UNCHANGED <<rows, label, unsent, before>>
  BY DEF EndsRun, BecomeIdle
<1>2. LabelsCached(n)' /\ Seen(n)' /\ Begun(n)' /\ Labelled(n)' /\ UploadsLeft(n)'
  BY <1>1 DEF LabelsCached, Seen, Begun, Labelled, UploadsLeft, Finished, Loading
<1>3. s \in Streams /\ Range(queue) = {m} \cup Range(Tail(queue))
  BY <1>1, QueueTypes, QcAssumption DEF CacheInv
<1>4. SUFFICES ASSUME NEW t \in rows[s] \ excused'[s], ~(T \subseteq label[s][t])
               PROVE  /\ label[s][t] = {}
                      /\ \E q \in unsent \cup Range(queue') : Covers(q, t)
  BY <1>1, <1>2 DEF JudgeOf, Judged
<1>5. ASSUME t \notin excused[s]
      PROVE  label[s][t] = {} /\ \E q \in unsent \cup Range(queue) : Covers(q, t)
  BY <1>4, <1>5 DEF JudgeOf, Judged
<1>6. CASE queue' = queue /\ excused' = excused
  BY <1>4, <1>5, <1>6
<1>7. CASE queue' = Tail(queue) /\ excused' = [u \in Streams |-> excused[u] \cup Unjudged(u)]
  <2>1. excused'[s] = excused[s] \cup Unjudged(s)
    BY <1>3, <1>7
  <2>2. label[s][t] = {} /\ t \notin Unjudged(s)
    BY <1>4, <1>5, <2>1
  <2>3. ~Covers(m, t)
    BY <1>4, <2>2 DEF Covers, Unjudged, Unlabelled, Between
  <2>4. PICK q \in unsent \cup Range(queue) : Covers(q, t)
    BY <1>4, <1>5, <2>1
  <2>5. q \in unsent \cup Range(queue')
    BY <1>3, <1>7, <2>3, <2>4
  <2>6. QED
    BY <2>2, <2>4, <2>5
<1>8. CASE Finish
  <2>1. /\ pc = "upload" /\ left = << >> /\ queue' = Tail(queue)
        /\ excused' = IF m.from = None THEN excused
                      ELSE [u \in Streams |-> excused[u] \ Between(before[u], m.from, m.to)]
    BY <1>8 DEF Finish
  <2>2. \A u \in Due(n) : T \subseteq label[s][u]
    BY <2>1 DEF JudgeOf, UploadsLeft, Range
  <2>3. t \notin Due(n)
    BY <1>4, <2>2
  <2>4. rows[s] \subseteq before[s] \cup excused[s]
    BY <1>3, <2>1 DEF CacheInv, RowsInv
  <2>5. t \notin excused[s]
    <3>1. CASE m.from = None
      BY <1>4, <2>1, <3>1
    <3>2. CASE m.from # None
      <4>1. excused'[s] = excused[s] \ Between(before[s], m.from, m.to)
        BY <1>3, <2>1, <3>2
      <4>2. t \notin Between(before[s], m.from, m.to)
        BY <2>3, <3>2 DEF Due, Between
      <4>3. QED
        BY <1>4, <4>1, <4>2
    <3>3. QED
      BY <3>1, <3>2
  <2>6. t \in before[s] /\ label[s][t] = {}
    BY <1>4, <1>5, <2>4, <2>5
  <2>7. ~Covers(m, t)
    BY <2>3, <2>5, <2>6 DEF Due, Covers
  <2>8. PICK q \in unsent \cup Range(queue) : Covers(q, t)
    BY <1>5, <2>5
  <2>9. q \in unsent \cup Range(queue')
    BY <1>3, <2>1, <2>7, <2>8
  <2>10. QED
    BY <2>6, <2>8, <2>9
<1>9. QED
  BY <1>6, <1>7, <1>8 DEF EndsRun

LEMMA InitJudge == Init => JudgeInv
<1>1. ASSUME Init, NEW n \in Names PROVE JudgeOf(n)
  <2>1. StreamOf[n] \in Streams
    BY QcAssumption
  <2>2. QED
    BY <1>1, <2>1 DEF Init, JudgeOf, Judged, LabelsCached, Seen, Begun, Labelled, UploadsLeft, Finished,
                      Loading
<1>2. QED
  BY <1>1 DEF JudgeInv

LEMMA NextJudge == CacheInv /\ DatedInv /\ JudgeInv /\ [Next]_vars => JudgeInv'
<1> SUFFICES ASSUME CacheInv, DatedInv, JudgeInv, [Next]_vars, OneName, NEW n \in Names PROVE JudgeOf(n)'
  BY DEF JudgeInv, OneName
<1>1. JudgeOf(n)
  BY DEF JudgeInv
<1>2. ASSUME NEW new \in Uploads, NEW dated \in BOOLEAN, Arrive(new, dated) PROVE JudgeOf(n)'
  BY <1>1, <1>2, ArriveJudge
<1>3. CASE \/ \E m \in unsent : Announce(m)
           \/ \E span \in Spans : Trigger(span[1], span[2])
  BY <1>1, <1>3, QueueJudge
<1>4. CASE Take
  BY <1>1, <1>4, TakeJudge
<1>5. CASE ReadNewest \/ ReadOldest
  BY <1>1, <1>5, QueryJudge
<1>6. CASE LoadNothing \/ LoadEmpty
  BY <1>1, <1>6, EmptyJudge
<1>7. CASE Fetch \/ FetchEnd
  BY <1>1, <1>7, FetchJudge
<1>8. CASE FetchContext
  BY <1>1, <1>8, ContextJudge
<1>9. CASE RunTest
  BY <1>1, <1>9, RunTestJudge
<1>10. CASE Upload
  BY <1>1, <1>10, UploadJudge
<1>11. CASE Refuse \/ TestFails \/ NoContextFails \/ Finish \/ \E again \in BOOLEAN : Exit(again)
  BY <1>1, <1>11, RunEnds, EndsJudge DEF CacheInv
<1>12. CASE UNCHANGED vars
  BY <1>1, <1>12 DEF vars, run, JudgeOf, Judged, LabelsCached, Seen, Begun, Labelled, UploadsLeft,
                     Finished, Due, Fresh, Current
<1>13. QED
  BY <1>2, <1>3, <1>4, <1>5, <1>6, <1>7, <1>8, <1>9, <1>10, <1>11, <1>12 DEF Next, Run

\* A stream with tests of its own has a name.
LEMMA TestsOfStream ==
  ASSUME OneName, NEW s \in Streams, TestsOf(s) # {}
  PROVE  \E n \in Names : StreamOf[n] = s /\ TestsOf(s) = TestsOfName(n)
<1>1. PICK i \in TestsOf(s) : TRUE
  OBVIOUS
<1>2. \A j \in TestIds : Tests[j].names # << >> => Head(Tests[j].names) \in Names
  BY NamesType, TailIn
<1>3. /\ i \in TestIds /\ Tests[i].names # << >> /\ StreamOf[Head(Tests[i].names)] = s
  BY <1>1 DEF TestsOf
<1> DEFINE n == Head(Tests[i].names)
<1>4. n \in Names /\ StreamOf[n] = s
  BY <1>2, <1>3
<1> HIDE DEF n
<1>5. \A j \in TestIds : Tests[j].names # << >> =>
        (StreamOf[Head(Tests[j].names)] = s <=> Head(Tests[j].names) = n)
  BY <1>2, <1>4 DEF OneName
<1>6. TestsOf(s) = TestsOfName(n)
  BY <1>4, <1>5 DEF TestsOf, TestsOfName
<1>7. QED
  BY <1>4, <1>6

LEMMA JudgeMeans == JudgeInv => LabelsComeTogether /\ NothingIsOverlooked
<1>1. ASSUME JudgeInv, OneName, NEW s \in Streams, NEW t \in rows[s] \ excused[s]
      PROVE  \/ TestsOf(s) \subseteq label[s][t]
             \/ /\ label[s][t] = {}
                /\ \E m \in unsent \cup Range(queue) : TRUE
  <2>1. CASE TestsOf(s) = {}
    BY <2>1
  <2>2. CASE TestsOf(s) # {}
    <3>1. PICK n \in Names : StreamOf[n] = s /\ TestsOf(s) = TestsOfName(n)
      BY <1>1, <2>2, TestsOfStream
    <3>2. Judged(n)
      BY <1>1 DEF JudgeInv, JudgeOf
    <3>3. QED
      BY <3>1, <3>2 DEF Judged
  <2>3. QED
    BY <2>1, <2>2
<1>2. JudgeInv => LabelsComeTogether
  <2>1. SUFFICES ASSUME JudgeInv, OneName, NEW s \in Streams, NEW t \in rows[s] \ excused[s]
                 PROVE  TestsOf(s) \cap label[s][t] \in {{}, TestsOf(s)}
    BY DEF LabelsComeTogether
  <2>2. TestsOf(s) \subseteq label[s][t] \/ label[s][t] = {}
    BY <1>1, <2>1
  <2>3. TestsOf(s) \cap label[s][t] = {} \/ TestsOf(s) \cap label[s][t] = TestsOf(s)
    BY <2>2
  <2>4. QED
    BY <2>3
<1>3. JudgeInv => NothingIsOverlooked
  <2>1. SUFFICES ASSUME JudgeInv, OneName, queue = << >>, unsent = {},
                        NEW s \in Streams, NEW t \in rows[s] \ excused[s]
                 PROVE  TestsOf(s) \subseteq label[s][t]
    BY DEF NothingIsOverlooked
  <2>2. Range(queue) = {}
    BY <2>1 DEF Range
  <2>3. QED
    BY <1>1, <2>1, <2>2
<1>4. QED
  BY <1>2, <1>3

\* For all configs whose streams have one name each, all uploads, dates and windows: a row has the
\* labels of all tests of its stream or of none, whatever fails, repeats or arrives between two
\* tests; labels wait in the cache, a failure drops them all, and one request uploads those of a
\* stream.
THEOREM LabelsTogether == Spec => []LabelsComeTogether
<1>1. JudgeInv => LabelsComeTogether
  BY JudgeMeans
<1>2. Init => DatedInv
  BY DEF Init, DatedInv
<1>3. QED
  BY <1>1, <1>2, InitCache, InitJudge, NextCache, NextDated, NextJudge, PTL DEF Spec

\* Under the same conditions: once every message is run, each row has the labels of all tests of
\* its stream, but for those that came in during a run or whose run failed.  A message covers each
\* row without labels until then: its dates, or the range that get_unprocessed_range finds.
THEOREM AllJudged == Spec => []NothingIsOverlooked
<1>1. JudgeInv => NothingIsOverlooked
  BY JudgeMeans
<1>2. Init => DatedInv
  BY DEF Init, DatedInv
<1>3. QED
  BY <1>1, <1>2, InitCache, InitJudge, NextCache, NextDated, NextJudge, PTL DEF Spec
=============================================================================
