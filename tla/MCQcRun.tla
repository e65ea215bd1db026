------------------------------- MODULE MCQcRun -------------------------------
(***************************************************************************)
(* Instances of QcRun for TLC.                                             *)
(***************************************************************************)
EXTENDS QcRun, TLC

CONSTANTS temp, level, found

Test(names, flags) == [names |-> names, flags |-> flags]

OwnNames == (temp :> temp) @@ (level :> level)

\* A test of temp before and one after a test of level that also reads temp.
ThreeTests == <<Test(<<temp>>, {temp}), Test(<<level, temp>>, {level}), Test(<<temp>>, {temp})>>
SomeUploads ==
  {(temp :> {1, 2}) @@ (level :> {}), (temp :> {1, 4}) @@ (level :> {}),
   (temp :> {2, 3}) @@ (level :> {4}), (temp :> {3, 4}) @@ (level :> {1, 2})}
SomeSpans == {<<2, 4>>, <<4, 4>>}
NoneDiscovered == << >>
SomeWindows == {[kind |-> "rows", size |-> 2], [kind |-> "time", size |-> 1]}

\* A test without streams finds temp under a name that the other test does not use.
SharedNames == (temp :> temp) @@ (found :> temp)
TwoTests == <<Test(<< >>, {}), Test(<<temp>>, {temp})>>
OneDiscovered == <<found>>
TempUploads == {(temp :> {1}), (temp :> {2})}
NoSpan == {}
NoWindow == {[kind |-> "rows", size |-> 0]}
=============================================================================
