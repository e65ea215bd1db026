------------------------------ MODULE Delivery ------------------------------
(***************************************************************************)
(* What a message channel between the services promises, whatever protocol *)
(* implements it.  A message is offered to the channel, which accepts it   *)
(* or refuses it; an accepted message is handled by the consumer and       *)
(* forgotten.  The two constants choose the promise:                       *)
(*                                                                         *)
(*    MayRepeat  MayLose                                                   *)
(*      FALSE     FALSE    exactly once                                    *)
(*      TRUE      FALSE    at least once                                   *)
(*      FALSE     TRUE     at most once                                    *)
(***************************************************************************)
EXTENDS Naturals

CONSTANTS
  Msgs,        \* the messages
  MayRepeat,   \* a message may be handled again before it is forgotten
  MayLose      \* a message may be forgotten although it was never handled

VARIABLES
  status,      \* what the channel knows of each message
  times        \* how often each message was handled: 0, 1, or 2 for "more"

vars == <<status, times>>

\* Counting stops at "more than once".
Again(n) == IF n = 0 THEN 1 ELSE 2

Init ==
  /\ status = [m \in Msgs |-> "new"]
  /\ times = [m \in Msgs |-> 0]

Accept(m) ==
  /\ status[m] = "new"
  /\ status' = [status EXCEPT ![m] = "held"]
  /\ UNCHANGED times

Refuse(m) ==
  /\ status[m] = "new"
  /\ status' = [status EXCEPT ![m] = "refused"]
  /\ UNCHANGED times

Handle(m) ==
  /\ status[m] = "held"
  /\ MayRepeat \/ times[m] = 0
  /\ times' = [times EXCEPT ![m] = Again(@)]
  /\ UNCHANGED status

Forget(m) ==
  /\ status[m] = "held"
  /\ MayLose \/ times[m] > 0
  /\ status' = [status EXCEPT ![m] = "gone"]
  /\ UNCHANGED times

Next == \E m \in Msgs : Accept(m) \/ Refuse(m) \/ Handle(m) \/ Forget(m)

Spec == Init /\ [][Next]_vars
=============================================================================
