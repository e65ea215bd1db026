---------------------------- MODULE MCThingSetup ----------------------------
(***************************************************************************)
(* Instances of ThingSetup for TLC: two things of one project.             *)
(***************************************************************************)
EXTENDS ThingSetup, TLC

CONSTANTS t1, t2, p1

SameProject == (t1 :> p1) @@ (t2 :> p1)
=============================================================================
