--------------------------- MODULE MCThingDeletion ---------------------------
(***************************************************************************)
(* Instances of ThingDeletion: a thing whose deletion is tried until it    *)
(* succeeds, which may be linked to the SMS, and another one, which is     *)
(* only saved and set up beside it.                                        *)
(***************************************************************************)
EXTENDS ThingDeletion

CONSTANTS t1, t2

MCThings == {t1, t2}
MCExisting == {t1, t2}
MCDoomed == {t1}
MCSectionSets == [t \in MCThings |->
  IF t = t1 THEN {{}, {"storage", "sync"}} ELSE {{"storage", "sync"}}]
=============================================================================
