---------------------------- MODULE MCFileIngest ----------------------------
(***************************************************************************)
(* An instance of FileIngest for TLC.  The name of "log" is the beginning  *)
(* of the name of "log.old", which the pattern leaves out.                 *)
(***************************************************************************)
EXTENDS FileIngest, TLC

CONSTANTS p1, p2, log, logold, both, first, huge

Prefixes == (log :> {log, logold}) @@ (logold :> {logold})

\* What can be read by each parser, by p1 only; what is too large.
Readers == (both :> {p1, p2}) @@ (first :> {p1}) @@ (huge :> {p1, p2})
=============================================================================
