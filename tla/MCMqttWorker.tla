---------------------------- MODULE MCMqttWorker ----------------------------
(***************************************************************************)
(* Instances of MqttWorker for TLC: a few messages, what on_message does   *)
(* with each of them, and windows small enough to be full.                 *)
(***************************************************************************)
EXTENDS MqttWorker

\* Handlers that end without an exit.
Good == <<{"done"}, {"done", "error"}, {"done"}, {"error"}>>

\* Two messages that may make the worker exit, with and without work done.
Fragile == <<{"done"}, {"done", "exit"}, {"exit"}, {"error"}>>
=============================================================================
