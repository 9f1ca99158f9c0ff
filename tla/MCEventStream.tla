---------------------------- MODULE MCEventStream ----------------------------
(* EventStream with two actions, for TLC. *)
EXTENDS EventStream
==============================================================================
