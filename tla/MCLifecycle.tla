----------------------------- MODULE MCLifecycle -----------------------------
(* Lifecycle for TLC. *)
EXTENDS Lifecycle

MCBusy == {"admin", "https"}
==============================================================================
