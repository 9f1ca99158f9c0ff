----------------------------- MODULE MCInstaller -----------------------------
(***************************************************************************)
(* Installer for TLC.  The clean-up questions matter in two ways: the      *)
(* state directory holds the backup, and each of the others may fail after *)
(* the resolver has been restored; one of those stands for all three.      *)
(***************************************************************************)
EXTENDS Installer

MCScopes == {{}, {"state"}, {"logs"}}
==============================================================================
