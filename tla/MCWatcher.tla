------------------------------ MODULE MCWatcher ------------------------------
(***************************************************************************)
(* Watcher for TLC.  The configurations differ in who runs next to the     *)
(* watch loop: nobody, or admin API refreshes.                             *)
(***************************************************************************)
EXTENDS Watcher, TLC

RefreshSymmetry == Permutations(Clients)
==============================================================================
