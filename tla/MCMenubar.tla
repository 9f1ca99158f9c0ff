------------------------------ MODULE MCMenubar ------------------------------
(* Menubar for TLC: hosts are interchangeable. *)
EXTENDS Menubar

Symmetry == Permutations(Hosts)
==============================================================================
