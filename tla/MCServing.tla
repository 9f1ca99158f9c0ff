------------------------------ MODULE MCServing ------------------------------
(***************************************************************************)
(* Serving for TLC: hosts that have a project root, which are              *)
(* interchangeable, and one, the suffix itself, that has none.  It is      *)
(* routed alone or where all the others are, to save states.               *)
(***************************************************************************)
EXTENDS Serving, TLC

Rooted == Managed \ Rootless

MCRoutings ==
  {up \in [Managed -> Upstreams \cup {NoRoute}] : \A a \in Rootless :
     up[a] # NoRoute => (\A h \in Rooted : up[h] = NoRoute) \/ (\A h \in Rooted : up[h] = up[a])}

Symmetry == Permutations(Rooted) \cup Permutations(Upstreams)
==============================================================================
