--------------------------- MODULE MCCreateOrder ---------------------------
(***************************************************************************)
(* CreateOrder for TLC.  Calls, principals and bodies are interchangeable. *)
(***************************************************************************)
EXTENDS CreateOrder, TLC

Symmetry == Permutations(Calls) \cup Permutations(Principals) \cup Permutations(Bodies)
=============================================================================
