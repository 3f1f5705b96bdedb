--------------------------- MODULE MCOrderListing ---------------------------
(***************************************************************************)
(* OrderListing for TLC.  Calls and users are interchangeable.             *)
(***************************************************************************)
EXTENDS OrderListing, TLC

Symmetry == Permutations(Calls) \cup Permutations(Users)
=============================================================================
