--------------------------- MODULE MCRateLimiter ---------------------------
(***************************************************************************)
(* RateLimiter for TLC.  Requests, subjects and processes are              *)
(* interchangeable.                                                        *)
(***************************************************************************)
EXTENDS RateLimiter, TLC

Symmetry == Permutations(Requests) \cup Permutations(Subjects) \cup Permutations(Processes)
=============================================================================
