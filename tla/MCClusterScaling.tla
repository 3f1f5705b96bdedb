-------------------------- MODULE MCClusterScaling --------------------------
(***************************************************************************)
(* ClusterScaling for TLC.                                                 *)
(***************************************************************************)
EXTENDS ClusterScaling, TLC
=============================================================================
