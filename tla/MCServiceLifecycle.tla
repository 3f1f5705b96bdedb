------------------------- MODULE MCServiceLifecycle -------------------------
(***************************************************************************)
(* ServiceLifecycle for TLC.                                               *)
(***************************************************************************)
EXTENDS ServiceLifecycle, TLC
=============================================================================
