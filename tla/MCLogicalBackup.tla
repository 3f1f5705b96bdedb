-------------------------- MODULE MCLogicalBackup --------------------------
(***************************************************************************)
(* LogicalBackup for TLC.                                                  *)
(***************************************************************************)
EXTENDS LogicalBackup
=============================================================================
