---------------------------- MODULE MCSyncService ----------------------------
(***************************************************************************)
(* Model-checking SyncService.                                             *)
(***************************************************************************)
EXTENDS SyncService, TLC

Symmetry == Permutations(Task)
=============================================================================
