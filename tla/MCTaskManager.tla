---------------------------- MODULE MCTaskManager ----------------------------
(***************************************************************************)
(* TaskManager and its properties, for TLC.  The configurations give the   *)
(* constants; requests differ in nothing but their names, so they may be   *)
(* exchanged where only safety is checked.                                 *)
(***************************************************************************)
EXTENDS TaskInvariant, TLC

RequestSymmetry == Permutations(Reqs)
=============================================================================
