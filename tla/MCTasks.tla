------------------------------ MODULE MCTasks ------------------------------
(***************************************************************************)
(* Small instances of Tasks for TLC.                                       *)
(***************************************************************************)
EXTENDS TasksProperties

CONSTANTS t1, f1, f2
=============================================================================
