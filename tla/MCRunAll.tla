------------------------------ MODULE MCRunAll ------------------------------
(***************************************************************************)
(* Small instances of RunAll.                                              *)
(***************************************************************************)
EXTENDS RunAll

\* Five tasks on three workers is the least pair that leaves a task out.
MCTaskCounts == 0 .. 6
MCWorkerCounts == 1 .. 3
MCLaunched == {"running", "deferred"}
=============================================================================
