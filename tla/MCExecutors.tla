---------------------------- MODULE MCExecutors ----------------------------
(***************************************************************************)
(* Three jobs, so that one can be pruned and two can wait for the third:   *)
(* of the runner, and of the queue of workload jobs.  Jobs and keys are    *)
(* interchangeable.                                                        *)
(***************************************************************************)
EXTENDS Executors, TLC

Symmetry == Permutations(Job) \cup Permutations(Key)
=============================================================================
