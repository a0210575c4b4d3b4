---------------------------- MODULE MCScheduler ----------------------------
(***************************************************************************)
(* Scheduler for TLC.  Workers and the Fiber objects run() allocates are   *)
(* interchangeable where no task is pinned to a thread.                    *)
(***************************************************************************)
EXTENDS SchedulerPool

PoolSymmetry == Permutations(Workers) \union Permutations(Pool)
=============================================================================
