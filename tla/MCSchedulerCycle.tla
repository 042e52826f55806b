-------------------------- MODULE MCSchedulerCycle --------------------------
(* SchedulerCycle on small instances. *)
EXTENDS SchedulerCycle, TLC

Symmetric == Permutations(Cycles) \union Permutations(Targets)
=============================================================================
