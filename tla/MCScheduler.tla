---------------------------- MODULE MCScheduler ----------------------------
(* One schedule, a few overlapping calls and firings, and a single fault.  *)
EXTENDS Scheduler, TLC

SchedSymmetry == Permutations(Firings) \cup Permutations(Patterns) \cup Permutations(SchedCalls)
=============================================================================
