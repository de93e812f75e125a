----------------------------- MODULE MCScheduler -----------------------------
(* Instances of Scheduler and its refinement for TLC. *)
EXTENDS SchedulerRefinement, TLC

CONSTANTS w1, w2, w3, s1

MCProc == {w1, w2, w3}
MCSem == {s1}

\* Every other workspace is interchangeable with every other.
Workspaces == Permutations(MCProc \ {w1})
==============================================================================
