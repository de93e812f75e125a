-------------------------------- MODULE MCFair --------------------------------
(* An instance of FairScheduler for TLC: no symmetry, as it checks liveness. *)
EXTENDS FairScheduler

CONSTANTS w1, w2, w3, s1

MCProc == {w1, w2, w3}
MCSem == {s1}
==============================================================================
