---------------------------- MODULE MCGovernedLearning ----------------------------
(* TLC instances of GovernedLearning. *)
EXTENDS GovernedLearning

CONSTANTS v1, v2, a1, a2, b1
=============================================================================
