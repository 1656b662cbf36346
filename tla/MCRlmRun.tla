------------------------------ MODULE MCRlmRun ------------------------------
(* TLC instances of RlmRun: two runs that want the daemon's one permit. *)
EXTENDS RlmRun
=============================================================================
