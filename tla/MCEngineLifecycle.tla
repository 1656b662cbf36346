------------------------- MODULE MCEngineLifecycle -------------------------
(* TLC instances of EngineLifecycle: two ups, one down, two ports. *)
EXTENDS EngineLifecycle, TLC

CONSTANTS u1, u2, d1

UpSymmetry == Permutations({u1, u2})
=============================================================================
