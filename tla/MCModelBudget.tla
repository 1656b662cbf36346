---------------------------- MODULE MCModelBudget ----------------------------
(* TLC instances of ModelBudget. *)
EXTENDS ModelBudget
=============================================================================
