----------------------------- MODULE MCReplace -----------------------------
(* The requests of ReplaceWorkflow are interchangeable. *)
EXTENDS ReplaceWorkflow, TLC

RequestSymmetry == Permutations(Requests)
=============================================================================
