-------------------------- MODULE MCExecutionSpine --------------------------
(* Small instances of ExecutionSpine for TLC.                              *)
EXTENDS ExecutionSpine, TLC

Symmetry == Permutations(Intents)

=============================================================================
