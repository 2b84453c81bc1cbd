-------------------------- MODULE MCIntentRegistry --------------------------
(* Small instances of IntentRegistry for TLC.                              *)
EXTENDS IntentRegistry, TLC

Symmetry == Permutations(Intents)

=============================================================================
