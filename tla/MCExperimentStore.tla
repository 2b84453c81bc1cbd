-------------------------- MODULE MCExperimentStore --------------------------
(* ExperimentStore on a small instance, for TLC. *)
EXTENDS ExperimentStore

CONSTANTS f1, f2
===============================================================================
