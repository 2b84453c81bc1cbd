---------------------------- MODULE MCCausalMemory ----------------------------
(* CausalMemory on a small instance, for TLC. *)
EXTENDS CausalMemory

CONSTANTS r1, r2, q1, q2
===============================================================================
