--------------------------- MODULE MCPositionEngine ---------------------------
(* PositionEngine on a small instance, for TLC. *)
EXTENDS PositionEngine
===============================================================================
