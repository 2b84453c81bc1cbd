------------------------------ MODULE MCCourt ------------------------------
(* Small instances of Court for TLC.                                       *)
EXTENDS Court, TLC

=============================================================================
