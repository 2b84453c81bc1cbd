--------------------------- MODULE MCRiskGateway ---------------------------
(* Small instances of RiskGateway for TLC.                                 *)
EXTENDS RiskGateway, TLC

Symmetry == Permutations(Ids) \cup Permutations(Live)

=============================================================================
