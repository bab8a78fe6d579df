--------------------------- MODULE LastGateGatewayMC ---------------------------
(* A small instance of LastGateGateway for TLC. *)
EXTENDS LastGateGateway, TLC

CONSTANTS s1, s2, s3, c1, c2

Symmetry == Permutations({s1, s2, s3}) \union Permutations({c1, c2})
===============================================================================
