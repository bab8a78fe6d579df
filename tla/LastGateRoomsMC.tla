---------------------------- MODULE LastGateRoomsMC ----------------------------
(* Small instances of LastGateRooms for TLC. *)
EXTENDS LastGateRooms, TLC

CONSTANTS s1, s2, s3, s4, c1, c2

Symmetry == Permutations({s1, s2, s3, s4}) \union Permutations({c1, c2})
===============================================================================
