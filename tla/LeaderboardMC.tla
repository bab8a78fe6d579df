----------------------------- MODULE LeaderboardMC -----------------------------
(* A small instance of Leaderboard for TLC. *)
EXTENDS Leaderboard, TLC

CONSTANTS u1, u2, u3, r1, r2, r3

Symmetry == Permutations({u1, u2, u3}) \union Permutations({r1, r2, r3})
================================================================================
