----------------------------- MODULE AuthTokensMC -----------------------------
(* A small instance of AuthTokens for TLC: one careful and one careless client. *)
EXTENDS AuthTokens

CONSTANTS careful, careless, r1, r2
===============================================================================
