----------------------------- MODULE RateWindowsMC -----------------------------
(* A small instance of RateWindows for TLC. *)
EXTENDS RateWindows

CONSTANT s1

Limits == [k \in Kinds |-> IF k = "input" THEN 3 ELSE 2]
Lengths == [k \in Kinds |-> IF k = "input" THEN 2 ELSE 3]
================================================================================
