------------------------------ MODULE SaveSyncMC ------------------------------
(* Small instances of SaveSync for TLC. *)
EXTENDS SaveSync, TLC

CONSTANTS p1, p2, p3, c1, c2

\* A curve of three levels: 2 XP to level 2, 3 more to level 3.
Curve == <<0, 2, 5>>

\* One gold and one XP per unit of time, one more XP per level above 1.
GoldPerUnit(t, l) == t
XpPerUnit(t, l) == t * l

Start == [level |-> 1, xp |-> 0, gold |-> 0]
Second == [level |-> 2, xp |-> 1, gold |-> 1]
Third == [level |-> 3, xp |-> 0, gold |-> 0]
Broken == [level |-> 4, xp |-> 0, gold |-> 0]

ThreeBodies == {Start, Second, Broken}
SomeBodies == {Start, Second, Third}
TwoBodies == {Start, Second}

Symmetry == Permutations({p1, p2, p3}) \union Permutations({c1, c2})
===============================================================================
