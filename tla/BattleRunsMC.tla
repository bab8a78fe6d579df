----------------------------- MODULE BattleRunsMC -----------------------------
(* Small instances of BattleRuns for TLC. *)
EXTENDS BattleRuns, TLC

CONSTANTS u1, u2, s1, s2, e1, e2, r1, r2, r3

KillBatch == [kills |-> 2, gold |-> 1, level |-> 0]
LevelUp == [kills |-> 0, gold |-> 0, level |-> 2]
GoldBatch == [kills |-> 0, gold |-> 2, level |-> 0]

OneEvent == {KillBatch}
TwoEvents == {KillBatch, LevelUp}

\* With tolerances 1 and one kill per second:
\* explained without any event, and only after a kill batch or a level-up.
Short == [survivalTime |-> 1, kills |-> 1, goldEarned |-> 0, level |-> 1]
Long == [survivalTime |-> 2, kills |-> 2, goldEarned |-> 2, level |-> 1]
High == [survivalTime |-> 0, kills |-> 0, goldEarned |-> 0, level |-> 2]
TooMany == [survivalTime |-> 0, kills |-> 1, goldEarned |-> 0, level |-> 1]

LongOnly == {Long}
ShortLong == {Short, Long}
Mixed == {Long, High, TooMany}

Symmetry == Permutations({e1, e2}) \union Permutations({r1, r2, r3})
              \union Permutations({u1, u2}) \union Permutations({s1, s2})
===============================================================================
