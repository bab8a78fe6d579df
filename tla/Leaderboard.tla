------------------------------ MODULE Leaderboard ------------------------------
(***************************************************************************)
(* The leaderboard: src/src/leaderboard/leaderboard.service.ts.            *)
(*                                                                         *)
(* Both queries are one statement each, so they see one state of the       *)
(* tables Run and MetaLevelReached; they are operators here.  The tables   *)
(* change as RunsService.create and recordMetaLevels change them.  The     *)
(* nickname and the job, which are shown and order nothing, are left out.  *)
(***************************************************************************)
EXTENDS Integers, FiniteSets, FiniteSetsExt, SequencesExt

CONSTANTS
  Users, RunIds,
  Levels,   \* the meta levels a run may carry
  Kills,    \* the kills a run may carry
  None,     \* no level (a row older than the column), no time
  MAX_LEADERBOARD_LIMIT,
  MaxTime   \* bound of the clock

RunType == [id : RunIds, user : Users, metaLevel : Levels \union {None},
            kills : Kills, eligible : BOOLEAN]

ASSUME LeaderboardAssumption ==
  /\ Levels \subseteq Nat \ {0}
  /\ Kills \subseteq Nat
  /\ None \notin Nat
  /\ MAX_LEADERBOARD_LIMIT \in Nat \ {0}
  /\ MaxTime \in Nat
  /\ IsFiniteSet(RunIds)

VARIABLES
  now,      \* the clock
  runs,     \* the table Run: a subset of RunType
  reached   \* the table MetaLevelReached: [Users -> [Levels -> time or None]]

vars == <<now, runs, reached>>

-------------------------------------------------------------------------------
(* The writers *)

\* Rows older than the column metaLevel, grandfathered as eligible, and the
\* backfill: the level a user's save was at, and no lower one.
Init ==
  /\ now = 0
  /\ \E old \in SUBSET RunIds : \E owner \in [old -> Users], k \in [old -> Kills] :
       runs = {[id |-> i, user |-> owner[i], metaLevel |-> None, kills |-> k[i],
                eligible |-> TRUE] : i \in old}
  /\ \E level \in [Users -> Levels \union {None}] :
       reached = [u \in Users |-> [l \in Levels |-> IF l = level[u] THEN 0 ELSE None]]

\* RunsService.create; whether the run is eligible is BattleRuns' matter.
createRun(r) ==
  /\ \A q \in runs : q.id # r.id
  /\ r.metaLevel # None
  /\ runs' = runs \union {r}
  /\ UNCHANGED <<now, reached>>

\* ON CONFLICT nothing: the first time stays.
Upserted(u, l, t) == [reached EXCEPT ![u][l] = IF @ = None THEN t ELSE @]

\* One upsert of recordMetaLevels.  Requests interleave and may die, so levels
\* come in any order and with the time at which the request read the clock.
recordMetaLevel(u, l, t) ==
  /\ t <= now
  /\ reached' = Upserted(u, l, t)
  /\ UNCHANGED <<now, runs>>

Tick ==
  /\ now < MaxTime
  /\ now' = now + 1
  /\ UNCHANGED <<runs, reached>>

Next ==
  \/ \E r \in RunType : createRun(r)
  \/ \E u \in Users, l \in Levels, t \in 0 .. MaxTime : recordMetaLevel(u, l, t)
  \/ Tick

Spec == Init /\ [][Next]_vars

-------------------------------------------------------------------------------
(* The queries *)

\* The rows that are summed up for user u.
Counted(u) == {r \in runs : r.user = u /\ r.eligible}

MetaLevel(u) == Max({IF r.metaLevel = None THEN 0 ELSE r.metaLevel : r \in Counted(u)})

\* The outer join: level 0 and levels never recorded have no time.
FirstReachedAt(u) ==
  LET level == MetaLevel(u) IN IF level \in Levels THEN reached[u][level] ELSE None

\* The view both queries read: one entry for each user with runs that count.
leaderboard_entries ==
  {[userId |-> u, metaLevel |-> MetaLevel(u), firstReachedAt |-> FirstReachedAt(u),
    totalKills |-> MapThenSumSet(LAMBDA r : r.kills, Counted(u))] :
     u \in {v \in Users : Counted(v) # {}}}

\* Mutant: an unknown time comes first.
EarlierNullsFirst(s, t) == t # None /\ (s = None \/ s < t)

\* ASC NULLS LAST
Earlier(s, t) == s # None /\ (t = None \/ s < t)

\* getTop's ORDER BY: entry a is listed before b.
Before(a, b) ==
  \/ a.metaLevel > b.metaLevel
  \/ /\ a.metaLevel = b.metaLevel
     /\ \/ Earlier(a.firstReachedAt, b.firstReachedAt)
        \/ /\ a.firstReachedAt = b.firstReachedAt
           /\ a.totalKills > b.totalKills

\* Mutant: the rank is by level and kills alone, as a comment has it.
RanksBeforeByKills(a, b) ==
  \/ a.metaLevel > b.metaLevel
  \/ a.metaLevel = b.metaLevel /\ a.totalKills > b.totalKills

\* getMyRank's ORDER BY, a copy of the other.
RanksBefore(a, b) == Before(a, b)

\* The lists getTop may return: sorted, cut at the limit, ties in any order.
getTop(limit) ==
  LET entries == leaderboard_entries
      safeLimit == Min({Max({1, limit}), MAX_LEADERBOARD_LIMIT})
  IN {page \in SetToAllKPermutations(entries) :
        /\ Len(page) = Min({safeLimit, Cardinality(entries)})
        /\ \A i, j \in DOMAIN page : i < j => ~Before(page[j], page[i])
        /\ \A e \in entries \ Range(page), i \in DOMAIN page : ~Before(e, page[i])}

\* RANK() of the user's entry, or null (404) without one.
getMyRank(u) ==
  LET entries == leaderboard_entries
      mine == {e \in entries : e.userId = u}
  IN IF mine = {} THEN None
     ELSE 1 + Cardinality({e \in entries : \E m \in mine : RanksBefore(e, m)})

-------------------------------------------------------------------------------
(* Properties *)

\* Among these entries u has one, and v none or one below it.
Ahead(entries, u, v) ==
  \E a \in entries : /\ a.userId = u
                     /\ \A b \in entries : b.userId = v => Before(a, b)

\* Nobody loses a place but to the progress of another: who was ahead and is not
\* any more was overtaken by a user whose own eligible run, or first time at a
\* level, was stored in this very step.  Late records of levels, runs without a
\* known time, runs that do not count and the user's own further runs never
\* push the user down.
OvertakeNeedsProgress ==
  [][\A old \in {leaderboard_entries}, new \in {leaderboard_entries'} :
       \A u, v \in Users : Ahead(old, u, v) /\ ~Ahead(new, u, v) =>
         \/ \E r \in runs' \ runs : r.user = v /\ r.eligible
         \/ \E l \in Levels : reached[v][l] = None /\ reached'[v][l] # None]_vars

\* The two queries tell one story: nobody stands above the own rank on any page,
\* and whoever has a rank and is left out has none better than those listed.
PagesShowRanks ==
  LET rank == [u \in Users |-> getMyRank(u)]
  IN \A limit \in 0 .. MAX_LEADERBOARD_LIMIT + 1 : \A page \in getTop(limit) :
       /\ \A i \in DOMAIN page : rank[page[i].userId] \in 1 .. i
       /\ \A u \in Users \ {page[i].userId : i \in DOMAIN page} :
            rank[u] # None => \A i \in DOMAIN page : rank[page[i].userId] <= rank[u]
================================================================================
