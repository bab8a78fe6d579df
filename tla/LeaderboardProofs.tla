--------------------------- MODULE LeaderboardProofs ---------------------------
(***************************************************************************)
(* Proofs about Leaderboard: both of its properties, for tables of any     *)
(* size.                                                                   *)
(*                                                                         *)
(* The order of the entries compares numbers, so the proofs first need     *)
(* what the two aggregates of the view return: the sum of the kills is a   *)
(* number that does not depend on the order in which rows are taken, and   *)
(* the greatest level is one of the levels.  Both are shown by minimal     *)
(* counterexample, because the induction theorems of the library take an   *)
(* operator as a parameter.                                                *)
(***************************************************************************)
EXTENDS Leaderboard, FiniteSetTheorems, TLAPS

-------------------------------------------------------------------------------
(* Induction without an operator parameter: a nonempty set of numbers has a least *)
(* element, a nonempty set of subsets of a finite set a minimal one.       *)

\* Any nonempty set of natural numbers has a least element.
LEMMA LeastNumber ==
  ASSUME NEW N, N \subseteq Nat, N # {}
  PROVE  \E n \in N : \A m \in N : n <= m
<1>1. \E n \in N : \A m \in N : ~(<<m, n>> \in OpToRel(<, Nat))
  BY ONLY N \subseteq Nat, N # {}, NatLessThanWellFounded, WFMin
<1>2. PICK n \in N : \A m \in N : ~(<<m, n>> \in OpToRel(<, Nat))
  BY <1>1
<1>3. ASSUME NEW m \in N
      PROVE  n <= m
  <2>1. m \in Nat /\ n \in Nat
    BY <1>3
  <2>2. ~(m < n)
    BY <1>2, <1>3, <2>1 DEF OpToRel
  <2> QED
    BY <2>1, <2>2
<1> QED
  BY <1>3

\* Among some subsets of a finite set there is one with none below it.
LEMMA MinimalSubset ==
  ASSUME NEW S, IsFiniteSet(S), NEW B, B \subseteq SUBSET S, B # {}
  PROVE  \E T \in B : \A U \in B : U \subseteq T => U = T
<1>1. IsWellFoundedOn(StrictSubsetOrdering(S), SUBSET S)
  BY FS_StrictSubsetOrderingWellFounded, FS_FiniteSubsetsOfFinite
<1>2. PICK T \in B : \A U \in B : ~(<<U, T>> \in StrictSubsetOrdering(S))
  BY <1>1, WFMin
<1>3. ASSUME NEW U \in B, U \subseteq T
      PROVE  U = T
  BY <1>2, <1>3 DEF StrictSubsetOrdering
<1> QED
  BY <1>3

-------------------------------------------------------------------------------
(* What the sum of the kills is.                                           *)

First(s) == CHOOSE x \in s : TRUE

StepOf(f, s) == IF s = {} THEN 0 ELSE First(s).kills + f[s \ {First(s)}]

\* f sums up the kills of every subset of S.
Sums(f, S) == f = [s \in SUBSET S |-> StepOf(f, s)]

KillSum(S) == MapThenSumSet(LAMBDA r : r.kills, S)

KillsKnown(S) == \A r \in S : r.kills \in Nat

\* The fold of the community modules, opened up.
LEMMA KillSumUnfolded ==
  ASSUME NEW S
  PROVE  KillSum(S) = (CHOOSE f : Sums(f, S))[S]
BY DEF KillSum, MapThenSumSet, MapThenFoldSet, StepOf, Sums, First

\* The row a step of the sum takes is a row of the set.
LEMMA FirstIn ==
  ASSUME NEW s, s # {}
  PROVE  First(s) \in s
BY DEF First

\* What a sum says of one subset.
LEMMA SumsApply ==
  ASSUME NEW S, NEW f, Sums(f, S), NEW s \in SUBSET S
  PROVE  f[s] = StepOf(f, s)
<1>1. f = [t \in SUBSET S |-> StepOf(f, t)]
  BY ONLY Sums(f, S) DEF Sums
<1> DEFINE g == [t \in SUBSET S |-> StepOf(f, t)]
<1>2. g[s] = StepOf(f, s)
  OBVIOUS
<1>3. f[s] = g[s]
  BY <1>1
<1> QED
  BY ONLY <1>2, <1>3

\* There is such a sum: by induction over the size of the subsets it is right for.
LEMMA SumsExist ==
  ASSUME NEW S, IsFiniteSet(S), KillsKnown(S)
  PROVE  \E f \in [SUBSET S -> Nat] : Sums(f, S)
<1> DEFINE Right(f, n) == \A s \in SUBSET S : Cardinality(s) <= n => f[s] = StepOf(f, s)
           c == Cardinality(S)
           N == {n \in Nat : ~\E f \in [SUBSET S -> Nat] : Right(f, n)}
<1>1. c \in Nat
  BY FS_CardinalityType
<1>2. \A s \in SUBSET S : IsFiniteSet(s) /\ Cardinality(s) \in Nat /\ Cardinality(s) <= c
  BY FS_Subset, FS_CardinalityType
<1>3. 0 \notin N
  <2> DEFINE z == [s \in SUBSET S |-> 0]
  <2>1. z \in [SUBSET S -> Nat]
    OBVIOUS
  <2>2. ASSUME NEW s \in SUBSET S, Cardinality(s) <= 0
        PROVE  z[s] = StepOf(z, s)
    <3>1. s = {}
      BY <1>2, <2>2, FS_EmptySet
    <3> QED
      BY <3>1 DEF StepOf
  <2>3. Right(z, 0)
    BY <2>2
  <2> QED
    BY <2>1, <2>3
<1>4. ASSUME NEW n \in Nat, n \notin N
      PROVE  n + 1 \notin N
  <2>1. PICK f \in [SUBSET S -> Nat] : Right(f, n)
    BY <1>4
  <2> DEFINE g == [s \in SUBSET S |-> StepOf(f, s)]
  <2>2. ASSUME NEW s \in SUBSET S
        PROVE  StepOf(f, s) \in Nat
    <3>1. CASE s = {}
      BY <3>1 DEF StepOf
    <3>2. CASE s # {}
      <4>1. First(s) \in s
        BY <3>2, FirstIn
      <4>2. First(s).kills \in Nat
        BY <4>1 DEF KillsKnown
      <4>3. f[s \ {First(s)}] \in Nat
        OBVIOUS
      <4> QED
        BY <3>2, <4>2, <4>3 DEF StepOf
    <3> QED
      BY <3>1, <3>2
  <2>3. g \in [SUBSET S -> Nat]
    BY <2>2
  <2>4. ASSUME NEW s \in SUBSET S, Cardinality(s) <= n + 1
        PROVE  g[s] = StepOf(g, s)
    <3>1. CASE s = {}
      BY <3>1 DEF StepOf
    <3>2. CASE s # {}
      <4> DEFINE t == s \ {First(s)}
      <4>1. First(s) \in s /\ t \in SUBSET S
        BY <3>2, FirstIn
      <4>2. Cardinality(t) <= n
        BY <1>2, <2>4, <4>1, FS_RemoveElement
      <4>3. f[t] = StepOf(f, t)
        BY <2>1, <4>1, <4>2
      <4>4. g[t] = f[t]
        BY <4>1, <4>3
      <4>5. g[s] = StepOf(f, s)
        OBVIOUS
      <4>6. StepOf(f, s) = First(s).kills + f[t] /\ StepOf(g, s) = First(s).kills + g[t]
        BY <3>2 DEF StepOf
      <4> QED
        BY ONLY <4>4, <4>5, <4>6
    <3> QED
      BY <3>1, <3>2
  <2>5. Right(g, n + 1)
    BY <2>4
  <2> QED
    BY <2>3, <2>5
<1>5. N = {}
  <2> SUFFICES ASSUME N # {}
               PROVE  FALSE
    OBVIOUS
  <2>1. PICK n \in N : \A m \in N : n <= m
    BY LeastNumber
  <2>2. n \in Nat /\ n # 0
    BY <1>3
  <2>3. n - 1 \in Nat /\ n = (n - 1) + 1 /\ ~(n <= n - 1)
    BY ONLY <2>2
  <2>4. n - 1 \notin N
    BY ONLY <2>1, <2>3
  <2>5. (n - 1) + 1 \notin N
    BY <1>4, <2>3, <2>4
  <2> QED
    BY ONLY <2>1, <2>3, <2>5
<1>6. PICK f \in [SUBSET S -> Nat] : Right(f, c)
  BY <1>1, <1>5
<1>7. \A s \in SUBSET S : f[s] = StepOf(f, s)
  BY <1>2, <1>6
<1>8. f = [s \in SUBSET S |-> StepOf(f, s)]
  BY <1>7
<1> QED
  BY <1>8 DEF Sums

\* Two sums agree wherever both are defined.
LEMMA SumsAgree ==
  ASSUME NEW S, NEW T, NEW f, NEW g, Sums(f, S), Sums(g, T),
         NEW s, IsFiniteSet(s), s \subseteq S, s \subseteq T
  PROVE  f[s] = g[s]
<1> DEFINE B == {t \in SUBSET s : f[t] # g[t]}
<1> SUFFICES ASSUME B # {}
             PROVE  FALSE
  OBVIOUS
<1>0. B \subseteq SUBSET s
  OBVIOUS
<1> HIDE DEF B
<1>1. PICK t \in B : \A u \in B : u \subseteq t => u = t
  BY <1>0, MinimalSubset
<1> USE DEF B
<1>2. f[t] = StepOf(f, t) /\ g[t] = StepOf(g, t)
  <2>1. t \in SUBSET S /\ t \in SUBSET T
    OBVIOUS
  <2> QED
    BY <2>1, SumsApply
<1>3. CASE t = {}
  BY <1>2, <1>3 DEF StepOf
<1>4. CASE t # {}
  <2> DEFINE u == t \ {First(t)}
  <2>1. First(t) \in t
    BY <1>4, FirstIn
  <2>2. u \subseteq t /\ u # t /\ u \subseteq s
    BY <2>1
  <2>3. f[u] = g[u]
    BY <1>1, <2>2
  <2>4. StepOf(f, t) = First(t).kills + f[u] /\ StepOf(g, t) = First(t).kills + g[u]
    BY <1>4 DEF StepOf
  <2>5. f[t] = g[t]
    BY ONLY <1>2, <2>3, <2>4
  <2> QED
    BY <2>5
<1> QED
  BY <1>3, <1>4

\* One function gives the sum of every subset.
LEMMA KillSums ==
  ASSUME NEW S, IsFiniteSet(S), KillsKnown(S)
  PROVE  \E f \in [SUBSET S -> Nat] : Sums(f, S) /\ \A s \in SUBSET S : KillSum(s) = f[s]
<1>1. PICK f \in [SUBSET S -> Nat] : Sums(f, S)
  BY SumsExist
<1>2. ASSUME NEW s \in SUBSET S
      PROVE  KillSum(s) = f[s]
  <2>1. IsFiniteSet(s) /\ KillsKnown(s)
    BY FS_Subset DEF KillsKnown
  <2>2. \E g : Sums(g, s)
    BY <2>1, SumsExist
  <2> DEFINE h == CHOOSE g : Sums(g, s)
  <2>3. Sums(h, s)
    BY <2>2
  <2>4. KillSum(s) = h[s]
    BY KillSumUnfolded
  <2> HIDE DEF h
  <2>5. h[s] = f[s]
    BY <1>1, <2>1, <2>3, SumsAgree
  <2> QED
    BY <2>4, <2>5
<1> QED
  BY <1>1, <1>2

\* The sum does not depend on the order in which the rows are taken.
LEMMA KillSumSplit ==
  ASSUME NEW S, IsFiniteSet(S), KillsKnown(S), NEW r \in S
  PROVE  /\ KillSum(S) \in Nat
         /\ KillSum(S \ {r}) \in Nat
         /\ KillSum(S) = r.kills + KillSum(S \ {r})
<1>1. PICK f \in [SUBSET S -> Nat] : Sums(f, S) /\ \A s \in SUBSET S : KillSum(s) = f[s]
  BY KillSums
<1> DEFINE Splits(t) == \A q \in t : f[t] = q.kills + f[t \ {q}]
           B == {t \in SUBSET S : ~Splits(t)}
<1>2. B = {}
  <2> SUFFICES ASSUME B # {}
               PROVE  FALSE
    OBVIOUS
  <2>0. B \subseteq SUBSET S
    OBVIOUS
  <2> HIDE DEF B
  <2>1. PICK t \in B : \A u \in B : u \subseteq t => u = t
    BY <2>0, MinimalSubset
  <2> USE DEF B
  <2>2. PICK q \in t : f[t] # q.kills + f[t \ {q}]
    BY <2>1
  <2> DEFINE x == First(t)
             tx == t \ {x}
             tq == t \ {q}
             tqx == t \ {q, x}
  <2>3. x \in t
    BY FirstIn
  <2>4. f[t] = x.kills + f[tx]
    <3>1. t \in SUBSET S /\ t # {}
      BY <2>1
    <3>2. f[t] = StepOf(f, t)
      BY <1>1, <3>1, SumsApply
    <3> QED
      BY <3>1, <3>2 DEF StepOf
  <2>5. x # q
    BY <2>2, <2>4
  <2>6. /\ tx \subseteq t /\ tx # t /\ q \in tx
        /\ tq \subseteq t /\ tq # t /\ x \in tq
        /\ tx \in SUBSET S /\ tq \in SUBSET S /\ tqx \in SUBSET S
        /\ tx \ {q} = tqx /\ tq \ {x} = tqx
    BY <2>1, <2>3, <2>5
  <2>7. f[tx] = q.kills + f[tqx]
    <3>1. Splits(tx)
      BY <2>1, <2>6
    <3> QED
      BY <2>6, <3>1
  <2>8. f[tq] = x.kills + f[tqx]
    <3>1. Splits(tq)
      BY <2>1, <2>6
    <3> QED
      BY <2>6, <3>1
  <2>9. x \in S /\ q \in S
    BY <2>1, <2>3
  <2>10. x.kills \in Nat /\ q.kills \in Nat
    BY <2>9 DEF KillsKnown
  <2>11. f[tqx] \in Nat
    BY <1>1, <2>6
  <2> HIDE DEF x, tx, tq, tqx
  <2> QED
    <3>1. f[t] = q.kills + f[tq]
      BY ONLY <2>4, <2>7, <2>8, <2>10, <2>11
    <3> QED
      BY <2>2, <3>1 DEF tq
<1>3. S \in SUBSET S /\ S \ {r} \in SUBSET S
  OBVIOUS
<1>4. f[S] = r.kills + f[S \ {r}]
  BY <1>2, <1>3
<1>5. f[S] \in Nat /\ f[S \ {r}] \in Nat
  BY <1>1, <1>3
<1> QED
  BY <1>1, <1>3, <1>4, <1>5

\* The view's total of a finite set of rows is a number.
LEMMA KillSumType ==
  ASSUME NEW S, IsFiniteSet(S), KillsKnown(S)
  PROVE  KillSum(S) \in Nat
<1>1. PICK f \in [SUBSET S -> Nat] : \A s \in SUBSET S : KillSum(s) = f[s]
  BY KillSums
<1>2. S \in SUBSET S
  OBVIOUS
<1> QED
  BY <1>1, <1>2

-------------------------------------------------------------------------------
(* The greatest number of a finite set.                                    *)

\* Max of finitely many numbers is one of them and bounds them all.
LEMMA MaxOfFinite ==
  ASSUME NEW S, S \subseteq Nat, S # {}, IsFiniteSet(S)
  PROVE  Max(S) \in S /\ \A y \in S : y <= Max(S)
<1> DEFINE Above(x) == {y \in S : y > x}
           B == {Above(x) : x \in S}
<1>1. B \subseteq SUBSET S /\ B # {}
  OBVIOUS
<1> HIDE DEF B
<1>2. PICK T \in B : \A U \in B : U \subseteq T => U = T
  BY ONLY <1>1, IsFiniteSet(S), MinimalSubset
<1> USE DEF B
<1>3. PICK x \in S : T = Above(x)
  BY <1>2
<1>4. ASSUME NEW y \in S
      PROVE  x >= y
  <2> SUFFICES ASSUME y > x
               PROVE  FALSE
    BY <1>4
  <2>1. Above(y) \subseteq T
    <3>1. x \in Nat /\ y \in Nat /\ \A z \in S : z \in Nat
      BY <1>3, <1>4
    <3>2. ASSUME NEW z \in S, z > y
          PROVE  z > x
      BY ONLY <3>1, <3>2, y > x
    <3> QED
      BY <1>3, <3>2
  <2>2. y \in T /\ y \notin Above(y)
    BY <1>3
  <2>3. Above(y) \in B
    OBVIOUS
  <2> QED
    BY <1>2, <2>1, <2>2, <2>3
<1>5. \E z \in S : \A y \in S : z >= y
  BY <1>4
<1>6. Max(S) \in S /\ \A y \in S : Max(S) >= y
  BY <1>5 DEF Max
<1> QED
  BY <1>6

-------------------------------------------------------------------------------
(* The entries of the view.                                                *)

EntryType == [userId : Users, metaLevel : Nat, firstReachedAt : Nat \union {None},
              totalKills : Nat]

TablesTyped == /\ now \in Nat
               /\ runs \subseteq RunType /\ IsFiniteSet(runs)
               /\ reached \in [Users -> [Levels -> Nat \union {None}]]

LevelsOf(u) == {IF r.metaLevel = None THEN 0 ELSE r.metaLevel : r \in Counted(u)}

\* The rows that count for a user, and their levels, are finite and numeric.
LEMMA CountedFinite ==
  ASSUME TablesTyped, NEW u
  PROVE  /\ IsFiniteSet(Counted(u)) /\ KillsKnown(Counted(u))
         /\ IsFiniteSet(LevelsOf(u)) /\ LevelsOf(u) \subseteq Nat
         /\ Counted(u) # {} => LevelsOf(u) # {}
<1>1. Counted(u) \subseteq runs /\ IsFiniteSet(runs) /\ runs \subseteq RunType
  BY DEF Counted, TablesTyped
<1>2. IsFiniteSet(Counted(u))
  BY <1>1, FS_Subset
<1>3. KillsKnown(Counted(u))
  BY <1>1, LeaderboardAssumption DEF KillsKnown, RunType
<1>4. LevelsOf(u) \subseteq Nat
  BY <1>1, LeaderboardAssumption DEF LevelsOf, RunType
<1> DEFINE f == [r \in Counted(u) |-> IF r.metaLevel = None THEN 0 ELSE r.metaLevel]
<1>5. f \in Surjection(Counted(u), LevelsOf(u))
  BY DEF Surjection, LevelsOf
<1>6. IsFiniteSet(LevelsOf(u))
  BY <1>2, <1>5, FS_Surjection
<1> QED
  BY <1>2, <1>3, <1>4, <1>6 DEF LevelsOf

\* The view's level is the greatest of the levels that count.
LEMMA MetaLevelType ==
  ASSUME TablesTyped, NEW u, Counted(u) # {}
  PROVE  /\ MetaLevel(u) \in Nat /\ MetaLevel(u) \in LevelsOf(u)
         /\ \A l \in LevelsOf(u) : l <= MetaLevel(u)
<1>1. MetaLevel(u) = Max(LevelsOf(u))
  BY DEF MetaLevel, LevelsOf
<1> QED
  BY <1>1, CountedFinite, MaxOfFinite

Entry(u) == [userId |-> u, metaLevel |-> MetaLevel(u), firstReachedAt |-> FirstReachedAt(u),
             totalKills |-> KillSum(Counted(u))]

Listed == {u \in Users : Counted(u) # {}}

\* The view, entry by entry.
LEMMA EntriesAre ==
  leaderboard_entries = {Entry(u) : u \in Listed}
BY DEF leaderboard_entries, Entry, Listed, KillSum

\* The keys of an entry are numbers, its time possibly unknown.
LEMMA EntryTyped ==
  ASSUME TablesTyped, NEW u \in Listed
  PROVE  Entry(u) \in EntryType
<1>1. MetaLevel(u) \in Nat
  BY MetaLevelType DEF Listed
<1>2. KillSum(Counted(u)) \in Nat
  BY CountedFinite, KillSumType
<1>3. FirstReachedAt(u) \in Nat \union {None}
  BY DEF FirstReachedAt, TablesTyped, Listed
<1> QED
  BY <1>1, <1>2, <1>3 DEF Entry, EntryType, Listed

\* The view is finite and has one entry per user (GROUP BY).
LEMMA EntriesTyped ==
  ASSUME TablesTyped
  PROVE  /\ leaderboard_entries \subseteq EntryType
         /\ IsFiniteSet(leaderboard_entries)
         /\ \A a, b \in leaderboard_entries : a.userId = b.userId => a = b
<1>1. leaderboard_entries \subseteq EntryType
  BY EntriesAre, EntryTyped
<1>2. \A a, b \in leaderboard_entries : a.userId = b.userId => a = b
  BY EntriesAre DEF Entry
<1> DEFINE owners == {r.user : r \in runs}
           f == [r \in runs |-> r.user]
           g == [u \in Listed |-> Entry(u)]
<1>3. IsFiniteSet(owners)
  <2>1. f \in Surjection(runs, owners)
    BY DEF Surjection
  <2> QED
    BY <2>1, FS_Surjection DEF TablesTyped
<1>4. IsFiniteSet(Listed)
  <2>1. Listed \subseteq owners
    BY DEF Listed, Counted
  <2> QED
    BY <1>3, <2>1, FS_Subset
<1>5. g \in Surjection(Listed, leaderboard_entries)
  BY EntriesAre DEF Surjection
<1>6. IsFiniteSet(leaderboard_entries)
  BY <1>4, <1>5, FS_Surjection
<1> QED
  BY <1>1, <1>2, <1>6

-------------------------------------------------------------------------------
(* The order of the entries is a strict weak order.                        *)

\* No entry comes before itself.
LEMMA BeforeIrreflexive ==
  ASSUME NEW a \in EntryType
  PROVE  ~Before(a, a)
<1>1. a.metaLevel \in Nat /\ a.totalKills \in Nat /\ a.firstReachedAt \in Nat \union {None}
  BY DEF EntryType
<1>2. ~Earlier(a.firstReachedAt, a.firstReachedAt)
  BY ONLY <1>1 DEF Earlier
<1> QED
  BY ONLY <1>1, <1>2 DEF Before

\* ASC NULLS LAST is a total order of the times.
LEMMA EarlierTotal ==
  ASSUME NEW s \in Nat \union {None}, NEW t \in Nat \union {None}
  PROVE  /\ Earlier(s, t) \/ Earlier(t, s) \/ s = t
         /\ ~(Earlier(s, t) /\ Earlier(t, s))
         /\ ~Earlier(s, s)
         /\ \A v \in Nat \union {None} : Earlier(s, t) /\ Earlier(t, v) => Earlier(s, v)
BY LeaderboardAssumption DEF Earlier

\* Whatever stands between two entries is behind the first or before the second.
LEMMA BeforeSplits ==
  ASSUME NEW x \in EntryType, NEW p \in EntryType, NEW e \in EntryType,
         Before(x, p), ~Before(e, p)
  PROVE  Before(x, e)
<1>1. /\ x.metaLevel \in Nat /\ x.totalKills \in Nat /\ x.firstReachedAt \in Nat \union {None}
      /\ p.metaLevel \in Nat /\ p.totalKills \in Nat /\ p.firstReachedAt \in Nat \union {None}
      /\ e.metaLevel \in Nat /\ e.totalKills \in Nat /\ e.firstReachedAt \in Nat \union {None}
  BY DEF EntryType
<1>2. /\ \/ Earlier(e.firstReachedAt, p.firstReachedAt)
         \/ Earlier(p.firstReachedAt, e.firstReachedAt)
         \/ e.firstReachedAt = p.firstReachedAt
      /\ Earlier(x.firstReachedAt, p.firstReachedAt)
           /\ Earlier(p.firstReachedAt, e.firstReachedAt)
           => Earlier(x.firstReachedAt, e.firstReachedAt)
  BY ONLY <1>1, EarlierTotal
<1> QED
  BY ONLY <1>1, <1>2, Before(x, p), ~Before(e, p) DEF Before

-------------------------------------------------------------------------------
(* The tables keep their shape.                                            *)

\* Old rows and the backfill fit the tables.
LEMMA InitTables ==
  Init => TablesTyped
<1> SUFFICES ASSUME Init
             PROVE  TablesTyped
  OBVIOUS
<1>1. PICK old \in SUBSET RunIds : \E owner \in [old -> Users], k \in [old -> Kills] :
        runs = {[id |-> i, user |-> owner[i], metaLevel |-> None, kills |-> k[i],
                 eligible |-> TRUE] : i \in old}
  BY DEF Init
<1>2. PICK owner \in [old -> Users], k \in [old -> Kills] :
        runs = {[id |-> i, user |-> owner[i], metaLevel |-> None, kills |-> k[i],
                 eligible |-> TRUE] : i \in old}
  BY <1>1
<1>3. runs \subseteq RunType
  <2>1. ASSUME NEW i \in old
        PROVE  [id |-> i, user |-> owner[i], metaLevel |-> None, kills |-> k[i],
                eligible |-> TRUE] \in RunType
    <3>1. i \in RunIds /\ owner[i] \in Users /\ k[i] \in Kills
      OBVIOUS
    <3> QED
      BY <3>1 DEF RunType
  <2> QED
    BY <1>2, <2>1
<1> DEFINE f == [i \in old |-> [id |-> i, user |-> owner[i], metaLevel |-> None,
                               kills |-> k[i], eligible |-> TRUE]]
<1>4. f \in Surjection(old, runs)
  BY <1>2 DEF Surjection
<1>5. IsFiniteSet(old)
  BY LeaderboardAssumption, FS_Subset
<1>6. IsFiniteSet(runs)
  BY <1>4, <1>5, FS_Surjection
<1>7. reached \in [Users -> [Levels -> Nat \union {None}]]
  BY DEF Init
<1> QED
  BY <1>3, <1>6, <1>7 DEF TablesTyped, Init

\* The upsert fills a cell and keeps every known time.
LEMMA UpsertTyped ==
  ASSUME TablesTyped, NEW u \in Users, NEW l \in Levels, NEW t \in Nat
  PROVE  /\ Upserted(u, l, t) \in [Users -> [Levels -> Nat \union {None}]]
         /\ \A v \in Users, m \in Levels : reached[v][m] # None
              => Upserted(u, l, t)[v][m] = reached[v][m]
BY DEF TablesTyped, Upserted

\* Every step keeps the tables' shape.
LEMMA StepTables ==
  TablesTyped /\ [Next]_vars => TablesTyped'
<1> SUFFICES ASSUME TablesTyped, [Next]_vars
             PROVE  TablesTyped'
  OBVIOUS
<1>1. ASSUME NEW r \in RunType, createRun(r)
      PROVE  TablesTyped'
  BY <1>1, FS_AddElement DEF createRun, TablesTyped
<1>2. ASSUME NEW u \in Users, NEW l \in Levels, NEW t \in 0 .. MaxTime, recordMetaLevel(u, l, t)
      PROVE  TablesTyped'
  <2>1. t \in Nat
    BY LeaderboardAssumption
  <2> QED
    BY <1>2, <2>1, UpsertTyped DEF recordMetaLevel, TablesTyped
<1>3. CASE Tick
  BY <1>3 DEF Tick, TablesTyped
<1>4. CASE UNCHANGED vars
  BY <1>4 DEF vars, TablesTyped
<1> QED
  BY <1>1, <1>2, <1>3, <1>4 DEF Next

\* In every state the tables hold finitely many rows of their types: the inductive
\* invariant of the two theorems below (the steps of createRun and recordMetaLevel).
THEOREM TablesKeepShape ==
  Spec => []TablesTyped
<1> QED
  BY InitTables, StepTables, PTL DEF Spec

-------------------------------------------------------------------------------
(* The rank and the pages.                                                 *)

\* The entries listed before e, and the rank of e's user.
AheadOf(e) == {x \in leaderboard_entries : Before(x, e)}

\* RANK() counts the entries ahead.
LEMMA RankIs ==
  ASSUME TablesTyped, NEW e \in leaderboard_entries
  PROVE  /\ e.userId \in Users
         /\ getMyRank(e.userId) = 1 + Cardinality(AheadOf(e))
         /\ IsFiniteSet(AheadOf(e)) /\ Cardinality(AheadOf(e)) \in Nat
<1>1. IsFiniteSet(AheadOf(e)) /\ Cardinality(AheadOf(e)) \in Nat
  <2>1. AheadOf(e) \subseteq leaderboard_entries
    BY DEF AheadOf
  <2> QED
    BY <2>1, EntriesTyped, FS_Subset, FS_CardinalityType
<1>2. {x \in leaderboard_entries : x.userId = e.userId} = {e}
  BY EntriesTyped
<1>3. AheadOf(e) = {x \in leaderboard_entries : \E m \in {e} : RanksBefore(x, m)}
  BY DEF AheadOf, RanksBefore
<1>4. getMyRank(e.userId) = 1 + Cardinality(AheadOf(e))
  BY <1>2, <1>3 DEF getMyRank
<1>5. e.userId \in Users
  BY EntriesTyped DEF EntryType
<1> QED
  BY <1>1, <1>4, <1>5

\* A user with a rank has an entry.
LEMMA NoEntryNoRank ==
  ASSUME NEW u, getMyRank(u) # None
  PROVE  \E e \in leaderboard_entries : e.userId = u
BY DEF getMyRank

\* What a page is: entries in an order Before allows, and none left out that
\* comes before one of them.
IsPage(page) ==
  /\ \E n \in Nat : DOMAIN page = 1 .. n
  /\ \A i \in DOMAIN page : page[i] \in leaderboard_entries
  /\ \A i, j \in DOMAIN page : i < j => ~Before(page[j], page[i])
  /\ \A e \in leaderboard_entries, i \in DOMAIN page :
       (\A j \in DOMAIN page : page[j] # e) => ~Before(e, page[i])

\* Every list getTop may return is such a page.
LEMMA PageIs ==
  ASSUME TablesTyped, NEW limit, NEW page \in getTop(limit)
  PROVE  IsPage(page)
<1>1. /\ page \in SetToAllKPermutations(leaderboard_entries)
      /\ \A i, j \in DOMAIN page : i < j => ~Before(page[j], page[i])
      /\ \A e \in leaderboard_entries \ Range(page), i \in DOMAIN page : ~Before(e, page[i])
  BY DEF getTop
<1>2. PICK s \in SUBSET leaderboard_entries : page \in SetToSeqs(s)
  BY <1>1 DEF SetToAllKPermutations
<1>3. page \in [1 .. Cardinality(s) -> s]
  BY <1>2 DEF SetToSeqs
<1>4. Cardinality(s) \in Nat
  BY <1>2, EntriesTyped, FS_Subset, FS_CardinalityType
<1>5. \A e : (\A j \in DOMAIN page : page[j] # e) => e \notin Range(page)
  BY DEF Range
<1> QED
  BY <1>1, <1>2, <1>3, <1>4, <1>5 DEF IsPage

\* Whoever is ahead of a listed entry is listed above it.
LEMMA RankWithinPage ==
  ASSUME TablesTyped, NEW page, IsPage(page), NEW i \in DOMAIN page
  PROVE  1 + Cardinality(AheadOf(page[i])) \in 1 .. i
<1> DEFINE p == page[i]
           above == {page[j] : j \in 1 .. i - 1}
           f == [j \in 1 .. i - 1 |-> page[j]]
<1>1. PICK n \in Nat : DOMAIN page = 1 .. n
  BY DEF IsPage
<1>2. i \in Nat /\ i >= 1 /\ i - 1 \in Nat /\ i - 1 \in Int
  BY <1>1
<1>3. p \in leaderboard_entries /\ p \in EntryType
  BY EntriesTyped DEF IsPage
<1>4. ASSUME NEW x \in AheadOf(p)
      PROVE  x \in above
  <2>1. x \in leaderboard_entries /\ Before(x, p)
    BY DEF AheadOf
  <2>2. PICK j \in DOMAIN page : page[j] = x
    BY <2>1 DEF IsPage
  <2>3. ~(i < j)
    BY <2>1, <2>2 DEF IsPage
  <2>4. j # i
    BY <1>3, <2>1, <2>2, BeforeIrreflexive
  <2>5. j \in 1 .. i - 1
    BY <1>1, <1>2, <2>3, <2>4
  <2> QED
    BY <2>2, <2>5
<1>5. f \in Surjection(1 .. i - 1, above)
  BY DEF Surjection
<1>6. IsFiniteSet(1 .. i - 1) /\ Cardinality(1 .. i - 1) = i - 1
  BY <1>2, FS_Interval
<1>7. IsFiniteSet(above) /\ Cardinality(above) <= i - 1
  BY <1>5, <1>6, FS_Surjection
<1>8. Cardinality(AheadOf(p)) <= Cardinality(above)
  BY <1>4, <1>7, FS_Subset
<1>9. Cardinality(AheadOf(p)) \in Nat /\ Cardinality(above) \in Nat
  BY <1>3, <1>7, RankIs, FS_CardinalityType
<1> HIDE DEF p, above
<1>10. 1 + Cardinality(AheadOf(p)) \in 1 .. i
  BY ONLY <1>2, <1>7, <1>8, <1>9
<1> QED
  BY <1>10 DEF p

\* Whoever is ahead of a listed entry is ahead of every entry left out.
LEMMA RankOfLeftOut ==
  ASSUME TablesTyped, NEW page, IsPage(page), NEW i \in DOMAIN page,
         NEW e \in leaderboard_entries, \A j \in DOMAIN page : page[j] # e
  PROVE  Cardinality(AheadOf(page[i])) <= Cardinality(AheadOf(e))
<1>1. page[i] \in leaderboard_entries /\ ~Before(e, page[i])
  BY DEF IsPage
<1>2. page[i] \in EntryType /\ e \in EntryType
  BY <1>1, EntriesTyped
<1>3. AheadOf(page[i]) \subseteq AheadOf(e)
  <2> SUFFICES ASSUME NEW x \in leaderboard_entries, Before(x, page[i])
               PROVE  Before(x, e)
    BY DEF AheadOf
  <2> QED
    BY <1>1, <1>2, EntriesTyped, BeforeSplits
<1> QED
  BY <1>3, RankIs, FS_Subset

\* PagesShowRanks holds in any state whose tables have their shape.
LEMMA PagesAgree ==
  TablesTyped => PagesShowRanks
<1> SUFFICES ASSUME TablesTyped
             PROVE  PagesShowRanks
  OBVIOUS
<1> DEFINE rank == [u \in Users |-> getMyRank(u)]
<1>1. ASSUME NEW limit \in 0 .. MAX_LEADERBOARD_LIMIT + 1, NEW page \in getTop(limit),
             NEW i \in DOMAIN page
      PROVE  /\ page[i].userId \in Users
             /\ rank[page[i].userId] = 1 + Cardinality(AheadOf(page[i]))
             /\ rank[page[i].userId] \in 1 .. i
  <2>1. IsPage(page)
    BY PageIs
  <2>2. page[i] \in leaderboard_entries
    BY <1>1, <2>1 DEF IsPage
  <2>3. page[i].userId \in Users /\ getMyRank(page[i].userId) = 1 + Cardinality(AheadOf(page[i]))
    BY <2>2, RankIs
  <2>4. 1 + Cardinality(AheadOf(page[i])) \in 1 .. i
    BY <1>1, <2>1, RankWithinPage
  <2> QED
    BY <2>3, <2>4
<1>2. ASSUME NEW limit \in 0 .. MAX_LEADERBOARD_LIMIT + 1, NEW page \in getTop(limit),
             NEW u \in Users, \A j \in DOMAIN page : page[j].userId # u, rank[u] # None,
             NEW i \in DOMAIN page
      PROVE  rank[page[i].userId] <= rank[u]
  <2>1. IsPage(page)
    BY PageIs
  <2>2. PICK e \in leaderboard_entries : e.userId = u
    BY <1>2, NoEntryNoRank
  <2>3. \A j \in DOMAIN page : page[j] # e
    BY <1>2, <2>2
  <2>4. rank[u] = 1 + Cardinality(AheadOf(e)) /\ Cardinality(AheadOf(e)) \in Nat
    BY <2>2, RankIs
  <2>5. Cardinality(AheadOf(page[i])) <= Cardinality(AheadOf(e))
    BY <1>2, <2>1, <2>3, RankOfLeftOut
  <2>6. Cardinality(AheadOf(page[i])) \in Nat
    BY <1>2, <2>1, RankIs DEF IsPage
  <2>7. rank[page[i].userId] = 1 + Cardinality(AheadOf(page[i]))
    BY <1>1, <1>2
  <2> HIDE DEF rank
  <2> QED
    BY ONLY <2>4, <2>5, <2>6, <2>7
<1> HIDE DEF rank
<1>3. ASSUME NEW limit \in 0 .. MAX_LEADERBOARD_LIMIT + 1, NEW page \in getTop(limit)
      PROVE  /\ \A i \in DOMAIN page : rank[page[i].userId] \in 1 .. i
             /\ \A u \in Users \ {page[i].userId : i \in DOMAIN page} :
                  rank[u] # None => \A i \in DOMAIN page : rank[page[i].userId] <= rank[u]
  BY <1>1, <1>2
<1> QED
  BY <1>3 DEF PagesShowRanks, rank

\* The two queries tell one story, in every state and for tables of any size.
THEOREM PagesAlwaysShowRanks ==
  Spec => []PagesShowRanks
BY TablesKeepShape, PagesAgree, PTL

-------------------------------------------------------------------------------
(* Places are lost only to progress.                                       *)

\* No progress of v in this step.
NoProgress(v) ==
  /\ \A r \in runs' \ runs : ~(r.user = v /\ r.eligible)
  /\ \A l \in Levels : ~(reached[v][l] = None /\ reached'[v][l] # None)

\* What a step may do to the tables: runs are only added, one at a time, and a
\* time that is known stays.
StepAdds ==
  /\ runs \subseteq runs'
  /\ \E r : runs' \subseteq runs \union {r}
  /\ \A u \in Users, l \in Levels : reached[u][l] # None => reached'[u][l] = reached[u][l]

\* That is all any step does.
LEMMA StepsAdd ==
  TablesTyped /\ [Next]_vars => StepAdds
<1> SUFFICES ASSUME TablesTyped, [Next]_vars
             PROVE  StepAdds
  OBVIOUS
<1>1. ASSUME NEW r \in RunType, createRun(r)
      PROVE  StepAdds
  BY <1>1 DEF createRun, StepAdds
<1>2. ASSUME NEW u \in Users, NEW l \in Levels, NEW t \in 0 .. MaxTime, recordMetaLevel(u, l, t)
      PROVE  StepAdds
  <2>1. t \in Nat
    BY LeaderboardAssumption
  <2> QED
    BY <1>2, <2>1, UpsertTyped DEF recordMetaLevel, StepAdds
<1>3. CASE Tick
  BY <1>3 DEF Tick, StepAdds
<1>4. CASE UNCHANGED vars
  BY <1>4 DEF vars, StepAdds
<1> QED
  BY <1>1, <1>2, <1>3, <1>4 DEF Next

\* The user who makes no progress has the same entry after the step.
LEMMA NoProgressSameEntry ==
  ASSUME TablesTyped, TablesTyped', StepAdds, NEW v \in Users, NoProgress(v)
  PROVE  Counted(v)' = Counted(v) /\ Entry(v)' = Entry(v)
<1>1. Counted(v)' = Counted(v)
  BY DEF Counted, StepAdds, NoProgress
<1>2. MetaLevel(v)' = MetaLevel(v)
  BY <1>1 DEF MetaLevel
<1>3. KillSum(Counted(v))' = KillSum(Counted(v))
  BY <1>1 DEF KillSum, MapThenSumSet, MapThenFoldSet
<1>4. \A l \in Levels : reached'[v][l] = reached[v][l]
  BY DEF StepAdds, NoProgress
<1>5. FirstReachedAt(v)' = FirstReachedAt(v)
  BY <1>2, <1>4 DEF FirstReachedAt
<1> QED
  BY <1>1, <1>2, <1>3, <1>5 DEF Entry

\* The entry of any user only gets better.
Improved(a, b) ==
  /\ b.metaLevel >= a.metaLevel
  /\ b.metaLevel = a.metaLevel =>
       /\ b.totalKills >= a.totalKills
       /\ a.firstReachedAt # None => b.firstReachedAt = a.firstReachedAt

\* A step leaves a listed user listed, with an entry that is no worse.
LEMMA EntryImproves ==
  ASSUME TablesTyped, TablesTyped', StepAdds, NEW u \in Listed
  PROVE  u \in Listed' /\ Improved(Entry(u), Entry(u)')
<1>0. u \in Users /\ Counted(u) # {}
  BY DEF Listed
<1>1. PICK r : runs' \subseteq runs \union {r}
  BY DEF StepAdds
<1>2. Counted(u) \subseteq Counted(u)' /\ Counted(u)' \subseteq Counted(u) \union {r}
  BY <1>1 DEF Counted, StepAdds
<1>3. u \in Listed'
  BY <1>0, <1>2 DEF Listed
<1>4. /\ MetaLevel(u) \in Nat /\ MetaLevel(u) \in LevelsOf(u)
      /\ MetaLevel(u)' \in Nat /\ \A l \in LevelsOf(u)' : l <= MetaLevel(u)'
  <2>1. MetaLevel(u) \in Nat /\ MetaLevel(u) \in LevelsOf(u)
    BY <1>0, MetaLevelType
  <2>2. TablesTyped' /\ (Counted(u) # {})'
         => (MetaLevel(u) \in Nat)' /\ (\A l \in LevelsOf(u) : l <= MetaLevel(u))'
    BY MetaLevelType, PTL
  <2> QED
    BY <1>0, <1>2, <2>1, <2>2
<1>5. MetaLevel(u) \in LevelsOf(u)'
  BY <1>2, <1>4 DEF LevelsOf
<1>6. MetaLevel(u)' >= MetaLevel(u)
  BY <1>4, <1>5
<1>7. KillSum(Counted(u))' >= KillSum(Counted(u))
  <2>1. IsFiniteSet(Counted(u)') /\ KillsKnown(Counted(u)')
    <3>1. (IsFiniteSet(Counted(u)) /\ KillsKnown(Counted(u)))'
      BY CountedFinite, PTL
    <3> QED
      BY <3>1 DEF KillsKnown
  <2>2. KillSum(Counted(u))' = KillSum(Counted(u)')
    BY DEF KillSum, MapThenSumSet, MapThenFoldSet
  <2>3. CASE Counted(u)' = Counted(u)
    BY <2>1, <2>2, <2>3, KillSumType
  <2>4. CASE Counted(u)' # Counted(u)
    <3>1. r \in Counted(u)' /\ Counted(u)' \ {r} = Counted(u)
      BY <1>2, <2>4
    <3>2. r.kills \in Nat
      BY <2>1, <3>1 DEF KillsKnown
    <3>3. /\ KillSum(Counted(u)) \in Nat
          /\ KillSum(Counted(u)') = r.kills + KillSum(Counted(u))
      BY <2>1, <3>1, KillSumSplit
    <3> QED
      BY <2>2, <3>2, <3>3
  <2> QED
    BY <2>3, <2>4
<1>8. ASSUME MetaLevel(u)' = MetaLevel(u), FirstReachedAt(u) # None
      PROVE  FirstReachedAt(u)' = FirstReachedAt(u)
  BY <1>0, <1>8 DEF FirstReachedAt, StepAdds
<1> QED
  BY <1>3, <1>6, <1>7, <1>8 DEF Improved, Entry

\* Who was ahead of b and got better is still ahead.
LEMMA ImprovedStaysAhead ==
  ASSUME NEW a \in EntryType, NEW c \in EntryType, NEW b \in EntryType,
         Before(a, b), Improved(a, c)
  PROVE  Before(c, b)
<1>1. /\ a.metaLevel \in Nat /\ a.totalKills \in Nat /\ a.firstReachedAt \in Nat \union {None}
      /\ b.metaLevel \in Nat /\ b.totalKills \in Nat /\ b.firstReachedAt \in Nat \union {None}
      /\ c.metaLevel \in Nat /\ c.totalKills \in Nat /\ c.firstReachedAt \in Nat \union {None}
  BY DEF EntryType
<1>2. CASE c.metaLevel > a.metaLevel
  BY ONLY <1>1, <1>2, Before(a, b) DEF Before
<1>3. CASE c.metaLevel = a.metaLevel
  <2>1. c.totalKills >= a.totalKills
    BY <1>3 DEF Improved
  <2>2. \/ c.firstReachedAt = a.firstReachedAt
        \/ a.firstReachedAt = None /\ Earlier(c.firstReachedAt, a.firstReachedAt)
    BY <1>1, <1>3 DEF Improved, Earlier
  <2>3. ~Earlier(None, b.firstReachedAt)
    BY DEF Earlier
  <2> QED
    BY ONLY <1>1, <1>3, <2>1, <2>2, <2>3, Before(a, b) DEF Before
<1> QED
  BY <1>1, <1>2, <1>3 DEF Improved

EntriesFit == \A u \in Listed : Entry(u) \in EntryType

\* EntryTyped as a state predicate, to be used after a step.
LEMMA EntriesFitLater ==
  TablesTyped => EntriesFit
BY EntryTyped DEF EntriesFit

\* Who is ahead of a user without progress is still ahead after the step.
LEMMA AheadStays ==
  ASSUME TablesTyped, TablesTyped', StepAdds, NEW u \in Users, NEW v \in Users,
         Ahead(leaderboard_entries, u, v), NoProgress(v)
  PROVE  Ahead(leaderboard_entries', u, v)
<1>1. PICK a \in leaderboard_entries :
        a.userId = u /\ \A b \in leaderboard_entries : b.userId = v => Before(a, b)
  BY DEF Ahead
<1>2. u \in Listed /\ a = Entry(u)
  BY <1>1, EntriesAre DEF Entry
<1>3. leaderboard_entries' = {Entry(w)' : w \in Listed'}
  BY DEF leaderboard_entries, Entry, Listed, KillSum, MapThenSumSet, MapThenFoldSet
<1>4. u \in Listed' /\ Improved(Entry(u), Entry(u)')
  BY <1>2, EntryImproves
<1>5. Entry(u)' \in EntryType
  <2>1. EntriesFit'
    BY EntriesFitLater, PTL
  <2> QED
    BY <1>4, <2>1 DEF EntriesFit, EntryType
<1>6. Entry(u)' \in leaderboard_entries' /\ Entry(u)'.userId = u
  BY <1>3, <1>4 DEF Entry
<1>7. ASSUME NEW b \in leaderboard_entries', b.userId = v
      PROVE  Before(Entry(u)', b)
  <2>1. v \in Listed' /\ b = Entry(v)'
    BY <1>3, <1>7 DEF Entry
  <2>2. v \in Listed /\ b = Entry(v)
    BY <2>1, NoProgressSameEntry DEF Listed
  <2>3. b \in leaderboard_entries /\ b \in EntryType
    BY <2>2, EntriesAre, EntryTyped
  <2>4. Before(a, b)
    BY <1>1, <1>7, <2>3
  <2> QED
    BY <1>2, <1>4, <1>5, <2>3, <2>4, EntryTyped, ImprovedStaysAhead
<1> QED
  BY <1>6, <1>7 DEF Ahead

\* Nobody loses a place but to another user's progress, whatever the order in which
\* runs and levels are stored.
THEOREM OvertakingNeedsProgress ==
  Spec => OvertakeNeedsProgress
<1>1. ASSUME TablesTyped, TablesTyped', [Next]_vars
      PROVE  [\A old \in {leaderboard_entries}, new \in {leaderboard_entries'} :
                \A u, v \in Users : Ahead(old, u, v) /\ ~Ahead(new, u, v) =>
                  \/ \E r \in runs' \ runs : r.user = v /\ r.eligible
                  \/ \E l \in Levels : reached[v][l] = None /\ reached'[v][l] # None]_vars
  <2>1. StepAdds
    BY <1>1, StepsAdd
  <2>2. ASSUME NEW u \in Users, NEW v \in Users,
               Ahead(leaderboard_entries, u, v), ~Ahead(leaderboard_entries', u, v)
        PROVE  ~NoProgress(v)
    BY <1>1, <2>1, <2>2, AheadStays
  <2> QED
    BY <2>2 DEF NoProgress
<1> QED
  BY TablesKeepShape, <1>1, PTL DEF Spec, OvertakeNeedsProgress
================================================================================
