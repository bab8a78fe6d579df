------------------------------- MODULE SaveSync -------------------------------
(***************************************************************************)
(* The server's copy of one account's save: PUT /saves/me with its         *)
(* optimistic lock, POST /idle-rewards/claim with its transaction, and the *)
(* table MetaLevelReached both of them write                               *)
(* (src/src/saves/saves.service.ts,                                        *)
(* src/src/idle-rewards/idle-rewards.service.ts,                           *)
(* src/src/common/meta-level-reached.ts).  Every query names the user, so  *)
(* accounts do not interact and one is enough.                             *)
(*                                                                         *)
(* An action is one statement of the database with the code up to the next *)
(* await; the claim's statements up to the commit are one action, because  *)
(* its update holds the row's lock until the commit.                       *)
(***************************************************************************)
EXTENDS Integers

CONSTANTS
  Puts,               \* the requests PUT /saves/me
  Claims,             \* the requests POST /idle-rewards/claim
  None,               \* the absent row or time
  Bodies,             \* the saves a PUT may carry
  Cap,                \* META_LEVEL_CAP
  TotalXp,            \* TotalXp[l]: the XP that leads from level 1 to level l
  XP_BASE_ALLOWANCE, MAX_XP_PER_SEC, GOLD_BASE_ALLOWANCE, MAX_GOLD_PER_SEC,
  IdleGold(_, _),     \* gold for a time away at a level
  IdleXp(_, _),       \* XP for a time away at a level
  MaxOffline,         \* the longest time away that is paid
  MaxTime,            \* bound of the clock
  SerialClients,      \* TRUE: one device, which awaits each answer
  Faults              \* TRUE: a request may die between two of its statements

Levels == 1..Cap

BodyType == [level : Int, xp : Int, gold : Int]

\* The row GameSave.
SaveType == [version : Nat, level : Levels, xp : Nat, gold : Nat,
             lastActiveAt : Nat, updatedAt : Nat]

ASSUME ConstantsAssumption ==
  /\ Cap \in Nat \ {0}
  /\ TotalXp \in [Levels -> Nat]
  /\ \A l \in 1..(Cap - 1) : TotalXp[l] < TotalXp[l + 1]
  /\ Bodies \subseteq BodyType
  /\ {XP_BASE_ALLOWANCE, MAX_XP_PER_SEC, GOLD_BASE_ALLOWANCE,
      MAX_GOLD_PER_SEC, MaxOffline, MaxTime} \subseteq Nat
  /\ SerialClients \in BOOLEAN
  /\ Faults \in BOOLEAN

\* What a time away is worth is a number, and the absent value is none.
ASSUME IdleAssumption ==
  /\ \A t \in 0..MaxOffline, l \in Levels : IdleGold(t, l) \in Nat
  /\ \A t \in 0..MaxOffline, l \in Levels : IdleXp(t, l) \in Nat

ASSUME NoneAssumption == None \notin Nat /\ None \notin SaveType

VARIABLES
  now,       \* the clock, in units in which the rates are whole numbers
  save,      \* the account's GameSave row, or None
  reached,   \* reached[l]: MetaLevelReached.reachedAt of level l, or None
  put,       \* the PUT requests
  claim,     \* the claim requests
  born,      \* history: when the row was created
  paid       \* history: the time away paid for so far

vars == <<now, save, reached, put, claim, born, paid>>

-------------------------------------------------------------------------------
(* Domains *)

PutType == [pc : {"idle", "checked", "lost", "updated", "levels",
                  "done", "conflict", "rejected", "error", "failed"},
            version : Nat,
            body : BodyType,
            seen : SaveType \union {None},
            answer : Nat,
            next : Nat,
            at : Nat]

ClaimType == [pc : {"idle", "started", "read", "done", "rejected", "failed"},
              at : Nat,
              seen : SaveType \union {None}]

PutInFlight(p) == put[p].pc \in {"checked", "lost", "updated", "levels"}
ClaimInFlight(c) == claim[c].pc \in {"started", "read"}

\* validateKnownFields
Valid(b) == b.level \in Levels /\ b.xp >= 0 /\ b.gold >= 0

TypeOK ==
  /\ now \in Nat
  /\ save \in SaveType \union {None}
  /\ reached \in [Levels -> Nat \union {None}]
  /\ put \in [Puts -> PutType]
  /\ claim \in [Claims -> ClaimType]
  /\ born \in Nat
  /\ paid \in Nat
  /\ \A p \in Puts : PutInFlight(p) => Valid(put[p].body)
  /\ \A c \in Claims : claim[c].pc = "read" => claim[c].seen # None

-------------------------------------------------------------------------------
(* What the code computes *)

AtMost(a, b) == IF a <= b THEN a ELSE b
AtLeast(a, b) == IF a >= b THEN a ELSE b

\* totalMetaXp
Total(x) == TotalXp[x.level] + x.xp

PlausibleXp(old, new, t) ==
  Total(new) - Total(old) <= XP_BASE_ALLOWANCE + MAX_XP_PER_SEC * t

PlausibleGold(old, new, t) ==
  new.gold - old.gold <= GOLD_BASE_ALLOWANCE + MAX_GOLD_PER_SEC * t

\* assertPlausibleIncrease, against the row read one statement earlier.
Plausible(old, new) ==
  LET t == AtLeast(0, now - old.updatedAt)
  IN PlausibleXp(old, new, t) /\ PlausibleGold(old, new, t)

\* The loop of claim(): the levels at which total XP x stops, from level l on.
LevelsFor(l, x) ==
  {k \in l..Cap : /\ TotalXp[k] <= x \/ k = l
                  /\ k < Cap => x < TotalXp[k + 1]}

\* The unpaid time a claim stamped at t finds in a row, capped.
TimeAway(t, row) == AtMost(MaxOffline, AtLeast(0, t - row.lastActiveAt))

\* An assumption on clients: they send a version the server has given out, which
\* is never larger than the one of the row.  The code takes any number.
KnownVersions == 0..(IF save = None THEN 0 ELSE save.version)

MayCall ==
  SerialClients => /\ \A p \in Puts : ~PutInFlight(p)
                   /\ \A c \in Claims : ~ClaimInFlight(c)

-------------------------------------------------------------------------------
(* The actions *)

NoBody == [level |-> 1, xp |-> 0, gold |-> 0]

Init ==
  /\ now = 0
  /\ save = None
  /\ reached = [l \in Levels |-> None]
  /\ put = [p \in Puts |-> [pc |-> "idle", version |-> 0, body |-> NoBody,
                            seen |-> None, answer |-> 0, next |-> 0, at |-> 0]]
  /\ claim = [c \in Claims |-> [pc |-> "idle", at |-> 0, seen |-> None]]
  /\ born = 0
  /\ paid = 0

PutInvalid(p, b) ==
  /\ put[p].pc = "idle"
  /\ MayCall
  /\ ~Valid(b)
  /\ put' = [put EXCEPT ![p].pc = "rejected"]
  /\ UNCHANGED <<now, save, reached, claim, born, paid>>

\* Where a PUT stands once it has read the row: another version is a conflict,
\* answered with the row just read.
AfterRead(v) == IF save # None /\ save.version # v THEN "conflict" ELSE "checked"

\* putMine up to its first await: validation and findUnique.
PutRead(p, v, b) ==
  /\ put[p].pc = "idle"
  /\ MayCall
  /\ Valid(b)
  /\ put' = [put EXCEPT ![p] =
               [pc |-> AfterRead(v), version |-> v, body |-> b, seen |-> save,
                answer |-> IF save = None THEN 0 ELSE save.version,
                next |-> 0, at |-> 0]]
  /\ UNCHANGED <<now, save, reached, claim, born, paid>>

\* The row a PUT writes, stamped with the time of the write.
RowOf(p) == [version |-> put[p].version + 1, level |-> put[p].body.level,
             xp |-> put[p].body.xp, gold |-> put[p].body.gold,
             lastActiveAt |-> now, updatedAt |-> now]

\* First upload: the insert.
PutCreate(p) ==
  /\ put[p].pc = "checked"
  /\ put[p].seen = None
  /\ save = None
  /\ save' = RowOf(p)
  /\ born' = now
  /\ put' = [put EXCEPT ![p].pc = "updated"]
  /\ UNCHANGED <<now, reached, claim, paid>>

\* First upload, but another one came first: userId is unique, the insert
\* throws and nothing catches it.
PutCreateClash(p) ==
  /\ put[p].pc = "checked"
  /\ put[p].seen = None
  /\ save # None
  /\ put' = [put EXCEPT ![p].pc = "error"]
  /\ UNCHANGED <<now, save, reached, claim, born, paid>>

PutImplausible(p) ==
  /\ put[p].pc = "checked"
  /\ put[p].seen # None
  /\ ~Plausible(put[p].seen, put[p].body)
  /\ put' = [put EXCEPT ![p].pc = "rejected"]
  /\ UNCHANGED <<now, save, reached, claim, born, paid>>

\* Mutant: the update names the user only.
MatchesAnyVersion(p) == save.version >= put[p].version

\* The condition of updateMany.
Matches(p) == save.version = put[p].version

PutUpdate(p) ==
  /\ put[p].pc = "checked"
  /\ put[p].seen # None
  /\ Plausible(put[p].seen, put[p].body)
  /\ Matches(p)
  /\ save' = RowOf(p)
  /\ put' = [put EXCEPT ![p].pc = "updated"]
  /\ UNCHANGED <<now, reached, claim, born, paid>>

\* updateMany changed no row.
PutUpdateMisses(p) ==
  /\ put[p].pc = "checked"
  /\ put[p].seen # None
  /\ Plausible(put[p].seen, put[p].body)
  /\ ~Matches(p)
  /\ put' = [put EXCEPT ![p].pc = "lost"]
  /\ UNCHANGED <<now, save, reached, claim, born, paid>>

\* Mutant: the 409 carries the row read at first.
PutRereadStale(p) ==
  /\ put[p].pc = "lost"
  /\ put' = [put EXCEPT ![p].pc = "conflict"]
  /\ UNCHANGED <<now, save, reached, claim, born, paid>>

\* The row is read again for the body of the 409.
PutReread(p) ==
  /\ put[p].pc = "lost"
  /\ put' = [put EXCEPT ![p] = [@ EXCEPT !.pc = "conflict",
                                         !.answer = save.version]]
  /\ UNCHANGED <<now, save, reached, claim, born, paid>>

\* Mutant: an off-by-one in the loop of recordMetaLevels.
FirstNewLevelSkips(row) == IF row = None THEN 1 ELSE row.level + 2

\* recordMetaLevels starts above the level the row had when it was read.
FirstNewLevel(row) == IF row = None THEN 1 ELSE row.level + 1

\* The handler goes on after its write: recordMetaLevels takes its time stamp.
PutResume(p) ==
  /\ put[p].pc = "updated"
  /\ put' = [put EXCEPT ![p] = [@ EXCEPT !.pc = "levels",
                                         !.next = FirstNewLevel(put[p].seen),
                                         !.at = now]]
  /\ UNCHANGED <<now, save, reached, claim, born, paid>>

\* Mutant: the upsert updates the time of a level that has a row.
WithLevelOverwritten(l, t) == [reached EXCEPT ![l] = t]

\* The upsert of one level: a level that has a row keeps it.
WithLevel(l, t) == [reached EXCEPT ![l] = IF @ = None THEN t ELSE @]

PutRecordLevel(p) ==
  /\ put[p].pc = "levels"
  /\ put[p].next <= put[p].body.level
  /\ reached' = WithLevel(put[p].next, put[p].at)
  /\ put' = [put EXCEPT ![p].next = @ + 1]
  /\ UNCHANGED <<now, save, claim, born, paid>>

PutDone(p) ==
  /\ put[p].pc = "levels"
  /\ put[p].next > put[p].body.level
  /\ put' = [put EXCEPT ![p].pc = "done"]
  /\ UNCHANGED <<now, save, reached, claim, born, paid>>

\* claim() takes its time before the transaction begins.
ClaimStart(c) ==
  /\ claim[c].pc = "idle"
  /\ MayCall
  /\ claim' = [claim EXCEPT ![c] = [pc |-> "started", at |-> now, seen |-> None]]
  /\ UNCHANGED <<now, save, reached, put, born, paid>>

ClaimRead(c) ==
  /\ claim[c].pc = "started"
  /\ claim' = [claim EXCEPT ![c] =
                 [@ EXCEPT !.pc = IF save = None THEN "rejected" ELSE "read",
                           !.seen = save]]
  /\ UNCHANGED <<now, save, reached, put, born, paid>>

\* Mutant: the version is not incremented.
RewardedSameVersion(row, seen, t, l, x) ==
  [version |-> row.version, level |-> l,
   xp |-> IF l = Cap THEN 0 ELSE x - TotalXp[l],
   gold |-> row.gold + IdleGold(TimeAway(t, seen), seen.level),
   lastActiveAt |-> t, updatedAt |-> now]

\* Mutant: lastActiveAt is not moved.
RewardedSameClock(row, seen, t, l, x) ==
  [version |-> row.version + 1, level |-> l,
   xp |-> IF l = Cap THEN 0 ELSE x - TotalXp[l],
   gold |-> row.gold + IdleGold(TimeAway(t, seen), seen.level),
   lastActiveAt |-> row.lastActiveAt, updatedAt |-> now]

\* Mutant: the XP left over inside the level is dropped.
RewardedWithoutRest(row, seen, t, l, x) ==
  [version |-> row.version + 1, level |-> l, xp |-> 0,
   gold |-> row.gold + IdleGold(TimeAway(t, seen), seen.level),
   lastActiveAt |-> t, updatedAt |-> now]

\* The row a claim stamped at t writes when it ends at level l with total x:
\* gold and version are incremented where they are, level and XP are set.
Rewarded(row, seen, t, l, x) ==
  [version |-> row.version + 1, level |-> l,
   xp |-> IF l = Cap THEN 0 ELSE x - TotalXp[l],
   gold |-> row.gold + IdleGold(TimeAway(t, seen), seen.level),
   lastActiveAt |-> t, updatedAt |-> now]

ClaimCommit(c) ==
  /\ claim[c].pc = "read"
  /\ LET seen == claim[c].seen
         t == claim[c].at
         away == TimeAway(t, seen)
         x == Total(seen) + IdleXp(away, seen.level)
     IN \E l \in LevelsFor(seen.level, x) :
          /\ save' = Rewarded(save, seen, t, l, x)
          /\ reached' = [k \in Levels |->
                           IF k \in (seen.level + 1)..l /\ reached[k] = None
                           THEN t ELSE reached[k]]
          /\ paid' = paid + away
  /\ claim' = [claim EXCEPT ![c].pc = "done"]
  /\ UNCHANGED <<now, put, born>>

\* A statement fails or the process dies; a claim in flight is rolled back.
PutFails(p) ==
  /\ Faults
  /\ PutInFlight(p)
  /\ put' = [put EXCEPT ![p].pc = "failed"]
  /\ UNCHANGED <<now, save, reached, claim, born, paid>>

ClaimFails(c) ==
  /\ Faults
  /\ ClaimInFlight(c)
  /\ claim' = [claim EXCEPT ![c].pc = "failed"]
  /\ UNCHANGED <<now, save, reached, put, born, paid>>

Tick ==
  /\ now < MaxTime
  /\ now' = now + 1
  /\ UNCHANGED <<save, reached, put, claim, born, paid>>

\* What a PUT does once it has been taken up.
PutStep(p) ==
  \/ PutCreate(p) \/ PutCreateClash(p) \/ PutImplausible(p)
  \/ PutUpdate(p) \/ PutUpdateMisses(p) \/ PutReread(p)
  \/ PutResume(p) \/ PutRecordLevel(p) \/ PutDone(p)

Next ==
  \/ \E p \in Puts :
       \/ \E b \in Bodies : PutInvalid(p, b)
       \/ \E v \in KnownVersions, b \in Bodies : PutRead(p, v, b)
       \/ PutStep(p)
       \/ PutFails(p)
  \/ \E c \in Claims :
       ClaimStart(c) \/ ClaimRead(c) \/ ClaimCommit(c) \/ ClaimFails(c)
  \/ Tick

Spec == Init /\ [][Next]_vars

\* The database answers, so an await is resumed.
FairSpec == Spec /\ \A p \in Puts : WF_vars(PutStep(p))

-------------------------------------------------------------------------------
(* Properties *)

\* The version tells saves apart: a PUT or a claim that read version v and
\* still finds version v finds the very row it read.  The optimistic lock of
\* putMine rests on it, with claims and other PUTs writing in between.
VersionIdentifiesSave ==
  /\ \A p \in Puts :
       PutInFlight(p) /\ put[p].seen # None /\ save # None
         /\ put[p].seen.version = save.version => put[p].seen = save
  /\ \A c \in Claims :
       claim[c].pc = "read" /\ claim[c].seen.version = save.version
         => claim[c].seen = save

\* Every accepted PUT is a plausible step from the row it replaces, measured by
\* the time since that row was written, whatever was read when.
AcceptedPutsPlausible ==
  [][\A p \in Puts :
       put[p].pc = "checked" /\ put'[p].pc = "updated" /\ save # None =>
         LET t == now - save.updatedAt
         IN /\ t >= 0
            /\ Total(save') - Total(save) <= XP_BASE_ALLOWANCE + MAX_XP_PER_SEC * t
            /\ save'.gold - save.gold
                 <= GOLD_BASE_ALLOWANCE + MAX_GOLD_PER_SEC * t]_vars

\* A 409 carries a newer save than the one the client knew, so adopting it
\* makes progress.
ConflictBodyIsNewer ==
  \A p \in Puts : put[p].pc = "conflict" => put[p].answer > put[p].version

\* The same stretch of time is paid once: what was paid and what a claim would
\* pay now fit into the age of the save.
IdleTimePaidOnce ==
  save # None => paid + AtLeast(0, now - save.lastActiveAt) <= now - born

\* A claim adds to the account's XP and takes none away, short of the cap.
ClaimKeepsProgress ==
  [][\A c \in Claims :
       claim[c].pc = "read" /\ claim'[c].pc = "done" =>
         save'.level = Cap \/ Total(save') >= Total(save)]_vars

\* A higher level was not reached before a lower one: the leaderboard breaks
\* ties by reachedAt.
LevelsReachedInOrder ==
  \A k, l \in Levels :
    k < l /\ reached[k] # None /\ reached[l] # None => reached[k] <= reached[l]

\* The save's level, and every level below it, is in MetaLevelReached sooner or
\* later, unless a PUT of such a level died: putMine records levels after its
\* update and outside of any transaction.
LevelsRecorded ==
  \A l \in Levels :
    (save # None /\ l <= save.level) ~>
      \/ reached[l] # None
      \/ \E p \in Puts : put[p].pc = "failed" /\ put[p].body.level >= l

-------------------------------------------------------------------------------
(* The inductive invariant behind the optimistic lock. *)

\* No request holds a row from the future.
SeenBehind ==
  /\ \A p \in Puts : PutInFlight(p) /\ put[p].seen # None =>
       save # None /\ put[p].seen.version <= save.version
  /\ \A c \in Claims : claim[c].pc = "read" =>
       save # None /\ claim[c].seen.version <= save.version

\* Past the version check the row read has the version of the request, and a
\* PUT that missed its row was overtaken.
CheckedVersion ==
  \A p \in Puts :
    /\ put[p].pc = "checked" /\ put[p].seen # None =>
         put[p].seen.version = put[p].version
    /\ put[p].pc = "lost" => save # None /\ put[p].version < save.version

WrittenBefore == save # None => save.updatedAt <= now

\* VersionIdentifiesSave and ConflictBodyIsNewer with what makes them
\* inductive: every write of putMine and claim moves the version up.
LockInv ==
  /\ TypeOK
  /\ SeenBehind
  /\ CheckedVersion
  /\ WrittenBefore
  /\ VersionIdentifiesSave
  /\ ConflictBodyIsNewer
===============================================================================
