---------------------------- MODULE SaveSyncProofs ----------------------------
(* Theorems about SaveSync, for every value of its constants. *)
EXTENDS SaveSync, TLAPS, WellFoundedInduction

-------------------------------------------------------------------------------
(* The arithmetic of a claim. *)

\* Total XP is a natural number.
LEMMA TotalType ==
  ASSUME NEW x \in SaveType PROVE Total(x) \in Nat /\ Total(x) >= TotalXp[x.level]
  BY ConstantsAssumption DEF Total, SaveType, Levels

\* The time a claim pays is within the cap.
LEMMA TimeAwayType ==
  ASSUME NEW t \in Nat, NEW x \in SaveType PROVE TimeAway(t, x) \in 0..MaxOffline
  BY ConstantsAssumption DEF TimeAway, AtMost, AtLeast, SaveType

\* What a claim writes is a row again: levelling up leaves no negative XP.
LEMMA RewardedType ==
  ASSUME NEW row \in SaveType, NEW seen \in SaveType, NEW t \in Nat, now \in Nat,
         NEW x \in Nat, x >= TotalXp[seen.level],
         NEW l \in LevelsFor(seen.level, x)
  PROVE  Rewarded(row, seen, t, l, x) \in SaveType
<1>1. l \in Levels /\ TotalXp[l] \in Nat /\ TotalXp[l] <= x
  <2>1. seen.level \in Levels
    BY DEF SaveType
  <2>2. l \in seen.level..Cap /\ (TotalXp[l] <= x \/ l = seen.level)
    BY DEF LevelsFor
  <2>3. l \in Levels
    BY <2>1, <2>2, ConstantsAssumption DEF Levels
  <2> QED BY <2>2, <2>3, ConstantsAssumption
<1>2. IdleGold(TimeAway(t, seen), seen.level) \in Nat
  BY TimeAwayType, IdleAssumption DEF SaveType
<1> QED BY <1>1, <1>2 DEF Rewarded, SaveType

\* The row a request writes.
LEMMA RowType ==
  ASSUME TypeOK, NEW p \in Puts, PutInFlight(p) PROVE RowOf(p) \in SaveType
<1>1. put[p] \in PutType /\ Valid(put[p].body)
  BY DEF TypeOK
<1> QED BY <1>1 DEF RowOf, SaveType, PutType, Valid, TypeOK, BodyType

-------------------------------------------------------------------------------
(* Type correctness. *)

LEMMA InitType == Init => TypeOK
<1> SUFFICES ASSUME Init PROVE TypeOK
  OBVIOUS
<1>1. put \in [Puts -> PutType]
  <2>1. NoBody \in BodyType
    BY DEF NoBody, BodyType
  <2> QED BY <2>1 DEF Init, PutType
<1>2. claim \in [Claims -> ClaimType]
  BY DEF Init, ClaimType
<1>3. \A p \in Puts : ~PutInFlight(p)
  BY DEF Init, PutInFlight
<1> QED BY <1>1, <1>2, <1>3 DEF Init, TypeOK

\* A step that changes only the requests, one of them, keeps the types.
LEMMA PutOnlyType ==
  ASSUME TypeOK, NEW p \in Puts, NEW q \in PutType, put' = [put EXCEPT ![p] = q],
         q.pc \in {"checked", "lost", "updated", "levels"} => Valid(q.body),
         UNCHANGED <<now, save, reached, claim, born, paid>>
  PROVE  TypeOK'
<1>1. put' \in [Puts -> PutType] /\ put'[p] = q
  BY DEF TypeOK
<1>2. \A r \in Puts : r # p => put'[r] = put[r]
  BY DEF TypeOK
<1>3. \A r \in Puts : PutInFlight(r)' => Valid(put'[r].body)
  BY <1>1, <1>2 DEF TypeOK, PutInFlight
<1> QED BY <1>1, <1>3 DEF TypeOK, Valid

\* A claim finds the row it read, perhaps changed, and writes a row.
LEMMA CommitWrites ==
  ASSUME LockInv, NEW c \in Claims, ClaimCommit(c)
  PROVE  /\ save \in SaveType /\ save' \in SaveType
         /\ save'.version = save.version + 1 /\ save'.updatedAt = now
         /\ reached' \in [Levels -> Nat \union {None}]
         /\ paid' \in Nat
<1> DEFINE seen == claim[c].seen
           t == claim[c].at
           away == TimeAway(t, seen)
           x == Total(seen) + IdleXp(away, seen.level)
<1>0. TypeOK
  BY DEF LockInv
<1>1. claim[c].pc = "read" /\ claim[c] \in ClaimType
  BY <1>0 DEF ClaimCommit, TypeOK
<1>2. save \in SaveType /\ seen \in SaveType /\ t \in Nat /\ now \in Nat
  BY <1>0, <1>1 DEF LockInv, SeenBehind, TypeOK, ClaimType
<1>3. PICK l \in LevelsFor(seen.level, x) :
           /\ save' = Rewarded(save, seen, t, l, x)
           /\ reached' = [k \in Levels |->
                            IF k \in (seen.level + 1)..l /\ reached[k] = None
                            THEN t ELSE reached[k]]
           /\ paid' = paid + away
  BY DEF ClaimCommit
<1>4. away \in Nat /\ away \in 0..MaxOffline
  BY <1>2, TimeAwayType, ConstantsAssumption
<1>5. x \in Nat /\ x >= TotalXp[seen.level]
  <2>1. Total(seen) \in Nat /\ Total(seen) >= TotalXp[seen.level]
    BY <1>2, TotalType
  <2>2. IdleXp(away, seen.level) \in Nat
    BY <1>2, <1>4, IdleAssumption DEF SaveType
  <2>3. TotalXp[seen.level] \in Nat
    BY <1>2, ConstantsAssumption DEF SaveType
  <2> HIDE DEF away, seen
  <2> QED BY <2>1, <2>2, <2>3
<1> HIDE DEF seen, t, away, x
<1>6. save' \in SaveType
  BY <1>2, <1>3, <1>5, RewardedType
<1>7. reached' \in [Levels -> Nat \union {None}]
  BY <1>0, <1>2, <1>3 DEF TypeOK
<1>8. paid' \in Nat
  BY <1>0, <1>3, <1>4 DEF TypeOK
<1>9. save'.version = save.version + 1 /\ save'.updatedAt = now
  BY <1>3 DEF Rewarded
<1> QED BY <1>2, <1>6, <1>7, <1>8, <1>9

\* That a row once read does not disappear comes from LockInv.
LEMMA TypeStep == LockInv /\ [Next]_vars => TypeOK'
<1> SUFFICES ASSUME LockInv, [Next]_vars PROVE TypeOK'
  OBVIOUS
<1>0. TypeOK
  BY DEF LockInv
<1> USE <1>0
<1>1. CASE UNCHANGED vars
  BY <1>1 DEF TypeOK, vars, PutInFlight, Valid
<1>2. ASSUME NEW p \in Puts, NEW b \in Bodies, PutInvalid(p, b) PROVE TypeOK'
  <2>1. put[p] \in PutType /\ [put[p] EXCEPT !.pc = "rejected"] \in PutType
    BY DEF TypeOK, PutType
  <2>2. [put[p] EXCEPT !.pc = "rejected"].pc = "rejected"
    BY <2>1 DEF PutType
  <2> QED BY <1>2, <2>1, <2>2, PutOnlyType DEF PutInvalid
<1>3. ASSUME NEW p \in Puts, NEW v \in KnownVersions, NEW b \in Bodies,
             PutRead(p, v, b)
      PROVE  TypeOK'
  <2> DEFINE q == [pc |-> AfterRead(v), version |-> v, body |-> b, seen |-> save,
                   answer |-> IF save = None THEN 0 ELSE save.version,
                   next |-> 0, at |-> 0]
  <2>1. q \in PutType
    BY ConstantsAssumption DEF TypeOK, PutType, AfterRead, KnownVersions, SaveType
  <2>2. Valid(b)
    BY <1>3 DEF PutRead
  <2> QED BY <1>3, <2>1, <2>2, PutOnlyType DEF PutRead
<1>4. ASSUME NEW p \in Puts, PutStep(p) PROVE TypeOK'
  <2>1. put[p] \in PutType
    BY DEF TypeOK
  <2>2. CASE PutCreate(p) \/ PutUpdate(p)
    <3>1. PutInFlight(p)
      BY <2>2 DEF PutCreate, PutUpdate, PutInFlight
    <3>2. RowOf(p) \in SaveType /\ Valid(put[p].body)
      BY <3>1, RowType DEF TypeOK
    <3>3. put' = [put EXCEPT ![p].pc = "updated"] /\ save' = RowOf(p)
      BY <2>2 DEF PutCreate, PutUpdate
    <3>4. put' \in [Puts -> PutType]
      BY <3>3 DEF TypeOK, PutType
    <3>5. \A r \in Puts : PutInFlight(r)' => Valid(put'[r].body)
      BY <3>2, <3>3 DEF TypeOK, PutInFlight, PutType
    <3> QED BY <2>2, <3>2, <3>3, <3>4, <3>5
            DEF PutCreate, PutUpdate, TypeOK, Valid
  <2>3. ASSUME NEW s \in {"error", "rejected", "lost", "done"},
               put' = [put EXCEPT ![p].pc = s], PutInFlight(p),
               UNCHANGED <<now, save, reached, claim, born, paid>>
        PROVE  TypeOK'
    <3>1. /\ [put[p] EXCEPT !.pc = s] \in PutType
          /\ [put[p] EXCEPT !.pc = s].body = put[p].body
      BY <2>1 DEF PutType
    <3> QED BY <2>3, <3>1, PutOnlyType DEF TypeOK
  <2>4. CASE PutCreateClash(p) \/ PutImplausible(p) \/ PutUpdateMisses(p)
               \/ PutDone(p)
    BY <2>3, <2>4 DEF PutCreateClash, PutImplausible, PutUpdateMisses, PutDone,
                      PutInFlight
  <2>5. CASE PutReread(p)
    <3> DEFINE q == [put[p] EXCEPT !.pc = "conflict", !.answer = save.version]
    <3>1. save.version \in Nat
      <4>1. save # None
        BY <2>5 DEF PutReread, LockInv, CheckedVersion
      <4> QED BY <4>1 DEF TypeOK, SaveType
    <3>2. q \in PutType /\ q.pc = "conflict"
      BY <2>1, <3>1, Zenon DEF PutType
    <3> QED BY <2>5, <3>2, PutOnlyType DEF PutReread
  <2>6. CASE PutResume(p)
    <3> DEFINE n == FirstNewLevel(put[p].seen)
               q == [put[p] EXCEPT !.pc = "levels", !.next = n, !.at = now]
    <3>1. n \in Nat /\ now \in Nat
      <4>1. put[p].seen \in SaveType \union {None}
        BY <2>1 DEF PutType
      <4>2. CASE put[p].seen = None
        BY <4>2 DEF FirstNewLevel, TypeOK
      <4>3. CASE put[p].seen # None
        <5>1. put[p].seen.level \in Levels
          BY <4>1, <4>3 DEF SaveType
        <5>2. put[p].seen.level \in Nat
          BY <5>1, ConstantsAssumption DEF Levels
        <5> QED BY <4>3, <5>2 DEF FirstNewLevel, TypeOK
      <4> QED BY <4>2, <4>3
    <3> HIDE DEF n
    <3>2. q \in PutType /\ q.body = put[p].body
      BY <2>1, <3>1, Zenon DEF PutType
    <3>3. Valid(put[p].body)
      BY <2>6 DEF PutResume, TypeOK, PutInFlight
    <3>4. put' = [put EXCEPT ![p] = q]
      BY <2>6 DEF PutResume, n
    <3> HIDE DEF q
    <3> QED BY <2>6, <3>2, <3>3, <3>4, PutOnlyType DEF PutResume
  <2>7. CASE PutRecordLevel(p)
    <3>1. Valid(put[p].body) /\ put[p].next \in Nat
      BY <2>1, <2>7 DEF PutRecordLevel, TypeOK, PutInFlight, PutType
    <3>2. put' \in [Puts -> PutType]
      BY <2>7, <3>1 DEF PutRecordLevel, TypeOK, PutType
    <3>3. reached' \in [Levels -> Nat \union {None}]
      BY <2>1, <2>7 DEF PutRecordLevel, WithLevel, TypeOK, PutType
    <3>4. \A r \in Puts : PutInFlight(r)' => Valid(put'[r].body)
      BY <2>7, <3>1 DEF PutRecordLevel, TypeOK, PutInFlight, PutType
    <3> QED BY <2>7, <3>2, <3>3, <3>4 DEF PutRecordLevel, TypeOK, Valid
  <2> QED BY <1>4, <2>2, <2>4, <2>5, <2>6, <2>7 DEF PutStep
<1>5. ASSUME NEW p \in Puts, PutFails(p) PROVE TypeOK'
  <2>1. put[p] \in PutType /\ [put[p] EXCEPT !.pc = "failed"] \in PutType
    BY DEF TypeOK, PutType
  <2>2. [put[p] EXCEPT !.pc = "failed"].pc = "failed"
    BY <2>1 DEF PutType
  <2> QED BY <1>5, <2>1, <2>2, PutOnlyType DEF PutFails
<1>6. ASSUME NEW c \in Claims, ClaimStart(c) \/ ClaimFails(c) PROVE TypeOK'
  <2>1. claim' \in [Claims -> ClaimType]
    BY <1>6 DEF ClaimStart, ClaimFails, TypeOK, ClaimType
  <2>2. \A d \in Claims : claim'[d].pc = "read" => claim'[d].seen # None
    BY <1>6 DEF ClaimStart, ClaimFails, TypeOK, ClaimType
  <2> QED BY <1>6, <2>1, <2>2
          DEF ClaimStart, ClaimFails, TypeOK, PutInFlight, Valid
<1>7. ASSUME NEW c \in Claims, ClaimRead(c) PROVE TypeOK'
  <2> DEFINE q == [claim[c] EXCEPT
                     !.pc = IF save = None THEN "rejected" ELSE "read",
                     !.seen = save]
  <2>1. claim[c] \in ClaimType /\ save \in SaveType \union {None}
    BY DEF TypeOK
  <2>2. q \in ClaimType /\ q.pc = (IF save = None THEN "rejected" ELSE "read")
          /\ q.seen = save
    BY <2>1, Zenon DEF ClaimType
  <2>3. claim' = [claim EXCEPT ![c] = q]
    BY <1>7 DEF ClaimRead
  <2> HIDE DEF q
  <2>4. claim' \in [Claims -> ClaimType]
    BY <2>2, <2>3 DEF TypeOK
  <2>5. \A d \in Claims : claim'[d].pc = "read" => claim'[d].seen # None
    BY <2>2, <2>3 DEF TypeOK
  <2> QED BY <1>7, <2>4, <2>5 DEF ClaimRead, TypeOK, PutInFlight, Valid
<1>8. ASSUME NEW c \in Claims, ClaimCommit(c) PROVE TypeOK'
  <2>1. claim' = [claim EXCEPT ![c].pc = "done"] /\ UNCHANGED <<now, put, born>>
    BY <1>8 DEF ClaimCommit
  <2>2. claim' \in [Claims -> ClaimType]
    BY <2>1 DEF TypeOK, ClaimType
  <2>3. \A d \in Claims : claim'[d].pc = "read" => claim'[d].seen # None
    BY <2>1 DEF TypeOK, ClaimType
  <2> QED BY <1>8, <2>1, <2>2, <2>3, CommitWrites DEF TypeOK, PutInFlight, Valid
<1>9. CASE Tick
  BY <1>9 DEF Tick, TypeOK, PutInFlight, Valid
<1> QED BY <1>1, <1>2, <1>3, <1>4, <1>5, <1>6, <1>7, <1>8, <1>9 DEF Next

-------------------------------------------------------------------------------
(* What one step does to the row, to a PUT and to a claim. *)

\* The row is never deleted, and every write gives it a higher version and the
\* time of the write.
LEMMA SaveMoves ==
  ASSUME LockInv, [Next]_vars
  PROVE  \/ save' = save
         \/ /\ save' \in SaveType /\ save' # None
            /\ save # None => save'.version > save.version
            /\ save'.updatedAt = now /\ now' = now
<1> DEFINE Written == /\ save' \in SaveType /\ save' # None
                      /\ save # None => save'.version > save.version
                      /\ save'.updatedAt = now /\ now' = now
<1>0. TypeOK /\ save \in SaveType \union {None}
  BY DEF LockInv, TypeOK
<1>1. ASSUME NEW p \in Puts, PutCreate(p) \/ PutUpdate(p) PROVE Written
  <2>1. PutInFlight(p) /\ put[p] \in PutType
    BY <1>0, <1>1 DEF PutCreate, PutUpdate, PutInFlight, TypeOK
  <2>2. save' = RowOf(p) /\ now' = now /\ RowOf(p) \in SaveType
    BY <1>0, <1>1, <2>1, RowType DEF PutCreate, PutUpdate
  <2>3. save'.version = put[p].version + 1 /\ save'.updatedAt = now
    BY <2>2 DEF RowOf
  <2>4. save # None => save.version = put[p].version
    BY <1>1 DEF PutCreate, PutUpdate, Matches
  <2>5. save' # None
    BY <2>2, NoneAssumption
  <2> QED BY <2>1, <2>2, <2>3, <2>4, <2>5 DEF PutType
<1>2. ASSUME NEW c \in Claims, ClaimCommit(c) PROVE Written
  <2>1. now' = now
    BY <1>2 DEF ClaimCommit
  <2>2. save'.version > save.version
    BY <1>2, CommitWrites DEF SaveType
  <2> QED BY <1>2, <2>1, <2>2, CommitWrites, NoneAssumption
<1>3. ASSUME NEW p \in Puts, PutStep(p) PROVE save' = save \/ Written
  BY <1>1, <1>3 DEF PutStep, PutCreateClash, PutImplausible, PutUpdateMisses,
                    PutReread, PutResume, PutRecordLevel, PutDone
<1>4. ASSUME NEW c \in Claims, ClaimStart(c) \/ ClaimRead(c) \/ ClaimFails(c)
      PROVE  save' = save
  BY <1>4 DEF ClaimStart, ClaimRead, ClaimFails
<1>5. ASSUME NEW p \in Puts, PutFails(p) \/ (\E b \in Bodies : PutInvalid(p, b))
                 \/ (\E v \in KnownVersions, b \in Bodies : PutRead(p, v, b))
      PROVE  save' = save
  BY <1>5 DEF PutFails, PutInvalid, PutRead
<1>6. Tick \/ UNCHANGED vars => save' = save
  BY DEF Tick, vars
<1> QED BY <1>2, <1>3, <1>4, <1>5, <1>6 DEF Next

\* What becomes of a PUT: nothing, or it reads the row, goes on with what it
\* read, misses the row, or ends.
LEMMA PutMoves ==
  ASSUME LockInv, [Next]_vars, NEW p \in Puts
  PROVE  \/ put'[p] = put[p]
         \/ /\ put'[p].pc = "checked" /\ put'[p].seen = save /\ save' = save
            /\ save # None => save.version = put'[p].version
         \/ put'[p].pc = "conflict" /\ put'[p].answer > put'[p].version
         \/ /\ PutInFlight(p) /\ put'[p].pc \in {"updated", "levels"}
            /\ put'[p].seen = put[p].seen
         \/ /\ put[p].pc = "checked" /\ put'[p].pc = "lost" /\ save' = save
            /\ put'[p].seen = put[p].seen /\ put'[p].version = put[p].version
            /\ put[p].seen # None /\ save.version # put[p].version
         \/ put'[p].pc \in {"done", "rejected", "error", "failed"}
<1> DEFINE Unmoved == put'[p] = put[p]
           Reads == /\ put'[p].pc = "checked" /\ put'[p].seen = save /\ save' = save
                    /\ save # None => save.version = put'[p].version
           Conflicts == put'[p].pc = "conflict" /\ put'[p].answer > put'[p].version
           GoesOn == /\ PutInFlight(p) /\ put'[p].pc \in {"updated", "levels"}
                     /\ put'[p].seen = put[p].seen
           Misses == /\ put[p].pc = "checked" /\ put'[p].pc = "lost" /\ save' = save
                     /\ put'[p].seen = put[p].seen /\ put'[p].version = put[p].version
                     /\ put[p].seen # None /\ save.version # put[p].version
           Ends == put'[p].pc \in {"done", "rejected", "error", "failed"}
           Move == Unmoved \/ Reads \/ Conflicts \/ GoesOn \/ Misses \/ Ends
<1>0. TypeOK /\ put \in [Puts -> PutType] /\ put[p] \in PutType
  BY DEF LockInv, TypeOK
<1>1. ASSUME NEW v \in KnownVersions, NEW b \in Bodies, PutRead(p, v, b) PROVE Move
  <2> DEFINE q == [pc |-> AfterRead(v), version |-> v, body |-> b, seen |-> save,
                   answer |-> IF save = None THEN 0 ELSE save.version,
                   next |-> 0, at |-> 0]
  <2>1. put'[p] = q /\ save' = save
    BY <1>0, <1>1 DEF PutRead
  <2>2. CASE save # None /\ save.version # v
    <3>1. q.pc = "conflict" /\ q.answer = save.version /\ q.version = v
      BY <2>2 DEF AfterRead
    <3>2. save.version > v
      BY <1>0, <2>2 DEF KnownVersions, TypeOK, SaveType
    <3> QED BY <2>1, <3>1, <3>2
  <2>3. CASE ~(save # None /\ save.version # v)
    <3>1. q.pc = "checked" /\ q.seen = save /\ q.version = v
      BY <2>3 DEF AfterRead
    <3> QED BY <2>1, <2>3, <3>1
  <2> QED BY <2>2, <2>3
<1>2. ASSUME PutCreate(p) \/ PutUpdate(p) PROVE Move
  BY <1>0, <1>2 DEF PutCreate, PutUpdate, PutInFlight, PutType
<1>3. ASSUME PutCreateClash(p) \/ PutImplausible(p) \/ PutDone(p) \/ PutFails(p)
             \/ (\E b \in Bodies : PutInvalid(p, b))
      PROVE  Move
  BY <1>0, <1>3 DEF PutCreateClash, PutImplausible, PutDone, PutFails, PutInvalid,
                    PutType
<1>4. ASSUME PutUpdateMisses(p) PROVE Move
  <2>1. put'[p] = [put[p] EXCEPT !.pc = "lost"] /\ save' = save
    BY <1>0, <1>4 DEF PutUpdateMisses
  <2>2. put'[p].pc = "lost" /\ put'[p].seen = put[p].seen
          /\ put'[p].version = put[p].version
    BY <1>0, <2>1 DEF PutType
  <2> QED BY <1>4, <2>1, <2>2 DEF PutUpdateMisses, Matches
<1>5. ASSUME PutReread(p) PROVE Move
  <2>1. save # None /\ put[p].version < save.version
    BY <1>5 DEF PutReread, LockInv, CheckedVersion
  <2>2. save.version \in Nat /\ put[p].version \in Nat
    BY <1>0, <2>1 DEF TypeOK, SaveType, PutType
  <2> DEFINE a == save.version
             q == [put[p] EXCEPT !.pc = "conflict", !.answer = a]
  <2>3. put'[p] = q
    BY <1>0, <1>5 DEF PutReread
  <2> HIDE DEF a
  <2>4. q.pc = "conflict" /\ q.answer = a /\ q.version = put[p].version
    BY <1>0, Zenon DEF PutType
  <2> HIDE DEF q
  <2> QED BY <2>1, <2>2, <2>3, <2>4 DEF a
<1>6. ASSUME PutResume(p) PROVE Move
  <2> DEFINE n == FirstNewLevel(put[p].seen)
             q == [put[p] EXCEPT !.pc = "levels", !.next = n, !.at = now]
  <2>1. put'[p] = q /\ PutInFlight(p)
    BY <1>0, <1>6 DEF PutResume, PutInFlight
  <2> HIDE DEF n
  <2>2. q.pc = "levels" /\ q.seen = put[p].seen
    BY <1>0, Zenon DEF PutType
  <2> HIDE DEF q
  <2> QED BY <2>1, <2>2
<1>7. ASSUME PutRecordLevel(p) PROVE Move
  BY <1>0, <1>7 DEF PutRecordLevel, PutInFlight, PutType
<1>8. ASSUME NEW r \in Puts, r # p,
             \/ PutStep(r) \/ PutFails(r) \/ \E b \in Bodies : PutInvalid(r, b)
             \/ \E v \in KnownVersions, b \in Bodies : PutRead(r, v, b)
      PROVE  Unmoved
  <2>1. PICK q : put' = [put EXCEPT ![r] = q]
    BY <1>8, Zenon
       DEF PutStep, PutCreate, PutCreateClash, PutImplausible, PutUpdate,
           PutUpdateMisses, PutReread, PutResume, PutRecordLevel, PutDone,
           PutFails, PutInvalid, PutRead
  <2> QED BY <1>0, <1>8, <2>1
<1>9. ASSUME put' = put PROVE Unmoved
  BY <1>9
<1>10. ASSUME NEW c \in Claims,
              ClaimStart(c) \/ ClaimRead(c) \/ ClaimCommit(c) \/ ClaimFails(c)
       PROVE  put' = put
  BY <1>10 DEF ClaimStart, ClaimRead, ClaimCommit, ClaimFails
<1>11. Tick \/ UNCHANGED vars => put' = put
  BY DEF Tick, vars
<1>12. ASSUME PutStep(p) PROVE Move
  BY <1>2, <1>3, <1>4, <1>5, <1>6, <1>7, <1>12 DEF PutStep
<1> HIDE DEF Unmoved, Move
<1>13. Move
  BY <1>1, <1>3, <1>8, <1>9, <1>10, <1>11, <1>12 DEF Next, Move
<1> QED BY <1>13 DEF Move, Unmoved

\* What becomes of a claim: nothing, or it reads the row, or it holds none.
LEMMA ClaimMoves ==
  ASSUME LockInv, [Next]_vars, NEW c \in Claims
  PROVE  \/ claim'[c] = claim[c]
         \/ claim'[c].seen = save /\ save # None /\ save' = save
         \/ claim'[c].pc # "read"
<1> DEFINE Move == \/ claim'[c] = claim[c]
                   \/ claim'[c].seen = save /\ save # None /\ save' = save
                   \/ claim'[c].pc # "read"
<1>0. claim \in [Claims -> ClaimType] /\ claim[c] \in ClaimType
  BY DEF LockInv, TypeOK
<1>1. ASSUME ClaimStart(c) \/ ClaimCommit(c) \/ ClaimFails(c) PROVE Move
  BY <1>0, <1>1 DEF ClaimStart, ClaimCommit, ClaimFails, ClaimType
<1>2. ASSUME ClaimRead(c) PROVE Move
  <2> DEFINE s == IF save = None THEN "rejected" ELSE "read"
             q == [claim[c] EXCEPT !.pc = s, !.seen = save]
  <2>1. claim'[c] = q /\ save' = save
    BY <1>0, <1>2 DEF ClaimRead
  <2> HIDE DEF s
  <2>2. q.pc = s /\ q.seen = save
    BY <1>0, Zenon DEF ClaimType
  <2> HIDE DEF q
  <2> QED BY <2>1, <2>2 DEF s
<1>3. ASSUME NEW d \in Claims, d # c,
             ClaimStart(d) \/ ClaimRead(d) \/ ClaimCommit(d) \/ ClaimFails(d)
      PROVE  Move
  <2>1. PICK q : claim' = [claim EXCEPT ![d] = q]
    BY <1>3, Zenon DEF ClaimStart, ClaimRead, ClaimCommit, ClaimFails
  <2> QED BY <1>0, <1>3, <2>1
<1>4. ASSUME NEW p \in Puts,
             \/ PutStep(p) \/ PutFails(p) \/ \E b \in Bodies : PutInvalid(p, b)
             \/ \E v \in KnownVersions, b \in Bodies : PutRead(p, v, b)
      PROVE  claim' = claim
  BY <1>4 DEF PutStep, PutCreate, PutCreateClash, PutImplausible, PutUpdate,
              PutUpdateMisses, PutReread, PutResume, PutRecordLevel, PutDone,
              PutFails, PutInvalid, PutRead
<1>5. Tick \/ UNCHANGED vars => claim' = claim
  BY DEF Tick, vars
<1>6. ASSUME claim' = claim PROVE Move
  BY <1>6
<1> HIDE DEF Move
<1>7. Move
  BY <1>1, <1>2, <1>3, <1>4, <1>5, <1>6 DEF Next
<1> QED BY <1>7 DEF Move

-------------------------------------------------------------------------------
(* The optimistic lock. *)

LEMMA InitLock == Init => LockInv
<1> SUFFICES ASSUME Init PROVE LockInv
  OBVIOUS
<1>1. TypeOK
  BY InitType
<1>2. save = None /\ (\A p \in Puts : put[p].pc = "idle")
        /\ (\A c \in Claims : claim[c].pc = "idle")
  BY DEF Init
<1> QED BY <1>1, <1>2 DEF LockInv, SeenBehind, CheckedVersion, WrittenBefore,
            VersionIdentifiesSave, ConflictBodyIsNewer, PutInFlight

\* What a request in flight says of the row it read, in one piece.
Holds(seen, row) ==
  /\ row # None
  /\ seen.version <= row.version
  /\ seen.version = row.version => seen = row

\* What was true of a row read stays true when the row is written.
LEMMA HoldsOn ==
  ASSUME LockInv, [Next]_vars, NEW seen \in SaveType, Holds(seen, save)
  PROVE  Holds(seen, save')
<1>1. save \in SaveType
  BY DEF LockInv, TypeOK, Holds
<1>2. CASE save' = save
  BY <1>2
<1>3. CASE save' \in SaveType /\ save' # None /\ save'.version > save.version
  <2>1. seen.version < save'.version
    BY <1>1, <1>3 DEF Holds, SaveType
  <2>2. seen.version \in Nat /\ save'.version \in Nat
    BY <1>3 DEF SaveType
  <2> QED BY <1>3, <2>1, <2>2 DEF Holds
<1> QED BY <1>2, <1>3, SaveMoves DEF Holds

LEMMA PutHolds ==
  ASSUME LockInv, [Next]_vars, NEW p \in Puts, PutInFlight(p)', put'[p].seen # None
  PROVE  Holds(put'[p].seen, save')
<1>0. TypeOK /\ put[p] \in PutType /\ save \in SaveType \union {None}
  BY DEF LockInv, TypeOK
<1>1. CASE PutInFlight(p) /\ put'[p].seen = put[p].seen
  <2>1. Holds(put[p].seen, save)
    BY <1>1 DEF LockInv, SeenBehind, VersionIdentifiesSave, Holds
  <2>2. put[p].seen \in SaveType
    BY <1>0, <1>1 DEF PutType
  <2> QED BY <1>1, <2>1, <2>2, HoldsOn
<1>2. CASE put'[p].seen = save /\ save' = save
  BY <1>0, <1>2 DEF Holds, SaveType
<1>3. PutInFlight(p)' => put'[p].pc \in {"checked", "lost", "updated", "levels"}
  BY DEF PutInFlight
<1>4. \/ PutInFlight(p) /\ put'[p].seen = put[p].seen
      \/ put'[p].seen = save /\ save' = save
  <2>1. put'[p] = put[p] => put'[p].seen = put[p].seen /\ PutInFlight(p)
    BY <1>3 DEF PutInFlight
  <2>2. put[p].pc = "checked" => PutInFlight(p)
    BY DEF PutInFlight
  <2> QED BY <1>3, <2>1, <2>2, PutMoves
<1> QED BY <1>1, <1>2, <1>4

LEMMA ClaimHolds ==
  ASSUME LockInv, [Next]_vars, NEW c \in Claims, claim'[c].pc = "read"
  PROVE  Holds(claim'[c].seen, save')
<1>0. TypeOK /\ claim[c] \in ClaimType /\ save \in SaveType \union {None}
  BY DEF LockInv, TypeOK
<1>1. CASE claim'[c] = claim[c]
  <2>1. Holds(claim[c].seen, save)
    BY <1>1 DEF LockInv, SeenBehind, VersionIdentifiesSave, Holds
  <2>2. claim[c].seen \in SaveType
    BY <1>0, <1>1 DEF ClaimType, TypeOK
  <2> QED BY <1>1, <2>1, <2>2, HoldsOn
<1>2. CASE claim'[c].seen = save /\ save # None /\ save' = save
  BY <1>0, <1>2 DEF Holds, SaveType
<1> QED BY <1>1, <1>2, ClaimMoves

LEMMA CheckedStep ==
  ASSUME LockInv, [Next]_vars PROVE CheckedVersion'
<1> SUFFICES ASSUME NEW p \in Puts
    PROVE  /\ put'[p].pc = "checked" /\ put'[p].seen # None =>
                put'[p].seen.version = put'[p].version
           /\ put'[p].pc = "lost" => save' # None /\ put'[p].version < save'.version
  BY DEF CheckedVersion
<1>0. put[p] \in PutType /\ save \in SaveType \union {None}
  BY DEF LockInv, TypeOK
<1>1. ASSUME put'[p].pc = "checked", put'[p].seen # None
      PROVE  put'[p].seen.version = put'[p].version
  <2>1. CASE put'[p] = put[p]
    BY <1>1, <2>1 DEF LockInv, CheckedVersion
  <2>2. CASE put'[p].seen = save /\ (save # None => save.version = put'[p].version)
    BY <1>1, <2>2
  <2> QED BY <1>1, <2>1, <2>2, PutMoves
<1>2. ASSUME put'[p].pc = "lost"
      PROVE  save' # None /\ put'[p].version < save'.version
  <2>1. CASE put'[p] = put[p]
    <3>1. put[p].pc = "lost"
      BY <1>2, <2>1
    <3>2. save # None /\ put[p].version < save.version
      BY <3>1 DEF LockInv, CheckedVersion
    <3>3. put[p].version \in Nat /\ save.version \in Nat
      BY <1>0, <3>2 DEF PutType, SaveType
    <3>4. \/ save' = save
          \/ save' # None /\ save'.version \in Nat /\ save'.version > save.version
      BY <3>2, SaveMoves DEF SaveType
    <3> QED BY <2>1, <3>2, <3>3, <3>4
  <2>2. CASE /\ put[p].pc = "checked" /\ save' = save
             /\ put'[p].version = put[p].version
             /\ put[p].seen # None /\ save.version # put[p].version
    <3>1. save # None /\ put[p].seen.version <= save.version
      BY <2>2 DEF LockInv, SeenBehind, PutInFlight
    <3>2. put[p].seen.version = put[p].version
      BY <2>2 DEF LockInv, CheckedVersion
    <3>3. put[p].version \in Nat /\ save.version \in Nat
      BY <1>0, <3>1 DEF PutType, SaveType
    <3> QED BY <2>2, <3>1, <3>2, <3>3
  <2> QED BY <1>2, <2>1, <2>2, PutMoves
<1> QED BY <1>1, <1>2

LEMMA ConflictStep ==
  ASSUME LockInv, [Next]_vars PROVE ConflictBodyIsNewer'
<1> SUFFICES ASSUME NEW p \in Puts, put'[p].pc = "conflict"
    PROVE  put'[p].answer > put'[p].version
  BY DEF ConflictBodyIsNewer
<1>1. CASE put'[p] = put[p]
  BY <1>1 DEF LockInv, ConflictBodyIsNewer
<1> QED BY <1>1, PutMoves

LEMMA WrittenStep ==
  ASSUME LockInv, [Next]_vars PROVE WrittenBefore'
<1>0. now \in Nat /\ save \in SaveType \union {None}
  BY DEF LockInv, TypeOK
<1>1. now' = now \/ now' = now + 1
  BY DEF Next, vars, PutStep, PutCreate, PutCreateClash, PutImplausible, PutUpdate,
         PutUpdateMisses, PutReread, PutResume, PutRecordLevel, PutDone, PutFails,
         PutInvalid, PutRead, ClaimStart, ClaimRead, ClaimCommit, ClaimFails, Tick
<1>2. CASE save' = save
  BY <1>0, <1>1, <1>2 DEF LockInv, WrittenBefore, SaveType
<1>3. CASE save'.updatedAt = now /\ now' = now
  BY <1>0, <1>3 DEF WrittenBefore
<1> QED BY <1>2, <1>3, SaveMoves

LEMMA LockStep == LockInv /\ [Next]_vars => LockInv'
<1> SUFFICES ASSUME LockInv, [Next]_vars PROVE LockInv'
  OBVIOUS
<1>1. TypeOK'
  BY TypeStep
<1>2. SeenBehind'
  BY PutHolds, ClaimHolds DEF SeenBehind, Holds
<1>3. VersionIdentifiesSave'
  BY PutHolds, ClaimHolds DEF VersionIdentifiesSave, Holds
<1> QED BY <1>1, <1>2, <1>3, CheckedStep, ConflictStep, WrittenStep DEF LockInv

\* Whatever the interleaving of PUTs and claims, the version a request read
\* tells whether the row it read is still there (saves.service.ts, the where of
\* updateMany).
THEOREM LockInvCorrect == Spec => []LockInv
<1>1. LockInv /\ [Next]_vars => LockInv'
  BY LockStep
<1> QED BY <1>1, InitLock, PTL DEF Spec

\* Every variable has its type, and no request in flight carries a body that
\* validateKnownFields refuses.
THEOREM SaveTypeCorrect == Spec => []TypeOK
<1>1. LockInv => TypeOK
  BY DEF LockInv
<1> QED BY <1>1, LockInvCorrect, PTL

\* Equal versions are equal saves.
THEOREM VersionIdentifiesSaveCorrect == Spec => []VersionIdentifiesSave
<1>1. LockInv => VersionIdentifiesSave
  BY DEF LockInv
<1> QED BY <1>1, LockInvCorrect, PTL

\* Both places that answer 409 (the first read and the lost update) send a save
\* newer than the client's.
THEOREM ConflictBodyIsNewerCorrect == Spec => []ConflictBodyIsNewer
<1>1. LockInv => ConflictBodyIsNewer
  BY DEF LockInv
<1> QED BY <1>1, LockInvCorrect, PTL

-------------------------------------------------------------------------------
(* The plausibility check is made against the row that is replaced. *)

\* Only the update accepts a PUT over an existing row.
LEMMA OnlyUpdateAccepts ==
  ASSUME LockInv, [Next]_vars, NEW p \in Puts,
         put[p].pc = "checked", put'[p].pc = "updated", save # None
  PROVE  PutUpdate(p)
<1>0. put \in [Puts -> PutType] /\ put[p] \in PutType
  BY DEF LockInv, TypeOK
<1>1. ASSUME put' = put PROVE FALSE
  BY <1>1
<1>2. ASSUME NEW r \in Puts, r # p, NEW q, put' = [put EXCEPT ![r] = q] PROVE FALSE
  BY <1>0, <1>2
<1>3. ASSUME NEW r \in Puts, PutFails(r) \/ \E b \in Bodies : PutInvalid(r, b)
      PROVE  FALSE
  <2>1. CASE r = p
    BY <1>0, <1>3, <2>1 DEF PutFails, PutInvalid, PutType
  <2>2. PICK q : put' = [put EXCEPT ![r] = q]
    BY <1>3, Zenon DEF PutFails, PutInvalid
  <2> QED BY <1>2, <2>1, <2>2
<1>4. ASSUME NEW r \in Puts, \E v \in KnownVersions, b \in Bodies : PutRead(r, v, b)
      PROVE  FALSE
  <2>1. r # p
    BY <1>4 DEF PutRead
  <2>2. PICK q : put' = [put EXCEPT ![r] = q]
    BY <1>4, Zenon DEF PutRead
  <2> QED BY <1>2, <2>1, <2>2
<1>5. ASSUME NEW r \in Puts, PutStep(r) PROVE PutUpdate(p)
  <2>1. r = p
    <3>1. PICK q : put' = [put EXCEPT ![r] = q]
      BY <1>5, Zenon
         DEF PutStep, PutCreate, PutCreateClash, PutImplausible, PutUpdate,
             PutUpdateMisses, PutReread, PutResume, PutRecordLevel, PutDone
    <3> QED BY <1>2, <3>1
  <2>2. ~PutCreateClash(p) /\ ~PutImplausible(p) /\ ~PutUpdateMisses(p)
    BY <1>0 DEF PutCreateClash, PutImplausible, PutUpdateMisses, PutType
  <2>3. ~PutCreate(p) /\ ~PutReread(p) /\ ~PutResume(p) /\ ~PutRecordLevel(p)
          /\ ~PutDone(p)
    BY DEF PutCreate, PutReread, PutResume, PutRecordLevel, PutDone
  <2> QED BY <1>5, <2>1, <2>2, <2>3 DEF PutStep
<1>6. ASSUME NEW c \in Claims,
             ClaimStart(c) \/ ClaimRead(c) \/ ClaimCommit(c) \/ ClaimFails(c)
      PROVE  put' = put
  BY <1>6 DEF ClaimStart, ClaimRead, ClaimCommit, ClaimFails
<1>7. Tick \/ UNCHANGED vars => put' = put
  BY DEF Tick, vars
<1> QED BY <1>1, <1>3, <1>4, <1>5, <1>6, <1>7 DEF Next

\* The update is plausible against the row it replaces: that row is the row
\* read, and it was written no later than now.
LEMMA UpdatePlausible ==
  ASSUME LockInv, NEW p \in Puts, PutUpdate(p), save # None
  PROVE  LET t == now - save.updatedAt
         IN /\ t >= 0
            /\ Total(save') - Total(save) <= XP_BASE_ALLOWANCE + MAX_XP_PER_SEC * t
            /\ save'.gold - save.gold
                 <= GOLD_BASE_ALLOWANCE + MAX_GOLD_PER_SEC * t
<1> DEFINE t == now - save.updatedAt
<1>1. now \in Nat /\ save \in SaveType
  BY DEF LockInv, TypeOK
<1>2. put[p].seen = save
  <2>1. put[p].pc = "checked" /\ put[p].seen # None /\ save.version = put[p].version
    BY DEF PutUpdate, Matches
  <2>2. put[p].seen.version = save.version
    BY <2>1 DEF LockInv, CheckedVersion
  <2> QED BY <2>1, <2>2 DEF LockInv, VersionIdentifiesSave, PutInFlight
<1>3. t >= 0 /\ AtLeast(0, t) = t
  BY <1>1 DEF LockInv, WrittenBefore, SaveType, AtLeast
<1>4. PlausibleXp(save, put[p].body, t) /\ PlausibleGold(save, put[p].body, t)
  BY <1>2, <1>3 DEF PutUpdate, Plausible
<1>5. save' = RowOf(p)
  BY DEF PutUpdate
<1>6. Total(save') = Total(put[p].body) /\ save'.gold = put[p].body.gold
  BY <1>5 DEF RowOf, Total
<1> QED BY <1>3, <1>4, <1>6 DEF PlausibleXp, PlausibleGold

\* No accepted PUT gains more XP or gold than the rates allow over the row it
\* replaces, however many other writes came between its read and its update.
THEOREM AcceptedPutsPlausibleCorrect == Spec => AcceptedPutsPlausible
<1> DEFINE Step ==
      \A p \in Puts :
        put[p].pc = "checked" /\ put'[p].pc = "updated" /\ save # None =>
          LET t == now - save.updatedAt
          IN /\ t >= 0
             /\ Total(save') - Total(save) <= XP_BASE_ALLOWANCE + MAX_XP_PER_SEC * t
             /\ save'.gold - save.gold
                  <= GOLD_BASE_ALLOWANCE + MAX_GOLD_PER_SEC * t
<1>1. LockInv /\ [Next]_vars => [Step]_vars
  <2> SUFFICES ASSUME LockInv, [Next]_vars PROVE Step
    OBVIOUS
  <2> QED BY OnlyUpdateAccepts, UpdatePlausible
<1> QED BY <1>1, LockInvCorrect, PTL DEF Spec, AcceptedPutsPlausible

-------------------------------------------------------------------------------
(* The loop of claim(): LevelsFor says at which level it stops, and these are the *)
(* facts that make that a description of the loop.                         *)

\* The least number of a set, by the well-foundedness of <.
LEMMA LeastLevel ==
  ASSUME NEW N, N \subseteq Nat, N # {}
  PROVE  \E n \in N : \A m \in N : n <= m
<1>1. \E n \in N : \A m \in N : ~(<<m, n>> \in OpToRel(<, Nat))
  BY ONLY N \subseteq Nat, N # {}, NatLessThanWellFounded, WFMin
<1>2. PICK n \in N : \A m \in N : ~(<<m, n>> \in OpToRel(<, Nat))
  BY <1>1
<1>3. ASSUME NEW m \in N
      PROVE  n <= m
  <2>1. m \in Nat /\ n \in Nat
    BY <1>3
  <2>2. ~(m < n)
    BY <1>2, <1>3, <2>1 DEF OpToRel
  <2> QED BY <2>1, <2>2
<1> QED BY <1>3

\* The curve increases over any distance, not only from one level to the next.
LEMMA CurveIncreases ==
  ASSUME NEW j \in Levels, NEW k \in Levels, j <= k
  PROVE  TotalXp[j] <= TotalXp[k]
<1> DEFINE N == {n \in j..Cap : ~(TotalXp[j] <= TotalXp[n])}
<1>0. j \in Nat /\ j >= 1 /\ k \in j..Cap /\ Cap \in Nat
  BY ConstantsAssumption DEF Levels
<1>1. N = {}
  <2> SUFFICES ASSUME N # {}
               PROVE  FALSE
    OBVIOUS
  <2>1. N \subseteq Nat
    BY <1>0
  <2>2. PICK n \in N : \A m \in N : n <= m
    BY <2>1, LeastLevel
  <2>3. n \in j..Cap /\ ~(TotalXp[j] <= TotalXp[n])
    BY <2>2
  <2>4. TotalXp[j] \in Nat /\ TotalXp[n] \in Nat
    BY <1>0, <2>3, ConstantsAssumption DEF Levels
  <2>5. n # j
    BY <2>3, <2>4
  <2>6. n - 1 \in j..Cap /\ n - 1 \in 1..(Cap - 1) /\ n - 1 \in Levels /\ (n - 1) + 1 = n
    BY <1>0, <2>3, <2>5 DEF Levels
  <2>7. n - 1 \notin N
    BY ONLY <1>0, <2>2, <2>3, <2>6
  <2>8. TotalXp[j] <= TotalXp[n - 1] /\ TotalXp[n - 1] \in Nat
    BY <2>6, <2>7, ConstantsAssumption
  <2>9. TotalXp[n - 1] < TotalXp[n]
    BY <2>6, ConstantsAssumption
  <2> QED BY ONLY <2>3, <2>4, <2>8, <2>9
<1> QED BY <1>0, <1>1

\* An iteration of the loop, taken while the XP left over pays for the next level,
\* does not change where the loop stops; and it stops where it cannot go on.
THEOREM ClaimLoopSteps ==
  ASSUME NEW l \in Levels, NEW x \in Nat, TotalXp[l] <= x
  PROVE  LevelsFor(l, x) = IF l < Cap /\ x - TotalXp[l] >= TotalXp[l + 1] - TotalXp[l]
                           THEN LevelsFor(l + 1, x)
                           ELSE {l}
<1>0. l \in Nat /\ l >= 1 /\ l <= Cap /\ Cap \in Nat /\ TotalXp[l] \in Nat
  BY ConstantsAssumption DEF Levels
<1>1. CASE l < Cap /\ x - TotalXp[l] >= TotalXp[l + 1] - TotalXp[l]
  <2>1. TotalXp[l + 1] \in Nat
    BY <1>0, <1>1, ConstantsAssumption DEF Levels
  <2>2. TotalXp[l + 1] <= x
    BY ONLY <1>0, <1>1, <2>1, x \in Nat
  <2>3. l \notin LevelsFor(l, x)
    BY ONLY <1>0, <1>1, <2>1, <2>2, x \in Nat DEF LevelsFor
  <2>4. ASSUME NEW k \in (l + 1)..Cap
        PROVE  k \in LevelsFor(l, x) <=> k \in LevelsFor(l + 1, x)
    <3>1. k \in l..Cap /\ k # l
      BY ONLY <1>0, <2>4
    <3> QED BY ONLY <2>2, <2>4, <3>1 DEF LevelsFor
  <2>5. LevelsFor(l, x) \subseteq l..Cap /\ LevelsFor(l + 1, x) \subseteq (l + 1)..Cap
    BY DEF LevelsFor
  <2>6. \A k \in l..Cap : k # l => k \in (l + 1)..Cap
    BY ONLY <1>0
  <2>7. LevelsFor(l, x) = LevelsFor(l + 1, x)
    BY ONLY <2>3, <2>4, <2>5, <2>6
  <2> QED BY <1>1, <2>7
<1>2. CASE ~(l < Cap /\ x - TotalXp[l] >= TotalXp[l + 1] - TotalXp[l])
  <2>1. ASSUME l < Cap
        PROVE  TotalXp[l + 1] \in Nat /\ l + 1 \in Levels /\ x < TotalXp[l + 1]
    <3>1. TotalXp[l + 1] \in Nat /\ l + 1 \in Levels
      BY <1>0, <2>1, ConstantsAssumption DEF Levels
    <3> QED BY ONLY <1>0, <1>2, <2>1, <3>1, x \in Nat
  <2>2. l \in LevelsFor(l, x)
    BY <1>0, <2>1 DEF LevelsFor
  <2>3. ASSUME NEW k \in LevelsFor(l, x), k # l
        PROVE  FALSE
    <3>1. k \in l..Cap /\ TotalXp[k] <= x
      BY <2>3 DEF LevelsFor
    <3>2. l < Cap /\ k \in Levels /\ l + 1 <= k
      BY <1>0, <2>3, <3>1 DEF Levels
    <3>3. TotalXp[l + 1] <= TotalXp[k]
      BY <2>1, <3>2, CurveIncreases
    <3>4. TotalXp[k] \in Nat
      BY <3>2, ConstantsAssumption
    <3> QED BY ONLY <2>1, <3>1, <3>2, <3>3, <3>4, x \in Nat
  <2>4. LevelsFor(l, x) = {l}
    BY <2>2, <2>3
  <2> QED BY <1>2, <2>4
<1> QED BY <1>1, <1>2

\* The loop stops, at one level: a claim that has read the row can commit, in one
\* way only, and nothing but the row and the time decides what it writes.
THEOREM ClaimLoopStops ==
  ASSUME NEW l \in Levels, NEW x \in Nat, TotalXp[l] <= x
  PROVE  \E k \in l..Cap : LevelsFor(l, x) = {k}
<1> DEFINE N == {k \in l..Cap : k < Cap => x < TotalXp[k + 1]}
<1>0. l \in Nat /\ l >= 1 /\ l <= Cap /\ Cap \in Nat
  BY ConstantsAssumption DEF Levels
<1>1. N \subseteq Nat /\ Cap \in N
  BY <1>0
<1>2. PICK k \in N : \A m \in N : k <= m
  BY <1>1, LeastLevel
<1>3. k \in l..Cap /\ k \in Levels /\ (k < Cap => x < TotalXp[k + 1])
  BY <1>0, <1>2 DEF Levels
<1>4. TotalXp[k] \in Nat
  BY <1>3, ConstantsAssumption
<1>5. TotalXp[k] <= x
  <2>1. CASE k = l
    BY <2>1
  <2>2. CASE k # l
    <3>1. k - 1 \in l..Cap /\ k - 1 < Cap /\ (k - 1) + 1 = k
      BY <1>0, <1>3, <2>2
    <3>2. k - 1 \notin N
      BY ONLY <1>0, <1>2, <1>3, <3>1
    <3>3. ~(x < TotalXp[k])
      BY <3>1, <3>2
    <3> QED BY ONLY <1>4, <3>3, x \in Nat
  <2> QED BY <2>1, <2>2
<1>6. k \in LevelsFor(l, x)
  BY <1>3, <1>5 DEF LevelsFor
<1>7. ASSUME NEW j \in LevelsFor(l, x)
      PROVE  j = k
  <2>1. j \in N
    BY <1>7 DEF LevelsFor
  <2>2. k <= j
    BY <1>2, <2>1
  <2>3. CASE k < j
    <3>1. j \in l..Cap /\ TotalXp[j] <= x /\ k < Cap
      BY <1>0, <1>3, <1>7, <2>3 DEF LevelsFor
    <3>2. j \in Levels /\ k + 1 \in Levels /\ k + 1 <= j
      BY <1>0, <1>3, <2>3, <3>1 DEF Levels
    <3>3. TotalXp[k + 1] <= TotalXp[j]
      BY <3>2, CurveIncreases
    <3>4. TotalXp[j] \in Nat /\ TotalXp[k + 1] \in Nat
      BY <3>2, ConstantsAssumption
    <3> QED BY ONLY <1>3, <3>1, <3>3, <3>4, x \in Nat
  <2>4. k \in Nat /\ j \in Nat
    BY <1>1, <1>2, <2>1
  <2> QED BY ONLY <2>2, <2>3, <2>4
<1> QED BY <1>3, <1>6, <1>7
================================================================================
