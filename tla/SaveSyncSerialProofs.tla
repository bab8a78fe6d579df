------------------------- MODULE SaveSyncSerialProofs -------------------------
(* Theorems about SaveSync for one device, which awaits each answer before it *)
(* calls again: the claims, which read the row and write it without a         *)
(* condition on its version, are then as safe as the PUTs.                    *)
EXTENDS SaveSyncProofs

-------------------------------------------------------------------------------
(* One request at a time. *)

PutActs(p) ==
  \/ \E b \in Bodies : PutInvalid(p, b)
  \/ \E v \in KnownVersions, b \in Bodies : PutRead(p, v, b)
  \/ PutStep(p)
  \/ PutFails(p)

ClaimActs(c) == ClaimStart(c) \/ ClaimRead(c) \/ ClaimCommit(c) \/ ClaimFails(c)

NobodyInFlight ==
  /\ \A p \in Puts : ~PutInFlight(p)
  /\ \A c \in Claims : ~ClaimInFlight(c)

Alone ==
  /\ \A p, q \in Puts : PutInFlight(p) /\ PutInFlight(q) => p = q
  /\ \A c, d \in Claims : ClaimInFlight(c) /\ ClaimInFlight(d) => c = d
  /\ \A p \in Puts, c \in Claims : ~(PutInFlight(p) /\ ClaimInFlight(c))

\* A step of a PUT leaves the other requests as they are.
LEMMA PutActsAlone ==
  ASSUME TypeOK, NEW p \in Puts, PutActs(p)
  PROVE  claim' = claim /\ \A q \in Puts : q # p => put'[q] = put[q]
<1>1. claim' = claim
  BY DEF PutActs, PutStep, PutCreate, PutCreateClash, PutImplausible, PutUpdate,
         PutUpdateMisses, PutReread, PutResume, PutRecordLevel, PutDone, PutFails,
         PutInvalid, PutRead
<1>2. PICK r : put' = [put EXCEPT ![p] = r]
  BY Zenon
     DEF PutActs, PutStep, PutCreate, PutCreateClash, PutImplausible, PutUpdate,
         PutUpdateMisses, PutReread, PutResume, PutRecordLevel, PutDone, PutFails,
         PutInvalid, PutRead
<1> QED BY <1>1, <1>2 DEF TypeOK

\* So does a step of a claim.
LEMMA ClaimActsAlone ==
  ASSUME TypeOK, NEW c \in Claims, ClaimActs(c)
  PROVE  put' = put /\ \A d \in Claims : d # c => claim'[d] = claim[d]
<1>1. put' = put
  BY DEF ClaimActs, ClaimStart, ClaimRead, ClaimCommit, ClaimFails
<1>2. PICK r : claim' = [claim EXCEPT ![c] = r]
  BY Zenon DEF ClaimActs, ClaimStart, ClaimRead, ClaimCommit, ClaimFails
<1> QED BY <1>1, <1>2 DEF TypeOK

\* A request that is taken up finds nobody in flight.
LEMMA PutTakenUp ==
  ASSUME SerialClients, TypeOK, NEW p \in Puts, PutActs(p)
  PROVE  PutInFlight(p) \/ NobodyInFlight \/ ~PutInFlight(p)'
<1>1. CASE \E v \in KnownVersions, b \in Bodies : PutRead(p, v, b)
  BY <1>1 DEF PutRead, MayCall, NobodyInFlight
<1>2. CASE \E b \in Bodies : PutInvalid(p, b)
  BY <1>2 DEF PutInvalid, MayCall, NobodyInFlight
<1>3. CASE PutStep(p) \/ PutFails(p)
  BY <1>3 DEF PutStep, PutCreate, PutCreateClash, PutImplausible, PutUpdate,
              PutUpdateMisses, PutReread, PutResume, PutRecordLevel, PutDone,
              PutFails, PutInFlight
<1> QED BY <1>1, <1>2, <1>3 DEF PutActs

LEMMA ClaimTakenUp ==
  ASSUME SerialClients, NEW c \in Claims, ClaimActs(c)
  PROVE  ClaimInFlight(c) \/ NobodyInFlight
BY DEF ClaimActs, ClaimStart, ClaimRead, ClaimCommit, ClaimFails, ClaimInFlight,
       MayCall, NobodyInFlight

\* What a step is: of one PUT, of one claim, or of the clock.
LEMMA Actors ==
  ASSUME [Next]_vars
  PROVE  \/ \E p \in Puts : PutActs(p)
         \/ \E c \in Claims : ClaimActs(c)
         \/ Tick
         \/ UNCHANGED vars
BY DEF Next, PutActs, ClaimActs

LEMMA AloneStep ==
  ASSUME SerialClients, TypeOK, Alone, [Next]_vars
  PROVE  Alone'
<1>1. ASSUME NEW p \in Puts, PutActs(p) PROVE Alone'
  <2>1. /\ \A c \in Claims : ClaimInFlight(c)' => ClaimInFlight(c)
        /\ \A q \in Puts : q # p /\ PutInFlight(q)' => PutInFlight(q)
    BY <1>1, PutActsAlone DEF PutInFlight, ClaimInFlight
  <2>2. PutInFlight(p) \/ NobodyInFlight \/ ~PutInFlight(p)'
    BY <1>1, PutTakenUp
  <2> QED BY <2>1, <2>2 DEF Alone, NobodyInFlight
<1>2. ASSUME NEW c \in Claims, ClaimActs(c) PROVE Alone'
  <2>1. /\ \A d \in Claims : d # c /\ ClaimInFlight(d)' => ClaimInFlight(d)
        /\ \A q \in Puts : PutInFlight(q)' => PutInFlight(q)
    BY <1>2, ClaimActsAlone DEF PutInFlight, ClaimInFlight
  <2>2. ClaimInFlight(c) \/ NobodyInFlight
    BY <1>2, ClaimTakenUp
  <2> QED BY <2>1, <2>2 DEF Alone, NobodyInFlight
<1>3. CASE Tick \/ UNCHANGED vars
  BY <1>3 DEF Tick, vars, Alone, PutInFlight, ClaimInFlight
<1> QED BY <1>1, <1>2, <1>3, Actors

\* While a PUT or a claim is in flight, nobody else is, before and after its
\* step.
LEMMA OthersIdle ==
  ASSUME TypeOK, Alone
  PROVE  /\ \A p \in Puts : PutInFlight(p) /\ PutActs(p) =>
              /\ \A c \in Claims : ~ClaimInFlight(c) /\ ~ClaimInFlight(c)'
              /\ \A q \in Puts : q # p => ~PutInFlight(q) /\ ~PutInFlight(q)'
         /\ \A c \in Claims : ClaimInFlight(c) /\ ClaimActs(c) =>
              /\ \A p \in Puts : ~PutInFlight(p) /\ ~PutInFlight(p)'
              /\ \A d \in Claims : d # c => ~ClaimInFlight(d) /\ ~ClaimInFlight(d)'
BY PutActsAlone, ClaimActsAlone DEF Alone, PutInFlight, ClaimInFlight

-------------------------------------------------------------------------------
(* What a request read is still the row. *)

Current ==
  /\ \A p \in Puts : put[p].pc = "checked" => put[p].seen = save
  /\ \A c \in Claims : claim[c].pc = "read" => claim[c].seen = save

\* The row changes by the insert or the update of a PUT, or by a commit.
LEMMA Writers ==
  ASSUME [Next]_vars
  PROVE  \/ UNCHANGED <<save, born, paid>>
         \/ \E p \in Puts : PutCreate(p) \/ PutUpdate(p)
         \/ \E c \in Claims : ClaimCommit(c)
BY DEF Next, vars, PutStep, PutCreateClash, PutImplausible, PutUpdateMisses,
       PutReread, PutResume, PutRecordLevel, PutDone, PutFails, PutInvalid,
       PutRead, ClaimStart, ClaimRead, ClaimFails, Tick

\* After a write, no request is left that has read the row.
LEMMA WriterAlone ==
  ASSUME TypeOK, Alone,
         \/ \E p \in Puts : PutCreate(p) \/ PutUpdate(p)
         \/ \E c \in Claims : ClaimCommit(c)
  PROVE  /\ \A p \in Puts : put'[p].pc # "checked"
         /\ \A c \in Claims : ~ClaimInFlight(c)'
<1>1. ASSUME NEW p \in Puts, PutCreate(p) \/ PutUpdate(p)
      PROVE  /\ \A q \in Puts : put'[q].pc # "checked"
             /\ \A c \in Claims : ~ClaimInFlight(c)'
  <2>1. PutInFlight(p) /\ PutActs(p)
    BY <1>1 DEF PutCreate, PutUpdate, PutInFlight, PutActs, PutStep
  <2>2. put'[p].pc = "updated"
    BY <1>1 DEF PutCreate, PutUpdate, TypeOK, PutType
  <2>3. \A q \in Puts : q # p => ~PutInFlight(q)'
    BY <2>1, OthersIdle
  <2> QED BY <2>1, <2>2, <2>3, OthersIdle DEF PutInFlight
<1>2. ASSUME NEW c \in Claims, ClaimCommit(c)
      PROVE  /\ \A q \in Puts : put'[q].pc # "checked"
             /\ \A d \in Claims : ~ClaimInFlight(d)'
  <2>1. ClaimInFlight(c) /\ ClaimActs(c)
    BY <1>2 DEF ClaimCommit, ClaimInFlight, ClaimActs
  <2>2. ~ClaimInFlight(c)'
    BY <1>2 DEF ClaimCommit, ClaimInFlight, TypeOK, ClaimType
  <2>3. \A q \in Puts : ~PutInFlight(q)'
    BY <2>1, OthersIdle
  <2> QED BY <2>1, <2>2, <2>3, OthersIdle DEF PutInFlight
<1> QED BY <1>1, <1>2

LEMMA CurrentStep ==
  ASSUME LockInv, Alone, Current, [Next]_vars
  PROVE  Current'
<1>0. TypeOK
  BY DEF LockInv
<1>1. CASE UNCHANGED save
  <2>1. ASSUME NEW p \in Puts, put'[p].pc = "checked" PROVE put'[p].seen = save
    <3>1. put'[p] = put[p] \/ put'[p].seen = save
      BY <2>1, PutMoves
    <3> QED BY <2>1, <3>1 DEF Current
  <2>2. ASSUME NEW c \in Claims, claim'[c].pc = "read" PROVE claim'[c].seen = save
    <3>1. claim'[c] = claim[c] \/ claim'[c].seen = save
      BY <2>2, ClaimMoves
    <3> QED BY <2>2, <3>1 DEF Current
  <2> QED BY <1>1, <2>1, <2>2 DEF Current
<1>2. CASE \/ \E p \in Puts : PutCreate(p) \/ PutUpdate(p)
           \/ \E c \in Claims : ClaimCommit(c)
  BY <1>0, <1>2, WriterAlone DEF Current, ClaimInFlight
<1> QED BY <1>1, <1>2, Writers

SerialInv == LockInv /\ Alone /\ Current

LEMMA InitSerial == Init => SerialInv
BY InitLock DEF Init, SerialInv, Alone, Current, PutInFlight, ClaimInFlight

LEMMA SerialStep ==
  ASSUME SerialClients, SerialInv, [Next]_vars
  PROVE  SerialInv'
BY LockStep, AloneStep, CurrentStep DEF SerialInv, LockInv

LEMMA SerialCorrect ==
  ASSUME SerialClients PROVE Spec => []SerialInv
<1>1. SerialInv /\ [Next]_vars => SerialInv'
  BY SerialStep
<1> QED BY InitSerial, <1>1, PTL DEF Spec

-------------------------------------------------------------------------------
(* A claim takes nothing away. *)

\* The level a claim ends at, and what is left of its XP inside the level.
LEMMA CommitFacts ==
  ASSUME LockInv, Current, NEW c \in Claims, ClaimCommit(c)
  PROVE  /\ save \in SaveType /\ claim[c].seen = save /\ claim[c].at \in Nat
         /\ \E l \in Levels, x \in Nat :
              /\ x >= Total(save) /\ l >= save.level
              /\ TotalXp[l] \in Nat
              /\ save' = Rewarded(save, save, claim[c].at, l, x)
              /\ reached' = [k \in Levels |->
                               IF k \in (save.level + 1)..l /\ reached[k] = None
                               THEN claim[c].at ELSE reached[k]]
              /\ paid' = paid + TimeAway(claim[c].at, save)
<1> DEFINE t == claim[c].at
           away == TimeAway(t, save)
           x == Total(save) + IdleXp(away, save.level)
<1>1. claim[c].pc = "read" /\ claim[c] \in ClaimType /\ claim[c].seen = save
  BY DEF ClaimCommit, LockInv, TypeOK, Current
<1>2. save \in SaveType /\ t \in Nat
  BY CommitWrites, <1>1 DEF ClaimType
<1>3. x \in Nat /\ x >= Total(save)
  <2>1. Total(save) \in Nat
    BY <1>2, TotalType
  <2>2. IdleXp(away, save.level) \in Nat
    BY <1>2, TimeAwayType, IdleAssumption DEF SaveType
  <2> QED BY <2>1, <2>2
<1>4. PICK l \in LevelsFor(save.level, x) :
         /\ save' = Rewarded(save, save, t, l, x)
         /\ reached' = [k \in Levels |->
                          IF k \in (save.level + 1)..l /\ reached[k] = None
                          THEN t ELSE reached[k]]
         /\ paid' = paid + away
  BY <1>1 DEF ClaimCommit
<1>5. l \in Levels /\ l >= save.level /\ TotalXp[l] \in Nat
  <2>1. save.level \in Levels /\ l \in save.level..Cap
    BY <1>2 DEF SaveType, LevelsFor
  <2>2. l \in Levels /\ l >= save.level
    BY <2>1, ConstantsAssumption DEF Levels
  <2> QED BY <2>2, ConstantsAssumption
<1> HIDE DEF x
<1> QED BY <1>1, <1>2, <1>3, <1>4, <1>5

\* For one device that awaits each answer, a claim adds to the account's XP,
\* short of the cap, although it sets level and XP from the row it read and
\* checks no version.
THEOREM ClaimKeepsProgressWhenSerial ==
  ASSUME SerialClients PROVE Spec => ClaimKeepsProgress
<1> DEFINE Step == \A c \in Claims :
                     claim[c].pc = "read" /\ claim'[c].pc = "done" =>
                       save'.level = Cap \/ Total(save') >= Total(save)
<1>1. SerialInv /\ [Next]_vars => [Step]_vars
  <2> SUFFICES ASSUME SerialInv, [Next]_vars, NEW c \in Claims,
                      claim[c].pc = "read", claim'[c].pc = "done"
               PROVE  save'.level = Cap \/ Total(save') >= Total(save)
    OBVIOUS
  <2>0. TypeOK /\ LockInv /\ Current
    BY DEF SerialInv, LockInv
  <2>1. ClaimCommit(c)
    <3>1. ASSUME NEW d \in Claims, ClaimActs(d) PROVE ClaimCommit(c)
      <4>1. d = c
        BY <2>0, <3>1, ClaimActsAlone
      <4>2. claim[c] \in ClaimType
        BY <2>0 DEF TypeOK
      <4>3. ~ClaimStart(c) /\ ~ClaimRead(c)
        BY DEF ClaimStart, ClaimRead
      <4>4. ~ClaimFails(c)
        BY <2>0, <4>2 DEF ClaimFails, TypeOK, ClaimType
      <4> QED BY <3>1, <4>1, <4>3, <4>4 DEF ClaimActs
    <3>2. ASSUME claim' = claim PROVE FALSE
      BY <3>2
    <3>3. \A p \in Puts : PutActs(p) => claim' = claim
      BY <2>0, PutActsAlone
    <3> QED BY <3>1, <3>2, <3>3, Actors DEF Tick, vars
  <2>2. PICK l \in Levels, x \in Nat :
          /\ x >= Total(save) /\ TotalXp[l] \in Nat
          /\ save' = Rewarded(save, save, claim[c].at, l, x)
    BY <2>0, <2>1, CommitFacts
  <2>3. save'.level = l /\ (l # Cap => save'.xp = x - TotalXp[l])
    BY <2>2 DEF Rewarded
  <2>4. CASE l # Cap
    <3>1. Total(save') = TotalXp[l] + (x - TotalXp[l])
      BY <2>3, <2>4 DEF Total
    <3>2. Total(save') = x
      BY <2>2, <3>1
    <3> QED BY <2>2, <3>2
  <2> QED BY <2>3, <2>4
<1> QED BY SerialCorrect, <1>1, PTL DEF Spec, ClaimKeepsProgress

-------------------------------------------------------------------------------
(* The idle time is paid once. *)

\* A claim's time is not before the row's lastActiveAt.
StampsFit ==
  \A c \in Claims : ClaimInFlight(c) =>
    claim[c].at <= now /\ (save # None => save.lastActiveAt <= claim[c].at)

\* What was paid lies before lastActiveAt, in the life of the row.
PaidBefore ==
  /\ save # None => save.lastActiveAt <= now /\ paid + born <= save.lastActiveAt
  /\ save = None => paid = 0

LEMMA TimePasses ==
  ASSUME TypeOK, [Next]_vars PROVE now' \in Nat /\ now <= now'
<1>1. now' = now \/ now' = now + 1
  BY DEF Next, vars, PutStep, PutCreate, PutCreateClash, PutImplausible, PutUpdate,
         PutUpdateMisses, PutReread, PutResume, PutRecordLevel, PutDone, PutFails,
         PutInvalid, PutRead, ClaimStart, ClaimRead, ClaimCommit, ClaimFails, Tick
<1> QED BY <1>1 DEF TypeOK

\* A claim is stamped when it is taken up.
LEMMA ClaimStamps ==
  ASSUME TypeOK, [Next]_vars, NEW c \in Claims, ClaimInFlight(c)'
  PROVE  \/ ClaimInFlight(c) /\ claim'[c].at = claim[c].at
         \/ claim'[c].at = now /\ now' = now
<1>0. claim[c] \in ClaimType /\ claim \in [Claims -> ClaimType]
  BY DEF TypeOK
<1>1. CASE ClaimStart(c)
  BY <1>0, <1>1 DEF ClaimStart
<1>2. CASE ClaimRead(c)
  <2> DEFINE s == IF save = None THEN "rejected" ELSE "read"
  <2>1. claim'[c] = [claim[c] EXCEPT !.pc = s, !.seen = save]
    BY <1>0, <1>2 DEF ClaimRead
  <2> HIDE DEF s
  <2>2. claim'[c].at = claim[c].at
    BY <1>0, <2>1, Zenon DEF ClaimType
  <2> QED BY <1>2, <2>2 DEF ClaimRead, ClaimInFlight
<1>3. ~ClaimCommit(c) /\ ~ClaimFails(c)
  BY <1>0 DEF ClaimCommit, ClaimFails, ClaimInFlight, ClaimType
<1>4. CASE claim'[c] = claim[c]
  BY <1>4 DEF ClaimInFlight
<1>5. \A p \in Puts : PutActs(p) => claim' = claim
  BY PutActsAlone
<1>6. \A d \in Claims : d # c /\ ClaimActs(d) => claim'[c] = claim[c]
  BY ClaimActsAlone
<1> QED BY <1>1, <1>2, <1>3, <1>4, <1>5, <1>6, Actors DEF ClaimActs, Tick, vars

LEMMA PaidStep ==
  ASSUME SerialInv, StampsFit, PaidBefore, [Next]_vars
  PROVE  StampsFit' /\ PaidBefore'
<1>0. /\ TypeOK /\ LockInv /\ Alone /\ Current
      /\ now \in Nat /\ paid \in Nat /\ born \in Nat
      /\ now' \in Nat /\ now <= now'
  BY TimePasses DEF SerialInv, LockInv, TypeOK
<1>1. CASE UNCHANGED <<save, born, paid>>
  <2>1. save # None => save.lastActiveAt \in Nat
    BY <1>0 DEF TypeOK, SaveType
  <2>2. PaidBefore'
    BY <1>0, <1>1, <2>1 DEF PaidBefore
  <2>3. ASSUME NEW c \in Claims, ClaimInFlight(c)'
        PROVE  claim'[c].at <= now' /\ (save # None => save.lastActiveAt <= claim'[c].at)
    <3>1. claim[c].at \in Nat
      BY <1>0 DEF TypeOK, ClaimType
    <3>2. CASE ClaimInFlight(c) /\ claim'[c].at = claim[c].at
      BY <1>0, <3>1, <3>2 DEF StampsFit
    <3>3. CASE claim'[c].at = now /\ now' = now
      BY <1>0, <3>3 DEF PaidBefore
    <3> QED BY <1>0, <2>3, <3>2, <3>3, ClaimStamps
  <2> QED BY <1>1, <2>2, <2>3 DEF StampsFit
<1>2. ASSUME NEW p \in Puts, PutCreate(p) \/ PutUpdate(p)
      PROVE  StampsFit' /\ PaidBefore'
  <2>1. StampsFit'
    BY <1>0, <1>2, WriterAlone DEF StampsFit
  <2>2. save' = RowOf(p) /\ paid' = paid /\ now' = now /\ save' # None
    BY <1>0, <1>2, RowType, NoneAssumption DEF PutCreate, PutUpdate, PutInFlight
  <2>3. save'.lastActiveAt = now
    BY <2>2 DEF RowOf
  <2>4. paid' + born' <= now
    <3>1. CASE PutCreate(p)
      BY <1>0, <2>2, <3>1 DEF PutCreate, PaidBefore
    <3>2. CASE PutUpdate(p)
      <4>1. save # None /\ born' = born
        BY <1>0, <3>2 DEF PutUpdate, Current
      <4>2. save.lastActiveAt \in Nat
        BY <1>0, <4>1 DEF TypeOK, SaveType
      <4> QED BY <1>0, <2>2, <4>1, <4>2 DEF PaidBefore
    <3> QED BY <1>2, <3>1, <3>2
  <2> QED BY <1>0, <2>1, <2>2, <2>3, <2>4 DEF PaidBefore
<1>3. ASSUME NEW c \in Claims, ClaimCommit(c)
      PROVE  StampsFit' /\ PaidBefore'
  <2> DEFINE t == claim[c].at
  <2>1. StampsFit'
    BY <1>0, <1>3, WriterAlone DEF StampsFit
  <2>2. PICK l \in Levels, x \in Nat :
          /\ save' = Rewarded(save, save, t, l, x)
          /\ paid' = paid + TimeAway(t, save)
    BY <1>0, <1>3, CommitFacts
  <2>3. save \in SaveType /\ t \in Nat /\ save' # None /\ save # None
    BY <1>0, <1>3, CommitFacts, CommitWrites, NoneAssumption
  <2>4. save'.lastActiveAt = t
    BY <2>2 DEF Rewarded
  <2>5. ClaimInFlight(c) /\ born' = born /\ now' = now
    BY <1>3 DEF ClaimCommit, ClaimInFlight
  <2>6. t <= now /\ save.lastActiveAt <= t /\ paid + born <= save.lastActiveAt
    BY <2>3, <2>5 DEF StampsFit, PaidBefore
  <2>7. save.lastActiveAt \in Nat /\ MaxOffline \in Nat
    BY <2>3, ConstantsAssumption DEF SaveType
  <2>8. TimeAway(t, save) \in Nat /\ TimeAway(t, save) <= t - save.lastActiveAt
    BY <2>3, <2>6, <2>7 DEF TimeAway, AtMost, AtLeast
  <2>9. paid' + born' <= t
    BY <1>0, <2>2, <2>3, <2>5, <2>6, <2>7, <2>8
  <2> QED BY <2>1, <2>3, <2>4, <2>5, <2>6, <2>9 DEF PaidBefore
<1> QED BY <1>1, <1>2, <1>3, Writers

\* One device is paid for a stretch of time once: everything paid, and all that
\* a claim would pay now, fits into the age of the save, whatever fails.
THEOREM IdleTimePaidOnceWhenSerial ==
  ASSUME SerialClients PROVE Spec => []IdleTimePaidOnce
<1>1. Init => StampsFit /\ PaidBefore
  BY DEF Init, StampsFit, PaidBefore, ClaimInFlight
<1>2. SerialInv /\ StampsFit /\ PaidBefore /\ [Next]_vars => StampsFit' /\ PaidBefore'
  BY PaidStep
<1>3. SerialInv /\ PaidBefore => IdleTimePaidOnce
  <2> SUFFICES ASSUME TypeOK, PaidBefore, save # None
               PROVE  paid + AtLeast(0, now - save.lastActiveAt) <= now - born
    BY DEF SerialInv, LockInv, IdleTimePaidOnce
  <2>1. save.lastActiveAt \in Nat /\ now \in Nat /\ paid \in Nat /\ born \in Nat
    BY DEF TypeOK, SaveType
  <2> QED BY <2>1 DEF PaidBefore, AtLeast
<1> QED BY SerialCorrect, <1>1, <1>2, <1>3, PTL DEF Spec

-------------------------------------------------------------------------------
(* Levels are reached in order. *)

RecordedBelow(n) == \A l \in Levels : l < n => reached[l] # None

ReachedBy(t) == \A l \in Levels : reached[l] # None => reached[l] <= t

\* A level that has a row has rows below it, in the order of the levels.
Ordered ==
  /\ \A l \in Levels : reached[l] # None => RecordedBelow(l)
  /\ LevelsReachedInOrder
  /\ ReachedBy(now)

Records(p) == put[p].pc \in {"updated", "levels"}

\* recordMetaLevels starts above the level the row had, and the levels up to
\* that one are recorded: every PUT before it finished its loop.
LoopInv ==
  /\ (\A p \in Puts : ~Records(p)) /\ save # None => RecordedBelow(save.level + 1)
  /\ \A p \in Puts : Records(p) => save # None /\ save.level = put[p].body.level
  /\ \A p \in Puts : put[p].pc = "updated" =>
       RecordedBelow(FirstNewLevel(put[p].seen))
  /\ \A p \in Puts : put[p].pc = "levels" =>
       RecordedBelow(put[p].next) /\ ReachedBy(put[p].at) /\ put[p].at <= now
  /\ \A c \in Claims : ClaimInFlight(c) => ReachedBy(claim[c].at)

LEMMA LevelsAreNat == Levels \subseteq Nat
BY ConstantsAssumption DEF Levels

\* Recording the levels of a set that leaves no gap, at a time no level is
\* later than.
LEMMA OrderedExtends ==
  ASSUME TypeOK, Ordered, NEW S, NEW t \in Nat, ReachedBy(t), t <= now, now' = now,
         \A l \in S \cap Levels, k \in Levels : k < l => k \in S \/ reached[k] # None,
         \A l \in Levels : reached'[l] = IF l \in S /\ reached[l] = None
                                         THEN t ELSE reached[l]
  PROVE  Ordered' /\ ReachedBy(t)'
<1> USE NoneAssumption
<1>1. ASSUME NEW l \in Levels, NEW k \in Levels, k < l, reached'[l] # None
      PROVE  reached'[k] # None
  BY <1>1 DEF Ordered, RecordedBelow
<1>2. ASSUME NEW k \in Levels, NEW l \in Levels, k < l,
             reached'[k] # None, reached'[l] # None
      PROVE  reached'[k] <= reached'[l]
  <2>1. CASE reached[l] # None
    <3>1. reached[k] # None
      BY <1>2, <2>1 DEF Ordered, RecordedBelow
    <3>2. reached'[l] = reached[l] /\ reached'[k] = reached[k]
      BY <2>1, <3>1
    <3> QED BY <1>2, <2>1, <3>1, <3>2 DEF Ordered, LevelsReachedInOrder
  <2>2. CASE reached[l] = None
    <3>1. reached'[l] = t
      BY <1>2, <2>2
    <3>2. reached'[k] = t \/ (reached[k] # None /\ reached'[k] = reached[k])
      BY <1>2
    <3> QED BY <3>1, <3>2 DEF ReachedBy
  <2> QED BY <2>1, <2>2
<1>3. ASSUME NEW l \in Levels, reached'[l] # None
      PROVE  reached'[l] <= t /\ reached'[l] <= now
  <2>1. reached'[l] = t \/ (reached[l] # None /\ reached'[l] = reached[l])
    BY <1>3
  <2>2. now \in Nat /\ reached[l] \in Nat \union {None}
    BY DEF TypeOK
  <2> QED BY <2>1, <2>2 DEF ReachedBy, Ordered
<1> QED BY <1>1, <1>2, <1>3 DEF Ordered, RecordedBelow, LevelsReachedInOrder, ReachedBy

\* A step that leaves the row, the levels and the PUTs that record alone.
LEMMA LevelQuiet ==
  ASSUME TypeOK, Ordered, LoopInv, UNCHANGED <<save, reached>>,
         now <= now', now' \in Nat,
         \A p \in Puts : Records(p) \/ Records(p)' => put'[p] = put[p],
         \A c \in Claims : ClaimInFlight(c)' =>
           \/ ClaimInFlight(c) /\ claim'[c].at = claim[c].at
           \/ claim'[c].at = now
  PROVE  Ordered' /\ LoopInv'
<1>0. /\ now \in Nat
      /\ \A l \in Levels : reached[l] # None => reached[l] \in Nat
      /\ \A p \in Puts : put[p].at \in Nat
  BY DEF TypeOK, PutType
<1>1. Ordered'
  BY <1>0 DEF Ordered, RecordedBelow, LevelsReachedInOrder, ReachedBy
<1>2. \A p \in Puts : Records(p)' => Records(p) /\ put'[p] = put[p]
  BY DEF Records
<1>3. \A p \in Puts : Records(p) => Records(p)'
  BY DEF Records
<1>4. /\ (\A p \in Puts : ~Records(p)') /\ save' # None => RecordedBelow(save.level + 1)'
      /\ \A p \in Puts : Records(p)' => save' # None /\ save'.level = put'[p].body.level
  BY <1>2, <1>3 DEF LoopInv, RecordedBelow
<1>5. ASSUME NEW p \in Puts, put'[p].pc = "updated"
      PROVE  RecordedBelow(FirstNewLevel(put[p].seen))'
  BY <1>2, <1>5 DEF LoopInv, RecordedBelow, Records, FirstNewLevel
<1>6. ASSUME NEW p \in Puts, put'[p].pc = "levels"
      PROVE  RecordedBelow(put[p].next)' /\ ReachedBy(put[p].at)' /\ put'[p].at <= now'
  BY <1>0, <1>2, <1>6 DEF LoopInv, RecordedBelow, ReachedBy, Records
<1>7. ASSUME NEW c \in Claims, ClaimInFlight(c)' PROVE ReachedBy(claim[c].at)'
  BY <1>7 DEF LoopInv, Ordered, ReachedBy
<1> QED BY <1>1, <1>4, <1>5, <1>6, <1>7 DEF LoopInv, Records

\* While one PUT is in flight the others record nothing and no claim runs.
OneWriter(p) ==
  /\ \A q \in Puts : q # p => ~Records(q) /\ ~Records(q)'
  /\ \A c \in Claims : ~ClaimInFlight(c)'

LEMMA OnePutWrites ==
  ASSUME TypeOK, Alone, NEW p \in Puts, PutInFlight(p), PutActs(p)
  PROVE  OneWriter(p)
BY OthersIdle DEF OneWriter, Records, PutInFlight

\* The row takes the level of the body, and its levels are still to be recorded
\* from the level after the one it had.
LEMMA LevelWrite ==
  ASSUME SerialInv, Ordered, LoopInv, NEW p \in Puts, PutCreate(p) \/ PutUpdate(p)
  PROVE  Ordered' /\ LoopInv'
<1>0. /\ TypeOK /\ Alone /\ Current
      /\ put[p].pc = "checked" /\ put[p].seen = save
      /\ PutInFlight(p) /\ PutActs(p)
  BY DEF SerialInv, LockInv, Current, PutCreate, PutUpdate, PutInFlight, PutActs,
         PutStep
<1>1. OneWriter(p)
  BY <1>0, OnePutWrites
<1>2. /\ put'[p].pc = "updated" /\ put'[p].seen = put[p].seen
      /\ put'[p].body = put[p].body
      /\ reached' = reached /\ now' = now /\ save' = RowOf(p)
  BY <1>0 DEF PutCreate, PutUpdate, TypeOK, PutType
<1>3. save' # None /\ save'.level = put'[p].body.level
  BY <1>0, <1>2, RowType, NoneAssumption DEF RowOf
<1>4. Ordered'
  BY <1>2 DEF Ordered, RecordedBelow, LevelsReachedInOrder, ReachedBy
<1>5. RecordedBelow(FirstNewLevel(save))
  <2>1. \A q \in Puts : ~Records(q)
    BY <1>0, <1>1 DEF OneWriter, Records
  <2>2. CASE save = None
    BY <2>2, LevelsAreNat, ConstantsAssumption
       DEF FirstNewLevel, RecordedBelow, Levels
  <2>3. CASE save # None
    BY <2>1, <2>3 DEF LoopInv, FirstNewLevel
  <2> QED BY <2>2, <2>3
<1>6. \A q \in Puts : Records(q)' => q = p
  BY <1>1 DEF OneWriter
<1>7. Records(p)'
  BY <1>2 DEF Records
<1>8. \A q \in Puts : put'[q].pc = "updated" => RecordedBelow(FirstNewLevel(put[q].seen))'
  BY <1>0, <1>2, <1>5, <1>6 DEF Records, RecordedBelow, FirstNewLevel
<1>9. \A q \in Puts : put'[q].pc # "levels"
  BY <1>2, <1>6 DEF Records
<1> QED BY <1>1, <1>3, <1>4, <1>6, <1>7, <1>8, <1>9 DEF LoopInv, OneWriter

\* The time stamp of the loop is taken now: no level is later.
LEMMA LevelResume ==
  ASSUME SerialInv, Ordered, LoopInv, NEW p \in Puts, PutResume(p)
  PROVE  Ordered' /\ LoopInv'
<1>0. /\ TypeOK /\ Alone /\ put[p] \in PutType /\ now \in Nat
      /\ put[p].pc = "updated" /\ PutInFlight(p) /\ PutActs(p)
  BY DEF SerialInv, LockInv, TypeOK, PutResume, PutInFlight, PutActs, PutStep
<1>1. OneWriter(p)
  BY <1>0, OnePutWrites
<1> DEFINE n == FirstNewLevel(put[p].seen)
           q == [put[p] EXCEPT !.pc = "levels", !.next = n, !.at = now]
<1>2. put'[p] = q /\ UNCHANGED <<now, save, reached>>
  BY <1>0 DEF PutResume, TypeOK
<1>3. RecordedBelow(n) /\ save # None /\ save.level = put[p].body.level
  BY <1>0 DEF LoopInv, Records
<1> HIDE DEF n
<1>4. q.pc = "levels" /\ q.next = n /\ q.at = now /\ q.body = put[p].body
  BY <1>0, Zenon DEF PutType
<1> HIDE DEF q
<1>5. Ordered'
  BY <1>2 DEF Ordered, RecordedBelow, LevelsReachedInOrder, ReachedBy
<1>6. /\ \A r \in Puts : Records(r)' => r = p
      /\ Records(p)'
      /\ \A r \in Puts : put'[r].pc # "updated"
  BY <1>1, <1>2, <1>4 DEF OneWriter, Records
<1>7. \A r \in Puts : Records(r)' => save' # None /\ save'.level = put'[r].body.level
  BY <1>2, <1>3, <1>4, <1>6
<1>8. \A r \in Puts : put'[r].pc = "levels" =>
        RecordedBelow(put[r].next)' /\ ReachedBy(put[r].at)' /\ put'[r].at <= now'
  <2> SUFFICES ASSUME NEW r \in Puts, put'[r].pc = "levels"
               PROVE  /\ RecordedBelow(put[r].next)' /\ ReachedBy(put[r].at)'
                      /\ put'[r].at <= now'
    OBVIOUS
  <2>1. r = p
    BY <1>6 DEF Records
  <2>2. put'[r].next = n /\ put'[r].at = now
    BY <1>2, <1>4, <2>1
  <2> QED BY <1>0, <1>2, <1>3, <2>2 DEF RecordedBelow, ReachedBy, Ordered
<1> QED BY <1>1, <1>5, <1>6, <1>7, <1>8 DEF LoopInv, OneWriter

\* One level more, or one that has its row already.
LEMMA LevelRecord ==
  ASSUME SerialInv, Ordered, LoopInv, NEW p \in Puts, PutRecordLevel(p)
  PROVE  Ordered' /\ LoopInv'
<1>0. /\ TypeOK /\ Alone /\ put[p] \in PutType /\ now \in Nat
      /\ put[p].pc = "levels" /\ PutInFlight(p) /\ PutActs(p)
  BY DEF SerialInv, LockInv, TypeOK, PutRecordLevel, PutInFlight, PutActs, PutStep
<1>a. PICK n \in Nat, t \in Nat : n = put[p].next /\ t = put[p].at
  BY <1>0 DEF PutType
<1>1. OneWriter(p)
  BY <1>0, OnePutWrites
<1>2. /\ put'[p].pc = "levels" /\ put'[p].next = n + 1 /\ put'[p].at = t
      /\ put'[p].body = put[p].body
      /\ UNCHANGED <<now, save>>
  BY <1>0, <1>a DEF PutRecordLevel, TypeOK, PutType
<1>3. \A l \in Levels : reached'[l] = IF l \in {n} /\ reached[l] = None
                                      THEN t ELSE reached[l]
  BY <1>0, <1>a DEF PutRecordLevel, WithLevel, TypeOK
<1>4. /\ RecordedBelow(n) /\ ReachedBy(t) /\ t <= now
      /\ save # None /\ save.level = put[p].body.level
  BY <1>0, <1>a DEF LoopInv, Records
<1>5. Ordered' /\ ReachedBy(t)'
  <2>1. \A l \in {n} \cap Levels, k \in Levels : k < l => k \in {n} \/ reached[k] # None
    BY <1>4 DEF RecordedBelow
  <2> QED BY <1>0, <1>2, <1>3, <1>4, <2>1, OrderedExtends
<1>6. RecordedBelow(n + 1)'
  <2> SUFFICES ASSUME NEW l \in Levels, l < n + 1 PROVE reached'[l] # None
    BY DEF RecordedBelow
  <2>1. l = n \/ l < n
    BY <1>0, LevelsAreNat
  <2> QED BY <1>0, <1>3, <1>4, <2>1, NoneAssumption DEF RecordedBelow
<1>7. /\ \A r \in Puts : Records(r)' => r = p
      /\ Records(p)'
      /\ \A r \in Puts : put'[r].pc # "updated"
  BY <1>1, <1>2 DEF OneWriter, Records
<1>8. \A r \in Puts : Records(r)' => save' # None /\ save'.level = put'[r].body.level
  BY <1>2, <1>4, <1>7
<1>9. \A r \in Puts : put'[r].pc = "levels" =>
        RecordedBelow(put[r].next)' /\ ReachedBy(put[r].at)' /\ put'[r].at <= now'
  <2> SUFFICES ASSUME NEW r \in Puts, put'[r].pc = "levels"
               PROVE  /\ RecordedBelow(put[r].next)' /\ ReachedBy(put[r].at)'
                      /\ put'[r].at <= now'
    OBVIOUS
  <2>1. r = p
    BY <1>7 DEF Records
  <2>2. put'[r].next = n + 1 /\ put'[r].at = t
    BY <1>2, <2>1
  <2>3. ReachedBy(put[r].at)'
    BY <1>5, <2>2 DEF ReachedBy
  <2>4. RecordedBelow(put[r].next)'
    BY <1>6, <2>2 DEF RecordedBelow
  <2> QED BY <1>2, <1>4, <2>2, <2>3, <2>4
<1> QED BY <1>1, <1>5, <1>7, <1>8, <1>9 DEF LoopInv, OneWriter

\* The loop ends above the level of the row.
LEMMA LevelDone ==
  ASSUME SerialInv, Ordered, LoopInv, NEW p \in Puts, PutDone(p)
  PROVE  Ordered' /\ LoopInv'
<1>0. /\ TypeOK /\ Alone /\ put[p] \in PutType /\ put[p].next \in Nat
      /\ put[p].pc = "levels" /\ PutInFlight(p) /\ PutActs(p)
  BY DEF SerialInv, LockInv, TypeOK, PutDone, PutInFlight, PutActs, PutStep, PutType
<1>1. OneWriter(p)
  BY <1>0, OnePutWrites
<1>2. put'[p].pc = "done" /\ UNCHANGED <<now, save, reached>>
        /\ put[p].next > put[p].body.level
  BY <1>0 DEF PutDone, TypeOK, PutType
<1>3. RecordedBelow(put[p].next) /\ save # None /\ save.level = put[p].body.level
  BY <1>0 DEF LoopInv, Records
<1>4. RecordedBelow(save.level + 1)
  <2> SUFFICES ASSUME NEW l \in Levels, l < save.level + 1 PROVE reached[l] # None
    BY DEF RecordedBelow
  <2>1. save.level \in Nat /\ l \in Nat
    BY <1>0, <1>3, LevelsAreNat DEF TypeOK, SaveType
  <2>2. put[p].next > save.level
    BY <1>2, <1>3
  <2>3. l < put[p].next
    BY <1>0, <2>1, <2>2
  <2> QED BY <1>3, <2>3 DEF RecordedBelow
<1>5. Ordered'
  BY <1>2 DEF Ordered, RecordedBelow, LevelsReachedInOrder, ReachedBy
<1>6. \A r \in Puts : ~Records(r)'
  BY <1>1, <1>2 DEF OneWriter, Records
<1> QED BY <1>1, <1>2, <1>4, <1>5, <1>6 DEF LoopInv, OneWriter, RecordedBelow, Records

\* A claim records all the levels it gains in one statement, at its own time.
LEMMA LevelCommit ==
  ASSUME SerialInv, StampsFit, Ordered, LoopInv, NEW c \in Claims, ClaimCommit(c)
  PROVE  Ordered' /\ LoopInv'
<1> DEFINE t == claim[c].at
<1>0. /\ TypeOK /\ LockInv /\ Alone /\ Current
      /\ ClaimInFlight(c) /\ ClaimActs(c) /\ now' = now
  BY DEF SerialInv, LockInv, ClaimCommit, ClaimInFlight, ClaimActs
<1>1. save \in SaveType /\ t \in Nat /\ save # None /\ save' # None
  BY <1>0, CommitFacts, CommitWrites, NoneAssumption
<1>2. PICK l \in Levels, x \in Nat :
        /\ l >= save.level
        /\ save' = Rewarded(save, save, t, l, x)
        /\ reached' = [k \in Levels |->
                         IF k \in (save.level + 1)..l /\ reached[k] = None
                         THEN t ELSE reached[k]]
  BY <1>0, CommitFacts
<1>3. save'.level = l
  BY <1>2 DEF Rewarded
<1>4. ReachedBy(t) /\ t <= now
  BY <1>0 DEF LoopInv, StampsFit
<1>5. \A p \in Puts : ~Records(p) /\ ~Records(p)'
  BY <1>0, OthersIdle DEF Records, PutInFlight
<1>6. RecordedBelow(save.level + 1)
  BY <1>1, <1>5 DEF LoopInv
<1>7. save.level \in Nat /\ l \in Nat
  BY <1>1, LevelsAreNat DEF SaveType
<1> HIDE DEF t
<1>8. Ordered'
  <2> DEFINE S == (save.level + 1)..l
  <2>1. \A m \in S \cap Levels, k \in Levels : k < m => k \in S \/ reached[k] # None
    BY <1>6, <1>7, LevelsAreNat DEF RecordedBelow
  <2>2. \A m \in Levels : reached'[m] = IF m \in S /\ reached[m] = None
                                        THEN t ELSE reached[m]
    BY <1>2
  <2> HIDE DEF S
  <2> QED BY <1>0, <1>1, <1>4, <2>1, <2>2, OrderedExtends
<1>9. RecordedBelow(l + 1)'
  <2> SUFFICES ASSUME NEW k \in Levels, k < l + 1 PROVE reached'[k] # None
    BY DEF RecordedBelow
  <2>1. k \in (save.level + 1)..l \/ k < save.level + 1
    BY <1>7, LevelsAreNat
  <2> QED BY <1>1, <1>2, <1>6, <2>1, NoneAssumption DEF RecordedBelow
<1>10. \A d \in Claims : ~ClaimInFlight(d)'
  BY <1>0, WriterAlone
<1>11. \A p \in Puts : put'[p].pc \notin {"updated", "levels"}
  BY <1>5 DEF Records
<1> QED BY <1>3, <1>5, <1>8, <1>9, <1>10, <1>11 DEF LoopInv, RecordedBelow

LEMMA LevelStep ==
  ASSUME ~Faults, SerialInv, StampsFit, Ordered, LoopInv, [Next]_vars
  PROVE  Ordered' /\ LoopInv'
<1>0. /\ TypeOK /\ LockInv /\ Alone /\ now' \in Nat /\ now <= now'
      /\ \A c \in Claims : ClaimInFlight(c)' =>
           \/ ClaimInFlight(c) /\ claim'[c].at = claim[c].at
           \/ claim'[c].at = now
  BY TimePasses, ClaimStamps DEF SerialInv, LockInv
<1>1. ASSUME UNCHANGED <<save, reached>>,
             \A p \in Puts : Records(p) \/ Records(p)' => put'[p] = put[p]
      PROVE  Ordered' /\ LoopInv'
  BY <1>0, <1>1, LevelQuiet
<1>2. ASSUME NEW p \in Puts, PutActs(p) PROVE Ordered' /\ LoopInv'
  <2>1. ASSUME UNCHANGED <<save, reached>>, ~Records(p), ~Records(p)'
        PROVE  Ordered' /\ LoopInv'
    BY <1>0, <1>1, <1>2, <2>1, PutActsAlone
  <2>2. CASE PutCreateClash(p) \/ PutImplausible(p) \/ PutUpdateMisses(p)
              \/ \E b \in Bodies : PutInvalid(p, b)
    BY <1>0, <2>1, <2>2
       DEF PutCreateClash, PutImplausible, PutUpdateMisses, PutInvalid, Records,
           TypeOK, PutType
  <2>3. CASE PutReread(p)
    <3> DEFINE a == save.version
               q == [put[p] EXCEPT !.pc = "conflict", !.answer = a]
    <3>1. put'[p] = q /\ UNCHANGED <<save, reached>> /\ put[p] \in PutType
      BY <1>0, <2>3 DEF PutReread, TypeOK
    <3> HIDE DEF a
    <3>2. q.pc = "conflict"
      BY <3>1, Zenon DEF PutType
    <3> QED BY <2>1, <2>3, <3>1, <3>2 DEF PutReread, Records
  <2>4. CASE \E v \in KnownVersions, b \in Bodies : PutRead(p, v, b)
    <3>1. put[p].pc = "idle" /\ UNCHANGED <<save, reached>>
      BY <2>4 DEF PutRead
    <3>2. put'[p].pc \in {"checked", "conflict"}
      BY <1>0, <2>4 DEF PutRead, AfterRead, TypeOK
    <3> QED BY <2>1, <3>1, <3>2 DEF Records
  <2>5. ~PutFails(p)
    BY DEF PutFails
  <2> QED BY <1>2, <2>2, <2>3, <2>4, <2>5, LevelWrite, LevelResume, LevelRecord,
             LevelDone DEF PutActs, PutStep
<1>3. ASSUME NEW c \in Claims, ClaimActs(c) PROVE Ordered' /\ LoopInv'
  <2>1. CASE ClaimCommit(c)
    BY <2>1, LevelCommit
  <2>2. CASE ~ClaimCommit(c)
    BY <1>1, <1>3, <2>2 DEF ClaimActs, ClaimStart, ClaimRead, ClaimFails
  <2> QED BY <2>1, <2>2
<1>4. CASE Tick \/ UNCHANGED vars
  BY <1>1, <1>4 DEF Tick, vars
<1> QED BY <1>2, <1>3, <1>4, Actors

\* For one device that awaits each answer, and as long as no request dies
\* between the update and the end of its loop, the times in MetaLevelReached
\* rise with the levels: PUTs that raise and lower the level, and claims, never
\* record a higher level before a lower one.
THEOREM LevelsReachedInOrderWhenSerial ==
  ASSUME SerialClients, ~Faults PROVE Spec => []LevelsReachedInOrder
<1>1. Init => StampsFit /\ PaidBefore /\ Ordered /\ LoopInv
  BY DEF Init, StampsFit, PaidBefore, ClaimInFlight, Ordered, LoopInv, RecordedBelow,
         LevelsReachedInOrder, ReachedBy, Records
<1>2. SerialInv /\ StampsFit /\ PaidBefore /\ [Next]_vars => StampsFit' /\ PaidBefore'
  BY PaidStep
<1>3. SerialInv /\ StampsFit /\ Ordered /\ LoopInv /\ [Next]_vars =>
        Ordered' /\ LoopInv'
  BY LevelStep
<1>4. Ordered => LevelsReachedInOrder
  BY DEF Ordered
<1> QED BY SerialCorrect, <1>1, <1>2, <1>3, <1>4, PTL DEF Spec

===============================================================================
