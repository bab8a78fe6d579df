--------------------------- MODULE BattleRunsProofs ---------------------------
(* Theorems about BattleRuns, for every value of its constants. *)
EXTENDS BattleRuns, TLAPS

-------------------------------------------------------------------------------
(* The operators on logs and submissions. *)

\* An event leaves the totals of a log naturals and only raises them.
LEMMA WithEventGrows ==
  ASSUME NEW t \in Totals, NEW e \in Totals
  PROVE  WithEvent(t, e) \in Totals /\ Below(t, WithEvent(t, e))
  BY DEF Totals, WithEvent, Larger, Below

\* What is below a log is below it after one more event.
LEMMA BelowTransitive ==
  ASSUME NEW t1 \in Totals, NEW t2 \in Totals, NEW t3 \in Totals,
         Below(t1, t2), Below(t2, t3)
  PROVE  Below(t1, t3)
  BY DEF Totals, Below

\* A submission that a log explains is explained by every larger log.
LEMMA MismatchShrinks ==
  ASSUME NEW s \in SubmissionType, NEW t1 \in Totals, NEW t2 \in Totals,
         Below(t1, t2), Mismatch(s, t2)
  PROVE  Mismatch(s, t1)
  BY ConstantsAssumption DEF SubmissionType, Totals, Below, Mismatch

LEMMA BelowItself ==
  ASSUME NEW t \in Totals PROVE Below(t, t)
  BY DEF Totals, Below

\* Deciding a request: two fields of its record change.
LEMMA DecidedType ==
  ASSUME NEW q \in RunReqType, NEW v \in {"ok", "mismatch", "no-session"}
  PROVE  [q EXCEPT !.pc = "creating", !.reason = v] \in RunReqType
  BY Zenon DEF RunReqType

LEMMA EmptyLogType == EmptyLog \in Totals
  BY DEF EmptyLog, Totals

-------------------------------------------------------------------------------
(* Type correctness. *)

LEMMA InitType == Init => TypeOK
<1> SUFFICES ASSUME Init PROVE TypeOK
  OBVIOUS
<1> USE EmptyLogType DEF Init
<1>1. now \in Nat /\ runs \subseteq RunType
  OBVIOUS
<1>2. session \in [Sessions -> SessionType]
  BY DEF SessionType
<1>3. log \in [Sessions -> Totals]
  OBVIOUS
<1>4. ev \in [EventReqs -> EventReqType]
  BY DEF EventReqType
<1>5. req \in [RunReqs -> RunReqType]
  <2>1. [survivalTime |-> 0, kills |-> 0, goldEarned |-> 0, level |-> 1]
          \in SubmissionType
    BY DEF SubmissionType
  <2> QED BY <2>1 DEF RunReqType
<1> QED BY <1>1, <1>2, <1>3, <1>4, <1>5
        DEF TypeOK, EventInFlight, RunInFlight

LEMMA TypeStep == TypeOK /\ [Next]_vars => TypeOK'
<1> SUFFICES ASSUME TypeOK, [Next]_vars PROVE TypeOK'
  OBVIOUS
<1> USE DEF EventInFlight, RunInFlight
<1>1. CASE UNCHANGED vars
  BY <1>1 DEF TypeOK, vars
<1>2. ASSUME NEW u \in Users, NEW s \in Sessions, CreateSession(u, s)
      PROVE  TypeOK'
  BY <1>2 DEF CreateSession, TypeOK, SessionType
<1>3. ASSUME NEW e \in EventReqs, EventStep(e) PROVE TypeOK'
  <2>1. ASSUME NEW u \in Users, NEW s \in Sessions, NEW x \in Events,
               RecordEventFind(e, u, s, x)
        PROVE  TypeOK'
    <3>1. ev' \in [EventReqs -> EventReqType]
      BY <2>1, ConstantsAssumption DEF RecordEventFind, TypeOK, EventReqType
    <3> QED BY <2>1, <3>1, ConstantsAssumption DEF RecordEventFind, TypeOK
  <2>2. CASE RecordEventInsert(e)
    <3>1. ev' \in [EventReqs -> EventReqType]
      BY <2>2 DEF RecordEventInsert, TypeOK, EventReqType
    <3>2. \A s \in Sessions : WithEvent(log[s], ev[e].event) \in Totals
      BY WithEventGrows DEF TypeOK, EventReqType
    <3>3. log' \in [Sessions -> Totals]
      BY <2>2, <3>2 DEF RecordEventInsert, TypeOK
    <3> QED BY <2>2, <3>1, <3>3 DEF RecordEventInsert, TypeOK
  <2>3. CASE EventFails(e)
    BY <2>3 DEF EventFails, TypeOK, EventReqType
  <2> QED BY <1>3, <2>1, <2>2, <2>3 DEF EventStep
<1>4. ASSUME NEW r \in RunReqs, RunStep(r) PROVE TypeOK'
  <2>1. ASSUME NEW u \in Users, NEW b \in Submissions, RejectRate(r, u, b)
        PROVE  TypeOK'
    <3>1. req' \in [RunReqs -> RunReqType]
      BY <2>1 DEF RejectRate, TypeOK, RunReqType
    <3> QED BY <2>1, <3>1 DEF RejectRate, TypeOK
  <2>2. ASSUME NEW u \in Users, NEW s \in Sessions \union {None},
               NEW b \in Submissions, SubmitRun(r, u, s, b)
        PROVE  TypeOK'
    <3>1. LatestRunAt(u) \subseteq Nat \union {None}
      BY DEF LatestRunAt, TypeOK, RunType
    <3>2. (IF s = None THEN EmptyLog ELSE log[s]) \in Totals
      BY EmptyLogType DEF TypeOK
    <3>3. b \in SubmissionType
      BY ConstantsAssumption
    <3>4. req' \in [RunReqs -> RunReqType]
      BY <2>2, <3>1, <3>2, <3>3 DEF SubmitRun, TypeOK, RunReqType
    <3> QED BY <2>2, <3>4 DEF SubmitRun, TypeOK
  <2>3. CASE RejectTooSoon(r)
    BY <2>3 DEF RejectTooSoon, TypeOK, RunReqType
  <2>4. CASE Finalize(r)
    <3>1. req' \in [RunReqs -> RunReqType]
      BY <2>4 DEF Finalize, TypeOK, RunReqType
    <3>2. session' \in [Sessions -> SessionType]
      BY <2>4 DEF Finalize, TypeOK, SessionType
    <3> QED BY <2>4, <3>1, <3>2 DEF Finalize, TypeOK
  <2>5. CASE NoSession(r)
    <3>1. req' \in [RunReqs -> RunReqType]
      BY <2>5, DecidedType DEF NoSession, TypeOK
    <3> QED BY <2>5, <3>1 DEF NoSession, TypeOK
  <2>6. CASE Reconcile(r)
    <3>1. req' \in [RunReqs -> RunReqType]
      BY <2>6, DecidedType DEF Reconcile, TypeOK
    <3> QED BY <2>6, <3>1 DEF Reconcile, TypeOK
  <2>7. CASE CreateRun(r)
    <3>1. req' \in [RunReqs -> RunReqType]
      BY <2>7 DEF CreateRun, TypeOK, RunReqType
    <3>2. RunRow(r) \in RunType
      BY <2>7 DEF CreateRun, TypeOK, RunReqType, RunRow, RunType
    <3> QED BY <2>7, <3>1, <3>2 DEF CreateRun, TypeOK
  <2>8. CASE RunFails(r)
    <3>1. (IF Claims(r) THEN "abandoned" ELSE "failed") \in {"abandoned", "failed"}
      OBVIOUS
    <3>2. req' \in [RunReqs -> RunReqType]
      BY <2>8, <3>1 DEF RunFails, TypeOK, RunReqType
    <3> QED BY <2>8, <3>1, <3>2 DEF RunFails, TypeOK
  <2> QED BY <1>4, <2>1, <2>2, <2>3, <2>4, <2>5, <2>6, <2>7, <2>8 DEF RunStep
<1>5. CASE Tick
  BY <1>5 DEF Tick, TypeOK
<1> QED BY <1>1, <1>2, <1>3, <1>4, <1>5 DEF Next

\* Every reachable state has the shapes the module declares.
THEOREM TypeCorrect == Spec => []TypeOK
<1>1. Init => TypeOK
  BY InitType
<1>2. TypeOK /\ [Next]_vars => TypeOK'
  BY TypeStep
<1> QED BY <1>1, <1>2, PTL DEF Spec

-------------------------------------------------------------------------------
(* The invariant: one claimant or one row for a closed session. *)

LEMMA InitIInv == Init => IInv
<1> SUFFICES ASSUME Init PROVE IInv
  OBVIOUS
<1>1. TypeOK
  BY InitType
<1>2. \A r \in RunReqs : req[r].pc = "idle"
  BY DEF Init
<1>3. runs = {}
  BY DEF Init
<1> QED BY <1>1, <1>2, <1>3
        DEF IInv, ClaimsClosed, ClaimsExclusive, Claims, RowsClosed, RowsById,
            FloorBelowLog, RunInFlight, VerdictSound, OneRunPerSession,
            EligibleRunsExplained, NoFalseMismatch, ClosedAccounted, Init

\* Who owes a run goes on owing it, or has stored it.
LEMMA AccountedKept ==
  ASSUME IInv,
         \A s \in Sessions : session'[s].status = "finalized" =>
           \/ session[s].status = "finalized"
           \/ \E q \in RunReqs : Owes(q)' /\ req'[q].session = s,
         runs \subseteq runs',
         \A q \in RunReqs : Owes(q) =>
           \/ Owes(q)' /\ req'[q].session = req[q].session
           \/ \E x \in runs' : x.session = req[q].session
  PROVE  ClosedAccounted'
  BY DEF IInv, ClosedAccounted

\* A step that touches neither sessions, log, runs nor run requests.
LEMMA UntouchedStep ==
  ASSUME IInv, TypeOK', UNCHANGED <<session, log, runs, req>>
  PROVE  IInv'
  BY DEF IInv, ClaimsClosed, ClaimsExclusive, Claims, RowsClosed, RowsById,
         FloorBelowLog, RunInFlight, VerdictSound, OneRunPerSession,
         EligibleRunsExplained, NoFalseMismatch, ClosedAccounted, Owes

LEMMA CreateSessionStep ==
  ASSUME IInv, TypeOK', NEW u \in Users, NEW s \in Sessions,
         CreateSession(u, s)
  PROVE  IInv'
<1>1. /\ session[s].status = "absent"
      /\ \A z \in Sessions : z # s => session'[z] = session[z]
      /\ session'[s].status = "active"
      /\ UNCHANGED <<log, runs, req>>
  BY DEF CreateSession, IInv, TypeOK
<1>2. ClaimsClosed'
  BY <1>1 DEF IInv, ClaimsClosed, Claims
<1>3. RowsClosed' /\ EligibleRunsExplained'
  BY <1>1 DEF IInv, TypeOK, RunType, RowsClosed, EligibleRunsExplained
<1>4. /\ ClaimsExclusive' /\ RowsById' /\ FloorBelowLog' /\ VerdictSound'
      /\ OneRunPerSession' /\ NoFalseMismatch'
  BY <1>1 DEF IInv, ClaimsExclusive, Claims, RowsById, FloorBelowLog,
              RunInFlight, VerdictSound, OneRunPerSession, NoFalseMismatch
<1>5. ClosedAccounted'
  BY <1>1, AccountedKept DEF Owes, Claims
<1> QED BY <1>2, <1>3, <1>4, <1>5 DEF IInv

\* A late or early event only raises the log, which keeps every verdict.
LEMMA InsertStep ==
  ASSUME IInv, TypeOK', NEW e \in EventReqs, RecordEventInsert(e)
  PROVE  IInv'
<1> USE DEF EventInFlight
<1>1. UNCHANGED <<session, runs, req>>
  BY DEF RecordEventInsert
<1>2. \A s \in Sessions : /\ log[s] \in Totals
                         /\ log'[s] \in Totals
                         /\ Below(log[s], log'[s])
  <2> SUFFICES ASSUME NEW s \in Sessions
               PROVE  /\ log[s] \in Totals
                      /\ log'[s] \in Totals
                      /\ Below(log[s], log'[s])
    OBVIOUS
  <2>1. log[s] \in Totals /\ log'[s] \in Totals
    BY DEF IInv, TypeOK
  <2>2. CASE s = ev[e].session
    <3>1. ev[e].event \in Totals
      BY DEF IInv, TypeOK, EventReqType
    <3>2. log'[s] = WithEvent(log[s], ev[e].event)
      BY <2>2 DEF RecordEventInsert, IInv, TypeOK
    <3> QED BY <2>1, <3>1, <3>2, WithEventGrows
  <2>3. CASE s # ev[e].session
    <3>1. log'[s] = log[s]
      BY <2>3 DEF RecordEventInsert, IInv, TypeOK
    <3> QED BY <2>1, <3>1, BelowItself
  <2> QED BY <2>2, <2>3
<1>3. \A s \in Sessions : \A b \in SubmissionType :
        Mismatch(b, log'[s]) => Mismatch(b, log[s])
  BY <1>2, MismatchShrinks
<1>4. FloorBelowLog'
  <2> SUFFICES ASSUME NEW r \in RunReqs, RunInFlight(r)',
                      req'[r].session # None
               PROVE  Below(req[r].floor, log'[req[r].session])
    BY <1>1 DEF FloorBelowLog
  <2>1. RunInFlight(r) /\ req[r].session # None
    BY <1>1 DEF RunInFlight
  <2>2. req[r].session \in Sessions /\ req[r].floor \in Totals
    BY <2>1 DEF IInv, TypeOK, RunReqType
  <2>3. Below(req[r].floor, log[req[r].session])
    BY <2>1 DEF IInv, FloorBelowLog
  <2> QED BY <1>2, <2>2, <2>3, BelowTransitive
<1>5. VerdictSound'
  <2> SUFFICES ASSUME NEW r \in RunReqs, req[r].pc = "creating"
               PROVE  /\ req[r].reason = "ok" =>
                           ~Mismatch(req[r].sub, log'[req[r].session])
                      /\ req[r].reason = "mismatch" =>
                           Mismatch(req[r].sub, req[r].floor)
    BY <1>1 DEF VerdictSound
  <2>1. CASE req[r].reason = "ok"
    <3>1. req[r].session \in Sessions /\ req[r].sub \in SubmissionType
      BY <2>1 DEF IInv, ClaimsClosed, Claims, TypeOK, RunReqType
    <3>2. ~Mismatch(req[r].sub, log[req[r].session])
      BY <2>1 DEF IInv, VerdictSound
    <3> QED BY <2>1, <1>3, <3>1, <3>2
  <2>2. CASE req[r].reason # "ok"
    BY <2>2 DEF IInv, VerdictSound
  <2> QED BY <2>1, <2>2
<1>6. EligibleRunsExplained'
  <2> SUFFICES ASSUME NEW x \in runs, x.eligible
               PROVE  /\ x.session \in Sessions
                      /\ session[x.session]
                           = [status |-> "finalized", owner |-> x.user]
                      /\ ~Mismatch(x.sub, log'[x.session])
    BY <1>1 DEF EligibleRunsExplained
  <2>1. /\ x.session \in Sessions
        /\ session[x.session] = [status |-> "finalized", owner |-> x.user]
        /\ ~Mismatch(x.sub, log[x.session])
    BY DEF IInv, EligibleRunsExplained
  <2>2. x.sub \in SubmissionType
    BY DEF IInv, TypeOK, RunType
  <2> QED BY <1>3, <2>1, <2>2
<1>7. /\ ClaimsClosed' /\ ClaimsExclusive' /\ RowsClosed' /\ RowsById'
      /\ OneRunPerSession' /\ NoFalseMismatch'
  BY <1>1 DEF IInv, ClaimsClosed, ClaimsExclusive, Claims, RowsClosed,
              RowsById, OneRunPerSession, NoFalseMismatch
<1>8. ClosedAccounted'
  BY <1>1, AccountedKept DEF Owes, Claims
<1> QED BY <1>4, <1>5, <1>6, <1>7, <1>8 DEF IInv

\* A request that ends without a row gives up whatever it claimed, and goes on
\* owing its run.
LEMMA EndStep ==
  ASSUME IInv, TypeOK', NEW r \in RunReqs, req[r].pc \notin {"done", "abandoned"},
         NEW v \in {"rejected", "failed", "abandoned"},
         Claims(r) => v = "abandoned",
         req' = [req EXCEPT ![r].pc = v], UNCHANGED <<session, log, runs>>
  PROVE  IInv'
<1>1. /\ req'[r].pc = v
      /\ req'[r].session = req[r].session
      /\ \A q \in RunReqs : q # r => req'[q] = req[q]
  BY DEF IInv, TypeOK, RunReqType
<1>2. \A q \in RunReqs : Claims(q)' => q # r /\ Claims(q)
  BY <1>1 DEF Claims
<1>3. \A x \in runs : x.id \in RunReqs /\ x.id # r
  BY DEF IInv, RowsById, TypeOK, RunType
<1>4. ClaimsClosed' /\ ClaimsExclusive'
  BY <1>1, <1>2 DEF IInv, ClaimsClosed, ClaimsExclusive
<1>5. RowsById' /\ NoFalseMismatch'
  BY <1>1, <1>3 DEF IInv, RowsById, NoFalseMismatch
<1>6. FloorBelowLog' /\ VerdictSound'
  BY <1>1 DEF IInv, FloorBelowLog, RunInFlight, VerdictSound
<1>7. RowsClosed' /\ OneRunPerSession' /\ EligibleRunsExplained'
  BY DEF IInv, RowsClosed, OneRunPerSession, EligibleRunsExplained
<1>8. ClosedAccounted'
  BY <1>1, AccountedKept DEF Owes, Claims
<1> QED BY <1>4, <1>5, <1>6, <1>7, <1>8 DEF IInv

LEMMA SubmitStep ==
  ASSUME IInv, TypeOK', NEW r \in RunReqs, NEW u \in Users,
         NEW s \in Sessions \union {None}, NEW b \in Submissions,
         SubmitRun(r, u, s, b)
  PROVE  IInv'
<1>1. /\ req[r].pc = "idle"
      /\ req'[r].pc = "spacing"
      /\ req'[r].session = s
      /\ req'[r].floor = IF s = None THEN EmptyLog ELSE log[s]
      /\ \A q \in RunReqs : q # r => req'[q] = req[q]
      /\ UNCHANGED <<session, log, runs>>
  BY DEF SubmitRun, IInv, TypeOK
<1>2. \A q \in RunReqs : Claims(q)' => q # r /\ Claims(q)
  BY <1>1 DEF Claims
<1>3. \A x \in runs : x.id \in RunReqs /\ x.id # r
  BY <1>1 DEF IInv, RowsById, TypeOK, RunType
<1>4. ClaimsClosed' /\ ClaimsExclusive'
  BY <1>1, <1>2 DEF IInv, ClaimsClosed, ClaimsExclusive
<1>5. RowsById' /\ NoFalseMismatch'
  BY <1>1, <1>3 DEF IInv, RowsById, NoFalseMismatch
<1>6. VerdictSound'
  BY <1>1 DEF IInv, VerdictSound
<1>7. FloorBelowLog'
  <2> SUFFICES ASSUME NEW q \in RunReqs, RunInFlight(q)',
                      req'[q].session # None
               PROVE  Below(req'[q].floor, log[req'[q].session])
    BY <1>1 DEF FloorBelowLog
  <2>1. CASE q = r
    BY <2>1, <1>1, BelowItself DEF IInv, TypeOK
  <2>2. CASE q # r
    BY <2>2, <1>1 DEF IInv, FloorBelowLog, RunInFlight
  <2> QED BY <2>1, <2>2
<1>8. RowsClosed' /\ OneRunPerSession' /\ EligibleRunsExplained'
  BY <1>1 DEF IInv, RowsClosed, OneRunPerSession, EligibleRunsExplained
<1>9. ClosedAccounted'
  BY <1>1, AccountedKept DEF Owes, Claims
<1> QED BY <1>4, <1>5, <1>6, <1>7, <1>8, <1>9 DEF IInv

\* The conditional update: nobody claimed the session while it was active.
LEMMA FinalizeStep ==
  ASSUME IInv, TypeOK', NEW r \in RunReqs, Finalize(r)
  PROVE  IInv'
<1> DEFINE s == req[r].session
<1>1. /\ req[r].pc = "spacing"
      /\ s \in Sessions
      /\ req[r].user \in Users
      /\ session[s] = [status |-> "active", owner |-> req[r].user]
      /\ UNCHANGED <<log, runs>>
  <2>1. req[r].pc = "spacing" /\ OpenFor(req[r].session, req[r].user)
    BY DEF Finalize
  <2>2. s \in Sessions
    BY <2>1 DEF OpenFor, IInv, TypeOK, RunReqType
  <2>3. req[r].user \in Users
    BY <2>1 DEF IInv, TypeOK, RunInFlight
  <2> QED BY <2>1, <2>2, <2>3 DEF Finalize, OpenFor
<1>2. /\ req'[r] = [req[r] EXCEPT !.pc = "reading"]
      /\ \A q \in RunReqs : q # r => req'[q] = req[q]
  BY DEF Finalize, IInv, TypeOK
<1>3. /\ session'[s] = [status |-> "finalized", owner |-> req[r].user]
      /\ \A z \in Sessions : z # s => session'[z] = session[z]
  <2>1. session' = [session EXCEPT ![s].status = "finalized"]
    BY DEF Finalize
  <2>2. session'[s] = [session[s] EXCEPT !.status = "finalized"]
    BY <1>1, <2>1 DEF IInv, TypeOK
  <2>3. [session[s] EXCEPT !.status = "finalized"]
          = [status |-> "finalized", owner |-> req[r].user]
    BY <1>1
  <2> QED BY <1>1, <2>1, <2>2, <2>3 DEF IInv, TypeOK
<1>4. /\ req'[r].pc = "reading"
      /\ req'[r].session = s
      /\ req'[r].user = req[r].user
      /\ req'[r].floor = req[r].floor
  BY <1>2 DEF IInv, TypeOK, RunReqType
<1> HIDE DEF s
<1>a. session[s].status # "finalized"
  BY <1>1
<1>5. \A q \in RunReqs : Claims(q) => req[q].session # s
  <2> SUFFICES ASSUME NEW q \in RunReqs, Claims(q) PROVE req[q].session # s
    OBVIOUS
  <2>1. session[req[q].session]
          = [status |-> "finalized", owner |-> req[q].user]
    BY DEF IInv, ClaimsClosed
  <2> QED BY <1>a, <2>1
<1>6. \A x \in runs : x.session # s
  <2> SUFFICES ASSUME NEW x \in runs, x.session = s PROVE FALSE
    OBVIOUS
  <2>1. session[s] = [status |-> "finalized", owner |-> x.user]
    BY <1>1, ConstantsAssumption DEF IInv, RowsClosed
  <2> QED BY <1>a, <2>1
<1>7. \A q \in RunReqs : q # r => (Claims(q)' <=> Claims(q))
  BY <1>2 DEF Claims
<1>8. ClaimsClosed'
  <2> SUFFICES ASSUME NEW q \in RunReqs, Claims(q)'
               PROVE  /\ req'[q].session \in Sessions
                      /\ req'[q].user \in Users
                      /\ session'[req'[q].session]
                           = [status |-> "finalized", owner |-> req'[q].user]
    BY DEF ClaimsClosed
  <2>1. CASE q = r
    BY <2>1, <1>1, <1>3, <1>4
  <2>2. CASE q # r
    BY <2>2, <1>2, <1>3, <1>5, <1>7 DEF IInv, ClaimsClosed
  <2> QED BY <2>1, <2>2
<1>9. ClaimsExclusive'
  <2>1. ASSUME NEW p \in RunReqs, NEW q \in RunReqs, Claims(p)', Claims(q)',
               req'[p].session = req'[q].session
        PROVE  p = q
    BY <2>1, <1>2, <1>4, <1>5, <1>7 DEF IInv, ClaimsExclusive
  <2>2. ASSUME NEW q \in RunReqs, NEW x \in runs, Claims(q)'
        PROVE  x.session # req'[q].session
    BY <2>2, <1>2, <1>4, <1>6, <1>7 DEF IInv, ClaimsExclusive
  <2> QED BY <1>1, <2>1, <2>2 DEF ClaimsExclusive
<1>10. RowsClosed' /\ EligibleRunsExplained'
  BY <1>1, <1>3, <1>6 DEF IInv, TypeOK, RunType, RowsClosed,
                          EligibleRunsExplained
<1>b. \A x \in runs : x.id \in RunReqs /\ x.id # r
  BY <1>1 DEF IInv, RowsById, TypeOK, RunType
<1>11. RowsById' /\ NoFalseMismatch'
  BY <1>1, <1>2, <1>b DEF IInv, RowsById, NoFalseMismatch
<1>12. FloorBelowLog' /\ VerdictSound'
  <2>1. RunInFlight(r) /\ req[r].session = s
    BY <1>1 DEF RunInFlight, s
  <2>2. \A q \in RunReqs : q # r => (RunInFlight(q)' <=> RunInFlight(q))
    BY <1>2 DEF RunInFlight
  <2>3. FloorBelowLog'
    BY <1>1, <1>2, <1>4, <2>1, <2>2 DEF IInv, FloorBelowLog
  <2>4. VerdictSound'
    BY <1>1, <1>2, <1>4 DEF IInv, VerdictSound
  <2> QED BY <2>3, <2>4
<1>13. OneRunPerSession'
  BY <1>1 DEF IInv, OneRunPerSession
<1>14. ClosedAccounted'
  <2>1. Owes(r)' /\ req'[r].session = s
    BY <1>4 DEF Owes, Claims
  <2>2. ~Owes(r)
    BY <1>1 DEF Owes, Claims
  <2>3. \A q \in RunReqs : Owes(q) => Owes(q)' /\ req'[q].session = req[q].session
    BY <1>2, <2>2 DEF Owes, Claims
  <2> QED BY <1>1, <1>3, <2>1, <2>3, AccountedKept
<1> QED BY <1>8, <1>9, <1>10, <1>11, <1>12, <1>13, <1>14 DEF IInv

LEMMA NoSessionStep ==
  ASSUME IInv, TypeOK', NEW r \in RunReqs, NoSession(r)
  PROVE  IInv'
<1>1. /\ req[r].pc = "spacing"
      /\ req' = [req EXCEPT ![r] =
                   [@ EXCEPT !.pc = "creating", !.reason = "no-session"]]
      /\ UNCHANGED <<session, log, runs>>
  BY DEF NoSession
<1>2. /\ req'[r] = [req[r] EXCEPT !.pc = "creating", !.reason = "no-session"]
      /\ \A q \in RunReqs : q # r => req'[q] = req[q]
  BY <1>1 DEF IInv, TypeOK
<1>3. /\ req'[r].pc = "creating"
      /\ req'[r].reason = "no-session"
      /\ req'[r].session = req[r].session
      /\ req'[r].floor = req[r].floor
  <2>1. req[r] \in RunReqType
    BY DEF IInv, TypeOK
  <2> QED BY <1>2, <2>1, Zenon DEF RunReqType
<1>4. \A q \in RunReqs : Claims(q)' => q # r /\ Claims(q)
  BY <1>2, <1>3 DEF Claims
<1>5. \A x \in runs : x.id \in RunReqs /\ x.id # r
  BY <1>1 DEF IInv, RowsById, TypeOK, RunType
<1>6. ClaimsClosed' /\ ClaimsExclusive'
  BY <1>1, <1>2, <1>4 DEF IInv, ClaimsClosed, ClaimsExclusive
<1>7. RowsById' /\ NoFalseMismatch'
  BY <1>1, <1>2, <1>5 DEF IInv, RowsById, NoFalseMismatch
<1>8. FloorBelowLog'
  <2>1. RunInFlight(r)
    BY <1>1 DEF RunInFlight
  <2>2. \A q \in RunReqs : q # r => (RunInFlight(q)' <=> RunInFlight(q))
    BY <1>2 DEF RunInFlight
  <2> QED BY <1>1, <1>2, <1>3, <2>1, <2>2 DEF IInv, FloorBelowLog
<1>9. VerdictSound'
  BY <1>1, <1>2, <1>3 DEF IInv, VerdictSound
<1>10. RowsClosed' /\ OneRunPerSession' /\ EligibleRunsExplained'
  BY <1>1 DEF IInv, RowsClosed, OneRunPerSession, EligibleRunsExplained
<1>11. ClosedAccounted'
  <2>1. \A q \in RunReqs : Owes(q) => Owes(q)' /\ req'[q].session = req[q].session
    BY <1>1, <1>2 DEF Owes, Claims
  <2> QED BY <1>1, <2>1, AccountedKept
<1> QED BY <1>6, <1>7, <1>8, <1>9, <1>10, <1>11 DEF IInv

\* The verdict: read off the log as it is now, which is above the floor.
LEMMA ReconcileStep ==
  ASSUME IInv, TypeOK', NEW r \in RunReqs, Reconcile(r)
  PROVE  IInv'
<1> DEFINE s == req[r].session
           v == IF Mismatch(req[r].sub, log[s]) THEN "mismatch" ELSE "ok"
<1>1. /\ req[r].pc = "reading"
      /\ req' = [req EXCEPT ![r] = [@ EXCEPT !.pc = "creating", !.reason = v]]
      /\ UNCHANGED <<session, log, runs>>
  BY DEF Reconcile
<1>2. /\ req'[r] = [req[r] EXCEPT !.pc = "creating", !.reason = v]
      /\ \A q \in RunReqs : q # r => req'[q] = req[q]
  BY <1>1 DEF IInv, TypeOK
<1> HIDE DEF v
<1>3. /\ req'[r].pc = "creating"
      /\ req'[r].reason = v
      /\ req'[r].session = s
      /\ req'[r].user = req[r].user
      /\ req'[r].sub = req[r].sub
      /\ req'[r].floor = req[r].floor
  <2>1. req[r] \in RunReqType /\ v \in {"ok", "mismatch", "no-session"}
    BY DEF IInv, TypeOK, v
  <2> QED BY <1>2, <2>1, Zenon DEF RunReqType
<1> HIDE DEF s
<1>4. s \in Sessions /\ req[r].session = s
  BY <1>1 DEF IInv, ClaimsClosed, Claims, s
<1>5. v # "no-session"
  BY DEF v
<1>6. \A q \in RunReqs : Claims(q)' <=> Claims(q)
  BY <1>1, <1>2, <1>3, <1>5 DEF Claims
<1>7. /\ \A q \in RunReqs : req'[q].session = req[q].session
      /\ \A q \in RunReqs : req'[q].user = req[q].user
  BY <1>2, <1>3, <1>4
<1>8. ClaimsClosed' /\ ClaimsExclusive'
  BY <1>1, <1>6, <1>7 DEF IInv, ClaimsClosed, ClaimsExclusive
<1>9. \A x \in runs : x.id \in RunReqs /\ x.id # r
  BY <1>1 DEF IInv, RowsById, TypeOK, RunType
<1>10. RowsById' /\ NoFalseMismatch'
  BY <1>1, <1>2, <1>9 DEF IInv, RowsById, NoFalseMismatch
<1>11. Below(req[r].floor, log[s])
  BY <1>1, <1>4, ConstantsAssumption DEF IInv, FloorBelowLog, RunInFlight
<1>12. FloorBelowLog'
  <2> SUFFICES ASSUME NEW q \in RunReqs, RunInFlight(q)',
                      req'[q].session # None
               PROVE  Below(req'[q].floor, log[req'[q].session])
    BY <1>1 DEF FloorBelowLog
  <2>1. CASE q = r
    BY <2>1, <1>3, <1>11
  <2>2. CASE q # r
    BY <2>2, <1>2 DEF IInv, FloorBelowLog, RunInFlight
  <2> QED BY <2>1, <2>2
<1>13. v = "mismatch" => Mismatch(req[r].sub, req[r].floor)
  <2>1. /\ req[r].sub \in SubmissionType
        /\ req[r].floor \in Totals
        /\ log[s] \in Totals
    BY <1>4 DEF IInv, TypeOK, RunReqType
  <2>2. v = "mismatch" => Mismatch(req[r].sub, log[s])
    BY DEF v
  <2> QED BY <1>11, <2>1, <2>2, MismatchShrinks
<1>14. v = "ok" => ~Mismatch(req[r].sub, log[s])
  BY DEF v
<1>15. VerdictSound'
  <2> SUFFICES ASSUME NEW q \in RunReqs, req'[q].pc = "creating"
               PROVE  /\ req'[q].reason = "ok" =>
                           ~Mismatch(req'[q].sub, log[req'[q].session])
                      /\ req'[q].reason = "mismatch" =>
                           Mismatch(req'[q].sub, req'[q].floor)
    BY <1>1 DEF VerdictSound
  <2>1. CASE q = r
    BY <2>1, <1>3, <1>13, <1>14
  <2>2. CASE q # r
    BY <2>2, <1>2 DEF IInv, VerdictSound
  <2> QED BY <2>1, <2>2
<1>16. RowsClosed' /\ OneRunPerSession' /\ EligibleRunsExplained'
  BY <1>1 DEF IInv, RowsClosed, OneRunPerSession, EligibleRunsExplained
<1>17. ClosedAccounted'
  <2>1. \A q \in RunReqs : Owes(q) => Owes(q)'
    BY <1>1, <1>2, <1>6 DEF Owes
  <2> QED BY <1>1, <1>7, <2>1, AccountedKept
<1> QED BY <1>8, <1>10, <1>12, <1>15, <1>16, <1>17 DEF IInv

\* The row takes the claim of its request over.
LEMMA CreateRunStep ==
  ASSUME IInv, TypeOK', NEW r \in RunReqs, CreateRun(r)
  PROVE  IInv'
<1> DEFINE row == RunRow(r)
<1>1. /\ req[r].pc = "creating"
      /\ runs' = runs \union {row}
      /\ UNCHANGED <<session, log>>
  BY DEF CreateRun
<1>2. /\ req'[r] = [req[r] EXCEPT !.pc = "done"]
      /\ \A q \in RunReqs : q # r => req'[q] = req[q]
  BY DEF CreateRun, IInv, TypeOK
<1>3. /\ req'[r].pc = "done"
      /\ req'[r].floor = req[r].floor
  BY <1>2 DEF IInv, TypeOK, RunReqType
<1>4. /\ row.id = r
      /\ row.user = req[r].user
      /\ row.session = IF req[r].reason = "no-session"
                       THEN None ELSE req[r].session
      /\ row.sub = req[r].sub
      /\ row.eligible = (req[r].reason = "ok")
  BY DEF RunRow
<1> HIDE DEF row
<1>5. row.session # None => Claims(r) /\ row.session = req[r].session
  BY <1>1, <1>4 DEF Claims
<1>6. \A x \in runs : x.id \in RunReqs /\ x.id # r
  BY <1>1 DEF IInv, RowsById, TypeOK, RunType
<1>7. \A q \in RunReqs : Claims(q)' => q # r /\ Claims(q)
  BY <1>2, <1>3 DEF Claims
<1>8. ClaimsClosed'
  BY <1>1, <1>2, <1>7 DEF IInv, ClaimsClosed
<1>9. ClaimsExclusive'
  <2>1. ASSUME NEW p \in RunReqs, NEW q \in RunReqs, Claims(p)', Claims(q)',
               req'[p].session = req'[q].session
        PROVE  p = q
    BY <2>1, <1>2, <1>7 DEF IInv, ClaimsExclusive
  <2>2. ASSUME NEW q \in RunReqs, NEW x \in runs', Claims(q)'
        PROVE  x.session # req'[q].session
    <3>1. q # r /\ Claims(q) /\ req'[q] = req[q]
      BY <2>2, <1>2, <1>7
    <3>2. CASE x \in runs
      BY <3>1, <3>2 DEF IInv, ClaimsExclusive
    <3>3. CASE x = row
      <4>1. req[q].session # None
        BY <3>1, ConstantsAssumption DEF IInv, ClaimsClosed
      <4> QED BY <3>1, <3>3, <4>1, <1>5 DEF IInv, ClaimsExclusive
    <3> QED BY <1>1, <3>2, <3>3
  <2> QED BY <2>1, <2>2 DEF ClaimsExclusive
<1>10. RowsClosed'
  <2>1. row.session # None =>
          session[row.session] = [status |-> "finalized", owner |-> row.user]
    BY <1>4, <1>5 DEF IInv, ClaimsClosed
  <2>2. ASSUME NEW x \in runs', x.session # None
        PROVE  session[x.session]
                 = [status |-> "finalized", owner |-> x.user]
    <3>1. CASE x \in runs
      BY <2>2, <3>1 DEF IInv, RowsClosed
    <3>2. CASE x = row
      BY <2>1, <2>2, <3>2
    <3> QED BY <1>1, <3>1, <3>2
  <2> QED BY <1>1, <2>2 DEF RowsClosed
<1>11. RowsById'
  <2>1. \A x \in runs' : req'[x.id].pc = "done"
    BY <1>1, <1>2, <1>3, <1>4, <1>6 DEF IInv, RowsById
  <2>2. \A x, y \in runs' : x.id = y.id => x = y
    BY <1>1, <1>4, <1>6 DEF IInv, RowsById
  <2> QED BY <2>1, <2>2 DEF RowsById
<1>12. OneRunPerSession'
  <2>1. \A x \in runs : x.session = row.session => row.session = None
    BY <1>5 DEF IInv, ClaimsExclusive
  <2> QED BY <1>1, <2>1 DEF IInv, OneRunPerSession
<1>13. EligibleRunsExplained'
  <2>1. ASSUME row.eligible
        PROVE  /\ row.session \in Sessions
               /\ session[row.session]
                    = [status |-> "finalized", owner |-> row.user]
               /\ ~Mismatch(row.sub, log[row.session])
    <3>1. Claims(r) /\ req[r].reason = "ok" /\ row.session = req[r].session
      BY <2>1, <1>1, <1>4 DEF Claims
    <3> QED BY <1>1, <1>4, <3>1 DEF IInv, ClaimsClosed, VerdictSound
  <2> QED BY <1>1, <2>1 DEF IInv, EligibleRunsExplained
<1>14. NoFalseMismatch'
  <2>1. ASSUME row.session # None, ~Mismatch(row.sub, req'[row.id].floor)
        PROVE  row.eligible
    <3>1. req[r].reason # "no-session" /\ req[r].reason # "mismatch"
      BY <2>1, <1>1, <1>3, <1>4 DEF IInv, VerdictSound
    <3> QED BY <3>1, <1>4 DEF IInv, TypeOK, RunReqType
  <2>2. \A x \in runs : req'[x.id].floor = req[x.id].floor
    BY <1>2, <1>6
  <2> QED BY <1>1, <2>1, <2>2 DEF IInv, NoFalseMismatch
<1>15. FloorBelowLog' /\ VerdictSound'
  BY <1>1, <1>2, <1>3 DEF IInv, FloorBelowLog, RunInFlight, VerdictSound
<1>16. ClosedAccounted'
  <2>1. Owes(r) => row.session = req[r].session
    BY <1>1, <1>4 DEF Owes, Claims
  <2>2. \A q \in RunReqs : q # r =>
          (Owes(q) => Owes(q)' /\ req'[q].session = req[q].session)
    BY <1>2 DEF Owes, Claims
  <2> QED BY <1>1, <2>1, <2>2, AccountedKept
<1> QED BY <1>8, <1>9, <1>10, <1>11, <1>12, <1>13, <1>14, <1>15, <1>16 DEF IInv

LEMMA IInvStep == IInv /\ [Next]_vars => IInv'
<1> SUFFICES ASSUME IInv, [Next]_vars PROVE IInv'
  OBVIOUS
<1>1. TypeOK'
  BY TypeStep DEF IInv
<1>2. CASE UNCHANGED vars
  BY <1>1, <1>2, UntouchedStep DEF vars
<1>3. ASSUME NEW u \in Users, NEW s \in Sessions, CreateSession(u, s)
      PROVE  IInv'
  BY <1>1, <1>3, CreateSessionStep
<1>4. ASSUME NEW e \in EventReqs, EventStep(e) PROVE IInv'
  <2>1. ASSUME NEW u \in Users, NEW s \in Sessions, NEW x \in Events,
               RecordEventFind(e, u, s, x)
        PROVE  IInv'
    BY <1>1, <2>1, UntouchedStep DEF RecordEventFind
  <2>2. CASE RecordEventInsert(e)
    BY <1>1, <2>2, InsertStep
  <2>3. CASE EventFails(e)
    BY <1>1, <2>3, UntouchedStep DEF EventFails
  <2> QED BY <1>4, <2>1, <2>2, <2>3 DEF EventStep
<1>5. ASSUME NEW r \in RunReqs, RunStep(r) PROVE IInv'
  <2>1. ASSUME NEW u \in Users, NEW b \in Submissions, RejectRate(r, u, b)
        PROVE  IInv'
    BY <1>1, <2>1, EndStep DEF RejectRate, Claims
  <2>2. ASSUME NEW u \in Users, NEW s \in Sessions \union {None},
               NEW b \in Submissions, SubmitRun(r, u, s, b)
        PROVE  IInv'
    BY <1>1, <2>2, SubmitStep
  <2>3. CASE RejectTooSoon(r)
    BY <1>1, <2>3, EndStep DEF RejectTooSoon, Claims
  <2>4. CASE Finalize(r)
    BY <1>1, <2>4, FinalizeStep
  <2>5. CASE NoSession(r)
    BY <1>1, <2>5, NoSessionStep
  <2>6. CASE Reconcile(r)
    BY <1>1, <2>6, ReconcileStep
  <2>7. CASE CreateRun(r)
    BY <1>1, <2>7, CreateRunStep
  <2>8. CASE RunFails(r)
    <3> DEFINE v == IF Claims(r) THEN "abandoned" ELSE "failed"
    <3>1. /\ req' = [req EXCEPT ![r].pc = v] /\ UNCHANGED <<session, log, runs>>
          /\ req[r].pc \notin {"done", "abandoned"}
      BY <2>8 DEF RunFails, RunInFlight
    <3>2. v \in {"rejected", "failed", "abandoned"} /\ (Claims(r) => v = "abandoned")
      OBVIOUS
    <3> HIDE DEF v
    <3> QED BY <1>1, <3>1, <3>2, EndStep
  <2> QED BY <1>5, <2>1, <2>2, <2>3, <2>4, <2>5, <2>6, <2>7, <2>8 DEF RunStep
<1>6. CASE Tick
  BY <1>1, <1>6, UntouchedStep DEF Tick
<1> QED BY <1>2, <1>3, <1>4, <1>5, <1>6 DEF Next

\* For any number of users, sessions and requests, with any of them failing.
THEOREM IInvCorrect == Spec => []IInv
<1> QED BY InitIInv, IInvStep, PTL DEF Spec

\* No order of the statements of concurrent submissions links two runs to one
\* session.
THEOREM OneRunPerSessionCorrect == Spec => []OneRunPerSession
<1>1. IInv => OneRunPerSession
  BY DEF IInv
<1> QED BY <1>1, IInvCorrect, PTL

\* Whatever interleaves and fails, a closed session has its run, or the request
\* that closed it is still under way or has died: finalizing in reconcile() and
\* the insert in create() lose a battle between themselves in no other way.
THEOREM ClosedAccountedCorrect == Spec => []ClosedAccounted
<1>1. IInv => ClosedAccounted
  BY DEF IInv
<1> QED BY <1>1, IInvCorrect, PTL

\* Every run the leaderboard counts stays explained by its session's log.
THEOREM EligibleRunsExplainedCorrect == Spec => []EligibleRunsExplained
<1>1. IInv => EligibleRunsExplained
  BY DEF IInv
<1> QED BY <1>1, IInvCorrect, PTL

\* A submission explained by the events stored before it is never flagged.
THEOREM NoFalseMismatchCorrect == Spec => []NoFalseMismatch
<1>1. IInv => NoFalseMismatch
  BY DEF IInv
<1> QED BY <1>1, IInvCorrect, PTL

-------------------------------------------------------------------------------
(* Clients that wait for each answer: no event lands in a closed session.     *)

LEMMA InitCheckedEvents == Init => CheckedEventsOpen
  BY DEF Init, CheckedEventsOpen, EventInFlight

\* Only Finalize closes a session, and only for a user without a checked event.
LEMMA CheckedEventsStep ==
  ASSUME SerialClients, TypeOK, CheckedEventsOpen, [Next]_vars
  PROVE  CheckedEventsOpen'
<1> USE DEF EventInFlight, RunInFlight
<1>1. CASE UNCHANGED vars
  BY <1>1 DEF vars, CheckedEventsOpen, OpenFor
<1>2. ASSUME NEW u \in Users, NEW s \in Sessions, CreateSession(u, s)
      PROVE  CheckedEventsOpen'
  <2>1. /\ UNCHANGED <<ev, req>>
        /\ session[s].status = "absent"
        /\ \A z \in Sessions : z # s => session'[z] = session[z]
    BY <1>2 DEF CreateSession, TypeOK
  <2>2. \A e \in EventReqs : EventInFlight(e) => ev[e].session # s
    <3> SUFFICES ASSUME NEW e \in EventReqs, EventInFlight(e),
                        ev[e].session = s
                 PROVE  FALSE
      OBVIOUS
    <3>1. session[s] = [status |-> "active", owner |-> ev[e].user]
      BY DEF CheckedEventsOpen, OpenFor
    <3> QED BY <2>1, <3>1
  <2> QED BY <2>1, <2>2 DEF CheckedEventsOpen, OpenFor, TypeOK
<1>3. ASSUME NEW e \in EventReqs, EventStep(e) PROVE CheckedEventsOpen'
  <2>1. ASSUME NEW u \in Users, NEW s \in Sessions, NEW x \in Events,
               RecordEventFind(e, u, s, x)
        PROVE  CheckedEventsOpen'
    <3>1. /\ ev'[e] = [pc |-> IF OpenFor(s, u) THEN "checked" ELSE "rejected",
                       user |-> u, session |-> s, event |-> x]
          /\ \A d \in EventReqs : d # e => ev'[d] = ev[d]
          /\ UNCHANGED <<session, req>>
          /\ \A r \in RunReqs : RunInFlight(r) => req[r].user # u
      BY <2>1 DEF RecordEventFind, TypeOK, MayCall
    <3> SUFFICES ASSUME NEW d \in EventReqs, EventInFlight(d)'
                 PROVE  /\ session'[ev'[d].session]
                             = [status |-> "active", owner |-> ev'[d].user]
                        /\ \A r \in RunReqs :
                             RunInFlight(r)' => req'[r].user # ev'[d].user
      BY DEF CheckedEventsOpen
    <3>2. CASE d = e
      BY <3>1, <3>2 DEF OpenFor
    <3>3. CASE d # e
      BY <3>1, <3>3 DEF CheckedEventsOpen, OpenFor
    <3> QED BY <3>2, <3>3
  <2>2. CASE RecordEventInsert(e) \/ EventFails(e)
    <3>1. /\ \A d \in EventReqs : EventInFlight(d)' =>
               EventInFlight(d) /\ ev'[d] = ev[d]
          /\ UNCHANGED <<session, req>>
      BY <2>2 DEF RecordEventInsert, EventFails, TypeOK, EventReqType
    <3> QED BY <3>1 DEF CheckedEventsOpen, OpenFor
  <2> QED BY <1>3, <2>1, <2>2 DEF EventStep
<1>4. ASSUME NEW r \in RunReqs, RunStep(r) PROVE CheckedEventsOpen'
  <2>1. ASSUME NEW u \in Users, NEW s \in Sessions \union {None},
               NEW b \in Submissions, SubmitRun(r, u, s, b)
        PROVE  CheckedEventsOpen'
    <3>1. /\ req'[r].user = u
          /\ \A q \in RunReqs : q # r => req'[q] = req[q]
          /\ UNCHANGED <<session, ev>>
          /\ \A e \in EventReqs : EventInFlight(e) => ev[e].user # u
      BY <2>1 DEF SubmitRun, TypeOK, MayCall
    <3> QED BY <3>1 DEF CheckedEventsOpen, OpenFor
  <2>2. ASSUME NEW u \in Users, NEW b \in Submissions, RejectRate(r, u, b)
        PROVE  CheckedEventsOpen'
    BY <2>2 DEF RejectRate, CheckedEventsOpen, OpenFor, TypeOK, RunReqType
  <2>3. CASE RejectTooSoon(r) \/ RunFails(r)
    BY <2>3 DEF RejectTooSoon, RunFails, CheckedEventsOpen, OpenFor, TypeOK,
                RunReqType
  <2>4. CASE CreateRun(r)
    BY <2>4 DEF CreateRun, CheckedEventsOpen, OpenFor, TypeOK, RunReqType
  <2>5. ASSUME NoSession(r) \/ Reconcile(r)
        PROVE  CheckedEventsOpen'
    <3>1. req'[r].user = req[r].user
      <4>1. req[r] \in RunReqType
        BY DEF TypeOK
      <4>2. \E v : req'[r] = [req[r] EXCEPT !.pc = "creating", !.reason = v]
        BY <2>5 DEF NoSession, Reconcile, TypeOK
      <4> QED BY <4>1, <4>2, Zenon DEF RunReqType
    <3>2. /\ RunInFlight(r)
          /\ \A q \in RunReqs : q # r => req'[q] = req[q]
          /\ UNCHANGED <<session, ev>>
      BY <2>5 DEF NoSession, Reconcile, TypeOK
    <3> QED BY <3>1, <3>2 DEF CheckedEventsOpen, OpenFor
  <2>6. CASE Finalize(r)
    <3>1. /\ RunInFlight(r)
          /\ OpenFor(req[r].session, req[r].user)
          /\ \A s \in Sessions : s # req[r].session => session'[s] = session[s]
          /\ \A q \in RunReqs : q # r => req'[q] = req[q]
          /\ req'[r].user = req[r].user
          /\ ev' = ev
      <4>1. /\ req[r].pc = "spacing"
            /\ OpenFor(req[r].session, req[r].user)
            /\ session' = [session EXCEPT
                             ![req[r].session].status = "finalized"]
            /\ req' = [req EXCEPT ![r].pc = "reading"]
            /\ ev' = ev
        BY <2>6 DEF Finalize
      <4>2. \A s \in Sessions : s # req[r].session => session'[s] = session[s]
        BY <4>1 DEF TypeOK
      <4>3. /\ req'[r].user = req[r].user
            /\ \A q \in RunReqs : q # r => req'[q] = req[q]
        BY <4>1 DEF TypeOK, RunReqType
      <4> QED BY <4>1, <4>2, <4>3
    <3>2. \A e \in EventReqs : EventInFlight(e) => ev[e].session # req[r].session
      <4> SUFFICES ASSUME NEW e \in EventReqs, EventInFlight(e),
                          ev[e].session = req[r].session
                   PROVE  FALSE
        OBVIOUS
      <4>1. session[req[r].session]
              = [status |-> "active", owner |-> ev[e].user]
        BY Zenon DEF CheckedEventsOpen, OpenFor
      <4>2. session[req[r].session]
              = [status |-> "active", owner |-> req[r].user]
        BY <3>1 DEF OpenFor
      <4>3. ev[e].user = req[r].user
        BY ONLY <4>1, <4>2
      <4> QED BY <3>1, <4>3 DEF CheckedEventsOpen
    <3> QED BY <3>1, <3>2 DEF CheckedEventsOpen, OpenFor, TypeOK
  <2> QED BY <1>4, <2>1, <2>2, <2>3, <2>4, <2>5, <2>6 DEF RunStep
<1>5. CASE Tick
  BY <1>5 DEF Tick, CheckedEventsOpen, OpenFor
<1> QED BY <1>1, <1>2, <1>3, <1>4, <1>5 DEF Next

\* Nothing is added to the log of a closed session: an event that is about to
\* be inserted has its session open.
LEMMA FinalizedLogKept ==
  ASSUME TypeOK, CheckedEventsOpen, [Next]_vars,
         NEW s \in Sessions, session[s].status = "finalized"
  PROVE  log'[s] = log[s]
<1>1. CASE UNCHANGED log
  BY <1>1
<1>2. ASSUME NEW e \in EventReqs, RecordEventInsert(e)
      PROVE  log'[s] = log[s]
  <2>1. session[ev[e].session] = [status |-> "active", owner |-> ev[e].user]
    BY <1>2 DEF RecordEventInsert, CheckedEventsOpen, EventInFlight, OpenFor
  <2>2. s # ev[e].session
    BY <2>1
  <2> QED BY <1>2, <2>2 DEF RecordEventInsert, TypeOK
<1> QED BY <1>1, <1>2
        DEF Next, vars, CreateSession, EventStep, RecordEventFind, EventFails,
            RunStep, RejectRate, SubmitRun, RejectTooSoon, Finalize,
            NoSession, Reconcile, CreateRun, RunFails, Tick

\* The documented order of the client, flush and await and only then submit, is
\* enough for recordEvent's guarantee: its check and its insert are then never
\* separated by a finalize.
THEOREM NoLateEventWhenSerial ==
  ASSUME SerialClients PROVE Spec => NoLateEvent
<1>1. TypeOK /\ CheckedEventsOpen /\ [Next]_vars => CheckedEventsOpen'
  BY CheckedEventsStep
<1>2. TypeOK /\ CheckedEventsOpen /\ [Next]_vars =>
        [\A s \in Sessions :
           session[s].status = "finalized" => log'[s] = log[s]]_vars
  BY FinalizedLogKept
<1> QED BY InitCheckedEvents, TypeCorrect, <1>1, <1>2, PTL DEF Spec, NoLateEvent

\* The invariant behind it: an event past its check has its session open.
THEOREM CheckedEventsOpenWhenSerial ==
  ASSUME SerialClients PROVE Spec => []CheckedEventsOpen
<1>1. TypeOK /\ CheckedEventsOpen /\ [Next]_vars => CheckedEventsOpen'
  BY CheckedEventsStep
<1> QED BY InitCheckedEvents, TypeCorrect, <1>1, PTL DEF Spec

-------------------------------------------------------------------------------
(* The refinement: sessions and runs implement the ledger. *)

\* The entry of a row of Run.
Entry(x) == [id |-> x.id, user |-> x.user, session |-> x.session,
             eligible |-> x.eligible]

LEMMA LedgerInit == Init => Ledger!Init
BY DEF Init, Ledger!Init, Book

\* The insert of a run is an entry under its closed session, or one without.
LEMMA CreateRunEnters ==
  ASSUME IInv, NEW r \in RunReqs, CreateRun(r)
  PROVE  Ledger!Next
<1>1. TypeOK /\ ClaimsClosed /\ ClaimsExclusive /\ RowsById
  BY DEF IInv
<1>2. /\ req[r].pc = "creating" /\ req[r] \in RunReqType
      /\ runs' = runs \union {RunRow(r)} /\ session' = session
  BY <1>1 DEF CreateRun, TypeOK
<1>3. Book' = Book \union {Entry(RunRow(r))}
  BY <1>2 DEF Book, Entry
<1>4. Ledger!NewId(r)
  BY <1>1, <1>2 DEF Ledger!NewId, Book, RowsById
<1>5. CASE req[r].reason = "no-session"
  <2>1. Entry(RunRow(r))
          = [id |-> r, user |-> req[r].user, session |-> None, eligible |-> FALSE]
    BY <1>5 DEF RunRow, Entry
  <2>2. req[r].user \in Users
    BY <1>1, <1>2 DEF TypeOK, RunInFlight
  <2> QED
    BY <1>2, <1>3, <1>4, <2>1, <2>2 DEF Ledger!Next, Ledger!EnterUnlinked
<1>6. CASE req[r].reason # "no-session"
  <2>1. Claims(r)
    BY <1>2, <1>6 DEF Claims
  <2> DEFINE s == req[r].session
  <2>2. /\ s \in Sessions
        /\ session[s] = [status |-> "finalized", owner |-> req[r].user]
        /\ \A x \in runs : x.session # s
    BY <1>1, <2>1 DEF ClaimsClosed, ClaimsExclusive
  <2>3. Entry(RunRow(r))
          = [id |-> r, user |-> session[s].owner, session |-> s,
             eligible |-> req[r].reason = "ok"]
    BY <1>6, <2>2 DEF RunRow, Entry
  <2>4. \A x \in Book : x.session # s
    BY <2>2 DEF Book
  <2>5. Ledger!Enter(r, s, req[r].reason = "ok")
    BY <1>2, <1>3, <1>4, <2>2, <2>3, <2>4 DEF Ledger!Enter
  <2>6. (req[r].reason = "ok") \in BOOLEAN
    OBVIOUS
  <2> QED
    BY <2>2, <2>5, <2>6 DEF Ledger!Next
<1> QED
  BY <1>5, <1>6

\* Every other step opens a session, closes one, or is none of the ledger's.
LEMMA LedgerStep == IInv /\ [Next]_vars => [Ledger!Next]_(Ledger!ledgerVars)
<1> SUFFICES ASSUME IInv, [Next]_vars
             PROVE  Ledger!Next \/ UNCHANGED Ledger!ledgerVars
  OBVIOUS
<1>1. ASSUME UNCHANGED <<session, runs>> PROVE UNCHANGED Ledger!ledgerVars
  BY <1>1 DEF Ledger!ledgerVars, Book
<1>2. ASSUME NEW u \in Users, NEW s \in Sessions, CreateSession(u, s)
      PROVE  Ledger!Next
  BY <1>2 DEF CreateSession, Ledger!Next, Ledger!Open, Book
<1>3. ASSUME NEW r \in RunReqs, Finalize(r) PROVE Ledger!Next
  <2>1. /\ req[r].session \in Sessions
        /\ session[req[r].session].status = "active"
    BY <1>3 DEF Finalize, OpenFor, IInv, TypeOK, RunReqType
  <2>2. Ledger!Close(req[r].session)
    BY <1>3, <2>1 DEF Finalize, Ledger!Close, Book
  <2> QED
    BY <2>1, <2>2 DEF Ledger!Next
<1>4. ASSUME NEW e \in EventReqs, EventStep(e) PROVE UNCHANGED <<session, runs>>
  BY <1>4 DEF EventStep, RecordEventFind, RecordEventInsert, EventFails
<1>5. ASSUME NEW r \in RunReqs, RunStep(r), ~Finalize(r), ~CreateRun(r)
      PROVE  UNCHANGED <<session, runs>>
  BY <1>5 DEF RunStep, RejectRate, SubmitRun, RejectTooSoon, NoSession,
              Reconcile, RunFails
<1>6. ASSUME UNCHANGED vars \/ Tick PROVE UNCHANGED <<session, runs>>
  BY <1>6 DEF vars, Tick
<1> QED
  BY <1>1, <1>2, <1>3, <1>4, <1>5, <1>6, CreateRunEnters DEF Next

\* Sessions and runs implement the ledger: for any users, sessions and requests,
\* and whatever fails, closing a session and inserting its run are one entry.
THEOREM LedgerImplementedCorrect == Spec => LedgerImplemented
BY LedgerInit, LedgerStep, IInvCorrect, PTL DEF Spec, Ledger!Spec, LedgerImplemented

-------------------------------------------------------------------------------
(* Clients that wait for each answer: the interval check of RunsService.create *)
(* reads the user's latest run one statement before it uses it.                *)

\* A user has one run request in flight, which has read the user's latest run.
OneInFlight ==
  \A r, q \in RunReqs :
    RunInFlight(r) /\ RunInFlight(q) /\ req[r].user = req[q].user => r = q

LatestKnown ==
  \A r \in RunReqs, x \in runs :
    RunInFlight(r) /\ x.user = req[r].user =>
      req[r].last # None /\ x.createdAt <= req[r].last

\* The check holds until the row is inserted: time only adds to the interval.
IntervalPassed ==
  \A r \in RunReqs :
    req[r].pc \in {"reading", "creating"} => ~TooSoon(req[r].last, req[r].sub)

SpacingInv == OneInFlight /\ LatestKnown /\ IntervalPassed /\ RunsSpaced

\* Later the interval is no shorter.
LEMMA IntervalGrows ==
  ASSUME TypeOK, TypeOK', now <= now', NEW r \in RunReqs,
         ~TooSoon(req[r].last, req[r].sub),
         req'[r].last = req[r].last, req'[r].sub = req[r].sub
  PROVE  ~TooSoon(req[r].last, req[r].sub)'
<1> SUFFICES ASSUME req[r].last # None
             PROVE  ~(now' - req[r].last < req[r].sub.survivalTime)
  BY DEF TooSoon
<1>1. /\ now \in Nat /\ now' \in Nat
      /\ req[r].last \in Nat
      /\ req[r].sub.survivalTime \in Nat
  BY DEF TypeOK, RunReqType, SubmissionType
<1>2. ~(now - req[r].last < req[r].sub.survivalTime)
  BY DEF TooSoon
<1> QED BY <1>1, <1>2

\* A request goes on as it was, or ends.
GoesOn(q) ==
  /\ RunInFlight(q)
  /\ req'[q].user = req[q].user
  /\ req'[q].last = req[q].last
  /\ req'[q].sub = req[q].sub
  /\ req'[q].pc = "spacing" \/ req[q].pc # "spacing"
       \/ ~TooSoon(req[q].last, req[q].sub)

\* A step that submits no run and inserts none.
LEMMA SpacingQuiet ==
  ASSUME TypeOK, TypeOK', SpacingInv, runs' = runs, now <= now',
         \A q \in RunReqs : RunInFlight(q)' => GoesOn(q)
  PROVE  SpacingInv'
<1>1. OneInFlight' /\ LatestKnown' /\ RunsSpaced'
  BY DEF SpacingInv, OneInFlight, LatestKnown, RunsSpaced, SpacedAfter, GoesOn
<1>2. IntervalPassed'
  <2> SUFFICES ASSUME NEW r \in RunReqs, req'[r].pc \in {"reading", "creating"}
               PROVE  ~TooSoon(req[r].last, req[r].sub)'
    BY DEF IntervalPassed
  <2>1. GoesOn(r)
    BY DEF RunInFlight
  <2>2. ~TooSoon(req[r].last, req[r].sub)
    BY <2>1 DEF GoesOn, SpacingInv, IntervalPassed, RunInFlight
  <2> QED BY <2>1, <2>2, IntervalGrows DEF GoesOn
<1> QED BY <1>1, <1>2 DEF SpacingInv

\* The query returns the latest of the user's runs, of which nobody but this
\* request may insert another.
LEMMA SpacingSubmit ==
  ASSUME SerialClients, TypeOK, TypeOK', SpacingInv, NEW r \in RunReqs,
         NEW u \in Users, NEW s \in Sessions \union {None},
         NEW b \in Submissions, SubmitRun(r, u, s, b)
  PROVE  SpacingInv'
<1>1. PICK l \in LatestRunAt(u) :
        req' = [req EXCEPT ![r] =
                  [pc |-> "spacing", user |-> u, session |-> s, sub |-> b,
                   last |-> l, reason |-> "no-session",
                   floor |-> IF s = None THEN EmptyLog ELSE log[s]]]
  BY DEF SubmitRun
<1>2. /\ req'[r].pc = "spacing" /\ req'[r].user = u /\ req'[r].last = l
      /\ \A q \in RunReqs : q # r => req'[q] = req[q]
      /\ runs' = runs /\ now' = now
      /\ \A q \in RunReqs : RunInFlight(q) => req[q].user # u
  BY <1>1 DEF SubmitRun, MayCall, TypeOK
<1>3. \A x \in runs : x.user = u => l # None /\ x.createdAt <= l
  BY ConstantsAssumption DEF LatestRunAt, TypeOK, RunType
<1>4. OneInFlight'
  BY <1>2 DEF SpacingInv, OneInFlight, RunInFlight
<1>5. LatestKnown'
  BY <1>2, <1>3 DEF SpacingInv, LatestKnown, RunInFlight
<1>6. IntervalPassed'
  BY <1>2 DEF SpacingInv, IntervalPassed, TooSoon
<1>7. RunsSpaced'
  BY <1>2 DEF SpacingInv, RunsSpaced, SpacedAfter
<1> QED BY <1>4, <1>5, <1>6, <1>7 DEF SpacingInv

\* The new row comes after every earlier one of its user by its own length.
LEMMA SpacingCreate ==
  ASSUME TypeOK, TypeOK', SpacingInv, NEW r \in RunReqs, CreateRun(r)
  PROVE  SpacingInv'
<1> DEFINE row == RunRow(r)
<1>1. /\ req[r].pc = "creating"
      /\ req'[r].pc = "done"
      /\ \A q \in RunReqs : q # r => req'[q] = req[q]
      /\ runs' = runs \union {row} /\ now' = now
  BY DEF CreateRun, TypeOK, RunReqType
<1>2. row.user = req[r].user /\ row.createdAt = now /\ row.sub = req[r].sub
  BY DEF RunRow
<1> HIDE DEF row
<1>3. OneInFlight'
  BY <1>1 DEF SpacingInv, OneInFlight, RunInFlight
<1>4. LatestKnown'
  BY <1>1, <1>2 DEF SpacingInv, OneInFlight, LatestKnown, RunInFlight
<1>5. IntervalPassed'
  BY <1>1 DEF SpacingInv, IntervalPassed, TooSoon
<1>6. ASSUME NEW x \in runs, x.user = row.user PROVE SpacedAfter(x, row)
  <2>1. req[r].last # None /\ x.createdAt <= req[r].last
    BY <1>1, <1>2, <1>6 DEF SpacingInv, LatestKnown, RunInFlight
  <2>2. ~TooSoon(req[r].last, req[r].sub)
    BY <1>1 DEF SpacingInv, IntervalPassed
  <2>3. /\ x.createdAt \in Nat /\ now \in Nat /\ req[r].last \in Nat
        /\ req[r].sub.survivalTime \in Nat
    BY <2>1 DEF TypeOK, RunType, RunReqType, SubmissionType
  <2> QED BY <1>2, <2>1, <2>2, <2>3 DEF SpacedAfter, TooSoon
<1>7. RunsSpaced'
  <2>1. \A x, y \in runs :
          x # y /\ x.user = y.user => SpacedAfter(x, y) \/ SpacedAfter(y, x)
    BY DEF SpacingInv, RunsSpaced
  <2>2. \A x, y \in runs' :
          x # y /\ x.user = y.user => SpacedAfter(x, y) \/ SpacedAfter(y, x)
    BY <1>1, <1>6, <2>1
  <2> QED BY <2>2 DEF RunsSpaced, SpacedAfter
<1> QED BY <1>3, <1>4, <1>5, <1>7 DEF SpacingInv

LEMMA SpacingStep ==
  ASSUME SerialClients, TypeOK, TypeOK', SpacingInv, [Next]_vars
  PROVE  SpacingInv'
<1>1. ASSUME UNCHANGED <<now, runs, req>> PROVE SpacingInv'
  BY <1>1 DEF SpacingInv, OneInFlight, LatestKnown, IntervalPassed, RunsSpaced,
              SpacedAfter, TooSoon, RunInFlight
<1>2. CASE Tick
  <2>1. UNCHANGED <<runs, req>> /\ now <= now'
    BY <1>2 DEF Tick, TypeOK
  <2>2. \A q \in RunReqs : RunInFlight(q)' => GoesOn(q)
    BY <2>1 DEF RunInFlight, GoesOn
  <2> QED BY <2>1, <2>2, SpacingQuiet
<1>3. ASSUME NEW e \in EventReqs, EventStep(e) PROVE UNCHANGED <<now, runs, req>>
  BY <1>3 DEF EventStep, RecordEventFind, RecordEventInsert, EventFails
<1>4. ASSUME NEW r \in RunReqs, RunStep(r) PROVE SpacingInv'
  <2>1. ASSUME NEW u \in Users, NEW s \in Sessions \union {None},
               NEW b \in Submissions, SubmitRun(r, u, s, b)
        PROVE  SpacingInv'
    BY <2>1, SpacingSubmit
  <2>2. CASE CreateRun(r)
    BY <2>2, SpacingCreate
  <2>3. ASSUME UNCHANGED <<now, runs>>,
               \A q \in RunReqs : q # r => req'[q] = req[q],
               RunInFlight(r)' => GoesOn(r)
        PROVE  SpacingInv'
    <3>1. \A q \in RunReqs : RunInFlight(q)' => GoesOn(q)
      BY <2>3 DEF RunInFlight, GoesOn
    <3>2. now <= now'
      BY <2>3 DEF TypeOK
    <3> QED BY <2>3, <3>1, <3>2, SpacingQuiet
  <2>4. ASSUME NEW u \in Users, NEW b \in Submissions, RejectRate(r, u, b)
        PROVE  SpacingInv'
    <3>1. ~RunInFlight(r)'
      BY <2>4 DEF RejectRate, RunInFlight, TypeOK, RunReqType
    <3> QED BY <2>3, <2>4, <3>1 DEF RejectRate, TypeOK
  <2>5. CASE RejectTooSoon(r) \/ RunFails(r)
    <3>1. ~RunInFlight(r)'
      BY <2>5 DEF RejectTooSoon, RunFails, RunInFlight, TypeOK, RunReqType
    <3> QED BY <2>3, <2>5, <3>1 DEF RejectTooSoon, RunFails, TypeOK
  <2>6. CASE Finalize(r)
    <3>1. GoesOn(r)
      BY <2>6 DEF Finalize, GoesOn, RunInFlight, TypeOK, RunReqType
    <3> QED BY <2>3, <2>6, <3>1 DEF Finalize, TypeOK
  <2>7. CASE NoSession(r) \/ Reconcile(r)
    <3>1. /\ req'[r].user = req[r].user
          /\ req'[r].last = req[r].last
          /\ req'[r].sub = req[r].sub
      <4>1. req[r] \in RunReqType
        BY DEF TypeOK
      <4>2. \E v : req'[r] = [req[r] EXCEPT !.pc = "creating", !.reason = v]
        BY <2>7 DEF NoSession, Reconcile, TypeOK
      <4> QED BY <4>1, <4>2, Zenon DEF RunReqType
    <3>2. GoesOn(r)
      BY <2>7, <3>1 DEF NoSession, Reconcile, GoesOn, RunInFlight
    <3>3. UNCHANGED <<now, runs>> /\ \A q \in RunReqs : q # r => req'[q] = req[q]
      BY <2>7 DEF NoSession, Reconcile, TypeOK
    <3> QED BY <2>3, <3>2, <3>3
  <2> QED BY <1>4, <2>1, <2>2, <2>4, <2>5, <2>6, <2>7 DEF RunStep
<1> QED BY <1>1, <1>2, <1>3, <1>4 DEF Next, vars, CreateSession

LEMMA InitSpacing == Init => SpacingInv
BY DEF Init, SpacingInv, OneInFlight, LatestKnown, IntervalPassed, RunsSpaced,
       RunInFlight

\* A user whose client waits for each answer never gets two runs closer than
\* the later one lasted, although the check and the insert are three statements
\* apart and other users' requests run in between.
THEOREM RunsSpacedWhenSerial ==
  ASSUME SerialClients PROVE Spec => []RunsSpaced
<1>1. TypeOK /\ TypeOK' /\ SpacingInv /\ [Next]_vars => SpacingInv'
  BY SpacingStep
<1>2. SpacingInv => RunsSpaced
  BY DEF SpacingInv
<1> QED BY InitSpacing, TypeCorrect, <1>1, <1>2, PTL DEF Spec

-------------------------------------------------------------------------------
(* The verdict of such clients' runs is the one the log gives, both ways.     *)

\* A verdict of mismatch holds of the log, and not only of what the log was
\* when the request came in.
MismatchCurrent ==
  \A r \in RunReqs :
    req[r].pc = "creating" /\ req[r].reason = "mismatch" =>
      Mismatch(req[r].sub, log[req[r].session])

VerdictInv == MismatchCurrent /\ VerdictMatchesLog

LEMMA VerdictStep ==
  ASSUME IInv, CheckedEventsOpen, VerdictInv, [Next]_vars
  PROVE  VerdictInv'
<1>1. TypeOK /\ ClaimsClosed /\ RowsClosed /\ VerdictSound
  BY DEF IInv
<1>2. \A s \in Sessions : session[s].status = "finalized" => log'[s] = log[s]
  BY <1>1, FinalizedLogKept
<1>3. ASSUME NEW r \in RunReqs, Claims(r)
      PROVE  log'[req[r].session] = log[req[r].session]
  <2>1. /\ req[r].session \in Sessions
        /\ session[req[r].session]
             = [status |-> "finalized", owner |-> req[r].user]
    BY <1>1, <1>3 DEF ClaimsClosed
  <2>2. session[req[r].session].status = "finalized"
    BY ONLY <2>1
  <2> QED BY <1>2, <2>1, <2>2
<1>4. ASSUME NEW x \in runs, x.session # None
      PROVE  log'[x.session] = log[x.session]
  <2>1. x.session \in Sessions
    BY <1>1, <1>4 DEF TypeOK, RunType
  <2>2. session[x.session] = [status |-> "finalized", owner |-> x.user]
    BY <1>1, <1>4 DEF RowsClosed
  <2>3. session[x.session].status = "finalized"
    BY ONLY <2>2
  <2> QED BY <1>2, <2>1, <2>3
<1>5. ASSUME UNCHANGED req PROVE MismatchCurrent'
  BY <1>3, <1>5 DEF VerdictInv, MismatchCurrent, Claims
<1>6. ASSUME UNCHANGED runs PROVE VerdictMatchesLog'
  BY <1>4, <1>6 DEF VerdictInv, VerdictMatchesLog
<1>7. ASSUME NEW r \in RunReqs, RunStep(r) PROVE VerdictInv'
  <2>1. ASSUME \A q \in RunReqs : q # r => req'[q] = req[q],
               req'[r].pc # "creating"
        PROVE  MismatchCurrent'
    BY <1>3, <2>1 DEF VerdictInv, MismatchCurrent, Claims
  <2>2. ASSUME NEW u \in Users, NEW b \in Submissions, RejectRate(r, u, b)
        PROVE  VerdictInv'
    BY <1>1, <1>6, <2>1, <2>2 DEF RejectRate, TypeOK, RunReqType, VerdictInv
  <2>3. ASSUME NEW u \in Users, NEW s \in Sessions \union {None},
               NEW b \in Submissions, SubmitRun(r, u, s, b)
        PROVE  VerdictInv'
    BY <1>1, <1>6, <2>1, <2>3 DEF SubmitRun, TypeOK, VerdictInv
  <2>4. CASE RejectTooSoon(r) \/ RunFails(r)
    BY <1>1, <1>6, <2>1, <2>4
       DEF RejectTooSoon, RunFails, TypeOK, RunReqType, VerdictInv
  <2>5. CASE Finalize(r)
    BY <1>1, <1>6, <2>1, <2>5 DEF Finalize, TypeOK, RunReqType, VerdictInv
  <2>6. ASSUME NoSession(r) \/ Reconcile(r) PROVE VerdictInv'
    <3>1. req[r] \in RunReqType
      BY <1>1 DEF TypeOK
    <3>2. PICK v : /\ req'[r] = [req[r] EXCEPT !.pc = "creating", !.reason = v]
                   /\ v = "mismatch" => Mismatch(req[r].sub, log[req[r].session])
      <4>1. CASE NoSession(r)
        <5>1. req'[r] = [req[r] EXCEPT !.pc = "creating",
                                       !.reason = "no-session"]
          BY <1>1, <4>1 DEF NoSession, TypeOK
        <5> QED BY <5>1
      <4>2. CASE Reconcile(r)
        <5> DEFINE v == IF Mismatch(req[r].sub, log[req[r].session])
                        THEN "mismatch" ELSE "ok"
        <5>1. req'[r] = [req[r] EXCEPT !.pc = "creating", !.reason = v]
          BY <1>1, <4>2 DEF Reconcile, TypeOK
        <5>2. v = "mismatch" => Mismatch(req[r].sub, log[req[r].session])
          OBVIOUS
        <5> HIDE DEF v
        <5> QED BY <5>1, <5>2
      <4> QED BY <2>6, <4>1, <4>2
    <3>3. /\ req'[r].reason = v
          /\ req'[r].sub = req[r].sub
          /\ req'[r].session = req[r].session
      BY <3>1, <3>2, Zenon DEF RunReqType
    <3>4. /\ \A q \in RunReqs : q # r => req'[q] = req[q]
          /\ UNCHANGED <<log, runs>>
      BY <1>1, <2>6 DEF NoSession, Reconcile, TypeOK
    <3>5. MismatchCurrent'
      BY <3>2, <3>3, <3>4 DEF VerdictInv, MismatchCurrent
    <3> QED BY <1>6, <3>4, <3>5 DEF VerdictInv
  <2>7. CASE CreateRun(r)
    <3> DEFINE row == RunRow(r)
    <3>1. /\ req[r].pc = "creating" /\ req'[r].pc = "done"
          /\ \A q \in RunReqs : q # r => req'[q] = req[q]
          /\ runs' = runs \union {row} /\ log' = log
      BY <1>1, <2>7 DEF CreateRun, TypeOK, RunReqType
    <3>2. row.session # None =>
            (row.eligible <=> ~Mismatch(row.sub, log[row.session]))
      <4>1. req[r].reason \in {"ok", "mismatch", "no-session"}
        BY <1>1 DEF TypeOK, RunReqType
      <4> QED BY <1>1, <3>1, <4>1
              DEF RunRow, VerdictSound, VerdictInv, MismatchCurrent
    <3> HIDE DEF row
    <3>3. VerdictMatchesLog'
      BY <3>1, <3>2 DEF VerdictInv, VerdictMatchesLog
    <3> QED BY <2>1, <3>1, <3>3 DEF VerdictInv
  <2> QED BY <1>7, <2>2, <2>3, <2>4, <2>5, <2>6, <2>7 DEF RunStep
<1>8. CASE UNCHANGED <<req, runs>>
  BY <1>5, <1>6, <1>8 DEF VerdictInv
<1> QED BY <1>7, <1>8
        DEF Next, vars, CreateSession, EventStep, RecordEventFind,
            RecordEventInsert, EventFails, Tick

LEMMA InitVerdict == Init => VerdictInv
BY DEF Init, VerdictInv, MismatchCurrent, VerdictMatchesLog

\* For clients that flush their events and await the answers before they submit,
\* a run linked to its session is eligible if and only if the log explains it,
\* now and whatever is called later.
THEOREM VerdictMatchesLogWhenSerial ==
  ASSUME SerialClients PROVE Spec => []VerdictMatchesLog
<1>1. IInv /\ CheckedEventsOpen /\ VerdictInv /\ [Next]_vars => VerdictInv'
  BY VerdictStep
<1>2. VerdictInv => VerdictMatchesLog
  BY DEF VerdictInv
<1> QED BY InitVerdict, IInvCorrect, CheckedEventsOpenWhenSerial, <1>1, <1>2,
           PTL DEF Spec

===============================================================================
