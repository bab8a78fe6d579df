------------------------------ MODULE BattleRuns ------------------------------
(***************************************************************************)
(* Battle sessions, their event log and the submission of runs:            *)
(* src/src/battle-sessions/battle-sessions.service.ts and                  *)
(* src/src/runs/runs.service.ts.                                           *)
(*                                                                         *)
(* Every HTTP request is a small process.  A handler runs without          *)
(* interruption between two awaits, and every await is one statement of    *)
(* the database, so each action below is one statement together with the   *)
(* code up to the next await.  What a handler read earlier is kept in the  *)
(* record of its request, however stale it has become.                     *)
(*                                                                         *)
(* The rows of BattleEvent are kept as the totals that reconcile() derives *)
(* from them: the sums of kills and gold, and the highest level.           *)
(***************************************************************************)
EXTENDS Naturals

CONSTANTS
  Users,              \* the authenticated users
  Sessions,           \* the ids a BattleSession may get
  EventReqs,          \* the requests POST /battle-sessions/:id/events/...
  RunReqs,            \* the requests POST /runs; also the id of the row made
  None,               \* the absent value: no session id, no earlier run
  Events,             \* the payloads an event request may carry
  Submissions,        \* the bodies a run request may carry
  KILL_TOLERANCE, GOLD_TOLERANCE, MAX_KILLS_PER_SEC,
  MaxTime,            \* bound of the clock
  SerialClients,      \* TRUE: a client awaits each answer before it calls again
  Faults              \* TRUE: a request may die between two of its statements

Totals == [kills : Nat, gold : Nat, level : Nat]

SubmissionType ==
  [survivalTime : Nat, kills : Nat, goldEarned : Nat, level : Nat]

\* Ids are not confused with the absent value, a clock reading is a number.
ASSUME ConstantsAssumption ==
  /\ None \notin Sessions
  /\ None \notin Users
  /\ None \notin Nat
  /\ Events \subseteq Totals
  /\ Submissions \subseteq SubmissionType
  /\ KILL_TOLERANCE \in Nat
  /\ GOLD_TOLERANCE \in Nat
  /\ MAX_KILLS_PER_SEC \in Nat
  /\ MaxTime \in Nat
  /\ SerialClients \in BOOLEAN
  /\ Faults \in BOOLEAN

VARIABLES
  now,       \* the clock, in seconds
  session,   \* the table BattleSession: status and owner
  log,       \* what the BattleEvent rows of each session add up to
  runs,      \* the table Run
  ev,        \* the event requests
  req        \* the run requests

vars == <<now, session, log, runs, ev, req>>

-------------------------------------------------------------------------------
(* Domains *)

SessionType == [status : {"absent", "active", "finalized"},
                owner : Users \union {None}]

EventReqType == [pc : {"idle", "checked", "done", "rejected", "failed"},
                 user : Users \union {None},
                 session : Sessions \union {None},
                 event : Totals]

\* floor is a history field: the totals of the named session when the request
\* came in.  No action reads it.  That a dead request had closed its session
\* is history too: it is "abandoned" then, and "failed" otherwise.
RunReqType == [pc : {"idle", "spacing", "reading", "creating",
                     "done", "rejected", "failed", "abandoned"},
               user : Users \union {None},
               session : Sessions \union {None},
               sub : SubmissionType,
               last : Nat \union {None},
               reason : {"ok", "mismatch", "no-session"},
               floor : Totals]

RunType == [id : RunReqs, user : Users, session : Sessions \union {None},
            sub : SubmissionType, eligible : BOOLEAN, createdAt : Nat]

\* No event row yet: nothing killed, no gold, and a session starts at level 1.
EmptyLog == [kills |-> 0, gold |-> 0, level |-> 1]

EventInFlight(e) == ev[e].pc = "checked"
RunInFlight(r) == req[r].pc \in {"spacing", "reading", "creating"}

\* The request has won the conditional update and its row is not inserted yet.
Claims(r) == \/ req[r].pc = "reading"
             \/ req[r].pc = "creating" /\ req[r].reason # "no-session"

\* Shapes, and a request past its first statement has its user (and session).
TypeOK ==
  /\ now \in Nat
  /\ session \in [Sessions -> SessionType]
  /\ log \in [Sessions -> Totals]
  /\ runs \subseteq RunType
  /\ ev \in [EventReqs -> EventReqType]
  /\ req \in [RunReqs -> RunReqType]
  /\ \A e \in EventReqs : EventInFlight(e) =>
       ev[e].session \in Sessions /\ ev[e].user \in Users
  /\ \A r \in RunReqs : RunInFlight(r) => req[r].user \in Users

-------------------------------------------------------------------------------
(* What the code computes *)

Larger(a, b) == IF a >= b THEN a ELSE b

\* One more row in the log: a kill batch adds, a level-up raises the maximum,
\* a stage-clear (all zero) changes neither.
WithEvent(t, e) == [kills |-> t.kills + e.kills,
                    gold |-> t.gold + e.gold,
                    level |-> Larger(t.level, e.level)]

\* The submission claims more than the log explains.
Mismatch(s, t) == \/ s.kills > t.kills + KILL_TOLERANCE
                  \/ s.goldEarned > t.gold + GOLD_TOLERANCE
                  \/ s.level > t.level

ImplausibleRate(s) == s.kills > s.survivalTime * MAX_KILLS_PER_SEC

\* Mutant: the elapsed seconds are rounded up.
TooSoonRoundedUp(last, s) == last # None /\ now + 1 - last < s.survivalTime

\* The interval check of create(), against the run read one statement earlier.
TooSoon(last, s) == last # None /\ now - last < s.survivalTime

\* Mutant: the condition on status is forgotten.
OpenForAnyStatus(s, u) == s # None /\ session[s].owner = u

\* Mutant: the condition on the owner is forgotten.
OpenForAnyOwner(s, u) == s # None /\ session[s].status = "active"

\* The row a conditional query on {id, userId, status: active} selects.
OpenFor(s, u) == s # None /\ session[s] = [status |-> "active", owner |-> u]

\* findFirst over the user's runs, newest first: the time of the latest row.
LatestRunAt(u) ==
  LET mine == {x.createdAt : x \in {y \in runs : y.user = u}}
  IN IF mine = {} THEN {None} ELSE {c \in mine : \A d \in mine : d <= c}

-------------------------------------------------------------------------------
(* Clients *)

\* With SerialClients a user has one request at a time: the client flushes its
\* queue of events and awaits it before it submits the run.
MayCall(u) ==
  SerialClients => /\ \A e \in EventReqs : EventInFlight(e) => ev[e].user # u
                   /\ \A r \in RunReqs : RunInFlight(r) => req[r].user # u

-------------------------------------------------------------------------------
(* The actions *)

Init ==
  /\ now = 0
  /\ session = [s \in Sessions |-> [status |-> "absent", owner |-> None]]
  /\ log = [s \in Sessions |-> EmptyLog]
  /\ runs = {}
  /\ ev = [e \in EventReqs |->
             [pc |-> "idle", user |-> None, session |-> None,
              event |-> EmptyLog]]
  /\ req = [r \in RunReqs |->
              [pc |-> "idle", user |-> None, session |-> None,
               sub |-> [survivalTime |-> 0, kills |-> 0,
                        goldEarned |-> 0, level |-> 1],
               last |-> None, reason |-> "no-session", floor |-> EmptyLog]]

CreateSession(u, s) ==
  /\ session[s].status = "absent"
  /\ session' = [session EXCEPT ![s] = [status |-> "active", owner |-> u]]
  /\ UNCHANGED <<now, log, runs, ev, req>>

\* recordEvent up to its first await: one query on id, owner and status.
RecordEventFind(e, u, s, x) ==
  /\ ev[e].pc = "idle"
  /\ MayCall(u)
  /\ ev' = [ev EXCEPT ![e] =
              [pc |-> IF OpenFor(s, u) THEN "checked" ELSE "rejected",
               user |-> u, session |-> s, event |-> x]]
  /\ UNCHANGED <<now, session, log, runs, req>>

\* The insert: nothing is checked again.
RecordEventInsert(e) ==
  /\ ev[e].pc = "checked"
  /\ log' = [log EXCEPT ![ev[e].session] = WithEvent(@, ev[e].event)]
  /\ ev' = [ev EXCEPT ![e].pc = "done"]
  /\ UNCHANGED <<now, session, runs, req>>

\* POST /runs with a kill rate no run can have.
RejectRate(r, u, b) ==
  /\ req[r].pc = "idle"
  /\ MayCall(u)
  /\ ImplausibleRate(b)
  /\ req' = [req EXCEPT ![r].pc = "rejected"]
  /\ UNCHANGED <<now, session, log, runs, ev>>

\* POST /runs up to its first await: the rate check, then the query for the
\* user's latest run.
SubmitRun(r, u, s, b) ==
  /\ req[r].pc = "idle"
  /\ MayCall(u)
  /\ ~ImplausibleRate(b)
  /\ \E l \in LatestRunAt(u) :
       req' = [req EXCEPT ![r] =
                 [pc |-> "spacing", user |-> u, session |-> s, sub |-> b,
                  last |-> l, reason |-> "no-session",
                  floor |-> IF s = None THEN EmptyLog ELSE log[s]]]
  /\ UNCHANGED <<now, session, log, runs, ev>>

RejectTooSoon(r) ==
  /\ req[r].pc = "spacing"
  /\ TooSoon(req[r].last, req[r].sub)
  /\ req' = [req EXCEPT ![r].pc = "rejected"]
  /\ UNCHANGED <<now, session, log, runs, ev>>

\* reconcile's conditional updateMany moves an active session of this user.
Finalize(r) ==
  /\ req[r].pc = "spacing"
  /\ ~TooSoon(req[r].last, req[r].sub)
  /\ OpenFor(req[r].session, req[r].user)
  /\ session' = [session EXCEPT ![req[r].session].status = "finalized"]
  /\ req' = [req EXCEPT ![r].pc = "reading"]
  /\ UNCHANGED <<now, log, runs, ev>>

\* No session id in the body, or the updateMany matched no row.
NoSession(r) ==
  /\ req[r].pc = "spacing"
  /\ ~TooSoon(req[r].last, req[r].sub)
  /\ ~OpenFor(req[r].session, req[r].user)
  /\ req' = [req EXCEPT ![r] =
               [@ EXCEPT !.pc = "creating", !.reason = "no-session"]]
  /\ UNCHANGED <<now, session, log, runs, ev>>

\* findMany of the events, and the verdict.
Reconcile(r) ==
  /\ req[r].pc = "reading"
  /\ req' = [req EXCEPT ![r] =
               [@ EXCEPT !.pc = "creating",
                         !.reason = IF Mismatch(req[r].sub, log[req[r].session])
                                    THEN "mismatch" ELSE "ok"]]
  /\ UNCHANGED <<now, session, log, runs, ev>>

\* Mutant: the columns of the two ids are mixed up.
RunRowSwapsIds(r) ==
  [id |-> r, user |-> req[r].user,
   session |-> IF req[r].reason = "no-session" THEN None ELSE req[r].user,
   sub |-> req[r].sub, eligible |-> req[r].reason = "ok", createdAt |-> now]

\* Mutant: a request that found no open session is linked all the same.
RunRowAlwaysLinks(r) ==
  [id |-> r, user |-> req[r].user, session |-> req[r].session,
   sub |-> req[r].sub, eligible |-> req[r].reason = "ok", createdAt |-> now]

\* Mutant: only an eligible run is linked.
RunRowLinksEligible(r) ==
  [id |-> r, user |-> req[r].user,
   session |-> IF req[r].reason = "ok" THEN req[r].session ELSE None,
   sub |-> req[r].sub, eligible |-> req[r].reason = "ok", createdAt |-> now]

\* The row run.create inserts for the request.
RunRow(r) ==
  [id |-> r, user |-> req[r].user,
   session |-> IF req[r].reason = "no-session" THEN None ELSE req[r].session,
   sub |-> req[r].sub, eligible |-> req[r].reason = "ok", createdAt |-> now]

CreateRun(r) ==
  /\ req[r].pc = "creating"
  /\ runs' = runs \union {RunRow(r)}
  /\ req' = [req EXCEPT ![r].pc = "done"]
  /\ UNCHANGED <<now, session, log, ev>>

\* A statement fails or the process dies: the steps already taken stay.
EventFails(e) ==
  /\ Faults
  /\ EventInFlight(e)
  /\ ev' = [ev EXCEPT ![e].pc = "failed"]
  /\ UNCHANGED <<now, session, log, runs, req>>

RunFails(r) ==
  /\ Faults
  /\ RunInFlight(r)
  /\ req' = [req EXCEPT ![r].pc = IF Claims(r) THEN "abandoned" ELSE "failed"]
  /\ UNCHANGED <<now, session, log, runs, ev>>

Tick ==
  /\ now < MaxTime
  /\ now' = now + 1
  /\ UNCHANGED <<session, log, runs, ev, req>>

EventStep(e) ==
  \/ \E u \in Users, s \in Sessions, x \in Events : RecordEventFind(e, u, s, x)
  \/ RecordEventInsert(e)
  \/ EventFails(e)

RunStep(r) ==
  \/ \E u \in Users, b \in Submissions : RejectRate(r, u, b)
  \/ \E u \in Users, s \in Sessions \union {None}, b \in Submissions :
       SubmitRun(r, u, s, b)
  \/ RejectTooSoon(r)
  \/ Finalize(r)
  \/ NoSession(r)
  \/ Reconcile(r)
  \/ CreateRun(r)
  \/ RunFails(r)

Next ==
  \/ \E u \in Users, s \in Sessions : CreateSession(u, s)
  \/ \E e \in EventReqs : EventStep(e)
  \/ \E r \in RunReqs : RunStep(r)
  \/ Tick

Spec == Init /\ [][Next]_vars

\* An await is resumed once the database has answered, so a request in flight
\* is not suspended for ever.  Nothing makes a client call.
Answered(r) == RejectTooSoon(r) \/ Finalize(r) \/ NoSession(r)
                 \/ Reconcile(r) \/ CreateRun(r)

Fairness == /\ \A e \in EventReqs : WF_vars(RecordEventInsert(e))
            /\ \A r \in RunReqs : WF_vars(Answered(r))

FairSpec == Spec /\ Fairness

-------------------------------------------------------------------------------
(* Properties *)

\* However many submissions name one session, in whatever order their
\* statements run, at most one run row is linked to it: reconcile() closes the
\* session before it reads the events, so only one request gets past.
OneRunPerSession ==
  \A a, b \in runs : a.session = b.session /\ a.session # None => a = b

\* A run the leaderboard counts belongs to the owner of a closed session whose
\* event log explains it within the tolerances, also after every later event.
EligibleRunsExplained ==
  \A x \in runs : x.eligible =>
    /\ x.session \in Sessions
    /\ session[x.session] = [status |-> "finalized", owner |-> x.user]
    /\ ~Mismatch(x.sub, log[x.session])

\* Honest play is never flagged: a run linked to its session and explained by
\* the events that were stored before it was submitted is eligible.
NoFalseMismatch ==
  \A x \in runs :
    /\ x.session # None
    /\ ~Mismatch(x.sub, req[x.id].floor)
    => x.eligible

\* The verdict stays the one the stored log gives, both ways.  Needs clients
\* that flush their events before they submit.
VerdictMatchesLog ==
  \A x \in runs : x.session # None =>
    (x.eligible <=> ~Mismatch(x.sub, log[x.session]))

SpacedAfter(a, b) == a.createdAt + b.sub.survivalTime <= b.createdAt

\* Two runs of one user are at least as far apart as the later one lasted: the
\* interval check of RunsService.create.
RunsSpaced ==
  \A a, b \in runs :
    a # b /\ a.user = b.user => SpacedAfter(a, b) \/ SpacedAfter(b, a)

\* A closed session takes no further event: recordEvent answers 404 for it.
NoLateEvent ==
  [][\A s \in Sessions : session[s].status = "finalized" => log'[s] = log[s]]_vars

\* Closing a session is not the end of it: a run linked to that session
\* follows, unless the very request that closed it dies between its conditional
\* update and its insert.  No other death excuses a missing run, be it of a
\* request that had closed nothing yet or of one that lost the session.
ClosedSessionGetsRun ==
  \A s \in Sessions :
    session[s].status = "finalized" ~>
      \/ \E x \in runs : x.session = s
      \/ \E r \in RunReqs : req[r].pc = "abandoned" /\ req[r].session = s

-------------------------------------------------------------------------------
(* The inductive invariant behind OneRunPerSession, EligibleRunsExplained and *)
(* NoFalseMismatch: the winner of the conditional update holds a claim on its *)
(* session until its run row takes the claim over.                            *)

Below(t1, t2) == /\ t1.kills <= t2.kills
                 /\ t1.gold <= t2.gold
                 /\ t1.level <= t2.level

ClaimsClosed ==
  \A r \in RunReqs : Claims(r) =>
    /\ req[r].session \in Sessions
    /\ req[r].user \in Users
    /\ session[req[r].session]
         = [status |-> "finalized", owner |-> req[r].user]

ClaimsExclusive ==
  /\ \A r, q \in RunReqs :
       Claims(r) /\ Claims(q) /\ req[r].session = req[q].session => r = q
  /\ \A r \in RunReqs, x \in runs : Claims(r) => x.session # req[r].session

\* The request closed its session and has left no run: it may still, or it died.
Owes(r) == Claims(r) \/ req[r].pc = "abandoned"

\* No closed session is forgotten: its run is there, or a request that closed it
\* still owes it.
ClosedAccounted ==
  \A s \in Sessions : session[s].status = "finalized" =>
    \/ \E r \in RunReqs : Owes(r) /\ req[r].session = s
    \/ \E x \in runs : x.session = s

RowsClosed ==
  \A x \in runs : x.session # None =>
    session[x.session] = [status |-> "finalized", owner |-> x.user]

RowsById ==
  /\ \A x \in runs : req[x.id].pc = "done"
  /\ \A x, y \in runs : x.id = y.id => x = y

FloorBelowLog ==
  \A r \in RunReqs : RunInFlight(r) /\ req[r].session # None =>
    Below(req[r].floor, log[req[r].session])

VerdictSound ==
  \A r \in RunReqs : req[r].pc = "creating" =>
    /\ req[r].reason = "ok" => ~Mismatch(req[r].sub, log[req[r].session])
    /\ req[r].reason = "mismatch" => Mismatch(req[r].sub, req[r].floor)

\* The three properties with what makes them inductive: at every moment each
\* closed session has at most one claimant or one row, whose verdict still
\* holds of the log; and it has one, or its claimant died.
IInv ==
  /\ TypeOK
  /\ ClaimsClosed
  /\ ClaimsExclusive
  /\ ClosedAccounted
  /\ RowsClosed
  /\ RowsById
  /\ FloorBelowLog
  /\ VerdictSound
  /\ OneRunPerSession
  /\ EligibleRunsExplained
  /\ NoFalseMismatch

\* With clients that wait for each answer, an event that passed its check still
\* finds the session open: nobody else may close it.
CheckedEventsOpen ==
  \A e \in EventReqs : EventInFlight(e) =>
    /\ session[ev[e].session] = [status |-> "active", owner |-> ev[e].user]
    /\ \A r \in RunReqs : RunInFlight(r) => req[r].user # ev[e].user

-------------------------------------------------------------------------------
(* The abstract specification. *)

\* The rows of Run as entries of the ledger.
Book == {[id |-> x.id, user |-> x.user, session |-> x.session,
          eligible |-> x.eligible] : x \in runs}

Ledger == INSTANCE SessionLedger WITH Ids <- RunReqs, book <- Book

\* However requests interleave and fail, sessions and runs behave as the ledger:
\* reconcile() and the insert of the run, awaits apart, are one entry of a
\* session that is closed and has none.
LedgerImplemented == Ledger!Spec
===============================================================================
