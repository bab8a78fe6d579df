----------------------------- MODULE SessionLedger -----------------------------
(***************************************************************************)
(* What battle sessions and runs promise together, without requests,       *)
(* statements or event logs: a session is opened by its owner and closed   *)
(* once, and a book of runs in which a closed session is entered at most   *)
(* once, under its owner.  Only a run entered under a session can count    *)
(* for the leaderboard.  BattleRuns implements it.                         *)
(***************************************************************************)
CONSTANTS Users, Sessions, Ids, None

VARIABLES session, book

ledgerVars == <<session, book>>

Init ==
  /\ session = [s \in Sessions |-> [status |-> "absent", owner |-> None]]
  /\ book = {}

Open(u, s) ==
  /\ session[s].status = "absent"
  /\ session' = [session EXCEPT ![s] = [status |-> "active", owner |-> u]]
  /\ UNCHANGED book

Close(s) ==
  /\ session[s].status = "active"
  /\ session' = [session EXCEPT ![s].status = "finalized"]
  /\ UNCHANGED book

NewId(i) == \A x \in book : x.id # i

\* The one run of a session, with whatever verdict.
Enter(i, s, counts) ==
  /\ NewId(i)
  /\ session[s].status = "finalized"
  /\ \A x \in book : x.session # s
  /\ book' = book \union
       {[id |-> i, user |-> session[s].owner, session |-> s, eligible |-> counts]}
  /\ UNCHANGED session

\* A run without a session of its own never counts.
EnterUnlinked(i, u) ==
  /\ NewId(i)
  /\ book' = book \union
       {[id |-> i, user |-> u, session |-> None, eligible |-> FALSE]}
  /\ UNCHANGED session

Next ==
  \/ \E u \in Users, s \in Sessions : Open(u, s)
  \/ \E s \in Sessions : Close(s)
  \/ \E i \in Ids, s \in Sessions, counts \in BOOLEAN : Enter(i, s, counts)
  \/ \E i \in Ids, u \in Users : EnterUnlinked(i, u)

Spec == Init /\ [][Next]_ledgerVars
================================================================================
