------------------------------ MODULE RateWindows ------------------------------
(***************************************************************************)
(* The rate limits of the gateway: the two maps of fixed windows in        *)
(* src/src/last-gate/last-gate.gateway.ts, one for relayed inputs and one  *)
(* for room operations, each with a window per socket.                     *)
(*                                                                         *)
(* Every handler checks its rate before it does anything else, without an  *)
(* await, so a message is one step here whatever becomes of it later.      *)
(***************************************************************************)
EXTENDS Integers, Sequences

CONSTANTS
  Sockets,   \* the connections, each under an id of its own
  MAX,       \* messages a window admits, by kind of message
  WINDOW,    \* length of a window, by kind of message
  None,      \* no window
  MaxTime    \* bound of the clock

Kinds == {"input", "room"}

\* The windows: one per map and socket id.
Meters == Kinds \X Sockets

ASSUME RateAssumption ==
  /\ MAX \in [Kinds -> Nat \ {0}]
  /\ WINDOW \in [Kinds -> Nat \ {0}]
  /\ MaxTime \in Nat
  /\ None \notin [startedAt : Nat, count : Nat]

VARIABLES
  now,        \* the clock
  connected,  \* the sockets whose connection is open
  window,     \* the entries of the two maps
  admitted    \* history: the times at which messages got past the check

vars == <<now, connected, window, admitted>>

Limit(m) == MAX[m[1]]
Length(m) == WINDOW[m[1]]

\* A count beyond the limit refuses like any other: it is kept up to limit + 1.
RateWindow(m) == [startedAt : Nat, count : 1 .. Limit(m) + 1]

TypeOK ==
  /\ now \in Nat
  /\ connected \subseteq Sockets
  /\ DOMAIN window = Meters
  /\ \A m \in Meters : window[m] \in RateWindow(m) \union {None}
  /\ admitted \in [Meters -> Seq(Nat)]

Init ==
  /\ now = 0
  /\ connected = Sockets
  /\ window = [m \in Meters |-> None]
  /\ admitted = [m \in Meters |-> <<>>]

-------------------------------------------------------------------------------
(* The check *)

AtMost(a, b) == IF a <= b THEN a ELSE b

Over(m) == window[m] = None \/ now - window[m].startedAt >= Length(m)

\* Mutant: a counted message moves the start of the window.
CountedSliding(m) ==
  [startedAt |-> now,
   count |-> IF Over(m) THEN 1 ELSE AtMost(window[m].count + 1, Limit(m) + 1)]

\* Mutant: a new window begins with a count of zero.
CountedFromZero(m) ==
  IF Over(m) THEN [startedAt |-> now, count |-> 0]
  ELSE [window[m] EXCEPT !.count = AtMost(@ + 1, Limit(m) + 1)]

\* The window once the message is counted: a new one, or one more in the old.
Counted(m) ==
  IF Over(m) THEN [startedAt |-> now, count |-> 1]
  ELSE [window[m] EXCEPT !.count = AtMost(@ + 1, Limit(m) + 1)]

Refuses(m) == Counted(m).count > Limit(m)

assertRate(m) ==
  /\ m[2] \in connected
  /\ window' = [window EXCEPT ![m] = Counted(m)]
  /\ admitted' = IF Refuses(m) THEN admitted
                 ELSE [admitted EXCEPT ![m] = Append(@, now)]
  /\ UNCHANGED <<now, connected>>

\* A frame that turns out malformed or homeless has used its place all the same.
relayInput(s) == assertRate(<<"input", s>>)

roomOperation(s) == assertRate(<<"room", s>>)

\* Mutant: one of the two maps is forgotten.
ClosedInputOnly(s) ==
  [m \in Meters |-> IF m = <<"input", s>> THEN None ELSE window[m]]

\* Both maps without the entry of socket s.
Closed(s) == [m \in Meters |-> IF m[2] = s THEN None ELSE window[m]]

\* The id of a closed connection is never used again.
handleDisconnect(s) ==
  /\ s \in connected
  /\ connected' = connected \ {s}
  /\ window' = Closed(s)
  /\ UNCHANGED <<now, admitted>>

Tick ==
  /\ now < MaxTime
  /\ now' = now + 1
  /\ UNCHANGED <<connected, window, admitted>>

Next ==
  \/ \E s \in Sockets : relayInput(s) \/ roomOperation(s) \/ handleDisconnect(s)
  \/ Tick

Spec == Init /\ [][Next]_vars

-------------------------------------------------------------------------------
(* Properties *)

\* What a fixed window is worth at its edges: twice the limit takes at least the
\* length of a window, so in any stretch of that length, wherever it begins, at
\* most 2 * limit - 1 messages of a socket get past assertRateLimit and
\* assertRoomOperationRateLimit.
BurstBounded ==
  \A m \in Meters : \A i \in 1 .. Len(admitted[m]) :
    LET j == i + 2 * Limit(m) - 1
    IN j <= Len(admitted[m]) => admitted[m][j] - admitted[m][i] >= Length(m)

\* Nobody within the limit is refused, and refusals do not prolong each other:
\* a message that would be refused comes less than a window after the first of
\* as many admitted ones as the limit.
RefusedOnlyAtLimit ==
  \A m \in Meters : Refuses(m) =>
    LET first == Len(admitted[m]) + 1 - Limit(m)
    IN first >= 1 /\ now - admitted[m][first] < Length(m)

-------------------------------------------------------------------------------
(* The inductive invariant. *)

Accepted(m) == AtMost(window[m].count, Limit(m))

\* The place in the history of the message that opened the window.
Opened(m) == Len(admitted[m]) - Accepted(m) + 1

History(m) ==
  /\ \A i \in 1 .. Len(admitted[m]) : admitted[m][i] <= now
  /\ \A i, j \in 1 .. Len(admitted[m]) : i <= j => admitted[m][i] <= admitted[m][j]

\* The window's messages are the last ones of the history, and whatever is a
\* full limit older than the window's first was admitted a window earlier.
WindowMatches(m) ==
  window[m] # None =>
    /\ Opened(m) >= 1
    /\ admitted[m][Opened(m)] = window[m].startedAt
    /\ \A i \in 1 .. Opened(m) - Limit(m) :
         admitted[m][i] <= window[m].startedAt - Length(m)

\* No window outlives its connection: the maps do not grow with the sockets gone.
NoWindowLeft ==
  \A m \in Meters : window[m] # None => m[2] \in connected

NothingBefore ==
  \A m \in Meters : m[2] \in connected /\ window[m] = None => admitted[m] = <<>>

WindowInv ==
  /\ TypeOK
  /\ NoWindowLeft
  /\ NothingBefore
  /\ \A m \in Meters : History(m) /\ WindowMatches(m)
  /\ BurstBounded
================================================================================
