----------------------------- MODULE LastGateRooms -----------------------------
(***************************************************************************)
(* The rooms of Emberhold: The Last Gate: two maps in the memory of one    *)
(* process, rooms by code and memberships by socket                        *)
(* (src/src/last-gate/last-gate-room.service.ts).                          *)
(*                                                                         *)
(* Every operation of the service is synchronous, so an action is a whole  *)
(* operation.  What is hard are the sequences of operations: the two maps  *)
(* are written separately, and a socket that already sits in a room leaves *)
(* it in the middle of its next operation.                                 *)
(*                                                                         *)
(* Times are ages in minutes that stop at the TTL they are compared with:  *)
(* createdAt and disconnectedAt are read in no other way.  A reconnect     *)
(* token is a random UUID, so it names one player; a token of nobody is    *)
(* refused.  A room has the one protocol version the server speaks.        *)
(***************************************************************************)
EXTENDS Integers

CONSTANTS
  Sockets,          \* Socket.IO connections; a reconnection is a new one
  Codes,            \* room codes
  None,             \* the absent room, player, membership, socket or age
  WAITING_ROOM_TTL, DISCONNECTED_ROOM_TTL,  \* in minutes
  FreshSockets      \* TRUE: a socket makes one room operation at most

ASSUME ConstantsAssumption ==
  /\ WAITING_ROOM_TTL \in Nat
  /\ DISCONNECTED_ROOM_TTL \in Nat
  /\ FreshSockets \in BOOLEAN

Slots == {1, 2}

\* A player is connected, or has been away for some time.
PlayerType ==
  [socket : Sockets, away : {None}] \union [socket : {None}, away : Nat]
RoomType == [age : Nat, players : [Slots -> PlayerType \union {None}]]
MembershipType == [code : Codes, slot : Slots]
AnswerType == [op : {"create", "join", "resume"}, socket : Sockets,
               code : Codes, slot : Slots]

ASSUME NoneAssumption ==
  /\ None \notin Sockets /\ None \notin Nat
  /\ None \notin PlayerType /\ None \notin RoomType
  /\ None \notin MembershipType /\ None \notin AnswerType

VARIABLES
  rooms,             \* the map of rooms: room or None by code
  socketMemberships, \* the map of memberships: code and slot, or None, by socket
  sockets,           \* what became of each connection
  answer             \* the session the last step answered with, or None

vars == <<rooms, socketMemberships, sockets, answer>>

TypeOK ==
  /\ rooms \in [Codes -> RoomType \union {None}]
  /\ socketMemberships \in [Sockets -> MembershipType \union {None}]
  /\ sockets \in [Sockets -> {"new", "open", "closed"}]
  /\ answer \in AnswerType \union {None}

-------------------------------------------------------------------------------
(* pruneExpiredRooms *)

Waiting(room) == \E k \in Slots : room.players[k] = None
Empty(room) == \A k \in Slots : room.players[k] = None
Connected(room, k) == room.players[k] # None /\ room.players[k].socket # None
AllDisconnected(room) == \A k \in Slots : ~Connected(room, k)

\* Every player has been away for the TTL: so has the last one to go.
AllAwayLong(room) ==
  \A k \in Slots :
    room.players[k] # None => room.players[k].away >= DISCONNECTED_ROOM_TTL

\* Mutant: the second condition only looks at the first player.
ExpiredByHost(room) ==
  \/ Waiting(room) /\ room.age >= WAITING_ROOM_TTL
  \/ /\ room.players[1] # None
     /\ room.players[1].socket = None
     /\ room.players[1].away >= DISCONNECTED_ROOM_TTL

\* Mutant: a full room is kept whoever is there.
ExpiredWaitingOnly(room) == Waiting(room) /\ room.age >= WAITING_ROOM_TTL

Expired(room) ==
  \/ Waiting(room) /\ room.age >= WAITING_ROOM_TTL
  \/ AllDisconnected(room) /\ AllAwayLong(room)

Prunes(c) == rooms[c] # None /\ Expired(rooms[c])

PrunedRooms == [c \in Codes |-> IF Prunes(c) THEN None ELSE rooms[c]]

\* deleteRoom drops the memberships of the players that are connected.
PrunedMemberships ==
  [s \in Sockets |->
     IF \E c \in Codes, k \in Slots :
          Prunes(c) /\ rooms[c].players[k] # None /\ rooms[c].players[k].socket = s
     THEN None ELSE socketMemberships[s]]

-------------------------------------------------------------------------------
(* leaveSocket *)

\* Mutant: an empty room stays in the map.
WithoutSlotKept(room, k) == [room EXCEPT !.players[k] = None]

\* A room without slot k, which is no room when the slot was the last.
WithoutSlot(room, k) ==
  LET rest == [room EXCEPT !.players[k] = None]
  IN IF Empty(rest) THEN None ELSE rest

\* Mutant: leaving drops the membership alone.
LeftRoomsUnchanged(s) == PrunedRooms

\* The rooms once socket s has left the one of its membership, which it does
\* whoever holds that slot.
LeftRooms(s) ==
  LET m == PrunedMemberships[s]
  IN [c \in Codes |->
        IF m # None /\ m.code = c /\ PrunedRooms[c] # None
        THEN WithoutSlot(PrunedRooms[c], m.slot) ELSE PrunedRooms[c]]

-------------------------------------------------------------------------------
(* The operations *)

Init ==
  /\ rooms = [c \in Codes |-> None]
  /\ socketMemberships = [s \in Sockets |-> None]
  /\ sockets = [s \in Sockets |-> "new"]
  /\ answer = None

MayCall(s) == sockets[s] # "closed" /\ (FreshSockets => sockets[s] = "new")

\* Mutant: a player counts as connected only after the first sign of life.
NewPlayerAway(s) == [socket |-> None, away |-> 0]

NewPlayer(s) == [socket |-> s, away |-> None]

Answers(op, s, c, k) ==
  /\ answer' = [op |-> op, socket |-> s, code |-> c, slot |-> k]
  /\ sockets' = [sockets EXCEPT ![s] = "open"]

createRoom(s, c) ==
  /\ MayCall(s)
  /\ LeftRooms(s)[c] = None
  /\ rooms' = [LeftRooms(s) EXCEPT ![c] =
                 [age |-> 0,
                  players |-> [k \in Slots |-> IF k = 1 THEN NewPlayer(s) ELSE None]]]
  /\ socketMemberships' = [PrunedMemberships EXCEPT ![s] = [code |-> c, slot |-> 1]]
  /\ Answers("create", s, c, 1)

\* Twenty codes were drawn and all were taken: the socket has left its room
\* and gets no other.
createRoomExhausted(s) ==
  /\ MayCall(s)
  /\ \E c \in Codes : LeftRooms(s)[c] # None
  /\ rooms' = LeftRooms(s)
  /\ socketMemberships' = [PrunedMemberships EXCEPT ![s] = None]
  /\ sockets' = [sockets EXCEPT ![s] = "open"]
  /\ answer' = None

\* Mutant: an off-by-one in the check of the size.
RoomFullOffByOne(room) == FALSE

RoomFull(room) == ~Waiting(room)

\* The size is checked before the socket leaves the room it sits in, and slot
\* 2 is written whatever it holds.  When that room was this one and had nobody
\* else it is out of the map, and the player goes into an object nobody finds.
joinRoom(s, c) ==
  /\ MayCall(s)
  /\ PrunedRooms[c] # None
  /\ ~RoomFull(PrunedRooms[c])
  /\ rooms' = [LeftRooms(s) EXCEPT ![c] =
                 IF @ = None THEN None ELSE [@ EXCEPT !.players[2] = NewPlayer(s)]]
  /\ socketMemberships' = [PrunedMemberships EXCEPT ![s] = [code |-> c, slot |-> 2]]
  /\ Answers("join", s, c, 2)

\* Mutant: the membership of the socket before is not dropped.
ReplacedKept(p) == PrunedMemberships

\* The memberships without that of the socket player p had so far.
Replaced(p) == [t \in Sockets |-> IF t = p.socket THEN None ELSE PrunedMemberships[t]]

\* resumeRoom with the token of the player of slot k in room c.  When the socket
\* itself sits there it has left first, and the player is out of the room.
resumeRoom(s, c, k) ==
  /\ MayCall(s)
  /\ PrunedRooms[c] # None
  /\ PrunedRooms[c].players[k] # None
  /\ rooms' = [LeftRooms(s) EXCEPT ![c] =
                 IF @ = None \/ @.players[k] = None THEN @
                 ELSE [@ EXCEPT !.players[k] = NewPlayer(s)]]
  /\ socketMemberships' =
       [Replaced(PrunedRooms[c].players[k]) EXCEPT ![s] = [code |-> c, slot |-> k]]
  /\ Answers("resume", s, c, k)

\* Socket s is a member at slot k of room c, and the player there is on it.
Sits(s, c, k) ==
  /\ socketMemberships[s] = [code |-> c, slot |-> k]
  /\ rooms[c] # None
  /\ rooms[c].players[k] # None
  /\ rooms[c].players[k].socket = s

\* A player who has just gone.
Gone == [socket |-> None, away |-> 0]

\* handleDisconnect
disconnectSocket(s) ==
  /\ sockets[s] = "open"
  /\ rooms' = [c \in Codes |->
       IF \E k \in Slots : Sits(s, c, k)
       THEN [rooms[c] EXCEPT !.players =
               [k \in Slots |-> IF Sits(s, c, k) THEN Gone ELSE @[k]]]
       ELSE rooms[c]]
  /\ socketMemberships' = [socketMemberships EXCEPT ![s] = None]
  /\ sockets' = [sockets EXCEPT ![s] = "closed"]
  /\ answer' = None

\* The interval.  Reads (getSnapshot, getRoomCount) and the calls that are
\* refused (unknown code, full room, unknown token, another protocol version)
\* prune as well and change nothing else.
cleanupExpiredRooms ==
  /\ rooms' = PrunedRooms
  /\ socketMemberships' = PrunedMemberships
  /\ answer' = None
  /\ UNCHANGED sockets

\* A restart of the process: the maps are empty and all connections are lost.
Restart ==
  /\ rooms' = [c \in Codes |-> None]
  /\ socketMemberships' = [s \in Sockets |-> None]
  /\ sockets' = [s \in Sockets |-> IF sockets[s] = "open" THEN "closed" ELSE sockets[s]]
  /\ answer' = None

AtMost(a, b) == IF a <= b THEN a ELSE b

\* A player who has been away is away for a minute more.
Later(p) ==
  IF p = None \/ p.away = None THEN p
  ELSE [p EXCEPT !.away = AtMost(DISCONNECTED_ROOM_TTL, p.away + 1)]

\* A minute passes.
Tick ==
  /\ rooms' = [c \in Codes |->
       IF rooms[c] = None THEN None
       ELSE [age |-> AtMost(WAITING_ROOM_TTL, rooms[c].age + 1),
             players |-> [k \in Slots |-> Later(rooms[c].players[k])]]]
  /\ answer' = None
  /\ UNCHANGED <<socketMemberships, sockets>>

Next ==
  \/ \E s \in Sockets :
       \/ \E c \in Codes : createRoom(s, c) \/ joinRoom(s, c)
       \/ \E c \in Codes, k \in Slots : resumeRoom(s, c, k)
       \/ createRoomExhausted(s)
       \/ disconnectSocket(s)
  \/ cleanupExpiredRooms
  \/ Restart
  \/ Tick

Spec == Init /\ [][Next]_vars

\* Time passes and the interval fires.
FairSpec == Spec /\ WF_vars(Tick) /\ WF_vars(cleanupExpiredRooms)

-------------------------------------------------------------------------------
(* Properties *)

\* A player who counts as connected is on a socket that is a member at that
\* very slot, so a socket sits in one seat at most and its disconnect finds it.
SeatsHeld ==
  \A c \in Codes, k \in Slots :
    rooms[c] # None /\ Connected(rooms[c], k) =>
      socketMemberships[rooms[c].players[k].socket] = [code |-> c, slot |-> k]

\* No player counts as connected through a connection that is gone: such a seat
\* would keep a full room for ever.
NoGhostSeat ==
  \A c \in Codes, k \in Slots :
    rooms[c] # None /\ Connected(rooms[c], k) =>
      sockets[rooms[c].players[k].socket] = "open"

\* A room in the map has a player: the prune takes the maximum of their times.
NoEmptyRoom == \A c \in Codes : rooms[c] # None => ~Empty(rooms[c])

\* A room of two is there until both have been away for the TTL, whatever the
\* sweeps, the leaving and the resuming in between.
FullRoomsRetained ==
  [][\A c \in Codes :
       rooms[c] # None /\ ~Waiting(rooms[c]) /\ rooms'[c] = None =>
         \/ AllDisconnected(rooms[c]) /\ AllAwayLong(rooms[c])
         \/ Restart]_vars

\* The two maps agree: a member sits in the seat its membership names, so a
\* relayed frame carries the slot of the player who sent it.
MembersSit ==
  \A s \in Sockets :
    socketMemberships[s] # None =>
      Sits(s, socketMemberships[s].code, socketMemberships[s].slot)

\* A join does not take the slot of a player who is connected.
GuestNotReplaced ==
  [][\A c \in Codes :
       rooms[c] # None /\ Connected(rooms[c], 2) /\ answer' # None =>
         \/ answer'.op # "join" \/ answer'.code # c
         \/ answer'.socket = rooms[c].players[2].socket]_vars

\* A room whose players have all gone for good is swept: the map does not grow.
Abandoned(c) ==
  /\ rooms[c] # None
  /\ \A s \in Sockets :
       sockets[s] # "closed" => \A k \in Slots :
         rooms[c].players[k] # None => rooms[c].players[k].socket # s

AbandonedRoomsSwept == \A c \in Codes : Abandoned(c) ~> ~Abandoned(c)

\* Who was answered with a session sits in its slot of an existing room, as
\* room:create, room:join and room:resume are documented to do: but for a socket
\* that calls for the very room it is a member of, which leaves it underway.
NewcomersSit ==
  [][answer' # None =>
       \/ Sits(answer.socket, answer.code, answer.slot)'
       \/ /\ socketMemberships[answer'.socket] # None
          /\ socketMemberships[answer'.socket].code = answer'.code]_vars

-------------------------------------------------------------------------------
(* The inductive invariant. *)

\* A connection that is not open has no membership.
ClosedHaveNone ==
  \A s \in Sockets : sockets[s] # "open" => socketMemberships[s] = None

\* SeatsHeld carries the induction: an operation writes the two maps in
\* separate statements and must leave no seat behind.
SeatInv ==
  /\ TypeOK
  /\ SeatsHeld
  /\ ClosedHaveNone
  /\ NoEmptyRoom
===============================================================================
