---------------------------- MODULE LastGateGateway ----------------------------
(***************************************************************************)
(* The Socket.IO gateway in front of the rooms:                            *)
(* src/src/last-gate/last-gate.gateway.ts.                                 *)
(*                                                                         *)
(* Who is in a room is kept twice: as memberships by the room service and  *)
(* as Socket.IO rooms by the adapter, and frames are relayed by the first  *)
(* to those found in the second.  A handler changes the memberships at     *)
(* once and the Socket.IO rooms one await later each, and only then tells  *)
(* the room: other handlers, the sweep and disconnects run in between.     *)
(*                                                                         *)
(* A message over its rate is refused before anything else happens         *)
(* (RateWindows): here that is a step not taken.                           *)
(***************************************************************************)
EXTENDS LastGateRooms

CONSTANT Lanes  \* the room operations one client may have in flight at once

Flights == Sockets \X Lanes

VARIABLES
  ioRooms,   \* the Socket.IO rooms of each socket, its own id left out
  handling,  \* the room operations that were answered by the service so far
  seen       \* the slots shown connected in the last room:state of each socket

gatewayVars == <<ioRooms, handling, seen>>
allVars == <<vars, gatewayVars>>

HandlerType == [phase : {"leaving", "joined"}, code : Codes]

ASSUME GatewayAssumption == None \notin HandlerType

GatewayTypeOK ==
  /\ ioRooms \in [Sockets -> SUBSET Codes]
  /\ handling \in [Flights -> HandlerType \union {None}]
  /\ seen \in [Sockets -> SUBSET Slots]

Idle(s) == \A i \in Lanes : handling[<<s, i>>] = None

GatewayInit ==
  /\ Init
  /\ ioRooms = [s \in Sockets |-> {}]
  /\ handling = [f \in Flights |-> None]
  /\ seen = [s \in Sockets |-> {}]

-------------------------------------------------------------------------------
(* handleRoomOperation *)

\* A socket that is gone joins nothing.
Joined(s, c) == IF sockets[s] = "closed" THEN {} ELSE {c}

Handling(f, phase, c) ==
  handling' = [handling EXCEPT ![f] = [phase |-> phase, code |-> c]]

\* Mutant: the room is joined and no other is left.
EnterOnly(f, c) ==
  /\ ioRooms' = [ioRooms EXCEPT ![f[1]] = @ \union Joined(f[1], c)]
  /\ Handling(f, "joined", c)

\* Mutant: a socket that is in a room already joins no other.
EnterUnlessIn(f, c) ==
  /\ ioRooms' = [ioRooms EXCEPT ![f[1]] = IF @ = {} THEN Joined(f[1], c) ELSE @]
  /\ Handling(f, "joined", c)

\* From the head of the loop to the next await: one more room is left, or none
\* is there any more and the room of the session is joined.
Enter(f, c) ==
  \/ \E d \in ioRooms[f[1]] :
       /\ ioRooms' = [ioRooms EXCEPT ![f[1]] = @ \ {d}]
       /\ Handling(f, "leaving", c)
  \/ /\ ioRooms[f[1]] = {}
     /\ ioRooms' = [ioRooms EXCEPT ![f[1]] = Joined(f[1], c)]
     /\ Handling(f, "joined", c)

\* room:create, room:join or room:resume up to the first await.
roomOperation(f) ==
  /\ handling[f] = None
  /\ \E c \in Codes : \/ createRoom(f[1], c)
                      \/ joinRoom(f[1], c)
                      \/ \E k \in Slots : resumeRoom(f[1], c, k)
  /\ Enter(f, answer'.code)
  /\ UNCHANGED seen

\* The service throws after the socket has left: the Socket.IO rooms stay.
roomOperationThrows(f) ==
  /\ handling[f] = None
  /\ createRoomExhausted(f[1])
  /\ UNCHANGED gatewayVars

leaveResumed(f) ==
  /\ handling[f] # None
  /\ handling[f].phase = "leaving"
  /\ Enter(f, handling[f].code)
  /\ UNCHANGED <<vars, seen>>

Snapshot(room) == {k \in Slots : Connected(room, k)}

\* Mutant: the snapshot goes to the socket of the operation alone.
ToldSelf(f, c) ==
  IF PrunedRooms[c] = None THEN seen
  ELSE [seen EXCEPT ![f[1]] = Snapshot(PrunedRooms[c])]

\* What every socket has seen once the snapshot of room c went out to all that
\* are in the Socket.IO room, or getSnapshot found no such room.
Told(f, c) ==
  IF PrunedRooms[c] = None THEN seen
  ELSE [s \in Sockets |-> IF c \in ioRooms[s] THEN Snapshot(PrunedRooms[c]) ELSE seen[s]]

\* The room is joined: getSnapshot, which prunes, and room:state.
joinResumed(f) ==
  /\ handling[f] # None
  /\ handling[f].phase = "joined"
  /\ seen' = Told(f, handling[f].code)
  /\ handling' = [handling EXCEPT ![f] = None]
  /\ cleanupExpiredRooms
  /\ UNCHANGED ioRooms

\* Socket.IO takes a socket that closes out of all its rooms.
handleDisconnect(s) ==
  /\ disconnectSocket(s)
  /\ ioRooms' = [ioRooms EXCEPT ![s] = {}]
  /\ seen' = [seen EXCEPT ![s] = {}]
  /\ UNCHANGED handling

\* The process restarts: no handler is resumed.
GatewayRestart ==
  /\ Restart
  /\ ioRooms' = [s \in Sockets |-> {}]
  /\ handling' = [f \in Flights |-> None]
  /\ seen' = [s \in Sockets |-> {}]

GatewayNext ==
  \/ \E f \in Flights : \/ roomOperation(f)
                        \/ roomOperationThrows(f)
                        \/ leaveResumed(f)
                        \/ joinResumed(f)
  \/ \E s \in Sockets : handleDisconnect(s)
  \/ (cleanupExpiredRooms \/ Tick) /\ UNCHANGED gatewayVars
  \/ GatewayRestart

GatewaySpec == GatewayInit /\ [][GatewayNext]_allVars

-------------------------------------------------------------------------------
(* input:relay *)

\* The room and slot getMembership finds for the socket.
HasMembership(s) ==
  /\ socketMemberships[s] # None
  /\ rooms[socketMemberships[s].code] # None
  /\ rooms[socketMemberships[s].code].players[socketMemberships[s].slot] # None

\* Who gets a frame that socket s sends: the others in the Socket.IO room.
Receivers(s) ==
  IF HasMembership(s)
  THEN {t \in Sockets \ {s} : socketMemberships[s].code \in ioRooms[t]}
  ELSE {}

-------------------------------------------------------------------------------
(* Properties *)

\* Memberships and Socket.IO rooms agree once a socket's handlers are through:
\* a member is in the Socket.IO room of its membership and in no other, whatever
\* ran between the awaits.  Needs clients with one operation in flight.
MemberListens ==
  \A s \in Sockets :
    Idle(s) /\ socketMemberships[s] # None => ioRooms[s] = {socketMemberships[s].code}

\* A frame reaches the peer: two players who sit in one room and have their
\* session hear each other.
PeersHear ==
  \A s, t \in Sockets, c \in Codes, k, j \in Slots :
    /\ s # t /\ Sits(s, c, k) /\ Sits(t, c, j)
    /\ Idle(s) /\ Idle(t)
    => t \in Receivers(s)

\* Nobody joins unannounced: a member's last room:state shows every player who
\* sits in the room, although the snapshot is taken awaits after the membership.
PeersAnnounced ==
  \A s, t \in Sockets, c \in Codes, k \in Slots :
    /\ socketMemberships[s] # None /\ socketMemberships[s].code = c
    /\ Sits(t, c, k)
    /\ Idle(s) /\ Idle(t)
    => k \in seen[s]

-------------------------------------------------------------------------------
(* The inductive invariant. *)

\* A handler under way is for the room its socket is a member of, if any, and
\* once it has joined the socket is in that room.
HandlersFollow ==
  \A f \in Flights : handling[f] # None =>
    /\ socketMemberships[f[1]] # None =>
         socketMemberships[f[1]].code = handling[f].code
    /\ handling[f].phase = "joined" /\ sockets[f[1]] # "closed" =>
         ioRooms[f[1]] = {handling[f].code}

GatewayInv ==
  /\ SeatInv
  /\ GatewayTypeOK
  /\ HandlersFollow
  /\ MemberListens
  /\ PeersAnnounced
===============================================================================
