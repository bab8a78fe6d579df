------------------------- MODULE LastGateGatewayProofs -------------------------
(* Theorems about LastGateGateway, for any number of sockets and codes, any   *)
(* TTLs, and clients with one room operation in flight.                       *)
EXTENDS LastGateGateway, LastGateRoomsProofs

OneLane == \A i, j \in Lanes : i = j

\* In the rooms R socket t is on the player of slot k of room c.
OnSeat(R, c, k, t) ==
  R[c] # None /\ R[c].players[k] # None /\ R[c].players[k].socket = t

\* A step of socket x in the room service gives no other socket anything.
Others(x) ==
  \A t \in Sockets : t # x =>
    /\ socketMemberships'[t] \in {socketMemberships[t], None}
    /\ sockets'[t] = sockets[t]
    /\ \A c \in Codes, k \in Slots : OnSeat(rooms', c, k, t) => OnSeat(rooms, c, k, t)

\* Socket s was answered with a session of room c.
Answered(s, c) ==
  /\ c \in Codes
  /\ Others(s)
  /\ sockets[s] # "closed"
  /\ socketMemberships'[s] # None
  /\ socketMemberships'[s].code = c

-------------------------------------------------------------------------------
(* What the room service does to those who do not act. *)

LEMMA LeftSeats ==
  ASSUME SeatInv, NEW s \in Sockets, NEW c \in Codes, NEW k \in Slots, NEW t,
         OnSeat(LeftRooms(s), c, k, t)
  PROVE  OnSeat(rooms, c, k, t)
<1> DEFINE m == PrunedMemberships[s]
<1>1. PrunedRooms[c] = rooms[c] /\ PrunedRooms[c] # None /\ rooms[c] \in RoomType
  BY DEF OnSeat, LeftRooms, PrunedRooms, SeatInv, TypeOK
<1>2. CASE m # None /\ m.code = c
  <2>1. LeftRooms(s)[c] = WithoutSlot(rooms[c], m.slot)
    BY <1>1, <1>2 DEF LeftRooms
  <2>2. m.slot \in Slots
    BY <1>2, PrunedOK DEF MembershipsType, MembershipType
  <2>3. k # m.slot /\ WithoutSlot(rooms[c], m.slot).players[k] = rooms[c].players[k]
    BY <1>1, <2>1, <2>2, WithoutSlotFacts DEF OnSeat
  <2> QED BY <1>1, <2>1, <2>3 DEF OnSeat
<1>3. CASE ~(m # None /\ m.code = c)
  BY <1>1, <1>3 DEF LeftRooms, OnSeat
<1> QED BY <1>2, <1>3

\* The two maps of an operation of socket s: the rooms it has left with a new
\* player on it, the pruned memberships without some and with its own.
LEMMA OperationFrame ==
  ASSUME SeatInv, NEW s \in Sockets, NEW M \in MembershipsType,
         socketMemberships' = M,
         \A t \in Sockets : t # s => M[t] \in {socketMemberships[t], None},
         sockets' = [sockets EXCEPT ![s] = "open"],
         \A c \in Codes, k \in Slots, t \in Sockets \ {s} :
           OnSeat(rooms', c, k, t) => OnSeat(LeftRooms(s), c, k, t)
  PROVE  Others(s)
<1> SUFFICES ASSUME NEW t \in Sockets, t # s
             PROVE  /\ M[t] \in {socketMemberships[t], None}
                    /\ sockets'[t] = sockets[t]
                    /\ \A c \in Codes, k \in Slots :
                         OnSeat(rooms', c, k, t) => OnSeat(rooms, c, k, t)
  BY DEF Others
<1>1. sockets'[t] = sockets[t]
  BY DEF SeatInv, TypeOK
<1>2. \A c \in Codes, k \in Slots : OnSeat(rooms', c, k, t) => OnSeat(rooms, c, k, t)
  BY LeftSeats
<1> QED BY <1>1, <1>2

LEMMA CreateFrame ==
  ASSUME SeatInv, NEW s \in Sockets, NEW c \in Codes, createRoom(s, c)
  PROVE  Answered(s, answer'.code)
<1> DEFINE M == [PrunedMemberships EXCEPT ![s] = [code |-> c, slot |-> 1]]
           new == [age |-> 0,
                   players |-> [k \in Slots |-> IF k = 1 THEN NewPlayer(s) ELSE None]]
<1>1. /\ PrunedMemberships \in MembershipsType
      /\ \A t \in Sockets : PrunedMemberships[t] \in {socketMemberships[t], None}
  BY PrunedOK
<1>2. /\ socketMemberships' = M /\ rooms' = [LeftRooms(s) EXCEPT ![c] = new]
      /\ sockets' = [sockets EXCEPT ![s] = "open"] /\ sockets[s] # "closed"
      /\ answer'.code = c
  BY DEF createRoom, Answers, MayCall
<1>3. M \in MembershipsType /\ [code |-> c, slot |-> 1] \in MembershipType
  BY <1>1 DEF MembershipsType, MembershipType, Slots
<1>4. \A t \in Sockets : t # s => M[t] \in {socketMemberships[t], None}
  BY <1>1 DEF MembershipsType
<1>5. ASSUME NEW d \in Codes, NEW k \in Slots, NEW t \in Sockets \ {s},
             OnSeat(rooms', d, k, t)
      PROVE  OnSeat(LeftRooms(s), d, k, t)
  <2>1. rooms'[d] = IF d = c THEN new ELSE LeftRooms(s)[d]
    BY <1>2 DEF LeftRooms
  <2>2. d # c
    BY <1>5, <2>1 DEF OnSeat, NewPlayer
  <2> QED BY <1>5, <2>1, <2>2 DEF OnSeat
<1>6. Others(s)
  BY <1>2, <1>3, <1>4, <1>5, OperationFrame
<1>7. M[s] = [code |-> c, slot |-> 1]
  BY <1>1 DEF MembershipsType
<1> QED BY <1>2, <1>3, <1>6, <1>7, NoneAssumption DEF Answered

\* The player that sits down in room c, in a slot or not, is the only new one.
LEMMA NewSeatOnly ==
  ASSUME SeatInv, NEW s \in Sockets, NEW c \in Codes, NEW k \in Slots, NEW N,
         \/ N = LeftRooms(s)[c]
         \/ /\ LeftRooms(s)[c] # None
            /\ N = [LeftRooms(s)[c] EXCEPT !.players[k] = NewPlayer(s)],
         NEW d \in Codes, NEW j \in Slots, NEW t \in Sockets \ {s},
         OnSeat([LeftRooms(s) EXCEPT ![c] = N], d, j, t)
  PROVE  OnSeat(LeftRooms(s), d, j, t)
<1> DEFINE L == LeftRooms(s)
           R == [L EXCEPT ![c] = N]
           w == [L[c] EXCEPT !.players[k] = NewPlayer(s)]
<1>1. R[d] = IF d = c THEN N ELSE L[d]
  BY DEF LeftRooms
<1>2. CASE d = c /\ L[c] # None /\ N = w
  <2>1. L[c] \in RoomType
    BY <1>2, LeftOK, RoomsType
  <2>2. /\ w.players[k] = NewPlayer(s)
        /\ \A i \in Slots : i # k => w.players[i] = L[c].players[i]
    BY <2>1, NewSeatType
  <2> HIDE DEF w
  <2>3. j # k
    BY <1>1, <1>2, <2>2 DEF OnSeat, NewPlayer
  <2> QED BY <1>1, <1>2, <2>2, <2>3 DEF OnSeat
<1>3. CASE ~(d = c /\ L[c] # None /\ N = w)
  BY <1>1, <1>3 DEF OnSeat
<1> QED BY <1>2, <1>3

LEMMA JoinFrame ==
  ASSUME SeatInv, NEW s \in Sockets, NEW c \in Codes, joinRoom(s, c)
  PROVE  Answered(s, answer'.code)
<1> DEFINE k == 2
           M == [PrunedMemberships EXCEPT ![s] = [code |-> c, slot |-> k]]
           L == LeftRooms(s)
           N == IF L[c] = None THEN None ELSE [L[c] EXCEPT !.players[k] = NewPlayer(s)]
<1>1. /\ PrunedMemberships \in MembershipsType
      /\ \A t \in Sockets : PrunedMemberships[t] \in {socketMemberships[t], None}
  BY PrunedOK
<1>2. /\ socketMemberships' = M /\ rooms' = [L EXCEPT ![c] = N]
      /\ sockets' = [sockets EXCEPT ![s] = "open"] /\ sockets[s] # "closed"
      /\ answer'.code = c
  BY DEF joinRoom, Answers, MayCall
<1>3. M \in MembershipsType /\ [code |-> c, slot |-> k] \in MembershipType
  BY <1>1 DEF MembershipsType, MembershipType, Slots
<1>4. \A t \in Sockets : t # s => M[t] \in {socketMemberships[t], None}
  BY <1>1 DEF MembershipsType
<1>5. N = L[c] \/ (L[c] # None /\ N = [L[c] EXCEPT !.players[k] = NewPlayer(s)])
  OBVIOUS
<1>0. k \in Slots
  BY DEF Slots
<1> HIDE DEF N, k
<1>6. \A d \in Codes, j \in Slots, t \in Sockets \ {s} :
        OnSeat(rooms', d, j, t) => OnSeat(L, d, j, t)
  BY <1>0, <1>2, <1>5, NewSeatOnly
<1>7. Others(s)
  BY <1>2, <1>3, <1>4, <1>6, OperationFrame
<1>8. M[s] = [code |-> c, slot |-> k]
  BY <1>1 DEF MembershipsType
<1> QED BY <1>2, <1>3, <1>7, <1>8, NoneAssumption DEF Answered

LEMMA ResumeFrame ==
  ASSUME SeatInv, NEW s \in Sockets, NEW c \in Codes, NEW k \in Slots, resumeRoom(s, c, k)
  PROVE  Answered(s, answer'.code)
<1> DEFINE L == LeftRooms(s)
           P == Replaced(PrunedRooms[c].players[k])
           M == [P EXCEPT ![s] = [code |-> c, slot |-> k]]
           N == IF L[c] = None \/ L[c].players[k] = None THEN L[c]
                ELSE [L[c] EXCEPT !.players[k] = NewPlayer(s)]
<1>1. P \in MembershipsType /\ \A t \in Sockets : P[t] \in {socketMemberships[t], None}
  BY PrunedOK DEF Replaced, MembershipsType
<1>2. /\ socketMemberships' = M /\ rooms' = [L EXCEPT ![c] = N]
      /\ sockets' = [sockets EXCEPT ![s] = "open"] /\ sockets[s] # "closed"
      /\ answer'.code = c
  BY DEF resumeRoom, Answers, MayCall
<1> HIDE DEF P
<1>3. M \in MembershipsType /\ [code |-> c, slot |-> k] \in MembershipType
  BY <1>1 DEF MembershipsType, MembershipType
<1>4. \A t \in Sockets : t # s => M[t] \in {socketMemberships[t], None}
  BY <1>1 DEF MembershipsType
<1>5. N = L[c] \/ (L[c] # None /\ N = [L[c] EXCEPT !.players[k] = NewPlayer(s)])
  OBVIOUS
<1> HIDE DEF N
<1>6. \A d \in Codes, j \in Slots, t \in Sockets \ {s} :
        OnSeat(rooms', d, j, t) => OnSeat(L, d, j, t)
  BY <1>2, <1>5, NewSeatOnly
<1>7. Others(s)
  BY <1>2, <1>3, <1>4, <1>6, OperationFrame
<1>8. M[s] = [code |-> c, slot |-> k]
  BY <1>1 DEF MembershipsType
<1> QED BY <1>2, <1>3, <1>7, <1>8, NoneAssumption DEF Answered

LEMMA ExhaustedFrame ==
  ASSUME SeatInv, NEW s \in Sockets, createRoomExhausted(s)
  PROVE  Others(s) /\ socketMemberships'[s] = None /\ sockets[s] # "closed"
<1> DEFINE M == [PrunedMemberships EXCEPT ![s] = None]
<1>1. /\ PrunedMemberships \in MembershipsType
      /\ \A t \in Sockets : PrunedMemberships[t] \in {socketMemberships[t], None}
  BY PrunedOK
<1>2. /\ socketMemberships' = M /\ rooms' = LeftRooms(s)
      /\ sockets' = [sockets EXCEPT ![s] = "open"] /\ sockets[s] # "closed"
  BY DEF createRoomExhausted, MayCall
<1>3. M \in MembershipsType /\ M[s] = None
      /\ \A t \in Sockets : t # s => M[t] \in {socketMemberships[t], None}
  BY <1>1 DEF MembershipsType
<1>4. Others(s)
  BY <1>2, <1>3, OperationFrame
<1> QED BY <1>2, <1>3, <1>4

LEMMA CleanupFrame ==
  ASSUME SeatInv, cleanupExpiredRooms
  PROVE  Others(None)
<1>1. \A t \in Sockets : PrunedMemberships[t] \in {socketMemberships[t], None}
  BY PrunedOK
<1>2. \A c \in Codes : PrunedRooms[c] \in {rooms[c], None}
  BY DEF PrunedRooms
<1> QED BY <1>1, <1>2 DEF Others, OnSeat, cleanupExpiredRooms

LEMMA DisconnectFrame ==
  ASSUME SeatInv, NEW s \in Sockets, disconnectSocket(s)
  PROVE  /\ Others(s) /\ socketMemberships'[s] = None
         /\ sockets'[s] = "closed"
<1> DEFINE gone(c) == [rooms[c] EXCEPT !.players =
                         [k \in Slots |-> IF Sits(s, c, k) THEN Gone ELSE @[k]]]
<1>1. /\ socketMemberships' = [socketMemberships EXCEPT ![s] = None]
      /\ sockets' = [sockets EXCEPT ![s] = "closed"]
      /\ \A c \in Codes : rooms'[c] = IF \E k \in Slots : Sits(s, c, k)
                                      THEN gone(c) ELSE rooms[c]
  BY DEF disconnectSocket
<1>2. ASSUME NEW t \in Sockets, NEW c \in Codes, NEW k \in Slots, OnSeat(rooms', c, k, t)
      PROVE  OnSeat(rooms, c, k, t)
  <2>1. CASE \E j \in Slots : Sits(s, c, j)
    <3>1. rooms[c] \in RoomType /\ rooms[c] # None
      BY <2>1 DEF Sits, SeatInv, TypeOK
    <3>2. gone(c).players[k] = IF Sits(s, c, k) THEN Gone ELSE rooms[c].players[k]
      BY <3>1 DEF RoomType
    <3>3. rooms'[c].players[k] = gone(c).players[k] /\ rooms'[c].players[k].socket = t
      BY <1>1, <1>2, <2>1 DEF OnSeat
    <3>4. ~Sits(s, c, k)
      BY <3>2, <3>3, NoneAssumption DEF Gone
    <3> HIDE DEF gone
    <3> QED BY <1>1, <1>2, <2>1, <3>1, <3>2, <3>3, <3>4 DEF OnSeat
  <2>2. CASE ~\E j \in Slots : Sits(s, c, j)
    BY <1>1, <1>2, <2>2 DEF OnSeat
  <2> QED BY <2>1, <2>2
<1> QED BY <1>1, <1>2 DEF Others, SeatInv, TypeOK

LEMMA TickFrame ==
  ASSUME SeatInv, Tick
  PROVE  Others(None)
<1>1. ASSUME NEW p \in PlayerType \union {None}, Later(p) # None
      PROVE  p # None /\ Later(p).socket = p.socket
  BY <1>1 DEF Later, PlayerType
<1>2. ASSUME NEW t \in Sockets, NEW c \in Codes, NEW k \in Slots, OnSeat(rooms', c, k, t)
      PROVE  OnSeat(rooms, c, k, t)
  <2>1. rooms[c] # None /\ rooms[c] \in RoomType /\ rooms'[c].players[k] = Later(rooms[c].players[k])
    BY <1>2 DEF Tick, OnSeat, SeatInv, TypeOK
  <2>2. rooms[c].players[k] \in PlayerType \union {None}
    BY <2>1, RoomFacts
  <2> QED BY <1>1, <1>2, <2>1, <2>2 DEF OnSeat
<1> QED BY <1>2 DEF Others, Tick

-------------------------------------------------------------------------------
(* The handlers. *)

\* With one lane a socket has one flight: it is idle, or that flight is the one.
LEMMA OneFlight ==
  ASSUME OneLane, NEW f \in Flights
  PROVE  /\ f[1] \in Sockets
         /\ \A g \in Flights : g[1] = f[1] => g = f
         /\ Idle(f[1]) <=> handling[f] = None
BY DEF OneLane, Flights, Idle

\* A socket other than x sits where it sat.
LEMMA SitsKept ==
  ASSUME SeatInv, NEW x, Others(x), NEW t \in Sockets, t # x,
         NEW c \in Codes, NEW k \in Slots,
         socketMemberships'[t] = [code |-> c, slot |-> k], OnSeat(rooms', c, k, t)
  PROVE  Sits(t, c, k)
<1>1. [code |-> c, slot |-> k] # None
  BY NoneAssumption DEF MembershipType
<1> QED BY <1>1 DEF Others, OnSeat, Sits

\* The three parts that a step must keep, besides the types.
Agreement == HandlersFollow /\ MemberListens /\ PeersAnnounced

\* Nobody's handler moves, and what changed in the service concerns socket x,
\* which has no membership then.
LEMMA GatewayStands ==
  ASSUME GatewayInv, NEW x, Others(x),
         x \in Sockets => socketMemberships'[x] = None,
         x \in Sockets => sockets'[x] = "closed" \/ sockets[x] # "closed",
         handling' = handling,
         \A t \in Sockets : t # x => ioRooms'[t] = ioRooms[t] /\ seen'[t] = seen[t],
         x \in Sockets => sockets'[x] = "closed" \/ ioRooms'[x] = ioRooms[x]
  PROVE  Agreement'
<1> USE DEF GatewayInv
<1>1. \A s \in Sockets : Idle(s)' <=> Idle(s)
  BY DEF Idle
<1>2. HandlersFollow'
  <2> SUFFICES ASSUME NEW f \in Flights, handling'[f] # None
               PROVE  /\ socketMemberships'[f[1]] # None =>
                           socketMemberships'[f[1]].code = handling'[f].code
                      /\ handling'[f].phase = "joined" /\ sockets'[f[1]] # "closed" =>
                           ioRooms'[f[1]] = {handling'[f].code}
    BY DEF HandlersFollow
  <2>1. f[1] \in Sockets
    BY DEF Flights
  <2>2. CASE f[1] = x
    BY <2>1, <2>2 DEF HandlersFollow
  <2>3. CASE f[1] # x
    BY <2>1, <2>3 DEF HandlersFollow, Others
  <2> QED BY <2>2, <2>3
<1>3. MemberListens'
  <2> SUFFICES ASSUME NEW s \in Sockets, Idle(s)', socketMemberships'[s] # None
               PROVE  ioRooms'[s] = {socketMemberships'[s].code}
    BY DEF MemberListens
  <2>1. s # x /\ socketMemberships'[s] = socketMemberships[s] /\ ioRooms'[s] = ioRooms[s]
    BY DEF Others
  <2> QED BY <1>1, <2>1 DEF MemberListens
<1>4. PeersAnnounced'
  <2> SUFFICES ASSUME NEW s \in Sockets, NEW t \in Sockets, NEW c \in Codes, NEW k \in Slots,
                      socketMemberships'[s] # None, socketMemberships'[s].code = c,
                      Sits(t, c, k)', Idle(s)', Idle(t)'
               PROVE  k \in seen'[s]
    BY DEF PeersAnnounced
  <2>1. s # x /\ socketMemberships'[s] = socketMemberships[s] /\ seen'[s] = seen[s]
    BY DEF Others
  <2>2. t # x
    BY NoneAssumption DEF Sits, MembershipType
  <2>3. Sits(t, c, k)
    BY <2>2, SitsKept DEF Sits, OnSeat
  <2> QED BY <1>1, <2>1, <2>3 DEF PeersAnnounced
<1> QED BY <1>2, <1>3, <1>4 DEF Agreement

\* One flight moves and its socket is not idle after it.
LEMMA FlightMoves ==
  ASSUME GatewayInv, OneLane, NEW f \in Flights, Others(f[1]),
         handling'[f] # None,
         \A g \in Flights : g # f => handling'[g] = handling[g],
         \A t \in Sockets : t # f[1] => ioRooms'[t] = ioRooms[t],
         seen' = seen,
         socketMemberships'[f[1]] # None =>
           socketMemberships'[f[1]].code = handling'[f].code,
         handling'[f].phase = "joined" /\ sockets'[f[1]] # "closed" =>
           ioRooms'[f[1]] = {handling'[f].code}
  PROVE  Agreement'
<1> USE DEF GatewayInv
<1>1. f[1] \in Sockets /\ (\A g \in Flights : g[1] = f[1] => g = f)
  BY OneFlight
<1>2. ~Idle(f[1])'
  BY DEF Idle, Flights
<1>3. \A s \in Sockets : s # f[1] => (Idle(s)' <=> Idle(s))
  BY <1>1 DEF Idle, Flights
<1>4. HandlersFollow'
  <2> SUFFICES ASSUME NEW g \in Flights, handling'[g] # None, g # f
               PROVE  /\ socketMemberships'[g[1]] # None =>
                           socketMemberships'[g[1]].code = handling'[g].code
                      /\ handling'[g].phase = "joined" /\ sockets'[g[1]] # "closed" =>
                           ioRooms'[g[1]] = {handling'[g].code}
    BY DEF HandlersFollow
  <2>1. g[1] \in Sockets /\ g[1] # f[1]
    BY <1>1 DEF Flights
  <2> QED BY <2>1 DEF HandlersFollow, Others
<1>5. MemberListens'
  <2> SUFFICES ASSUME NEW s \in Sockets, Idle(s)', socketMemberships'[s] # None
               PROVE  ioRooms'[s] = {socketMemberships'[s].code}
    BY DEF MemberListens
  <2>1. s # f[1] /\ socketMemberships'[s] = socketMemberships[s] /\ ioRooms'[s] = ioRooms[s]
    BY <1>2 DEF Others
  <2> QED BY <1>3, <2>1 DEF MemberListens
<1>6. PeersAnnounced'
  <2> SUFFICES ASSUME NEW s \in Sockets, NEW t \in Sockets, NEW c \in Codes, NEW k \in Slots,
                      socketMemberships'[s] # None, socketMemberships'[s].code = c,
                      Sits(t, c, k)', Idle(s)', Idle(t)'
               PROVE  k \in seen'[s]
    BY DEF PeersAnnounced
  <2>1. s # f[1] /\ t # f[1] /\ socketMemberships'[s] = socketMemberships[s]
    BY <1>2 DEF Others
  <2>2. Sits(t, c, k)
    BY <2>1, SitsKept DEF Sits, OnSeat
  <2> QED BY <1>3, <2>1, <2>2 DEF PeersAnnounced
<1> QED BY <1>4, <1>5, <1>6 DEF Agreement

\* What Enter writes.
LEMMA EnterFacts ==
  ASSUME GatewayTypeOK, NEW f \in Flights, NEW c \in Codes, Enter(f, c)
  PROVE  /\ ioRooms' \in [Sockets -> SUBSET Codes]
         /\ handling' \in [Flights -> HandlerType \union {None}]
         /\ \A g \in Flights : g # f => handling'[g] = handling[g]
         /\ \A t \in Sockets : t # f[1] => ioRooms'[t] = ioRooms[t]
         /\ handling'[f] # None /\ handling'[f].code = c
         /\ handling'[f].phase = "joined" /\ sockets[f[1]] # "closed" => ioRooms'[f[1]] = {c}
<1>1. f[1] \in Sockets
  BY DEF Flights
<1>2. \A p \in {"leaving", "joined"} :
        [phase |-> p, code |-> c] \in HandlerType /\ [phase |-> p, code |-> c] # None
  BY GatewayAssumption DEF HandlerType
<1>3. CASE \E d \in ioRooms[f[1]] : /\ ioRooms' = [ioRooms EXCEPT ![f[1]] = @ \ {d}]
                                    /\ Handling(f, "leaving", c)
  BY <1>1, <1>2, <1>3 DEF Handling, GatewayTypeOK
<1>4. CASE /\ ioRooms' = [ioRooms EXCEPT ![f[1]] = Joined(f[1], c)]
           /\ Handling(f, "joined", c)
  <2>1. Joined(f[1], c) \in SUBSET Codes /\ (sockets[f[1]] # "closed" => Joined(f[1], c) = {c})
    BY DEF Joined
  <2> HIDE DEF Joined
  <2> QED BY <1>1, <1>2, <1>4, <2>1 DEF Handling, GatewayTypeOK
<1> QED BY <1>3, <1>4 DEF Enter

LEMMA OperationStep ==
  ASSUME GatewayInv, OneLane, NEW f \in Flights, roomOperation(f)
  PROVE  GatewayInv'
<1>0. f[1] \in Sockets /\ SeatInv /\ GatewayTypeOK
  BY DEF GatewayInv, Flights
<1>1. SeatInv' /\ Answered(f[1], answer'.code)
  BY <1>0, CreateStep, JoinStep, ResumeStep, CreateFrame, JoinFrame, ResumeFrame
     DEF roomOperation
<1>2. Enter(f, answer'.code) /\ seen' = seen
  BY DEF roomOperation
<1>3. GatewayTypeOK'
  BY <1>0, <1>1, <1>2, EnterFacts DEF GatewayTypeOK, Answered
<1>4. Agreement'
  BY <1>0, <1>1, <1>2, EnterFacts, FlightMoves DEF Answered
<1> QED BY <1>1, <1>3, <1>4 DEF GatewayInv, Agreement

LEMMA ThrowsStep ==
  ASSUME GatewayInv, NEW f \in Flights, roomOperationThrows(f)
  PROVE  GatewayInv'
<1>0. f[1] \in Sockets /\ SeatInv /\ GatewayTypeOK
  BY DEF GatewayInv, Flights
<1>1. SeatInv' /\ Others(f[1]) /\ socketMemberships'[f[1]] = None /\ sockets[f[1]] # "closed"
  BY <1>0, ExhaustedStep, ExhaustedFrame DEF roomOperationThrows
<1>2. handling' = handling /\ ioRooms' = ioRooms /\ seen' = seen
  BY DEF roomOperationThrows, gatewayVars
<1>3. Agreement'
  BY <1>0, <1>1, <1>2, GatewayStands
<1> QED BY <1>0, <1>1, <1>2, <1>3 DEF GatewayInv, GatewayTypeOK, Agreement

LEMMA LeaveResumedStep ==
  ASSUME GatewayInv, OneLane, NEW f \in Flights, leaveResumed(f)
  PROVE  GatewayInv'
<1>0. f[1] \in Sockets /\ SeatInv /\ GatewayTypeOK
  BY DEF GatewayInv, Flights
<1>1. UNCHANGED vars /\ Enter(f, handling[f].code) /\ handling[f] # None /\ seen' = seen
  BY DEF leaveResumed
<1>2. handling[f].code \in Codes
  BY <1>0, <1>1 DEF GatewayTypeOK, HandlerType
<1>3. SeatInv'
  BY <1>0, <1>1, SeatStep
<1>4. Others(f[1])
  BY <1>1 DEF Others, OnSeat, vars
<1>5. GatewayTypeOK'
  BY <1>0, <1>1, <1>2, EnterFacts DEF GatewayTypeOK
<1>6. socketMemberships'[f[1]] # None => socketMemberships'[f[1]].code = handling[f].code
  BY <1>1 DEF vars, GatewayInv, HandlersFollow
<1>7. sockets'[f[1]] = sockets[f[1]]
  BY <1>1 DEF vars
<1>8. Agreement'
  BY <1>0, <1>1, <1>2, <1>4, <1>6, <1>7, EnterFacts, FlightMoves
<1> QED BY <1>3, <1>5, <1>8 DEF GatewayInv, Agreement

LEMMA ToldType ==
  ASSUME GatewayTypeOK, NEW f \in Flights, NEW c \in Codes
  PROVE  Told(f, c) \in [Sockets -> SUBSET Slots]
BY DEF Told, GatewayTypeOK, Snapshot

LEMMA JoinResumedStep ==
  ASSUME GatewayInv, OneLane, NEW f \in Flights, joinResumed(f)
  PROVE  GatewayInv'
<1> DEFINE c == handling[f].code
           x == f[1]
<1>0. /\ x \in Sockets /\ SeatInv /\ GatewayTypeOK /\ HandlersFollow
      /\ MemberListens /\ PeersAnnounced
  BY DEF GatewayInv, Flights
<1>1. /\ handling[f] # None /\ handling[f].phase = "joined" /\ cleanupExpiredRooms
      /\ handling' = [handling EXCEPT ![f] = None] /\ ioRooms' = ioRooms
      /\ seen' = Told(f, c) /\ rooms' = PrunedRooms
  BY DEF joinResumed, cleanupExpiredRooms
<1>2. c \in Codes
  BY <1>0, <1>1 DEF GatewayTypeOK, HandlerType
<1>3. SeatInv' /\ Others(None)
  BY <1>0, <1>1, CleanupStep, CleanupFrame
<1>4. \A s \in Sockets : s # x => (Idle(s)' <=> Idle(s))
  BY <1>0, <1>1, OneFlight DEF Idle, Flights, GatewayTypeOK
<1>5. \A s \in Sockets : s # None /\ sockets'[s] = sockets[s]
        /\ (socketMemberships'[s] # None => socketMemberships'[s] = socketMemberships[s])
  BY <1>3, NoneAssumption DEF Others
<1>6. socketMemberships[x] # None => socketMemberships[x].code = c /\ ioRooms[x] = {c}
  BY <1>0, <1>1 DEF HandlersFollow, SeatInv, ClosedHaveNone
<1>7. GatewayTypeOK'
  BY <1>0, <1>1, <1>2, ToldType DEF GatewayTypeOK
<1>8. HandlersFollow'
  <2> SUFFICES ASSUME NEW g \in Flights, handling'[g] # None
               PROVE  /\ socketMemberships'[g[1]] # None =>
                           socketMemberships'[g[1]].code = handling'[g].code
                      /\ handling'[g].phase = "joined" /\ sockets'[g[1]] # "closed" =>
                           ioRooms'[g[1]] = {handling'[g].code}
    BY DEF HandlersFollow
  <2>1. g # f /\ handling'[g] = handling[g] /\ g[1] \in Sockets
    BY <1>0, <1>1 DEF GatewayTypeOK, Flights
  <2> QED BY <1>0, <1>1, <1>5, <2>1 DEF HandlersFollow
<1>9. MemberListens'
  <2> SUFFICES ASSUME NEW s \in Sockets, Idle(s)', socketMemberships'[s] # None
               PROVE  ioRooms'[s] = {socketMemberships'[s].code}
    BY DEF MemberListens
  <2>1. CASE s = x
    BY <1>1, <1>5, <1>6, <2>1
  <2>2. CASE s # x
    BY <1>0, <1>1, <1>4, <1>5, <2>2 DEF MemberListens
  <2> QED BY <2>1, <2>2
<1>10. PeersAnnounced'
  <2> SUFFICES ASSUME NEW s \in Sockets, NEW t \in Sockets, NEW d \in Codes, NEW k \in Slots,
                      socketMemberships'[s] # None, socketMemberships'[s].code = d,
                      Sits(t, d, k)', Idle(s)', Idle(t)'
               PROVE  k \in seen'[s]
    BY DEF PeersAnnounced
  <2>1. Sits(t, d, k) /\ OnSeat(PrunedRooms, d, k, t)
    BY <1>0, <1>1, <1>3, <1>5, SitsKept DEF Sits, OnSeat
  <2>2. ioRooms[s] = {d}
    BY <1>1, <1>9 DEF MemberListens
  <2>3. CASE d = c
    <3>1. seen'[s] = Snapshot(PrunedRooms[c])
      BY <1>1, <2>1, <2>2, <2>3 DEF Told, OnSeat
    <3> QED BY <1>5, <2>1, <2>3, <3>1 DEF Snapshot, Connected, OnSeat
  <2>4. CASE d # c
    <3>1. s # x /\ t # x
      BY <1>5, <1>6, <2>1, <2>4, NoneAssumption DEF Sits, MembershipType
    <3>2. seen'[s] = seen[s]
      BY <1>1, <2>2, <2>4 DEF Told
    <3> QED BY <1>0, <1>4, <1>5, <2>1, <3>1, <3>2 DEF PeersAnnounced
  <2> QED BY <2>3, <2>4
<1> QED BY <1>3, <1>7, <1>8, <1>9, <1>10 DEF GatewayInv

LEMMA HandleDisconnectStep ==
  ASSUME GatewayInv, NEW s \in Sockets, handleDisconnect(s)
  PROVE  GatewayInv'
<1>0. SeatInv /\ GatewayTypeOK
  BY DEF GatewayInv
<1>1. /\ disconnectSocket(s) /\ handling' = handling
      /\ ioRooms' = [ioRooms EXCEPT ![s] = {}] /\ seen' = [seen EXCEPT ![s] = {}]
  BY DEF handleDisconnect
<1>2. SeatInv' /\ Others(s) /\ socketMemberships'[s] = None /\ sockets'[s] = "closed"
  BY <1>0, <1>1, DisconnectStep, DisconnectFrame
<1>3. \A t \in Sockets : t # s => ioRooms'[t] = ioRooms[t] /\ seen'[t] = seen[t]
  BY <1>0, <1>1 DEF GatewayTypeOK
<1>4. Agreement'
  BY <1>1, <1>2, <1>3, GatewayStands
<1>5. GatewayTypeOK'
  BY <1>0, <1>1 DEF GatewayTypeOK
<1> QED BY <1>2, <1>4, <1>5 DEF GatewayInv, Agreement

LEMMA ServiceStep ==
  ASSUME GatewayInv, cleanupExpiredRooms \/ Tick, UNCHANGED gatewayVars
  PROVE  GatewayInv'
<1>1. SeatInv' /\ Others(None)
  BY CleanupStep, CleanupFrame, TickStep, TickFrame DEF GatewayInv
<1>2. handling' = handling /\ ioRooms' = ioRooms /\ seen' = seen
  BY DEF gatewayVars
<1>3. Agreement'
  BY <1>1, <1>2, NoneAssumption, GatewayStands
<1> QED BY <1>1, <1>2, <1>3 DEF GatewayInv, GatewayTypeOK, Agreement

LEMMA GatewayRestartStep ==
  ASSUME GatewayInv, GatewayRestart
  PROVE  GatewayInv'
<1>1. SeatInv' /\ \A s \in Sockets : socketMemberships'[s] = None
  BY RestartStep DEF GatewayInv, GatewayRestart, Restart
<1> QED BY <1>1 DEF GatewayRestart, GatewayInv, GatewayTypeOK, HandlersFollow,
                    MemberListens, PeersAnnounced

LEMMA GatewayInitInv == GatewayInit => GatewayInv
<1> SUFFICES ASSUME GatewayInit PROVE GatewayInv
  OBVIOUS
<1>1. SeatInv /\ \A s \in Sockets : socketMemberships[s] = None
  BY InitSeats DEF GatewayInit, Init
<1> QED BY <1>1 DEF GatewayInit, GatewayInv, GatewayTypeOK, HandlersFollow,
                    MemberListens, PeersAnnounced

LEMMA GatewayStep ==
  ASSUME OneLane
  PROVE  GatewayInv /\ [GatewayNext]_allVars => GatewayInv'
<1> SUFFICES ASSUME GatewayInv, [GatewayNext]_allVars PROVE GatewayInv'
  OBVIOUS
<1>1. CASE UNCHANGED allVars
  <2>1. SeatInv'
    BY <1>1, SeatStep DEF allVars, GatewayInv
  <2> QED BY <1>1, <2>1
          DEF allVars, vars, gatewayVars, GatewayInv, GatewayTypeOK, HandlersFollow,
              MemberListens, PeersAnnounced, Idle, Sits
<1> QED BY <1>1, OperationStep, ThrowsStep, LeaveResumedStep, JoinResumedStep,
           HandleDisconnectStep, ServiceStep, GatewayRestartStep DEF GatewayNext

-------------------------------------------------------------------------------
(* The theorems. *)

\* The gateway drives the room service through its own operations only, so all
\* that holds of the rooms holds behind the gateway.
THEOREM GatewayImplementsRooms == GatewaySpec => Spec
<1>1. GatewayInit => Init
  BY DEF GatewayInit
<1>2. [GatewayNext]_allVars => [Next]_vars
  BY DEF GatewayNext, roomOperation, roomOperationThrows, leaveResumed, joinResumed,
         handleDisconnect, GatewayRestart, allVars, Flights, Next
<1> QED BY <1>1, <1>2, PTL DEF GatewaySpec, Spec

\* Memberships, Socket.IO rooms, handlers under way and what the members were
\* told fit together after every step.
THEOREM GatewayInvCorrect == ASSUME OneLane PROVE GatewaySpec => []GatewayInv
<1>1. GatewayInv /\ [GatewayNext]_allVars => GatewayInv'
  BY GatewayStep
<1> QED BY <1>1, GatewayInitInv, PTL DEF GatewaySpec

\* A member whose operation is through is in its Socket.IO room and no other.
THEOREM MemberListensCorrect == ASSUME OneLane PROVE GatewaySpec => []MemberListens
<1>1. GatewayInv => MemberListens
  BY DEF GatewayInv
<1> QED BY <1>1, GatewayInvCorrect, PTL

\* Two players who sit in one room hear each other.
THEOREM PeersHearCorrect == ASSUME OneLane PROVE GatewaySpec => []PeersHear
<1>1. GatewayInv => PeersHear
  <2> SUFFICES ASSUME GatewayInv, NEW s \in Sockets, NEW t \in Sockets,
                      NEW c \in Codes, NEW k \in Slots, NEW j \in Slots,
                      s # t, Sits(s, c, k), Sits(t, c, j), Idle(s), Idle(t)
               PROVE  t \in Receivers(s)
    BY DEF PeersHear
  <2>1. /\ socketMemberships[s] = [code |-> c, slot |-> k] /\ socketMemberships[s] # None
        /\ socketMemberships[t] = [code |-> c, slot |-> j] /\ socketMemberships[t] # None
    BY NoneAssumption DEF Sits, MembershipType
  <2>2. ioRooms[t] = {c}
    BY <2>1 DEF GatewayInv, MemberListens
  <2> QED BY <2>1, <2>2 DEF Receivers, HasMembership, Sits
<1> QED BY <1>1, GatewayInvCorrect, PTL

\* A member's last room:state shows every player who sits in its room.
THEOREM PeersAnnouncedCorrect == ASSUME OneLane PROVE GatewaySpec => []PeersAnnounced
<1>1. GatewayInv => PeersAnnounced
  BY DEF GatewayInv
<1> QED BY <1>1, GatewayInvCorrect, PTL

===============================================================================
