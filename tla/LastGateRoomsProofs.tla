-------------------------- MODULE LastGateRoomsProofs --------------------------
(* Theorems about LastGateRooms, for any number of sockets and codes and any  *)
(* TTLs.                                                                      *)
EXTENDS LastGateRooms, TLAPS

\* SeatsHeld of any pair of maps: an operation builds both in several steps.
SeatsIn(R, M) ==
  \A c \in Codes, k \in Slots :
    R[c] # None /\ Connected(R[c], k) =>
      M[R[c].players[k].socket] = [code |-> c, slot |-> k]

RoomsOK(R) ==
  /\ R \in [Codes -> RoomType \union {None}]
  /\ \A c \in Codes : R[c] # None => ~Empty(R[c])

MembershipsType == [Sockets -> MembershipType \union {None}]

\* Socket s sits nowhere in the rooms R.
Standing(R, s) ==
  \A c \in Codes, k \in Slots :
    R[c] # None /\ R[c].players[k] # None => R[c].players[k].socket # s

LEMMA PlayerFacts ==
  ASSUME NEW p \in PlayerType
  PROVE  /\ p # None
         /\ \/ p.socket \in Sockets /\ p.away = None
            \/ p.socket = None /\ p.away \in Nat
BY NoneAssumption DEF PlayerType

LEMMA RoomFacts ==
  ASSUME NEW r \in RoomType, NEW k \in Slots
  PROVE  r # None /\ r.age \in Nat /\ r.players[k] \in PlayerType \union {None}
BY NoneAssumption DEF RoomType

-------------------------------------------------------------------------------
(* Pruning and leaving. *)

LEMMA PrunedOK ==
  ASSUME SeatInv
  PROVE  /\ RoomsOK(PrunedRooms)
         /\ PrunedMemberships \in MembershipsType
         /\ SeatsIn(PrunedRooms, PrunedMemberships)
         /\ \A s \in Sockets : PrunedMemberships[s] \in {socketMemberships[s], None}
<1>1. RoomsOK(PrunedRooms)
  BY DEF SeatInv, TypeOK, NoEmptyRoom, RoomsOK, PrunedRooms
<1>2. PrunedMemberships \in MembershipsType
  BY DEF SeatInv, TypeOK, PrunedMemberships, MembershipsType
<1>3. ASSUME NEW c \in Codes, NEW k \in Slots,
             PrunedRooms[c] # None, Connected(PrunedRooms[c], k)
      PROVE  PrunedMemberships[PrunedRooms[c].players[k].socket]
               = [code |-> c, slot |-> k]
  <2> DEFINE s == PrunedRooms[c].players[k].socket
  <2>1. ~Prunes(c) /\ PrunedRooms[c] = rooms[c] /\ rooms[c] \in RoomType
    BY <1>3 DEF PrunedRooms, SeatInv, TypeOK
  <2>2. s \in Sockets /\ socketMemberships[s] = [code |-> c, slot |-> k]
    BY <1>3, <2>1, RoomFacts, PlayerFacts
       DEF Connected, SeatInv, SeatsHeld
  <2>3. ASSUME NEW d \in Codes, NEW j \in Slots,
               Prunes(d), rooms[d].players[j] # None, rooms[d].players[j].socket = s
        PROVE  FALSE
    <3>1. rooms[d] # None /\ Connected(rooms[d], j)
      BY <2>2, <2>3, NoneAssumption DEF Prunes, Connected
    <3>2. socketMemberships[s] = [code |-> d, slot |-> j]
      BY <2>3, <3>1 DEF SeatInv, SeatsHeld
    <3>3. c = d
      BY <2>2, <3>2
    <3> QED BY <2>1, <2>3, <3>3
  <2> HIDE DEF s
  <2>4. PrunedMemberships[s] = socketMemberships[s]
    BY <2>2, <2>3 DEF PrunedMemberships
  <2> QED BY <2>2, <2>4 DEF s
<1>4. \A s \in Sockets : PrunedMemberships[s] \in {socketMemberships[s], None}
  BY DEF PrunedMemberships
<1> QED BY <1>1, <1>2, <1>3, <1>4 DEF SeatsIn

LEMMA WithoutSlotFacts ==
  ASSUME NEW r \in RoomType, NEW k \in Slots
  PROVE  LET w == WithoutSlot(r, k)
         IN w # None => /\ w \in RoomType /\ ~Empty(w)
                        /\ w.players[k] = None
                        /\ \A j \in Slots : j # k => w.players[j] = r.players[j]
<1> DEFINE rest == [r EXCEPT !.players[k] = None]
<1>1. rest \in RoomType
  BY DEF RoomType
<1>2. rest.players[k] = None /\ \A j \in Slots : j # k => rest.players[j] = r.players[j]
  BY DEF RoomType
<1> QED BY <1>1, <1>2 DEF WithoutSlot

LEMMA LeftOK ==
  ASSUME SeatInv, NEW s \in Sockets
  PROVE  /\ RoomsOK(LeftRooms(s))
         /\ SeatsIn(LeftRooms(s), PrunedMemberships)
         /\ Standing(LeftRooms(s), s)
<1> DEFINE m == PrunedMemberships[s]
           L == LeftRooms(s)
<1>0. /\ RoomsOK(PrunedRooms) /\ m \in MembershipType \union {None}
      /\ SeatsIn(PrunedRooms, PrunedMemberships)
  BY PrunedOK DEF MembershipsType
<1>1. ASSUME NEW c \in Codes
      PROVE  \/ L[c] = PrunedRooms[c] /\ (m = None \/ m.code # c \/ L[c] = None)
             \/ /\ m # None /\ m.code = c /\ m.slot \in Slots
                /\ PrunedRooms[c] \in RoomType
                /\ L[c] = WithoutSlot(PrunedRooms[c], m.slot)
  BY <1>0 DEF LeftRooms, RoomsOK, MembershipType
<1>2. ASSUME NEW c \in Codes, L[c] # None
      PROVE  /\ L[c] \in RoomType /\ ~Empty(L[c]) /\ PrunedRooms[c] # None
             /\ \A k \in Slots : L[c].players[k] # None =>
                  /\ L[c].players[k] = PrunedRooms[c].players[k]
                  /\ m # [code |-> c, slot |-> k]
  <2>1. CASE L[c] = PrunedRooms[c] /\ (m = None \/ m.code # c \/ L[c] = None)
    BY <1>0, <1>2, <2>1, NoneAssumption DEF RoomsOK, MembershipType
  <2>2. CASE /\ m # None /\ m.code = c /\ m.slot \in Slots
             /\ PrunedRooms[c] \in RoomType
             /\ L[c] = WithoutSlot(PrunedRooms[c], m.slot)
    <3> HIDE DEF L, m
    <3>1. /\ L[c] \in RoomType /\ ~Empty(L[c])
          /\ L[c].players[m.slot] = None
          /\ \A j \in Slots : j # m.slot => L[c].players[j] = PrunedRooms[c].players[j]
      BY <1>2, <2>2, WithoutSlotFacts
    <3>2. ASSUME NEW k \in Slots, m = [code |-> c, slot |-> k] PROVE m.slot = k
      BY <3>2
    <3> QED BY <2>2, <3>1, <3>2, RoomFacts
  <2> QED BY <1>1, <2>1, <2>2
<1> HIDE DEF m, L
<1>3. RoomsOK(L)
  <2>1. L \in [Codes -> RoomType \union {None}]
    <3>1. L = [c \in Codes |-> L[c]]
      BY DEF L, LeftRooms
    <3> QED BY <1>2, <3>1
  <2> QED BY <1>2, <2>1 DEF RoomsOK
<1>4. SeatsIn(L, PrunedMemberships)
  BY <1>0, <1>2 DEF SeatsIn, Connected
<1>5. Standing(L, s)
  <2> SUFFICES ASSUME NEW c \in Codes, NEW k \in Slots, L[c] # None,
                      L[c].players[k] # None, L[c].players[k].socket = s
               PROVE  FALSE
    BY DEF Standing
  <2>1. Connected(PrunedRooms[c], k) /\ PrunedRooms[c].players[k].socket = s
    BY <1>2, NoneAssumption DEF Connected
  <2>2. m = [code |-> c, slot |-> k]
    BY <1>0, <1>2, <2>1 DEF SeatsIn, m
  <2> QED BY <1>2, <2>2
<1> QED BY <1>3, <1>4, <1>5 DEF L

-------------------------------------------------------------------------------
(* Taking a seat. *)

LEMMA NewPlayerType == ASSUME NEW s \in Sockets PROVE NewPlayer(s) \in PlayerType
BY DEF NewPlayer, PlayerType

\* Socket s, which sits nowhere, takes slot k of room c or gets the membership
\* alone, and the maps R and M become R2 and M2.
Takes(R, M, R2, M2, s, c, k) ==
  /\ Standing(R, s)
  /\ \A d \in Codes : R[d] # None => R[d] \in RoomType
  /\ \A d \in Codes, j \in Slots :
       (d # c \/ j # k) /\ R[d] # None /\ Connected(R[d], j) =>
         M[R[d].players[j].socket] = [code |-> d, slot |-> j]
  /\ \A d \in Codes, j \in Slots :
       R2[d] # None /\ R2[d].players[j] # None =>
         \/ d = c /\ j = k /\ R2[d].players[j] = NewPlayer(s)
         \/ /\ d # c \/ j # k
            /\ R[d] # None /\ R2[d].players[j] = R[d].players[j]
  /\ M2[s] = [code |-> c, slot |-> k]
  /\ \A t \in Sockets : t # s => M2[t] = M[t]

LEMMA SeatTaken ==
  ASSUME NEW R, NEW M, NEW R2, NEW M2,
         NEW s \in Sockets, NEW c \in Codes, NEW k \in Slots,
         Takes(R, M, R2, M2, s, c, k)
  PROVE  SeatsIn(R2, M2)
<1> USE DEF Takes
<1> SUFFICES ASSUME NEW d \in Codes, NEW j \in Slots, R2[d] # None, Connected(R2[d], j)
             PROVE  M2[R2[d].players[j].socket] = [code |-> d, slot |-> j]
  BY DEF SeatsIn
<1>1. CASE d = c /\ j = k /\ R2[d].players[j] = NewPlayer(s)
  BY <1>1 DEF NewPlayer
<1>2. CASE (d # c \/ j # k) /\ R[d] # None /\ R2[d].players[j] = R[d].players[j]
  <2> DEFINE t == R[d].players[j].socket
  <2>1. Connected(R[d], j) /\ t # s
    BY <1>2 DEF Connected, Standing
  <2>2. t \in Sockets
    BY <1>2, <2>1, RoomFacts, PlayerFacts DEF Connected
  <2>3. M[t] = [code |-> d, slot |-> j]
    BY <1>2, <2>1
  <2> HIDE DEF t
  <2>4. M2[t] = [code |-> d, slot |-> j]
    BY <2>1, <2>2, <2>3
  <2> QED BY <1>2, <2>4 DEF t
<1> QED BY <1>1, <1>2 DEF Connected

LEMMA RoomsType ==
  ASSUME NEW R, RoomsOK(R), NEW d \in Codes, R[d] # None
  PROVE  R[d] \in RoomType /\ ~Empty(R[d])
BY DEF RoomsOK

\* What an operation of socket s must show of the new maps.
LEMMA OperationOK ==
  ASSUME SeatInv, NEW s \in Sockets, NEW M \in MembershipsType,
         RoomsOK(rooms'), socketMemberships' = M, SeatsIn(rooms', M),
         \A t \in Sockets : t # s => M[t] \in {socketMemberships[t], None},
         sockets' = [sockets EXCEPT ![s] = "open"],
         answer' \in AnswerType \union {None}
  PROVE  SeatInv'
<1>1. TypeOK'
  BY DEF SeatInv, TypeOK, RoomsOK, MembershipsType
<1>2. SeatsHeld'
  BY DEF SeatsHeld, SeatsIn
<1>3. ClosedHaveNone'
  BY DEF SeatInv, ClosedHaveNone, TypeOK
<1>4. NoEmptyRoom'
  BY DEF NoEmptyRoom, RoomsOK
<1> QED BY <1>1, <1>2, <1>3, <1>4 DEF SeatInv

LEMMA CreateStep ==
  ASSUME SeatInv, NEW s \in Sockets, NEW c \in Codes, createRoom(s, c)
  PROVE  SeatInv' /\ rooms'[c] # None /\ (\A d \in Codes : d # c => rooms'[d] = LeftRooms(s)[d])
<1> DEFINE L == LeftRooms(s)
           new == [age |-> 0,
                   players |-> [k \in Slots |-> IF k = 1 THEN NewPlayer(s) ELSE None]]
           M == [PrunedMemberships EXCEPT ![s] = [code |-> c, slot |-> 1]]
<1>1. /\ RoomsOK(L) /\ SeatsIn(L, PrunedMemberships) /\ Standing(L, s)
      /\ PrunedMemberships \in MembershipsType
      /\ \A t \in Sockets : PrunedMemberships[t] \in {socketMemberships[t], None}
  BY LeftOK, PrunedOK
<1>2. rooms' = [L EXCEPT ![c] = new] /\ socketMemberships' = M
        /\ sockets' = [sockets EXCEPT ![s] = "open"]
        /\ answer' = [op |-> "create", socket |-> s, code |-> c, slot |-> 1]
  BY DEF createRoom, Answers
<1>3. new \in RoomType /\ ~Empty(new)
  <2>1. [k \in Slots |-> IF k = 1 THEN NewPlayer(s) ELSE None]
          \in [Slots -> PlayerType \union {None}]
    BY NewPlayerType
  <2>2. new \in RoomType
    BY <2>1 DEF RoomType
  <2>3. 1 \in Slots /\ new.players[1] # None
    BY NewPlayerType, PlayerFacts DEF Slots
  <2> HIDE DEF new
  <2> QED BY <2>2, <2>3 DEF Empty
<1>4. \A k \in Slots : new.players[k] # None => k = 1 /\ new.players[k] = NewPlayer(s)
  OBVIOUS
<1> HIDE DEF new, L
<1>5. rooms'[c] = new /\ (\A d \in Codes : d # c => rooms'[d] = L[d])
        /\ rooms' \in [Codes -> RoomType \union {None}]
  BY <1>1, <1>2, <1>3 DEF RoomsOK
<1>6. RoomsOK(rooms')
  BY <1>1, <1>3, <1>5 DEF RoomsOK
<1>7. M \in MembershipsType /\ M[s] = [code |-> c, slot |-> 1]
        /\ \A t \in Sockets : t # s => M[t] = PrunedMemberships[t]
  BY <1>1 DEF MembershipsType, MembershipType, Slots
<1> HIDE DEF M
<1>8. SeatsIn(rooms', M)
  <2>1. 1 \in Slots
    BY DEF Slots
  <2>2. \A d \in Codes, j \in Slots :
          rooms'[d] # None /\ rooms'[d].players[j] # None =>
            \/ d = c /\ j = 1 /\ rooms'[d].players[j] = NewPlayer(s)
            \/ /\ d # c \/ j # 1
               /\ L[d] # None /\ rooms'[d].players[j] = L[d].players[j]
    BY <1>4, <1>5
  <2>3. \A d \in Codes, j \in Slots :
          (d # c \/ j # 1) /\ L[d] # None /\ Connected(L[d], j) =>
            PrunedMemberships[L[d].players[j].socket] = [code |-> d, slot |-> j]
    BY <1>1 DEF SeatsIn
  <2>4. \A d \in Codes : L[d] # None => L[d] \in RoomType
    BY <1>1 DEF RoomsOK
  <2>5. Takes(L, PrunedMemberships, rooms', M, s, c, 1)
    BY <1>1, <1>7, <2>2, <2>3, <2>4 DEF Takes
  <2> QED BY <2>1, <2>5, SeatTaken
<1>9. answer' \in AnswerType
  BY <1>2 DEF AnswerType, Slots
<1> QED BY <1>1, <1>2, <1>3, <1>5, <1>6, <1>7, <1>8, <1>9, OperationOK, RoomFacts, NoneAssumption DEF L

LEMMA NewSeatType ==
  ASSUME NEW r \in RoomType, NEW k \in Slots, NEW s \in Sockets
  PROVE  LET w == [r EXCEPT !.players[k] = NewPlayer(s)]
         IN /\ w \in RoomType /\ ~Empty(w) /\ w.players[k] = NewPlayer(s)
            /\ \A j \in Slots : j # k => w.players[j] = r.players[j]
<1> DEFINE w == [r EXCEPT !.players[k] = NewPlayer(s)]
<1>0. NewPlayer(s) \in PlayerType /\ NewPlayer(s) # None
  BY NewPlayerType, PlayerFacts
<1>1. w \in RoomType
  BY <1>0 DEF RoomType
<1>2. w.players[k] = NewPlayer(s) /\ \A j \in Slots : j # k => w.players[j] = r.players[j]
  BY DEF RoomType
<1> QED BY <1>0, <1>1, <1>2 DEF Empty

\* Joining and resuming differ in the slot, in the memberships P they start
\* from, and in whether a slot that is free now is taken: N is the room after.
SitsDown(s, c, k, P, N) ==
  /\ P \in MembershipsType
  /\ \A t \in Sockets : P[t] \in {socketMemberships[t], None}
  /\ \A d \in Codes, j \in Slots :
       (d # c \/ j # k) /\ LeftRooms(s)[d] # None /\ Connected(LeftRooms(s)[d], j) =>
         P[LeftRooms(s)[d].players[j].socket] = [code |-> d, slot |-> j]
  /\ \/ N = LeftRooms(s)[c] /\ (N = None \/ N.players[k] = None)
     \/ /\ LeftRooms(s)[c] # None
        /\ N = [LeftRooms(s)[c] EXCEPT !.players[k] = NewPlayer(s)]
  /\ rooms' = [LeftRooms(s) EXCEPT ![c] = N]
  /\ socketMemberships' = [P EXCEPT ![s] = [code |-> c, slot |-> k]]
  /\ sockets' = [sockets EXCEPT ![s] = "open"]
  /\ answer' \in AnswerType

LEMMA SitDownStep ==
  ASSUME SeatInv, NEW s \in Sockets, NEW c \in Codes, NEW k \in Slots,
         NEW P, NEW N, SitsDown(s, c, k, P, N)
  PROVE  SeatInv'
<1> USE DEF SitsDown
<1> DEFINE L == LeftRooms(s)
           M == [P EXCEPT ![s] = [code |-> c, slot |-> k]]
<1>1. RoomsOK(L) /\ Standing(L, s)
  BY LeftOK
<1> HIDE DEF L
<1>2. /\ N = None \/ (N \in RoomType /\ ~Empty(N))
      /\ N # None => /\ L[c] # None
                     /\ N.players[k] # None => N.players[k] = NewPlayer(s)
                     /\ \A j \in Slots : j # k => N.players[j] = L[c].players[j]
  <2>1. CASE N = L[c] /\ (N = None \/ N.players[k] = None)
    BY <1>1, <2>1 DEF RoomsOK
  <2>2. CASE L[c] # None /\ N = [L[c] EXCEPT !.players[k] = NewPlayer(s)]
    <3>1. L[c] \in RoomType
      BY <1>1, <2>2 DEF RoomsOK
    <3> QED BY <2>2, <3>1, NewSeatType
  <2> QED BY <2>1, <2>2 DEF L
<1>3. rooms'[c] = N /\ (\A d \in Codes : d # c => rooms'[d] = L[d])
        /\ rooms' \in [Codes -> RoomType \union {None}]
  BY <1>1, <1>2 DEF RoomsOK, L
<1>4. RoomsOK(rooms')
  BY <1>1, <1>2, <1>3 DEF RoomsOK
<1>5. M \in MembershipsType /\ M[s] = [code |-> c, slot |-> k]
        /\ \A t \in Sockets : t # s => M[t] = P[t]
  BY DEF MembershipsType, MembershipType
<1>6. SeatsIn(rooms', M)
  <2>1. \A d \in Codes, j \in Slots :
          rooms'[d] # None /\ rooms'[d].players[j] # None =>
            \/ d = c /\ j = k /\ rooms'[d].players[j] = NewPlayer(s)
            \/ /\ d # c \/ j # k
               /\ L[d] # None /\ rooms'[d].players[j] = L[d].players[j]
    BY <1>2, <1>3
  <2>2. \A d \in Codes, j \in Slots :
          (d # c \/ j # k) /\ L[d] # None /\ Connected(L[d], j) =>
            P[L[d].players[j].socket] = [code |-> d, slot |-> j]
    BY DEF L
  <2>3. \A d \in Codes : L[d] # None => L[d] \in RoomType
    BY <1>1 DEF RoomsOK
  <2> HIDE DEF M
  <2>4. Takes(L, P, rooms', M, s, c, k)
    BY <1>1, <1>5, <2>1, <2>2, <2>3 DEF Takes
  <2> QED BY <2>4, SeatTaken
<1>7. \A t \in Sockets : t # s => M[t] \in {socketMemberships[t], None}
  BY <1>5
<1> HIDE DEF M
<1> QED BY <1>4, <1>5, <1>6, <1>7, OperationOK DEF M

LEMMA JoinStep ==
  ASSUME SeatInv, NEW s \in Sockets, NEW c \in Codes, joinRoom(s, c)
  PROVE  SeatInv'
<1> DEFINE L == LeftRooms(s)
           N == IF L[c] = None THEN None ELSE [L[c] EXCEPT !.players[2] = NewPlayer(s)]
<1>1. 2 \in Slots
  BY DEF Slots
<1>2. PrunedMemberships \in MembershipsType /\ SeatsIn(L, PrunedMemberships)
        /\ RoomsOK(L)
        /\ \A t \in Sockets : PrunedMemberships[t] \in {socketMemberships[t], None}
  BY LeftOK, PrunedOK
<1>3. /\ rooms' = [L EXCEPT ![c] = N]
      /\ socketMemberships' = [PrunedMemberships EXCEPT ![s] = [code |-> c, slot |-> 2]]
      /\ sockets' = [sockets EXCEPT ![s] = "open"]
      /\ answer' = [op |-> "join", socket |-> s, code |-> c, slot |-> 2]
  BY <1>2 DEF joinRoom, Answers, RoomsOK
<1>4. answer' \in AnswerType
  BY <1>1, <1>3 DEF AnswerType
<1>5. \/ N = L[c] /\ (N = None \/ N.players[2] = None)
      \/ L[c] # None /\ N = [L[c] EXCEPT !.players[2] = NewPlayer(s)]
  OBVIOUS
<1>6. \A d \in Codes, j \in Slots :
        (d # c \/ j # 2) /\ L[d] # None /\ Connected(L[d], j) =>
          PrunedMemberships[L[d].players[j].socket] = [code |-> d, slot |-> j]
  BY <1>2 DEF SeatsIn
<1> HIDE DEF N
<1>7. SitsDown(s, c, 2, PrunedMemberships, N)
  BY <1>2, <1>3, <1>4, <1>5, <1>6 DEF SitsDown
<1> QED BY <1>1, <1>7, SitDownStep

LEMMA ResumeStep ==
  ASSUME SeatInv, NEW s \in Sockets, NEW c \in Codes, NEW k \in Slots, resumeRoom(s, c, k)
  PROVE  SeatInv'
<1> DEFINE L == LeftRooms(s)
           p == PrunedRooms[c].players[k]
           P == Replaced(p)
           N == IF L[c] = None \/ L[c].players[k] = None THEN L[c]
                ELSE [L[c] EXCEPT !.players[k] = NewPlayer(s)]
<1>1. PrunedMemberships \in MembershipsType /\ SeatsIn(L, PrunedMemberships)
        /\ RoomsOK(L)
        /\ RoomsOK(PrunedRooms) /\ SeatsIn(PrunedRooms, PrunedMemberships)
        /\ \A t \in Sockets : PrunedMemberships[t] \in {socketMemberships[t], None}
  BY LeftOK, PrunedOK
<1>2. /\ rooms' = [L EXCEPT ![c] = N]
      /\ socketMemberships' = [P EXCEPT ![s] = [code |-> c, slot |-> k]]
      /\ sockets' = [sockets EXCEPT ![s] = "open"]
      /\ answer' = [op |-> "resume", socket |-> s, code |-> c, slot |-> k]
  BY <1>1 DEF resumeRoom, Answers, RoomsOK
<1>3. P \in MembershipsType
        /\ \A t \in Sockets : P[t] \in {socketMemberships[t], None}
  BY <1>1 DEF Replaced, MembershipsType
<1>4. answer' \in AnswerType
  BY <1>2 DEF AnswerType
<1>5. \/ N = L[c] /\ (N = None \/ N.players[k] = None)
      \/ L[c] # None /\ N = [L[c] EXCEPT !.players[k] = NewPlayer(s)]
  OBVIOUS
<1>6. ASSUME NEW d \in Codes, NEW j \in Slots, d # c \/ j # k,
             L[d] # None, Connected(L[d], j)
      PROVE  P[L[d].players[j].socket] = [code |-> d, slot |-> j]
  <2> DEFINE t == L[d].players[j].socket
  <2>1. PrunedMemberships[t] = [code |-> d, slot |-> j]
    BY <1>1, <1>6 DEF SeatsIn
  <2>2. t \in Sockets
    BY <1>1, <1>6, RoomsType, RoomFacts, PlayerFacts DEF Connected
  <2>3. t # p.socket
    <3> SUFFICES ASSUME t = p.socket PROVE FALSE
      OBVIOUS
    <3>1. Connected(PrunedRooms[c], k) /\ PrunedRooms[c] # None
      BY <2>2, NoneAssumption DEF Connected, resumeRoom
    <3>2. PrunedMemberships[p.socket] = [code |-> c, slot |-> k]
      BY <1>1, <3>1 DEF SeatsIn
    <3>3. [code |-> c, slot |-> k] = [code |-> d, slot |-> j]
      BY <2>1, <3>2
    <3>4. c = d /\ k = j
      BY <3>3
    <3> QED BY <1>6, <3>4
  <2> HIDE DEF t, p
  <2>4. P[t] = PrunedMemberships[t]
    BY <2>2, <2>3 DEF Replaced
  <2> QED BY <2>1, <2>4 DEF t
<1> HIDE DEF N, P
<1>7. SitsDown(s, c, k, P, N)
  BY <1>2, <1>3, <1>4, <1>5, <1>6 DEF SitsDown
<1> QED BY <1>7, SitDownStep

LEMMA ExhaustedStep ==
  ASSUME SeatInv, NEW s \in Sockets, createRoomExhausted(s)
  PROVE  SeatInv'
<1> DEFINE L == LeftRooms(s)
           M == [PrunedMemberships EXCEPT ![s] = None]
<1>1. /\ RoomsOK(L) /\ SeatsIn(L, PrunedMemberships) /\ Standing(L, s)
      /\ PrunedMemberships \in MembershipsType
      /\ \A t \in Sockets : PrunedMemberships[t] \in {socketMemberships[t], None}
  BY LeftOK, PrunedOK
<1>2. M \in MembershipsType /\ \A t \in Sockets : t # s => M[t] = PrunedMemberships[t]
  BY <1>1 DEF MembershipsType
<1> HIDE DEF M, L
<1>3. SeatsIn(L, M)
  <2> SUFFICES ASSUME NEW d \in Codes, NEW j \in Slots, L[d] # None, Connected(L[d], j)
               PROVE  M[L[d].players[j].socket] = [code |-> d, slot |-> j]
    BY DEF SeatsIn
  <2>1. L[d].players[j].socket # s
    BY <1>1 DEF Standing, Connected
  <2>2. L[d].players[j].socket \in Sockets
    BY <1>1, RoomsType, RoomFacts, PlayerFacts DEF Connected
  <2> QED BY <1>1, <1>2, <2>1, <2>2 DEF SeatsIn
<1>4. rooms' = L /\ socketMemberships' = M /\ answer' = None
        /\ sockets' = [sockets EXCEPT ![s] = "open"]
  BY DEF createRoomExhausted, L, M
<1>5. RoomsOK(rooms') /\ SeatsIn(rooms', M)
  BY <1>1, <1>3, <1>4
<1> QED BY <1>1, <1>2, <1>4, <1>5, OperationOK

-------------------------------------------------------------------------------
(* The other operations. *)

\* A player who goes is away, the others are as they were.
LEMMA DisconnectStep ==
  ASSUME SeatInv, NEW s \in Sockets, disconnectSocket(s)
  PROVE  SeatInv' /\ (\A c \in Codes : rooms[c] # None => rooms'[c] # None)
<1> DEFINE gone(c) == [rooms[c] EXCEPT !.players =
                         [k \in Slots |-> IF Sits(s, c, k) THEN Gone ELSE @[k]]]
<1>0. Gone \in PlayerType /\ Gone.socket = None /\ Gone # None
  <2>1. Gone \in PlayerType
    BY DEF Gone, PlayerType
  <2> QED BY <2>1, PlayerFacts DEF Gone
<1>1. ASSUME NEW c \in Codes, rooms[c] # None
      PROVE  /\ rooms'[c] \in RoomType /\ rooms'[c] # None
             /\ \A k \in Slots : rooms'[c].players[k]
                  = IF Sits(s, c, k) THEN Gone ELSE rooms[c].players[k]
  <2>1. rooms[c] \in RoomType
    BY <1>1 DEF SeatInv, TypeOK
  <2>2. rooms'[c] = IF \E k \in Slots : Sits(s, c, k) THEN gone(c) ELSE rooms[c]
    BY DEF disconnectSocket
  <2>3. /\ gone(c) \in RoomType
        /\ gone(c).players = [k \in Slots |-> IF Sits(s, c, k) THEN Gone
                                              ELSE rooms[c].players[k]]
    BY <1>0, <2>1 DEF RoomType
  <2> HIDE DEF gone
  <2> QED BY <2>1, <2>2, <2>3, RoomFacts DEF Slots
<1>2. ASSUME NEW c \in Codes, rooms[c] = None PROVE rooms'[c] = None
  BY <1>2 DEF disconnectSocket, Sits
<1>3. socketMemberships' = [socketMemberships EXCEPT ![s] = None]
        /\ sockets' = [sockets EXCEPT ![s] = "closed"] /\ answer' = None
        /\ rooms' = [c \in Codes |-> rooms'[c]]
  BY DEF disconnectSocket
<1>4. rooms' \in [Codes -> RoomType \union {None}]
  BY <1>1, <1>2, <1>3
<1>5. TypeOK'
  BY <1>3, <1>4 DEF SeatInv, TypeOK
<1>6. SeatsHeld'
  <2> SUFFICES ASSUME NEW c \in Codes, NEW k \in Slots,
                      rooms'[c] # None, Connected(rooms'[c], k)
               PROVE  socketMemberships'[rooms'[c].players[k].socket]
                        = [code |-> c, slot |-> k]
    BY DEF SeatsHeld
  <2>1. rooms[c] # None /\ ~Sits(s, c, k) /\ rooms'[c].players[k] = rooms[c].players[k]
    BY <1>0, <1>1, <1>2 DEF Connected
  <2> DEFINE t == rooms[c].players[k].socket
  <2>2. Connected(rooms[c], k) /\ socketMemberships[t] = [code |-> c, slot |-> k]
    BY <2>1 DEF Connected, SeatInv, SeatsHeld
  <2>3. t # s
    BY <2>1, <2>2 DEF Sits, Connected
  <2>4. t \in Sockets
    BY <2>1, <2>2, RoomFacts, PlayerFacts DEF Connected, SeatInv, TypeOK
  <2> HIDE DEF t
  <2>5. socketMemberships'[t] = [code |-> c, slot |-> k]
    BY <1>3, <2>2, <2>3, <2>4 DEF SeatInv, TypeOK
  <2> QED BY <2>1, <2>5 DEF t
<1>7. ClosedHaveNone'
  BY <1>3 DEF SeatInv, ClosedHaveNone, TypeOK
<1>8. NoEmptyRoom'
  BY <1>0, <1>1, <1>2 DEF SeatInv, NoEmptyRoom, Empty
<1> QED BY <1>1, <1>5, <1>6, <1>7, <1>8 DEF SeatInv

LEMMA CleanupStep == SeatInv /\ cleanupExpiredRooms => SeatInv'
<1> SUFFICES ASSUME SeatInv, cleanupExpiredRooms PROVE SeatInv'
  OBVIOUS
<1>1. /\ rooms' = PrunedRooms /\ socketMemberships' = PrunedMemberships
      /\ sockets' = sockets /\ answer' = None
  BY DEF cleanupExpiredRooms
<1>2. RoomsOK(rooms') /\ socketMemberships' \in MembershipsType
        /\ SeatsIn(rooms', socketMemberships')
        /\ \A s \in Sockets : socketMemberships'[s] \in {socketMemberships[s], None}
  BY <1>1, PrunedOK
<1>3. TypeOK'
  BY <1>1, <1>2 DEF SeatInv, TypeOK, RoomsOK, MembershipsType
<1>4. SeatsHeld' /\ NoEmptyRoom'
  BY <1>2 DEF SeatsHeld, SeatsIn, NoEmptyRoom, RoomsOK
<1>5. ClosedHaveNone'
  BY <1>1, <1>2 DEF SeatInv, ClosedHaveNone
<1> QED BY <1>3, <1>4, <1>5 DEF SeatInv

LEMMA RestartStep == SeatInv /\ Restart => SeatInv'
BY DEF SeatInv, Restart, TypeOK, SeatsHeld, ClosedHaveNone, NoEmptyRoom

\* A minute later everybody is on the socket they were on.
LEMMA TickStep ==
  ASSUME SeatInv, Tick
  PROVE  SeatInv' /\ (\A c \in Codes : rooms[c] # None => rooms'[c] # None)
<1>1. ASSUME NEW p \in PlayerType \union {None}
      PROVE  /\ Later(p) \in PlayerType \union {None}
             /\ Later(p) = None <=> p = None
             /\ p # None => Later(p).socket = p.socket
  <2>1. CASE p = None \/ p.away = None
    BY <2>1 DEF Later
  <2>2. CASE p # None /\ p.away # None
    <3>1. p \in [socket : {None}, away : Nat]
      BY <2>2 DEF PlayerType
    <3>2. AtMost(DISCONNECTED_ROOM_TTL, p.away + 1) \in Nat
      BY <3>1, ConstantsAssumption DEF AtMost
    <3>3. Later(p) \in [socket : {None}, away : Nat]
      BY <2>2, <3>1, <3>2 DEF Later
    <3> QED BY <2>2, <3>1, <3>3, PlayerFacts DEF PlayerType
  <2> QED BY <2>1, <2>2
<1>2. ASSUME NEW c \in Codes, rooms[c] # None
      PROVE  /\ rooms'[c] \in RoomType /\ rooms'[c] # None
             /\ \A k \in Slots : rooms'[c].players[k] = Later(rooms[c].players[k])
  <2>1. rooms[c] \in RoomType
    BY <1>2 DEF SeatInv, TypeOK
  <2>2. rooms'[c] = [age |-> AtMost(WAITING_ROOM_TTL, rooms[c].age + 1),
                     players |-> [k \in Slots |-> Later(rooms[c].players[k])]]
    BY <1>2 DEF Tick
  <2>3. AtMost(WAITING_ROOM_TTL, rooms[c].age + 1) \in Nat
    BY <2>1, RoomFacts, ConstantsAssumption DEF AtMost, RoomType
  <2>4. \A k \in Slots : Later(rooms[c].players[k]) \in PlayerType \union {None}
    BY <1>1, <2>1, RoomFacts
  <2>5. rooms'[c] \in RoomType
    BY <2>2, <2>3, <2>4 DEF RoomType
  <2> QED BY <2>2, <2>5, RoomFacts, NoneAssumption
<1>3. ASSUME NEW c \in Codes, rooms[c] = None PROVE rooms'[c] = None
  BY <1>3 DEF Tick
<1>4. /\ rooms' = [c \in Codes |-> rooms'[c]] /\ answer' = None
      /\ UNCHANGED <<socketMemberships, sockets>>
  BY DEF Tick
<1>5. rooms' \in [Codes -> RoomType \union {None}]
  BY <1>2, <1>3, <1>4
<1>6. TypeOK'
  BY <1>4, <1>5 DEF SeatInv, TypeOK
<1>7. ASSUME NEW c \in Codes, NEW k \in Slots, rooms[c] # None
      PROVE  /\ rooms'[c].players[k] = None <=> rooms[c].players[k] = None
             /\ rooms[c].players[k] # None =>
                  rooms'[c].players[k].socket = rooms[c].players[k].socket
  BY <1>1, <1>2, <1>7, RoomFacts DEF SeatInv, TypeOK
<1>8. SeatsHeld'
  BY <1>3, <1>4, <1>7 DEF SeatInv, SeatsHeld, Connected
<1>9. ClosedHaveNone'
  BY <1>4 DEF SeatInv, ClosedHaveNone
<1>10. NoEmptyRoom'
  BY <1>3, <1>7 DEF SeatInv, NoEmptyRoom, Empty
<1> QED BY <1>2, <1>6, <1>8, <1>9, <1>10 DEF SeatInv

-------------------------------------------------------------------------------
(* The theorems. *)

LEMMA InitSeats == Init => SeatInv
BY DEF Init, SeatInv, TypeOK, SeatsHeld, ClosedHaveNone, NoEmptyRoom

LEMMA SeatStep == SeatInv /\ [Next]_vars => SeatInv'
<1> SUFFICES ASSUME SeatInv, [Next]_vars PROVE SeatInv'
  OBVIOUS
<1>1. CASE UNCHANGED vars
  BY <1>1 DEF vars, SeatInv, TypeOK, SeatsHeld, ClosedHaveNone, NoEmptyRoom
<1> QED BY <1>1, CreateStep, JoinStep, ResumeStep, ExhaustedStep, DisconnectStep,
           CleanupStep, RestartStep, TickStep DEF Next

\* No sequence of operations leaves a player connected on a socket that is not a
\* member at that slot, in whatever order leaveSocket, the seat and the
\* membership are written.
THEOREM SeatInvCorrect == Spec => []SeatInv
<1>1. SeatInv /\ [Next]_vars => SeatInv'
  BY SeatStep
<1> QED BY <1>1, InitSeats, PTL DEF Spec

\* Every variable has its type: a player is connected, or has a time of going.
THEOREM RoomsTypeCorrect == Spec => []TypeOK
<1>1. SeatInv => TypeOK
  BY DEF SeatInv
<1> QED BY <1>1, SeatInvCorrect, PTL

\* A connected player's socket is a member at the player's slot.
THEOREM SeatsHeldCorrect == Spec => []SeatsHeld
<1>1. SeatInv => SeatsHeld
  BY DEF SeatInv
<1> QED BY <1>1, SeatInvCorrect, PTL

\* A connection that is gone holds no seat, so disconnectSocket never misses one.
THEOREM NoGhostSeatCorrect == Spec => []NoGhostSeat
<1>1. SeatInv => NoGhostSeat
  <2> SUFFICES ASSUME SeatInv, NEW c \in Codes, NEW k \in Slots,
                      rooms[c] # None, Connected(rooms[c], k)
               PROVE  sockets[rooms[c].players[k].socket] = "open"
    BY DEF NoGhostSeat
  <2> DEFINE t == rooms[c].players[k].socket
  <2>1. t \in Sockets
    BY RoomFacts, PlayerFacts DEF Connected, SeatInv, TypeOK
  <2>2. socketMemberships[t] = [code |-> c, slot |-> k]
    BY DEF SeatInv, SeatsHeld
  <2>3. socketMemberships[t] # None
    BY <2>2, NoneAssumption DEF MembershipType
  <2> QED BY <2>1, <2>3 DEF SeatInv, ClosedHaveNone
<1> QED BY <1>1, SeatInvCorrect, PTL

\* No room stays in the map without a player.
THEOREM NoEmptyRoomCorrect == Spec => []NoEmptyRoom
<1>1. SeatInv => NoEmptyRoom
  BY DEF SeatInv
<1> QED BY <1>1, SeatInvCorrect, PTL

\* Leaving a room of two leaves a room of one.
LEMMA FullRoomLeft ==
  ASSUME SeatInv, NEW s \in Sockets, NEW c \in Codes,
         rooms[c] # None, ~Waiting(rooms[c]), ~Prunes(c)
  PROVE  LeftRooms(s)[c] # None
<1>1. PrunedRooms[c] = rooms[c] /\ rooms[c] \in RoomType
  BY DEF PrunedRooms, SeatInv, TypeOK
<1>2. \A k \in Slots : WithoutSlot(rooms[c], k) # None
  <2> SUFFICES ASSUME NEW k \in Slots PROVE WithoutSlot(rooms[c], k) # None
    OBVIOUS
  <2> DEFINE rest == [rooms[c] EXCEPT !.players[k] = None]
  <2>1. rest \in RoomType
    BY <1>1 DEF RoomType
  <2>2. PICK j \in Slots : j # k
    BY DEF Slots
  <2>3. rest.players[j] = rooms[c].players[j]
    BY <1>1, <2>2 DEF RoomType
  <2>4. ~Empty(rest)
    BY <2>3 DEF Empty, Waiting
  <2> QED BY <2>1, <2>4, RoomFacts, NoneAssumption DEF WithoutSlot
<1>3. PrunedMemberships[s] # None => PrunedMemberships[s].slot \in Slots
  BY PrunedOK DEF MembershipsType, MembershipType
<1> QED BY <1>1, <1>2, <1>3 DEF LeftRooms

\* A room of two is dropped by nothing but the sweep for players long gone (and
\* a restart): leaveSocket, createRoom and the waiting TTL do not reach it.
THEOREM FullRoomsRetainedCorrect == Spec => FullRoomsRetained
<1> DEFINE Step ==
      \A c \in Codes :
        rooms[c] # None /\ ~Waiting(rooms[c]) /\ rooms'[c] = None =>
          \/ AllDisconnected(rooms[c]) /\ AllAwayLong(rooms[c])
          \/ Restart
<1>1. SeatInv /\ [Next]_vars => [Step]_vars
  <2> SUFFICES ASSUME SeatInv, [Next]_vars, ~Restart, NEW c \in Codes,
                      rooms[c] # None, ~Waiting(rooms[c]), ~Prunes(c)
               PROVE  rooms'[c] # None
    BY DEF Prunes, Expired
  <2>1. SeatInv'
    BY SeatStep
  <2>2. ASSUME NEW s \in Sockets PROVE LeftRooms(s)[c] # None /\ LeftRooms(s)[c] \in RoomType
    BY FullRoomLeft, LeftOK DEF RoomsOK
  <2>3. ASSUME NEW s \in Sockets, NEW d \in Codes, createRoom(s, d) PROVE rooms'[c] # None
    BY <2>2, <2>3, CreateStep
  <2>4. ASSUME NEW s \in Sockets, NEW d \in Codes, joinRoom(s, d) PROVE rooms'[c] # None
    <3> DEFINE w == [LeftRooms(s)[c] EXCEPT !.players[2] = NewPlayer(s)]
    <3>1. w # None
      BY <2>2, NewSeatType, RoomFacts, NoneAssumption DEF Slots
    <3>2. rooms'[c] = LeftRooms(s)[c] \/ rooms'[c] = w
      BY <2>2, <2>4 DEF joinRoom, LeftRooms
    <3> QED BY <2>2, <3>1, <3>2
  <2>5. ASSUME NEW s \in Sockets, NEW d \in Codes, NEW k \in Slots, resumeRoom(s, d, k)
        PROVE  rooms'[c] # None
    <3> DEFINE w == [LeftRooms(s)[c] EXCEPT !.players[k] = NewPlayer(s)]
    <3>1. w # None
      BY <2>2, NewSeatType, RoomFacts, NoneAssumption DEF Slots
    <3>2. rooms'[c] = LeftRooms(s)[c] \/ rooms'[c] = w
      BY <2>2, <2>5 DEF resumeRoom, LeftRooms
    <3> QED BY <2>2, <3>1, <3>2
  <2>6. ASSUME NEW s \in Sockets, createRoomExhausted(s) PROVE rooms'[c] # None
    BY <2>2, <2>6 DEF createRoomExhausted
  <2>7. ASSUME NEW s \in Sockets, disconnectSocket(s) PROVE rooms'[c] # None
    BY <2>7, DisconnectStep
  <2>8. ASSUME cleanupExpiredRooms PROVE rooms'[c] # None
    BY <2>8 DEF cleanupExpiredRooms, PrunedRooms
  <2>9. CASE UNCHANGED vars
    BY <2>9 DEF vars
  <2> QED BY <2>3, <2>4, <2>5, <2>6, <2>7, <2>8, <2>9, TickStep DEF Next
<1> QED BY <1>1, SeatInvCorrect, PTL DEF Spec, FullRoomsRetained

\* A socket that is a member elsewhere, or nowhere, leaves room c as it is.
LEMMA OtherRoomLeft ==
  ASSUME SeatInv, NEW s \in Sockets, NEW c \in Codes,
         socketMemberships[s] = None \/ socketMemberships[s].code # c
  PROVE  LeftRooms(s)[c] = PrunedRooms[c]
<1>1. PrunedMemberships[s] \in {socketMemberships[s], None}
  BY PrunedOK
<1> QED BY <1>1 DEF LeftRooms

\* What it takes to sit after a step.
LEMMA SeatedNow ==
  ASSUME NEW s \in Sockets, NEW c \in Codes, NEW k \in Slots, NEW op,
         rooms'[c] \in RoomType, rooms'[c].players[k] = NewPlayer(s),
         socketMemberships'[s] = [code |-> c, slot |-> k],
         answer' = [op |-> op, socket |-> s, code |-> c, slot |-> k]
  PROVE  Sits(answer.socket, answer.code, answer.slot)'
<1>1. rooms'[c] # None /\ rooms'[c].players[k] # None /\ rooms'[c].players[k].socket = s
  BY RoomFacts, NewPlayerType, PlayerFacts DEF NewPlayer
<1> QED BY <1>1 DEF Sits

\* A session that is answered is a seat that is taken, unless the socket was a
\* member of that very room before.
THEOREM NewcomersSitCorrect == Spec => NewcomersSit
<1> DEFINE Step ==
      answer' # None =>
        \/ Sits(answer.socket, answer.code, answer.slot)'
        \/ /\ socketMemberships[answer'.socket] # None
           /\ socketMemberships[answer'.socket].code = answer'.code
<1>1. SeatInv /\ [Next]_vars => [Step]_vars
  <2> SUFFICES ASSUME SeatInv, [Next]_vars PROVE [Step]_vars
    OBVIOUS
  <2>1. ASSUME NEW s \in Sockets, NEW c \in Codes, createRoom(s, c) PROVE Step
    <3> DEFINE new == [age |-> 0,
                       players |-> [k \in Slots |-> IF k = 1 THEN NewPlayer(s) ELSE None]]
    <3>1. LeftRooms(s) \in [Codes -> RoomType \union {None}] /\ PrunedMemberships \in MembershipsType
      BY LeftOK, PrunedOK DEF RoomsOK
    <3>2. rooms'[c] = new
      BY <2>1, <3>1 DEF createRoom
    <3>3. new \in RoomType /\ new.players[1] = NewPlayer(s) /\ 1 \in Slots
      BY NewPlayerType DEF RoomType, Slots
    <3> HIDE DEF new
    <3>4. socketMemberships'[s] = [code |-> c, slot |-> 1]
      BY <2>1, <3>1 DEF createRoom, MembershipsType
    <3>5. answer' = [op |-> "create", socket |-> s, code |-> c, slot |-> 1]
      BY <2>1 DEF createRoom, Answers
    <3> QED BY <3>2, <3>3, <3>4, <3>5, SeatedNow
  <2>2. ASSUME NEW s \in Sockets, NEW c \in Codes, joinRoom(s, c),
               socketMemberships[s] = None \/ socketMemberships[s].code # c
        PROVE  Step
    <3> DEFINE k == 2
               r == LeftRooms(s)[c]
               w == [r EXCEPT !.players[k] = NewPlayer(s)]
    <3>0. k \in Slots
      BY DEF Slots
    <3>1. /\ LeftRooms(s) \in [Codes -> RoomType \union {None}]
          /\ PrunedMemberships \in MembershipsType
          /\ r # None
      BY <2>2, LeftOK, PrunedOK, OtherRoomLeft DEF RoomsOK, joinRoom
    <3>2. rooms'[c] = w
      BY <2>2, <3>1 DEF joinRoom
    <3>4. socketMemberships'[s] = [code |-> c, slot |-> k]
      BY <2>2, <3>1 DEF joinRoom, MembershipsType
    <3>5. answer' = [op |-> "join", socket |-> s, code |-> c, slot |-> k]
      BY <2>2 DEF joinRoom, Answers
    <3> HIDE DEF k
    <3>3. w \in RoomType /\ w.players[k] = NewPlayer(s)
      <4>1. r \in RoomType
        BY <3>1
      <4> HIDE DEF r
      <4> QED BY <3>0, <4>1, NewSeatType
    <3> HIDE DEF w
    <3> QED BY <3>0, <3>2, <3>3, <3>4, <3>5, SeatedNow
  <2>3. ASSUME NEW s \in Sockets, NEW c \in Codes, NEW k \in Slots, resumeRoom(s, c, k),
               socketMemberships[s] = None \/ socketMemberships[s].code # c
        PROVE  Step
    <3> DEFINE r == LeftRooms(s)[c]
               w == [r EXCEPT !.players[k] = NewPlayer(s)]
    <3>1. /\ LeftRooms(s) \in [Codes -> RoomType \union {None}]
          /\ PrunedMemberships \in MembershipsType
          /\ r # None /\ r.players[k] # None
      BY <2>3, LeftOK, PrunedOK, OtherRoomLeft DEF RoomsOK, resumeRoom
    <3>2. rooms'[c] = w
      BY <2>3, <3>1 DEF resumeRoom
    <3>3. w \in RoomType /\ w.players[k] = NewPlayer(s)
      <4>1. r \in RoomType
        BY <3>1
      <4> HIDE DEF r
      <4> QED BY <4>1, NewSeatType
    <3>4. socketMemberships'[s] = [code |-> c, slot |-> k]
      BY <2>3, <3>1 DEF resumeRoom, Replaced, MembershipsType
    <3>5. answer' = [op |-> "resume", socket |-> s, code |-> c, slot |-> k]
      BY <2>3 DEF resumeRoom, Answers
    <3> HIDE DEF w
    <3> QED BY <3>2, <3>3, <3>4, <3>5, SeatedNow
  <2>4. ASSUME NEW s \in Sockets, NEW c \in Codes, joinRoom(s, c) \/ (\E k \in Slots : resumeRoom(s, c, k)),
               socketMemberships[s] # None, socketMemberships[s].code = c
        PROVE  Step
    <3>1. answer'.socket = s /\ answer'.code = c
      BY <2>4 DEF joinRoom, resumeRoom, Answers
    <3> QED BY <2>4, <3>1
  <2>5. ASSUME answer' = None PROVE Step
    BY <2>5
  <2>6. CASE UNCHANGED vars
    BY <2>6
  <2> HIDE DEF Step
  <2>7. ASSUME NEW s \in Sockets, createRoomExhausted(s) \/ disconnectSocket(s) PROVE Step
    BY <2>5, <2>7 DEF createRoomExhausted, disconnectSocket
  <2>8. ASSUME cleanupExpiredRooms \/ Restart \/ Tick PROVE Step
    BY <2>5, <2>8 DEF cleanupExpiredRooms, Restart, Tick
  <2> QED BY <2>1, <2>2, <2>3, <2>4, <2>6, <2>7, <2>8 DEF Next
<1> QED BY <1>1, SeatInvCorrect, PTL DEF Spec, NewcomersSit

-------------------------------------------------------------------------------
(* Sockets that make one room operation each: the two maps agree.             *)

\* MembersSit of any pair of maps.
MembersIn(R, M) ==
  \A t \in Sockets, d \in Codes, j \in Slots :
    M[t] = [code |-> d, slot |-> j] =>
      R[d] # None /\ R[d].players[j] # None /\ R[d].players[j].socket = t

\* Nobody leaves, so a room has its host, and a waiting one has slot 2 free.
HostIn(R) == \A c \in Codes : R[c] # None => R[c].players[1] # None

FreshInv == MembersIn(rooms, socketMemberships) /\ HostIn(rooms)

LEMMA FreshMembersSit == TypeOK /\ FreshInv => MembersSit
<1> SUFFICES ASSUME TypeOK, FreshInv, NEW s \in Sockets, socketMemberships[s] # None
             PROVE  Sits(s, socketMemberships[s].code, socketMemberships[s].slot)
  BY DEF MembersSit
<1> DEFINE m == socketMemberships[s]
<1>1. m \in MembershipType
  BY DEF TypeOK
<1>2. m.code \in Codes /\ m.slot \in Slots /\ m = [code |-> m.code, slot |-> m.slot]
  BY <1>1 DEF MembershipType
<1> QED BY <1>2 DEF FreshInv, MembersIn, Sits

\* A socket that comes for the first time has no room to leave.
LEMMA FreshLeavesNothing ==
  ASSUME FreshSockets, SeatInv, NEW s \in Sockets, MayCall(s)
  PROVE  LeftRooms(s) = PrunedRooms
<1>1. socketMemberships[s] = None
  BY DEF MayCall, SeatInv, ClosedHaveNone
<1>2. PrunedMemberships[s] = None
  BY <1>1, PrunedOK
<1>3. LeftRooms(s) = [c \in Codes |-> PrunedRooms[c]]
  BY <1>2 DEF LeftRooms
<1> QED BY <1>3 DEF PrunedRooms

\* deleteRoom drops the membership of everybody who sits in the room.
LEMMA PrunedMembersSit ==
  ASSUME SeatInv, FreshInv
  PROVE  MembersIn(PrunedRooms, PrunedMemberships) /\ HostIn(PrunedRooms)
<1>1. HostIn(PrunedRooms)
  BY DEF FreshInv, HostIn, PrunedRooms
<1>2. ASSUME NEW t \in Sockets, NEW d \in Codes, NEW j \in Slots,
             PrunedMemberships[t] = [code |-> d, slot |-> j]
      PROVE  /\ PrunedRooms[d] # None /\ PrunedRooms[d].players[j] # None
             /\ PrunedRooms[d].players[j].socket = t
  <2>1. PrunedMemberships[t] # None
    BY <1>2, NoneAssumption DEF MembershipType
  <2>2. /\ PrunedMemberships[t] = socketMemberships[t]
        /\ ~\E c \in Codes, k \in Slots :
             Prunes(c) /\ rooms[c].players[k] # None /\ rooms[c].players[k].socket = t
    BY <2>1 DEF PrunedMemberships
  <2>3. rooms[d] # None /\ rooms[d].players[j] # None /\ rooms[d].players[j].socket = t
    BY <1>2, <2>2 DEF FreshInv, MembersIn
  <2>4. PrunedRooms[d] = rooms[d]
    BY <2>2, <2>3 DEF PrunedRooms
  <2> QED BY <2>3, <2>4
<1> QED BY <1>1, <1>2 DEF MembersIn

\* Socket s takes slot k of room c: the host's of a new room, or one of a room
\* that is there, and no other socket keeps a membership at that slot.
SeatsFresh(R, M, R2, M2, s, c, k) ==
  /\ R2[c] # None /\ R2[c].players[k] # None /\ R2[c].players[k].socket = s
  /\ R[c] = None => k = 1
  /\ R[c] # None => \A j \in Slots : j # k => R2[c].players[j] = R[c].players[j]
  /\ \A d \in Codes : d # c => R2[d] = R[d]
  /\ M2[s] = [code |-> c, slot |-> k]
  /\ \A t \in Sockets : t # s =>
       M2[t] = None \/ (M2[t] = M[t] /\ M[t] # [code |-> c, slot |-> k])

LEMMA FreshSeatTaken ==
  ASSUME NEW R, NEW M, NEW R2, NEW M2,
         NEW s \in Sockets, NEW c \in Codes, NEW k \in Slots,
         MembersIn(R, M), HostIn(R), SeatsFresh(R, M, R2, M2, s, c, k)
  PROVE  MembersIn(R2, M2) /\ HostIn(R2)
<1> USE DEF SeatsFresh
<1>1. HostIn(R2)
  BY DEF HostIn, Slots
<1>2. ASSUME NEW t \in Sockets, NEW d \in Codes, NEW j \in Slots,
             M2[t] = [code |-> d, slot |-> j]
      PROVE  R2[d] # None /\ R2[d].players[j] # None /\ R2[d].players[j].socket = t
  <2>1. CASE t = s
    <3>1. [code |-> c, slot |-> k] = [code |-> d, slot |-> j]
      BY <1>2, <2>1
    <3>2. d = c /\ j = k
      BY <3>1
    <3> QED BY <2>1, <3>2
  <2>2. CASE t # s
    <3>1. M2[t] # None
      BY <1>2, NoneAssumption DEF MembershipType
    <3>2. M[t] = [code |-> d, slot |-> j] /\ M[t] # [code |-> c, slot |-> k]
      BY <1>2, <2>2, <3>1
    <3>3. R[d] # None /\ R[d].players[j] # None /\ R[d].players[j].socket = t
      BY <3>2 DEF MembersIn
    <3>4. d # c \/ j # k
      BY <3>2
    <3>5. CASE d # c
      BY <3>3, <3>5
    <3>6. CASE d = c
      BY <3>3, <3>4, <3>6
    <3> QED BY <3>5, <3>6
  <2> QED BY <2>1, <2>2
<1> QED BY <1>1, <1>2 DEF MembersIn

LEMMA FreshCreate ==
  ASSUME FreshSockets, SeatInv, FreshInv, NEW s \in Sockets, NEW c \in Codes,
         createRoom(s, c)
  PROVE  FreshInv'
<1> DEFINE k == 1
           new == [age |-> 0,
                   players |-> [j \in Slots |-> IF j = 1 THEN NewPlayer(s) ELSE None]]
<1>0. k \in Slots
  BY DEF Slots
<1>1. /\ LeftRooms(s) = PrunedRooms /\ PrunedRooms[c] = None
      /\ RoomsOK(PrunedRooms) /\ PrunedMemberships \in MembershipsType
      /\ MembersIn(PrunedRooms, PrunedMemberships) /\ HostIn(PrunedRooms)
  BY FreshLeavesNothing, PrunedOK, PrunedMembersSit DEF createRoom
<1>2. /\ rooms' = [PrunedRooms EXCEPT ![c] = new]
      /\ socketMemberships' = [PrunedMemberships EXCEPT ![s] = [code |-> c, slot |-> k]]
  BY <1>1 DEF createRoom
<1>3. new.players[k] = NewPlayer(s) /\ new \in RoomType
  BY <1>0, NewPlayerType DEF RoomType
<1>4. NewPlayer(s) # None /\ NewPlayer(s).socket = s /\ new # None
  BY <1>3, NewPlayerType, PlayerFacts, RoomFacts, NoneAssumption DEF NewPlayer
<1> HIDE DEF new
<1>5. /\ rooms'[c] = new
      /\ \A d \in Codes : d # c => rooms'[d] = PrunedRooms[d]
      /\ socketMemberships'[s] = [code |-> c, slot |-> k]
      /\ \A t \in Sockets : t # s => socketMemberships'[t] = PrunedMemberships[t]
  BY <1>1, <1>2 DEF RoomsOK, MembershipsType
<1>6. \A t \in Sockets : PrunedMemberships[t] # [code |-> c, slot |-> k]
  BY <1>0, <1>1 DEF MembersIn
<1>7. SeatsFresh(PrunedRooms, PrunedMemberships, rooms', socketMemberships', s, c, k)
  BY <1>1, <1>3, <1>4, <1>5, <1>6 DEF SeatsFresh
<1> QED BY <1>0, <1>1, <1>7, FreshSeatTaken DEF FreshInv

\* The room of a fresh socket's join: it has its host, so slot 2 is the free one.
LEMMA JoinedSlotFree ==
  ASSUME FreshSockets, SeatInv, FreshInv, NEW s \in Sockets, NEW c \in Codes,
         joinRoom(s, c)
  PROVE  PrunedRooms[c] # None /\ PrunedRooms[c].players[2] = None
<1>1. PrunedRooms[c] # None /\ Waiting(PrunedRooms[c])
  BY DEF joinRoom, RoomFull
<1>2. PrunedRooms[c].players[1] # None
  BY <1>1, PrunedMembersSit DEF HostIn
<1> QED BY <1>1, <1>2 DEF Waiting, Slots

LEMMA FreshJoin ==
  ASSUME FreshSockets, SeatInv, FreshInv, NEW s \in Sockets, NEW c \in Codes,
         joinRoom(s, c)
  PROVE  FreshInv'
<1> DEFINE k == 2
           r == PrunedRooms[c]
           w == [r EXCEPT !.players[k] = NewPlayer(s)]
<1>0. k \in Slots
  BY DEF Slots
<1>1. /\ LeftRooms(s) = PrunedRooms /\ r # None /\ r.players[k] = None
      /\ RoomsOK(PrunedRooms) /\ PrunedMemberships \in MembershipsType
      /\ MembersIn(PrunedRooms, PrunedMemberships) /\ HostIn(PrunedRooms)
  BY FreshLeavesNothing, PrunedOK, PrunedMembersSit, JoinedSlotFree DEF joinRoom
<1>2. /\ rooms' = [PrunedRooms EXCEPT ![c] = w]
      /\ socketMemberships' = [PrunedMemberships EXCEPT ![s] = [code |-> c, slot |-> k]]
  BY <1>1 DEF joinRoom, RoomsOK
<1> HIDE DEF k
<1>3. /\ w # None /\ w.players[k] = NewPlayer(s)
      /\ \A j \in Slots : j # k => w.players[j] = r.players[j]
  <2>1. r \in RoomType
    BY <1>1 DEF RoomsOK
  <2> HIDE DEF r
  <2>2. /\ w \in RoomType /\ w.players[k] = NewPlayer(s)
        /\ \A j \in Slots : j # k => w.players[j] = r.players[j]
    BY <1>0, <2>1, NewSeatType
  <2> HIDE DEF w
  <2> QED BY <2>2, NoneAssumption
<1>4. NewPlayer(s) # None /\ NewPlayer(s).socket = s
  BY NewPlayerType, PlayerFacts DEF NewPlayer
<1> HIDE DEF w
<1>5. /\ rooms'[c] = w
      /\ \A d \in Codes : d # c => rooms'[d] = PrunedRooms[d]
      /\ socketMemberships'[s] = [code |-> c, slot |-> k]
      /\ \A t \in Sockets : t # s => socketMemberships'[t] = PrunedMemberships[t]
  BY <1>1, <1>2 DEF RoomsOK, MembershipsType
<1>6. \A t \in Sockets : PrunedMemberships[t] # [code |-> c, slot |-> k]
  BY <1>0, <1>1 DEF MembersIn
<1>7. SeatsFresh(PrunedRooms, PrunedMemberships, rooms', socketMemberships', s, c, k)
  BY <1>1, <1>3, <1>4, <1>5, <1>6 DEF SeatsFresh
<1> QED BY <1>0, <1>1, <1>7, FreshSeatTaken DEF FreshInv

\* The socket a player had before the resume, if any, is a member no more.
LEMMA FreshResume ==
  ASSUME FreshSockets, SeatInv, FreshInv, NEW s \in Sockets, NEW c \in Codes,
         NEW k \in Slots, resumeRoom(s, c, k)
  PROVE  FreshInv'
<1> DEFINE r == PrunedRooms[c]
           P == Replaced(r.players[k])
           w == [r EXCEPT !.players[k] = NewPlayer(s)]
<1>1. /\ LeftRooms(s) = PrunedRooms /\ r # None /\ r.players[k] # None
      /\ RoomsOK(PrunedRooms) /\ PrunedMemberships \in MembershipsType
      /\ MembersIn(PrunedRooms, PrunedMemberships) /\ HostIn(PrunedRooms)
  BY FreshLeavesNothing, PrunedOK, PrunedMembersSit DEF resumeRoom
<1>2. /\ rooms' = [PrunedRooms EXCEPT ![c] = w]
      /\ socketMemberships' = [P EXCEPT ![s] = [code |-> c, slot |-> k]]
  BY <1>1 DEF resumeRoom, RoomsOK
<1>3. /\ w # None /\ w.players[k] = NewPlayer(s)
      /\ \A j \in Slots : j # k => w.players[j] = r.players[j]
  <2>1. r \in RoomType
    BY <1>1 DEF RoomsOK
  <2> HIDE DEF r
  <2>2. /\ w \in RoomType /\ w.players[k] = NewPlayer(s)
        /\ \A j \in Slots : j # k => w.players[j] = r.players[j]
    BY <2>1, NewSeatType
  <2> HIDE DEF w
  <2> QED BY <2>2, NoneAssumption
<1>4. NewPlayer(s) # None /\ NewPlayer(s).socket = s
  BY NewPlayerType, PlayerFacts DEF NewPlayer
<1>5. ASSUME NEW t \in Sockets
      PROVE  P[t] = None \/ (/\ P[t] = PrunedMemberships[t]
                             /\ PrunedMemberships[t] # [code |-> c, slot |-> k])
  <2>1. CASE t = r.players[k].socket
    BY <2>1 DEF Replaced
  <2>2. CASE t # r.players[k].socket
    BY <1>1, <2>2 DEF Replaced, MembersIn
  <2> QED BY <2>1, <2>2
<1> HIDE DEF w
<1>6. /\ rooms'[c] = w
      /\ \A d \in Codes : d # c => rooms'[d] = PrunedRooms[d]
      /\ socketMemberships'[s] = [code |-> c, slot |-> k]
      /\ \A t \in Sockets : t # s => socketMemberships'[t] = P[t]
  BY <1>1, <1>2 DEF RoomsOK, Replaced
<1> HIDE DEF P
<1>7. SeatsFresh(PrunedRooms, PrunedMemberships, rooms', socketMemberships', s, c, k)
  BY <1>1, <1>3, <1>4, <1>5, <1>6 DEF SeatsFresh
<1> QED BY <1>1, <1>7, FreshSeatTaken DEF FreshInv

LEMMA FreshExhausted ==
  ASSUME FreshSockets, SeatInv, FreshInv, NEW s \in Sockets, createRoomExhausted(s)
  PROVE  FreshInv'
<1>1. /\ rooms' = PrunedRooms /\ PrunedMemberships \in MembershipsType
      /\ socketMemberships' = [PrunedMemberships EXCEPT ![s] = None]
      /\ MembersIn(PrunedRooms, PrunedMemberships) /\ HostIn(PrunedRooms)
  BY FreshLeavesNothing, PrunedOK, PrunedMembersSit DEF createRoomExhausted
<1>2. \A t \in Sockets : socketMemberships'[t] \in {PrunedMemberships[t], None}
  BY <1>1 DEF MembershipsType
<1>3. \A d \in Codes, j \in Slots : [code |-> d, slot |-> j] # None
  BY NoneAssumption DEF MembershipType
<1> QED BY <1>1, <1>2, <1>3 DEF FreshInv, MembersIn

\* A disconnect takes the socket's own membership with its seat.
LEMMA FreshDisconnect ==
  ASSUME SeatInv, FreshInv, NEW s \in Sockets, disconnectSocket(s)
  PROVE  FreshInv'
<1>0. Gone # None
  <2>1. Gone \in PlayerType
    BY DEF Gone, PlayerType
  <2> QED BY <2>1, PlayerFacts
<1>1. ASSUME NEW c \in Codes, rooms[c] # None, NEW k \in Slots
      PROVE  /\ rooms'[c] # None
             /\ rooms'[c].players[k] = IF Sits(s, c, k) THEN Gone ELSE rooms[c].players[k]
  <2>1. rooms[c] \in RoomType
    BY <1>1 DEF SeatInv, TypeOK
  <2>2. CASE \E j \in Slots : Sits(s, c, j)
    <3>1. rooms'[c] = [rooms[c] EXCEPT !.players =
                         [j \in Slots |-> IF Sits(s, c, j) THEN Gone ELSE @[j]]]
      BY <2>2 DEF disconnectSocket
    <3>2. rooms'[c].players[k] = IF Sits(s, c, k) THEN Gone ELSE rooms[c].players[k]
      BY <2>1, <3>1 DEF RoomType
    <3> QED BY <1>1, <3>2, DisconnectStep
  <2>3. CASE ~\E j \in Slots : Sits(s, c, j)
    BY <1>1, <2>3 DEF disconnectSocket
  <2> QED BY <2>2, <2>3
<1>2. \A c \in Codes : rooms[c] = None => rooms'[c] = None
  BY DEF disconnectSocket, Sits
<1>3. HostIn(rooms')
  BY <1>0, <1>1, <1>2 DEF FreshInv, HostIn, Slots
<1>4. ASSUME NEW t \in Sockets, NEW d \in Codes, NEW j \in Slots,
             socketMemberships'[t] = [code |-> d, slot |-> j]
      PROVE  /\ rooms'[d] # None /\ rooms'[d].players[j] # None
             /\ rooms'[d].players[j].socket = t
  <2>1. [code |-> d, slot |-> j] # None
    BY NoneAssumption DEF MembershipType
  <2>2. t # s /\ socketMemberships[t] = [code |-> d, slot |-> j]
    BY <1>4, <2>1 DEF disconnectSocket, SeatInv, TypeOK
  <2>3. rooms[d] # None /\ rooms[d].players[j] # None /\ rooms[d].players[j].socket = t
    BY <2>2 DEF FreshInv, MembersIn
  <2>4. ~Sits(s, d, j)
    BY <2>2, <2>3 DEF Sits
  <2> QED BY <1>1, <2>3, <2>4
<1> QED BY <1>3, <1>4 DEF FreshInv, MembersIn

LEMMA FreshTick ==
  ASSUME SeatInv, FreshInv, Tick
  PROVE  FreshInv'
<1>1. ASSUME NEW p \in PlayerType PROVE Later(p) # None /\ Later(p).socket = p.socket
  <2>1. CASE p.away = None
    BY <2>1, PlayerFacts DEF Later
  <2>2. CASE p.away # None
    <3>1. p \in [socket : {None}, away : Nat]
      BY <2>2 DEF PlayerType
    <3>2. Later(p) = [p EXCEPT !.away = AtMost(DISCONNECTED_ROOM_TTL, p.away + 1)]
      BY <2>2, PlayerFacts DEF Later
    <3>3. AtMost(DISCONNECTED_ROOM_TTL, p.away + 1) \in Nat
      BY <3>1, ConstantsAssumption DEF AtMost
    <3>4. Later(p) \in [socket : {None}, away : Nat] /\ Later(p).socket = p.socket
      BY <3>1, <3>2, <3>3
    <3> QED BY <3>4, PlayerFacts DEF PlayerType
  <2> QED BY <2>1, <2>2
<1>2. ASSUME NEW c \in Codes, rooms[c] # None, NEW k \in Slots,
             rooms[c].players[k] # None
      PROVE  /\ rooms'[c] # None /\ rooms'[c].players[k] # None
             /\ rooms'[c].players[k].socket = rooms[c].players[k].socket
  <2>1. rooms[c].players[k] \in PlayerType
    BY <1>2, RoomFacts DEF SeatInv, TypeOK
  <2>2. rooms'[c].players[k] = Later(rooms[c].players[k])
    BY <1>2 DEF Tick
  <2> QED BY <1>1, <1>2, <2>1, <2>2, TickStep
<1>3. \A c \in Codes : rooms[c] = None => rooms'[c] = None
  BY DEF Tick
<1>4. HostIn(rooms')
  BY <1>2, <1>3 DEF FreshInv, HostIn, Slots
<1>5. MembersIn(rooms', socketMemberships')
  BY <1>2 DEF FreshInv, MembersIn, Tick
<1> QED BY <1>4, <1>5 DEF FreshInv

LEMMA FreshStep ==
  ASSUME FreshSockets, SeatInv, FreshInv, [Next]_vars
  PROVE  FreshInv'
<1>1. CASE UNCHANGED vars
  BY <1>1 DEF vars, FreshInv, MembersIn, HostIn
<1>2. CASE cleanupExpiredRooms
  BY <1>2, PrunedMembersSit DEF cleanupExpiredRooms, FreshInv
<1>3. CASE Restart
  BY <1>3, NoneAssumption DEF Restart, FreshInv, MembersIn, HostIn, MembershipType
<1> QED BY <1>1, <1>2, <1>3, FreshCreate, FreshJoin, FreshResume, FreshExhausted,
           FreshDisconnect, FreshTick DEF Next

LEMMA FreshInit == Init => FreshInv
BY NoneAssumption DEF Init, FreshInv, MembersIn, HostIn, MembershipType

\* When every socket makes one room operation, a member sits in the seat its
\* membership names: the frame it relays carries its own slot, and leaving or
\* disconnecting never touches another player's seat.
THEOREM MembersSitWhenFresh ==
  ASSUME FreshSockets PROVE Spec => []MembersSit
<1>1. SeatInv /\ FreshInv /\ [Next]_vars => FreshInv'
  BY FreshStep
<1>2. SeatInv /\ FreshInv => MembersSit
  BY FreshMembersSit DEF SeatInv
<1> QED BY FreshInit, SeatInvCorrect, <1>1, <1>2, PTL DEF Spec

\* Nor does a join write over a player who is connected: the room it found
\* waiting is one whose second slot is free.
THEOREM GuestNotReplacedWhenFresh ==
  ASSUME FreshSockets PROVE Spec => GuestNotReplaced
<1> DEFINE Step ==
      \A c \in Codes :
        rooms[c] # None /\ Connected(rooms[c], 2) /\ answer' # None =>
          \/ answer'.op # "join" \/ answer'.code # c
          \/ answer'.socket = rooms[c].players[2].socket
<1>1. SeatInv /\ FreshInv /\ [Next]_vars => FreshInv'
  BY FreshStep
<1>2. SeatInv /\ FreshInv /\ [Next]_vars => [Step]_vars
  <2> SUFFICES ASSUME SeatInv, FreshInv, Next, NEW c \in Codes,
                      rooms[c] # None, Connected(rooms[c], 2),
                      answer' # None, answer'.op = "join", answer'.code = c
               PROVE  FALSE
    OBVIOUS
  <2>1. ASSUME NEW s \in Sockets, NEW d \in Codes, joinRoom(s, d) PROVE FALSE
    <3>1. d = c
      BY <2>1 DEF joinRoom, Answers
    <3>2. PrunedRooms[c] # None /\ PrunedRooms[c].players[2] = None
      BY <2>1, <3>1, JoinedSlotFree
    <3>3. PrunedRooms[c] = rooms[c]
      BY <3>2 DEF PrunedRooms
    <3> QED BY <3>2, <3>3 DEF Connected
  <2>2. ASSUME NEW s \in Sockets, NEW d \in Codes,
               createRoom(s, d) \/ \E k \in Slots : resumeRoom(s, d, k)
        PROVE  FALSE
    BY <2>2 DEF createRoom, resumeRoom, Answers
  <2>3. ASSUME NEW s \in Sockets, createRoomExhausted(s) \/ disconnectSocket(s)
        PROVE  FALSE
    BY <2>3 DEF createRoomExhausted, disconnectSocket
  <2>4. ASSUME cleanupExpiredRooms \/ Restart \/ Tick PROVE FALSE
    BY <2>4 DEF cleanupExpiredRooms, Restart, Tick
  <2> QED BY <2>1, <2>2, <2>3, <2>4 DEF Next
<1> QED BY FreshInit, SeatInvCorrect, <1>1, <1>2, PTL DEF Spec, GuestNotReplaced

===============================================================================
