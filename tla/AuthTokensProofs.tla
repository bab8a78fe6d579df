---------------------------- MODULE AuthTokensProofs ----------------------------
(* Theorems about AuthTokens, for every value of its constants. *)
EXTENDS AuthTokens, FiniteSetTheorems, TLAPS

-------------------------------------------------------------------------------
(* What single writes do. *)

\* The row of a new token.
LEMMA RowType ==
  ASSUME NEW c \in Clients, NEW p \in Tokens \union {None}
  PROVE  Row(c, p) \in TokenType
  BY ConstantsAssumption DEF Row, TokenType

\* A client forgets its token or keeps it, and no other client is touched.
LEMMA ForgottenFacts ==
  ASSUME TypeOK, NEW c \in Clients, NEW t \in Tokens
  PROVE  /\ Forgotten(c, t) \in [Clients -> Tokens \union {None}]
         /\ \A d \in Clients : Forgotten(c, t)[d] = held[d] \/ Forgotten(c, t)[d] = None
         /\ \A d \in Clients : d # c => Forgotten(c, t)[d] = held[d]
         /\ Forgotten(c, t)[c] # t
  BY ConstantsAssumption DEF Forgotten, TypeOK

\* Revoking writes one field of one row.
LEMMA RevokedFacts ==
  ASSUME TypeOK, NEW t \in Tokens
  PROVE  /\ Revoked(t) \in [Tokens -> TokenType]
         /\ Revoked(t)[t].state = "revoked"
         /\ \A u \in Tokens : /\ u # t => Revoked(t)[u] = token[u]
                              /\ Revoked(t)[u].age = token[u].age
                              /\ Revoked(t)[u].client = token[u].client
                              /\ Revoked(t)[u].parent = token[u].parent
  BY DEF Revoked, TypeOK, TokenType

\* A row after a step of the cleanup or of the clock, which go through the
\* whole table: a cleaned row was stale, and otherwise only the age goes up.
Aged(t) ==
  /\ token'[t].client = token[t].client
  /\ token'[t].parent = token[t].parent
  /\ token'[t].age >= token[t].age
  /\ \/ token'[t].state = token[t].state
     \/ Stale(t) /\ token'[t].state = "removed"

LEMMA CleanupAges ==
  ASSUME TypeOK, removeExpiredOrRevokedTokens
  PROVE  token' \in [Tokens -> TokenType] /\ \A t \in Tokens : Aged(t)
<1>1. \A t \in Tokens : token[t] \in TokenType /\ token[t].age \in Nat
  BY ConstantsAssumption DEF TypeOK, TokenType
<1>2. token' = [t \in Tokens |-> IF Stale(t) THEN [token[t] EXCEPT !.state = "removed"]
                                 ELSE token[t]]
  BY DEF removeExpiredOrRevokedTokens
<1>3. ASSUME NEW t \in Tokens PROVE token'[t] \in TokenType /\ Aged(t)
  <2>1. CASE Stale(t)
    <3>1. token'[t] = [token[t] EXCEPT !.state = "removed"]
      BY <1>2, <2>1
    <3> QED BY <1>1, <2>1, <3>1 DEF Aged, TokenType
  <2>2. CASE ~Stale(t)
    BY <1>1, <1>2, <2>2 DEF Aged
  <2> QED BY <2>1, <2>2
<1> QED BY <1>2, <1>3

LEMMA TickAges ==
  ASSUME TypeOK, Tick
  PROVE  token' \in [Tokens -> TokenType] /\ \A t \in Tokens : Aged(t)
<1>1. \A t \in Tokens : token[t] \in TokenType /\ token[t].age \in Nat
  BY ConstantsAssumption DEF TypeOK, TokenType
<1>2. token' = [t \in Tokens |->
                  IF token[t].state = "valid" /\ token[t].age <= REFRESH_TOKEN_TTL
                  THEN [token[t] EXCEPT !.age = @ + 1] ELSE token[t]]
  BY DEF Tick
<1>3. ASSUME NEW t \in Tokens PROVE token'[t] \in TokenType /\ Aged(t)
  <2>1. CASE token[t].state = "valid" /\ token[t].age <= REFRESH_TOKEN_TTL
    <3>1. token'[t] = [token[t] EXCEPT !.age = @ + 1]
      BY <1>2, <2>1
    <3> QED BY <1>1, <2>1, <3>1, ConstantsAssumption DEF Aged, TokenType
  <2>2. CASE ~(token[t].state = "valid" /\ token[t].age <= REFRESH_TOKEN_TTL)
    BY <1>1, <1>2, <2>2 DEF Aged
  <2> QED BY <2>1, <2>2
<1> QED BY <1>2, <1>3

\* A row is added: the other rows stay, and the new one was referred to by
\* nothing.
LEMMA IssueFacts ==
  ASSUME TypeOK, NEW t \in Tokens, NEW c \in Clients, NEW p \in Tokens \union {None},
         token' = [token EXCEPT ![t] = Row(c, p)]
  PROVE  /\ token' \in [Tokens -> TokenType]
         /\ token'[t] = Row(c, p)
         /\ \A u \in Tokens : u # t => token'[u] = token[u]
  BY RowType DEF TypeOK

\* A request leaves: those still under way are as they were.
LEMMA RequestGone ==
  ASSUME TypeOK, NEW r \in Refreshes, refresh' = [refresh EXCEPT ![r] = Idle]
  PROVE  /\ refresh' \in [Refreshes -> RefreshType]
         /\ ~InFlight(r)'
         /\ \A q \in Refreshes : InFlight(q)' => q # r /\ refresh'[q] = refresh[q] /\ InFlight(q)
  BY DEF TypeOK, RefreshType, Idle, InFlight

-------------------------------------------------------------------------------
(* How often a token is exchanged. *)

\* The sets that are counted are finite, and so are they after a step.
LEMMA CountsFinite ==
  /\ IsFiniteSet(Tokens) /\ IsFiniteSet(Refreshes) /\ Cardinality(Refreshes) \in Nat
  /\ \A t \in Tokens :
       /\ IsFiniteSet(Successors(t)) /\ Cardinality(Successors(t)) \in Nat
       /\ IsFiniteSet(UnderWay(t)) /\ Cardinality(UnderWay(t)) \in Nat
       /\ IsFiniteSet(Successors(t)') /\ Cardinality(Successors(t)') \in Nat
       /\ IsFiniteSet(UnderWay(t)') /\ Cardinality(UnderWay(t)') \in Nat
<1>1. IsFiniteSet(Tokens) /\ IsFiniteSet(Refreshes)
  BY ConstantsAssumption, FS_Interval DEF Tokens
<1>2. ASSUME NEW S \in SUBSET Tokens PROVE IsFiniteSet(S) /\ Cardinality(S) \in Nat
  BY <1>1, <1>2, FS_Subset, FS_CardinalityType
<1>3. ASSUME NEW S \in SUBSET Refreshes PROVE IsFiniteSet(S) /\ Cardinality(S) \in Nat
  BY <1>1, <1>3, FS_Subset, FS_CardinalityType
<1> QED BY <1>1, <1>2, <1>3, FS_CardinalityType DEF Successors, UnderWay

\* A step after which nothing more counts for a token, and the client is the same.
LEMMA BoundKept ==
  ASSUME ExchangesBounded, NEW t \in Tokens,
         Successors(t)' \subseteq Successors(t),
         UnderWay(t)' \subseteq UnderWay(t),
         token'[t].client = token[t].client
  PROVE  Cardinality(Successors(t)') + Cardinality(UnderWay(t)') <= Allowed(t)'
<1>1. Cardinality(Successors(t)') <= Cardinality(Successors(t))
  BY CountsFinite, FS_Subset
<1>2. Cardinality(UnderWay(t)') <= Cardinality(UnderWay(t))
  BY CountsFinite, FS_Subset
<1>3. Allowed(t)' = Allowed(t) /\ Allowed(t) \in Nat
  BY CountsFinite DEF Allowed
<1>4. Cardinality(Successors(t)) + Cardinality(UnderWay(t)) <= Allowed(t)
  BY DEF ExchangesBounded
<1> QED BY <1>1, <1>2, <1>3, <1>4, CountsFinite

\* An exchange: one more successor, one request less.
LEMMA BoundMoved ==
  ASSUME ExchangesBounded, NEW t \in Tokens, NEW u, NEW r \in UnderWay(t),
         Successors(t)' \subseteq Successors(t) \union {u},
         UnderWay(t)' \subseteq UnderWay(t) \ {r},
         token'[t].client = token[t].client
  PROVE  Cardinality(Successors(t)') + Cardinality(UnderWay(t)') <= Allowed(t)'
<1>1. /\ IsFiniteSet(Successors(t) \union {u})
      /\ Cardinality(Successors(t) \union {u}) \in Nat
      /\ Cardinality(Successors(t) \union {u}) <= Cardinality(Successors(t)) + 1
  <2>1. IsFiniteSet(Successors(t)) /\ Cardinality(Successors(t)) \in Nat
    BY CountsFinite
  <2>2. /\ IsFiniteSet(Successors(t) \union {u})
        /\ \/ Cardinality(Successors(t) \union {u}) = Cardinality(Successors(t))
           \/ Cardinality(Successors(t) \union {u}) = Cardinality(Successors(t)) + 1
    BY <2>1, FS_AddElement
  <2> QED BY ONLY <2>1, <2>2
<1>2. /\ IsFiniteSet(UnderWay(t) \ {r})
      /\ Cardinality(UnderWay(t) \ {r}) = Cardinality(UnderWay(t)) - 1
  BY CountsFinite, FS_RemoveElement
<1>3. Cardinality(Successors(t)') <= Cardinality(Successors(t) \union {u})
  BY <1>1, FS_Subset
<1>4. Cardinality(UnderWay(t)') <= Cardinality(UnderWay(t) \ {r})
  BY <1>2, FS_Subset
<1>5. Allowed(t)' = Allowed(t) /\ Allowed(t) \in Nat
  BY CountsFinite DEF Allowed
<1>6. Cardinality(Successors(t)) + Cardinality(UnderWay(t)) <= Allowed(t)
  BY DEF ExchangesBounded
<1> QED BY <1>1, <1>2, <1>3, <1>4, <1>5, <1>6, CountsFinite

\* What nobody exchanges counts for nothing.
LEMMA BoundEmpty ==
  ASSUME NEW t \in Tokens, Successors(t)' = {}, UnderWay(t)' = {}
  PROVE  Cardinality(Successors(t)') + Cardinality(UnderWay(t)') <= Allowed(t)'
BY CountsFinite, FS_EmptySet DEF Allowed

\* Most steps give no token a successor and no request a token.
LEMMA BoundStep ==
  ASSUME ExchangesBounded,
         \A t \in Tokens : /\ token'[t].parent = token[t].parent
                           /\ token'[t].client = token[t].client,
         \A r \in Refreshes : InFlight(r)' =>
           InFlight(r) /\ refresh'[r].token = refresh[r].token
  PROVE  ExchangesBounded'
<1>1. ASSUME NEW t \in Tokens
      PROVE  Successors(t)' \subseteq Successors(t) /\ UnderWay(t)' \subseteq UnderWay(t)
  BY DEF Successors, UnderWay
<1> QED BY <1>1, BoundKept DEF ExchangesBounded

-------------------------------------------------------------------------------
(* The invariant, action by action. *)

LEMMA InitSession == Init => SessionInv
<1> SUFFICES ASSUME Init PROVE SessionInv
  OBVIOUS
<1>1. \A r \in Refreshes : ~InFlight(r)
  BY DEF Init, InFlight, Idle
<1>2. TypeOK
  BY <1>1, ConstantsAssumption DEF Init, TypeOK, TokenType, RefreshType, Idle
<1>3. \A r \in Refreshes : refresh[r].pc # "revoked"
  BY DEF Init, Idle
<1>4. \A t \in Tokens : token[t].parent = None /\ ~Acceptable(t) /\ token[t].client = None
  BY DEF Init, Acceptable
<1>5. \A c \in Clients : held[c] = None
  BY DEF Init
<1>6. ExchangesBounded
  <2> SUFFICES ASSUME NEW t \in Tokens
               PROVE  Cardinality(Successors(t)) + Cardinality(UnderWay(t)) <= Allowed(t)
    BY DEF ExchangesBounded
  <2>1. Successors(t) = {} /\ UnderWay(t) = {}
    BY <1>1, <1>4, ConstantsAssumption DEF Successors, UnderWay
  <2>2. Allowed(t) \in Nat
    BY CountsFinite DEF Allowed
  <2> QED BY <2>1, <2>2, FS_EmptySet
<1> QED BY <1>1, <1>2, <1>3, <1>4, <1>5, <1>6, ConstantsAssumption
  DEF SessionInv, RevokedFirst, ExchangedTokenDead, OwnTokens, OneAtATime, SendsHeld,
      HeldGood, OnlyHeldGood

\* Steps that change no request, of a client with the token it may send:
\* the token is dead afterwards or was not good.  The client forgets it, or got
\* no answer.
LEMMA ForgetStep ==
  ASSUME SessionInv, NEW c \in Clients, NEW t \in Tokens,
         MayCall(c), MaySend(c, t),
         \/ token' = Revoked(t) /\ token[t].state = "valid"
         \/ token' = token,
         \/ held' = Forgotten(c, t) /\ failed' = failed
         \/ NoAnswer(c),
         ~Acceptable(t)',
         UNCHANGED refresh
  PROVE  SessionInv'
<1> USE DEF SessionInv
<1>0. /\ held' \in [Clients -> Tokens \union {None}]
      /\ failed \subseteq failed' /\ failed' \subseteq SerialClients
      /\ \A d \in Clients : held'[d] = held[d] \/ held'[d] = None
      /\ \A d \in Clients : d # c => held'[d] = held[d]
      /\ \A d \in SerialClients \ failed' :
           held'[d] = IF d = c THEN Forgotten(c, t)[d] ELSE held[d]
  BY ForgottenFacts, ConstantsAssumption DEF TypeOK, NoAnswer
<1>1. TypeOK'
  BY <1>0, RevokedFacts DEF TypeOK, InFlight
<1>2. \A u \in Tokens : /\ token'[u].client = token[u].client
                        /\ token'[u].parent = token[u].parent
                        /\ token'[u].age = token[u].age
                        /\ \/ token'[u].state = token[u].state
                           \/ token'[u].state = "revoked" /\ u = t /\ token[t].state = "valid"
  BY RevokedFacts
<1>3. RevokedFirst'
  <2>1. \A r \in Refreshes : refresh[r].pc = "revoked" => refresh[r].token \in Tokens
    BY DEF TypeOK, InFlight
  <2> QED BY <1>2, <2>1 DEF RevokedFirst
<1>4. ExchangedTokenDead'
  <2>1. \A u \in Tokens : token[u].parent # None => token[u].parent \in Tokens
    BY DEF TypeOK, TokenType
  <2> QED BY <1>2, <2>1 DEF ExchangedTokenDead
<1>5. OwnTokens'
  <2>1. \A r \in Refreshes : InFlight(r) => refresh[r].token \in Tokens
    BY DEF TypeOK
  <2>2. \A d \in Clients : held[d] # None => held[d] \in Tokens
    BY DEF TypeOK
  <2> QED BY <1>0, <1>2, <2>1, <2>2 DEF OwnTokens, InFlight
<1>6. OneAtATime' /\ ExchangesBounded'
  BY <1>2, BoundStep DEF OneAtATime, InFlight
<1>7. \A r \in Refreshes : InFlight(r) /\ refresh[r].client \in SerialClients =>
        refresh[r].client # c
  BY DEF MayCall
<1>8. SendsHeld'
  BY <1>0, <1>7, ConstantsAssumption DEF SendsHeld, InFlight
<1>9. \A u \in Tokens : Acceptable(u)' => Acceptable(u) /\ u # t
  BY <1>2 DEF Acceptable
<1>10. HeldGood'
  <2> SUFFICES ASSUME NEW d \in SerialClients \ failed', held'[d] # None, ~Exchanging(d)
               PROVE  Acceptable(held[d])' \/ token'[held'[d]].age >= REFRESH_TOKEN_TTL
    BY DEF HeldGood, Exchanging
  <2>1. d \in Clients /\ held'[d] = held[d] /\ held[d] \in Tokens
    BY <1>0, ConstantsAssumption DEF TypeOK
  <2>2. Acceptable(held[d]) \/ token[held[d]].age >= REFRESH_TOKEN_TTL
    BY <1>0, <2>1 DEF HeldGood
  <2>3. held[d] # t
    <3>1. CASE d = c
      BY <1>0, <2>1, <3>1, ForgottenFacts
    <3>2. CASE d # c
      BY <2>1, <3>2, ConstantsAssumption DEF OwnTokens, MaySend
    <3> QED BY <3>1, <3>2
  <2> QED BY <1>2, <2>1, <2>2, <2>3 DEF Acceptable
<1>11. OnlyHeldGood'
  <2> SUFFICES ASSUME NEW d \in SerialClients \ failed', NEW u \in Tokens,
                      token'[u].client = d, Acceptable(u)'
               PROVE  u = held'[d]
    BY DEF OnlyHeldGood
  <2>1. u = held[d] /\ u # t /\ d \in Clients
    BY <1>0, <1>2, <1>9, ConstantsAssumption DEF OnlyHeldGood
  <2>2. held'[d] = IF d = c /\ held[d] = t THEN None ELSE held[d]
    BY <1>0, <2>1 DEF Forgotten, TypeOK
  <2> QED BY <2>1, <2>2
<1> QED BY <1>1, <1>3, <1>4, <1>5, <1>6, <1>8, <1>10, <1>11

LEMMA RejectStep ==
  ASSUME SessionInv, NEW c \in Clients, NEW t \in Tokens, refreshReject(c, t)
  PROVE  SessionInv'
<1>1. ~Acceptable(t)'
  BY DEF refreshReject, Acceptable
<1> QED BY <1>1, ForgetStep DEF refreshReject

LEMMA LogoutStep ==
  ASSUME SessionInv, NEW c \in Clients, NEW t \in Tokens,
         logout(c, t) \/ logoutAnswerLost(c, t)
  PROVE  SessionInv'
<1>1. /\ MayCall(c) /\ MaySend(c, t) /\ token' = LoggedOut(t) /\ refresh' = refresh
      /\ \/ held' = Forgotten(c, t) /\ failed' = failed
         \/ NoAnswer(c)
  BY DEF logout, logoutAnswerLost
<1>2. ~Acceptable(t)'
  BY <1>1, RevokedFacts DEF LoggedOut, Acceptable, SessionInv
<1> QED BY <1>1, <1>2, ForgetStep DEF LoggedOut

\* A token not issued yet is known to nobody.
LEMMA UnissuedUnknown ==
  ASSUME SessionInv, NEW t \in Tokens, Unissued(t)
  PROVE  /\ \A c \in Clients : held[c] # t
         /\ \A r \in Refreshes : InFlight(r) => refresh[r].token # t
         /\ \A u \in Tokens : token[u].parent # t
         /\ token[t].client = None
<1> USE DEF SessionInv
<1>1. token[t].state = "unused" /\ token[t].client = None
  BY DEF Unissued, OwnTokens
<1>2. \A c \in Clients : held[c] # t
  BY <1>1, ConstantsAssumption DEF OwnTokens
<1>3. \A r \in Refreshes : InFlight(r) => refresh[r].token # t
  BY <1>1, ConstantsAssumption DEF OwnTokens, TypeOK
<1>4. \A u \in Tokens : token[u].parent # t
  BY <1>1, ConstantsAssumption DEF ExchangedTokenDead
<1> QED BY <1>1, <1>2, <1>3, <1>4

\* Client c gets token t in exchange for a dead one or for its password.  It
\* had no good token, and has no refresh under way afterwards.
LEMMA IssueStep ==
  ASSUME SessionInv, NEW c \in Clients, NEW t \in Tokens, Unissued(t),
         NEW p \in Tokens \union {None},
         p # None => token[p].state \in {"revoked", "removed"},
         token' = [token EXCEPT ![t] = Row(c, p)],
         \/ held' = Kept(c, t) /\ failed' = failed
         \/ NoAnswer(c),
         p # None => \E r \in UnderWay(p) : ~InFlight(r)',
         refresh' \in [Refreshes -> RefreshType],
         \A q \in Refreshes :
           /\ refresh'[q] = refresh[q] \/ refresh[q].client = c
           /\ InFlight(q)' => refresh'[q] = refresh[q] /\ InFlight(q),
         c \in SerialClients =>
           \A q \in Refreshes : InFlight(q)' => refresh'[q].client # c,
         c \in SerialClients \ failed =>
           \A u \in Tokens : token[u].client = c => ~Acceptable(u)
  PROVE  SessionInv'
<1> USE DEF SessionInv
<1>1. /\ token' \in [Tokens -> TokenType]
      /\ token'[t] = Row(c, p)
      /\ \A u \in Tokens : u # t => token'[u] = token[u]
  BY IssueFacts
<1>2. TypeOK'
  <2>1. held' \in [Clients -> Tokens \union {None}] /\ failed' \subseteq SerialClients
    BY DEF TypeOK, Kept, NoAnswer
  <2>2. \A q \in Refreshes : InFlight(q)' =>
          refresh'[q].client \in Clients /\ refresh'[q].token \in Tokens
    BY DEF TypeOK
  <2> QED BY <1>1, <2>1, <2>2 DEF TypeOK
<1>3. \A d \in Clients : held'[d] = held[d] \/ (d = c /\ held'[d] \in {t, None})
  BY DEF TypeOK, Kept, NoAnswer
<1>a. /\ failed \subseteq failed'
      /\ c \in SerialClients /\ c \notin failed' => held' = Kept(c, t)
  BY DEF NoAnswer
<1>4. \A q \in Refreshes : InFlight(q)' => refresh'[q].token \in Tokens /\ refresh'[q].token # t
  BY UnissuedUnknown DEF TypeOK
<1>5. RevokedFirst'
  <2> SUFFICES ASSUME NEW q \in Refreshes, refresh'[q].pc = "revoked"
               PROVE  token'[refresh'[q].token].state \in {"revoked", "removed"}
    BY DEF RevokedFirst
  <2>1. InFlight(q)'
    BY DEF InFlight
  <2> QED BY <1>1, <1>4, <2>1 DEF RevokedFirst
<1>6. ExchangedTokenDead'
  <2> SUFFICES ASSUME NEW u \in Tokens, token'[u].parent # None
               PROVE  token'[token'[u].parent].state \in {"revoked", "removed"}
    BY DEF ExchangedTokenDead
  <2>1. CASE u = t
    <3>1. token'[u].parent = p
      BY <1>1, <2>1 DEF Row
    <3>2. p \in Tokens /\ p # t
      BY <3>1 DEF Unissued
    <3> QED BY <1>1, <3>1, <3>2
  <2>2. CASE u # t
    <3>1. token[u].parent \in Tokens \ {t} /\ token'[u] = token[u]
      BY <1>1, <2>2, UnissuedUnknown DEF TypeOK, TokenType
    <3> QED BY <1>1, <3>1 DEF ExchangedTokenDead
  <2> QED BY <2>1, <2>2
<1>7. OwnTokens'
  <2>1. \A d \in Clients : held'[d] # None => token'[held'[d]].client = d
    <3> SUFFICES ASSUME NEW d \in Clients, held'[d] # None
                 PROVE  token'[held'[d]].client = d
      OBVIOUS
    <3>1. CASE d = c /\ held'[d] \in {t, None}
      BY <1>1, <3>1 DEF Row
    <3>2. CASE held'[d] = held[d]
      BY <1>1, <3>2, UnissuedUnknown DEF OwnTokens, TypeOK
    <3> QED BY <1>3, <3>1, <3>2
  <2>2. \A q \in Refreshes : InFlight(q)' => token'[refresh'[q].token].client = refresh'[q].client
    BY <1>1, <1>4 DEF OwnTokens
  <2>3. \A u \in Tokens : token'[u].state = "unused" => token'[u].client = None
    BY <1>1 DEF OwnTokens, Row
  <2> QED BY <2>1, <2>2, <2>3 DEF OwnTokens
<1>8. OneAtATime'
  BY DEF OneAtATime
<1>9. SendsHeld'
  <2> SUFFICES ASSUME NEW q \in Refreshes, InFlight(q)', refresh'[q].client \in SerialClients
               PROVE  held'[refresh'[q].client] = refresh'[q].token
    BY DEF SendsHeld
  <2>1. refresh'[q].client # c
    OBVIOUS
  <2> QED BY <1>3, <2>1, ConstantsAssumption DEF SendsHeld
<1>10. \A d \in Clients : d # c /\ Exchanging(d) => Exchanging(d)'
  BY DEF Exchanging
<1>11. \A u \in Tokens : u # t => Acceptable(u)' = Acceptable(u)
  BY <1>1 DEF Acceptable
<1>12. HeldGood'
  <2> SUFFICES ASSUME NEW d \in SerialClients, d \notin failed', held'[d] # None, ~Exchanging(d)'
               PROVE  (Acceptable(held[d]) \/ token[held[d]].age >= REFRESH_TOKEN_TTL)'
    BY DEF HeldGood
  <2>1. CASE d = c
    <3>1. held'[d] = t /\ token'[t].state = "valid" /\ token'[t].age = 0
      BY <1>a, <1>1, <2>1, ConstantsAssumption DEF Row, TypeOK, Kept
    <3> QED BY <3>1, ConstantsAssumption DEF Acceptable
  <2>2. CASE d # c
    <3>1. d \in Clients /\ d \notin failed /\ held'[d] = held[d] /\ held[d] \in Tokens
      BY <1>a, <1>3, <2>2, ConstantsAssumption DEF TypeOK
    <3>2. held[d] # t /\ ~Exchanging(d)
      BY <1>10, <2>2, <3>1, UnissuedUnknown
    <3>3. Acceptable(held[d]) \/ token[held[d]].age >= REFRESH_TOKEN_TTL
      BY <3>1, <3>2 DEF HeldGood
    <3> QED BY <1>1, <3>1, <3>2, <3>3 DEF Acceptable
  <2> QED BY <2>1, <2>2
<1>13. OnlyHeldGood'
  <2> SUFFICES ASSUME NEW d \in SerialClients, d \notin failed', NEW u \in Tokens,
                      token'[u].client = d, Acceptable(u)'
               PROVE  u = held'[d]
    BY DEF OnlyHeldGood
  <2>1. d \in Clients /\ d \notin failed
    BY <1>a, ConstantsAssumption
  <2>2. CASE u = t
    <3>1. d = c
      BY <1>1, <2>2 DEF Row
    <3> QED BY <1>a, <2>1, <2>2, <3>1 DEF TypeOK, Kept
  <2>3. CASE u # t
    <3>1. token[u].client = d /\ Acceptable(u) /\ d # c
      BY <1>1, <1>11, <2>1, <2>3
    <3> QED BY <1>3, <2>1, <3>1 DEF OnlyHeldGood
  <2> QED BY <2>2, <2>3
<1>14. ExchangesBounded'
  <2> SUFFICES ASSUME NEW u \in Tokens
               PROVE  Cardinality(Successors(u)') + Cardinality(UnderWay(u)') <= Allowed(u)'
    BY DEF ExchangesBounded
  <2>1. \A v \in Tokens : v # t => /\ token'[v].parent = token[v].parent
                                   /\ token'[v].client = token[v].client
    BY <1>1
  <2>2. token'[t].parent = p
    BY <1>1 DEF Row
  <2>3. UnderWay(u)' \subseteq UnderWay(u)
    BY DEF UnderWay
  <2>4. CASE u = t
    <3>1. UnderWay(t)' = {}
      BY <1>4 DEF UnderWay
    <3>2. p # t
      BY ConstantsAssumption DEF Unissued
    <3>3. Successors(t)' = {}
      BY <2>1, <2>2, <3>2, UnissuedUnknown DEF Successors
    <3> QED BY <2>4, <3>1, <3>3, BoundEmpty
  <2>5. CASE u # t /\ u = p
    <3>1. p \in Tokens /\ p # None
      BY <2>5, ConstantsAssumption
    <3>2. PICK r \in UnderWay(u) : ~InFlight(r)'
      BY <2>5, <3>1
    <3>3. Successors(u)' \subseteq Successors(u) \union {t}
      BY <2>1 DEF Successors
    <3>4. UnderWay(u)' \subseteq UnderWay(u) \ {r}
      BY <2>3, <3>2 DEF UnderWay
    <3> QED BY <2>1, <2>5, <3>2, <3>3, <3>4, BoundMoved
  <2>6. CASE u # t /\ u # p
    <3>1. Successors(u)' \subseteq Successors(u)
      BY <2>1, <2>2, <2>6 DEF Successors
    <3> QED BY <2>1, <2>3, <2>6, <3>1, BoundKept
  <2> QED BY <2>4, <2>5, <2>6
<1> QED BY <1>2, <1>5, <1>6, <1>7, <1>8, <1>9, <1>12, <1>13, <1>14

LEMMA LoginStep ==
  ASSUME SessionInv, NEW c \in Clients, NEW t \in Tokens,
         login(c, t) \/ loginAnswerLost(c, t)
  PROVE  SessionInv'
<1>0. /\ MayLogIn(c) /\ Unissued(t) /\ refresh' = refresh
      /\ token' = [token EXCEPT ![t] = Row(c, None)]
      /\ \/ held' = Kept(c, t) /\ failed' = failed
         \/ NoAnswer(c)
  BY DEF login, loginAnswerLost
<1>1. \A q \in Refreshes : InFlight(q)' = InFlight(q) /\ refresh'[q] = refresh[q]
  BY <1>0 DEF InFlight
<1>2. c \in SerialClients => \A q \in Refreshes : InFlight(q)' => refresh'[q].client # c
  BY <1>0, <1>1 DEF MayLogIn, MayCall
<1>3. c \in SerialClients \ failed =>
        \A u \in Tokens : token[u].client = c => ~Acceptable(u)
  BY <1>0, ConstantsAssumption DEF MayLogIn, SessionInv, OnlyHeldGood
<1>4. refresh' \in [Refreshes -> RefreshType]
  BY <1>0 DEF SessionInv, TypeOK
<1> QED BY <1>0, <1>1, <1>2, <1>3, <1>4, IssueStep

\* What holds when a refresh has revoked its token and issues the next.
LEMMA BeforeIssue ==
  ASSUME SessionInv, NEW r \in Refreshes, refresh[r].pc = "revoked",
         refresh' = [refresh EXCEPT ![r] = Idle]
  PROVE  LET c == refresh[r].client
             p == refresh[r].token
         IN /\ c \in Clients /\ p \in Tokens
            /\ token[p].state \in {"revoked", "removed"}
            /\ c \in SerialClients =>
                 \A q \in Refreshes : InFlight(q)' => refresh'[q].client # c
            /\ c \in SerialClients \ failed =>
                 \A u \in Tokens : token[u].client = c => ~Acceptable(u)
<1> USE DEF SessionInv
<1> DEFINE c == refresh[r].client
           p == refresh[r].token
<1>1. InFlight(r) /\ c \in Clients /\ p \in Tokens
  BY DEF InFlight, TypeOK
<1>2. token[p].state \in {"revoked", "removed"}
  BY DEF RevokedFirst
<1>3. ASSUME c \in SerialClients, NEW q \in Refreshes, InFlight(q)'
      PROVE  refresh'[q].client # c
  BY <1>1, <1>3, RequestGone DEF OneAtATime
<1>4. ASSUME c \in SerialClients \ failed, NEW u \in Tokens, token[u].client = c
      PROVE  ~Acceptable(u)
  <2>1. held[c] = p
    BY <1>1, <1>4 DEF SendsHeld
  <2>2. ~Acceptable(p)
    BY <1>2 DEF Acceptable
  <2> QED BY <1>4, <2>1, <2>2 DEF OnlyHeldGood
<1> QED BY <1>1, <1>2, <1>3, <1>4

LEMMA RefreshIssueStep ==
  ASSUME SessionInv, NEW r \in Refreshes, NEW t \in Tokens,
         refreshIssue(r, t) \/ refreshAnswerLost(r, t)
  PROVE  SessionInv'
<1>1. refresh[r].pc = "revoked" /\ refresh' = [refresh EXCEPT ![r] = Idle]
  BY DEF refreshIssue, refreshAnswerLost
<1>2. TypeOK
  BY DEF SessionInv
<1>3. /\ refresh' \in [Refreshes -> RefreshType]
      /\ \A q \in Refreshes :
           /\ refresh'[q] = refresh[q] \/ refresh[q].client = refresh[r].client
           /\ InFlight(q)' => refresh'[q] = refresh[q] /\ InFlight(q)
  <2>1. \A q \in Refreshes : refresh'[q] = refresh[q] \/ q = r
    BY <1>1, <1>2 DEF TypeOK
  <2> QED BY <1>1, <1>2, <2>1, RequestGone
<1>4. /\ Unissued(t)
      /\ token' = [token EXCEPT ![t] = Row(refresh[r].client, refresh[r].token)]
      /\ \/ held' = Kept(refresh[r].client, t) /\ failed' = failed
         \/ NoAnswer(refresh[r].client)
  BY DEF refreshIssue, refreshAnswerLost
<1>5. r \in UnderWay(refresh[r].token) /\ ~InFlight(r)'
  BY <1>1, <1>2, RequestGone DEF UnderWay, InFlight
<1> QED BY <1>1, <1>3, <1>4, <1>5, BeforeIssue, IssueStep

\* A refresh under way ends without a token, by an error or a failure.
LEMMA RefreshEndStep ==
  ASSUME SessionInv, NEW r \in Refreshes, refreshRevokeThrows(r) \/ refreshFails(r)
  PROVE  SessionInv'
<1> USE DEF SessionInv
<1>1. /\ refresh' = [refresh EXCEPT ![r] = Idle] /\ token' = token /\ held' = held
      /\ \/ failed' = failed /\ refresh[r].pc = "found"
         \/ failed' = failed \union (SerialClients \intersect {refresh[r].client})
  BY DEF refreshRevokeThrows, refreshFails, NoAnswer
<1>2. /\ refresh' \in [Refreshes -> RefreshType]
      /\ \A q \in Refreshes : InFlight(q)' => refresh'[q] = refresh[q] /\ InFlight(q)
  BY <1>1, RequestGone
<1>3. TypeOK'
  <2>1. \A q \in Refreshes : InFlight(q)' =>
          refresh'[q].client \in Clients /\ refresh'[q].token \in Tokens
    BY <1>2 DEF TypeOK
  <2>2. failed' \subseteq SerialClients
    BY <1>1 DEF TypeOK
  <2> QED BY <1>1, <1>2, <2>1, <2>2 DEF TypeOK
<1>4. RevokedFirst'
  <2>1. \A q \in Refreshes : refresh'[q].pc = "revoked" => refresh'[q] = refresh[q]
    BY <1>2 DEF InFlight
  <2> QED BY <1>1, <2>1 DEF RevokedFirst
<1>5. ExchangedTokenDead' /\ OwnTokens' /\ OneAtATime' /\ SendsHeld'
  BY <1>1, <1>2 DEF ExchangedTokenDead, OwnTokens, OneAtATime, SendsHeld
<1>8. ExchangesBounded'
  BY <1>1, <1>2, BoundStep
<1>6. HeldGood'
  <2> SUFFICES ASSUME NEW d \in SerialClients, d \notin failed', held'[d] # None, ~Exchanging(d)'
               PROVE  (Acceptable(held[d]) \/ token[held[d]].age >= REFRESH_TOKEN_TTL)'
    BY DEF HeldGood
  <2>1. ~Exchanging(d)
    <3> SUFFICES ASSUME NEW q \in Refreshes, refresh[q].pc = "revoked", refresh[q].client = d
                 PROVE  FALSE
      BY DEF Exchanging
    <3>1. CASE q = r
      BY <1>1, <3>1
    <3>2. CASE q # r
      BY <1>1, <3>2 DEF Exchanging, TypeOK
    <3> QED BY <3>1, <3>2
  <2>2. d \notin failed
    BY <1>1
  <2> QED BY <1>1, <2>1, <2>2 DEF HeldGood, Acceptable
<1>7. OnlyHeldGood'
  BY <1>1 DEF OnlyHeldGood, Acceptable
<1> QED BY <1>3, <1>4, <1>5, <1>6, <1>7, <1>8

LEMMA FindStep ==
  ASSUME SessionInv, NEW r \in Refreshes, NEW c \in Clients, NEW t \in Tokens,
         refreshFind(r, c, t)
  PROVE  SessionInv'
<1> USE DEF SessionInv
<1> DEFINE new == [pc |-> "found", client |-> c, token |-> t]
<1>1. /\ refresh' = [refresh EXCEPT ![r] = new]
      /\ token' = token /\ held' = held /\ failed' = failed
      /\ ~InFlight(r)
      /\ MaySend(c, t)
  BY DEF refreshFind, InFlight
<1>2. new \in RefreshType
  BY DEF RefreshType
<1>3. \A q \in Refreshes : refresh'[q] = IF q = r THEN new ELSE refresh[q]
  BY <1>1 DEF TypeOK
<1>4. TypeOK'
  <2>1. refresh' \in [Refreshes -> RefreshType]
    BY <1>1, <1>2 DEF TypeOK
  <2>2. \A q \in Refreshes : InFlight(q)' =>
          refresh'[q].client \in Clients /\ refresh'[q].token \in Tokens
    BY <1>3 DEF TypeOK, InFlight
  <2> QED BY <1>1, <2>1, <2>2 DEF TypeOK
<1>5. RevokedFirst' /\ ExchangedTokenDead'
  BY <1>1, <1>3 DEF RevokedFirst, ExchangedTokenDead
<1>6. OwnTokens'
  BY <1>1, <1>3 DEF OwnTokens, InFlight, MaySend
<1>7. c \in SerialClients => \A q \in Refreshes : InFlight(q) => refresh[q].client # c
  BY DEF refreshFind, MayCall
<1>8. OneAtATime'
  BY <1>3, <1>7 DEF OneAtATime, InFlight
<1>9. SendsHeld'
  BY <1>1, <1>3 DEF SendsHeld, InFlight, MaySend
<1>10. \A d \in Clients : Exchanging(d) => Exchanging(d)'
  <2>1. \A q \in Refreshes : refresh[q].pc = "revoked" => refresh'[q] = refresh[q]
    BY <1>1, <1>3 DEF InFlight
  <2> QED BY <2>1 DEF Exchanging
<1>11. HeldGood' /\ OnlyHeldGood'
  BY <1>1, <1>10, ConstantsAssumption DEF HeldGood, OnlyHeldGood, Acceptable
<1>12. ExchangesBounded'
  <2> SUFFICES ASSUME NEW u \in Tokens
               PROVE  Cardinality(Successors(u)') + Cardinality(UnderWay(u)') <= Allowed(u)'
    BY DEF ExchangesBounded
  <2>1. Successors(u)' = Successors(u)
    BY <1>1 DEF Successors
  <2>2. CASE u # t
    <3>1. UnderWay(u)' \subseteq UnderWay(u)
      BY <1>3, <2>2 DEF UnderWay, InFlight
    <3> QED BY <1>1, <2>1, <3>1, BoundKept
  <2>3. CASE u = t
    <3>1. Successors(t) = {}
      BY ConstantsAssumption DEF refreshFind, Acceptable, ExchangedTokenDead, Successors
    <3>2. Allowed(t)' = Allowed(t)
      BY <1>1 DEF Allowed
    <3>3. Cardinality(UnderWay(t)') <= Allowed(t)
      <4>1. CASE c \in SerialClients
        <5>1. \A q \in Refreshes : InFlight(q) => refresh[q].token # t
          BY <1>1, <1>7, <4>1 DEF OwnTokens, MaySend
        <5>2. UnderWay(t)' \subseteq {r}
          BY <1>3, <5>1 DEF UnderWay, InFlight
        <5>3. IsFiniteSet({r}) /\ Cardinality({r}) = 1
          BY FS_Singleton
        <5>4. Cardinality(UnderWay(t)') <= 1
          BY <5>2, <5>3, FS_Subset
        <5> QED BY <1>1, <4>1, <5>4 DEF Allowed, MaySend
      <4>2. CASE c \notin SerialClients
        <5>1. UnderWay(t)' \subseteq Refreshes
          BY DEF UnderWay
        <5>2. Cardinality(UnderWay(t)') <= Cardinality(Refreshes)
          BY <5>1, CountsFinite, FS_Subset
        <5> QED BY <1>1, <4>2, <5>2 DEF Allowed, MaySend
      <4> QED BY <4>1, <4>2
    <3>4. Cardinality(Successors(u)') = 0
      BY <2>1, <2>3, <3>1, FS_EmptySet
    <3>5. Cardinality(UnderWay(u)') \in Nat
      BY CountsFinite
    <3> QED BY <2>3, <3>2, <3>3, <3>4, <3>5
  <2> QED BY <2>2, <2>3
<1> QED BY <1>4, <1>5, <1>6, <1>8, <1>9, <1>11, <1>12

LEMMA RevokeStep ==
  ASSUME SessionInv, NEW r \in Refreshes, refreshRevoke(r)
  PROVE  SessionInv'
<1> USE DEF SessionInv
<1> DEFINE c == refresh[r].client
           t == refresh[r].token
<1>1. /\ c \in Clients /\ t \in Tokens /\ InFlight(r) /\ refresh[r].pc = "found"
      /\ token' = Revoked(t)
      /\ refresh' = [refresh EXCEPT ![r].pc = "revoked"]
      /\ held' = held /\ failed' = failed
      /\ HasRow(t)
  BY DEF refreshRevoke, InFlight, TypeOK
<1>2. \A q \in Refreshes :
        /\ refresh'[q].client = refresh[q].client
        /\ refresh'[q].token = refresh[q].token
        /\ refresh'[q].pc = IF q = r THEN "revoked" ELSE refresh[q].pc
  BY <1>1 DEF TypeOK, RefreshType
<1>3. \A q \in Refreshes : InFlight(q)' = InFlight(q)
  BY <1>1, <1>2 DEF InFlight
<1>4. \A u \in Tokens : /\ token'[u].client = token[u].client
                        /\ token'[u].parent = token[u].parent
                        /\ token'[u].age = token[u].age
                        /\ \/ token'[u].state = token[u].state
                           \/ token'[u].state = "revoked" /\ u = t
  BY <1>1, RevokedFacts
<1>5. token'[t].state = "revoked"
  BY <1>1, RevokedFacts
<1>6. TypeOK'
  <2>1. refresh' \in [Refreshes -> RefreshType]
    BY <1>1 DEF TypeOK, RefreshType
  <2>2. token' \in [Tokens -> TokenType]
    BY <1>1, RevokedFacts
  <2> QED BY <1>1, <1>2, <1>3, <2>1, <2>2 DEF TypeOK
<1>7. RevokedFirst'
  <2> SUFFICES ASSUME NEW q \in Refreshes, refresh'[q].pc = "revoked"
               PROVE  token'[refresh'[q].token].state \in {"revoked", "removed"}
    BY DEF RevokedFirst
  <2>1. CASE q = r
    BY <1>2, <1>5, <2>1
  <2>2. CASE q # r
    <3>1. refresh[q].pc = "revoked" /\ refresh[q].token \in Tokens
      BY <1>2, <2>2 DEF TypeOK, InFlight
    <3> QED BY <1>2, <1>4, <3>1 DEF RevokedFirst
  <2> QED BY <2>1, <2>2
<1>8. ExchangedTokenDead'
  <2>1. \A u \in Tokens : token[u].parent # None => token[u].parent \in Tokens
    BY DEF TypeOK, TokenType
  <2> QED BY <1>4, <2>1 DEF ExchangedTokenDead
<1>9. OwnTokens'
  <2>1. token[t].state # "unused"
    BY <1>1 DEF HasRow
  <2>2. \A d \in Clients : held[d] # None => held[d] \in Tokens
    BY DEF TypeOK
  <2>3. \A q \in Refreshes : InFlight(q) => refresh[q].token \in Tokens
    BY DEF TypeOK
  <2> QED BY <1>1, <1>2, <1>3, <1>4, <2>1, <2>2, <2>3 DEF OwnTokens
<1>10. OneAtATime' /\ SendsHeld'
  BY <1>1, <1>2, <1>3 DEF OneAtATime, SendsHeld
<1>11. HeldGood'
  <2> SUFFICES ASSUME NEW d \in SerialClients \ failed, held[d] # None, ~Exchanging(d)'
               PROVE  (Acceptable(held[d]) \/ token[held[d]].age >= REFRESH_TOKEN_TTL)'
    BY <1>1 DEF HeldGood
  <2>1. d \in Clients /\ held[d] \in Tokens /\ d # c
    BY <1>2, ConstantsAssumption DEF Exchanging, TypeOK
  <2>2. ~Exchanging(d)
    BY <1>2 DEF Exchanging
  <2>3. held[d] # t
    BY <1>1, <2>1 DEF OwnTokens
  <2> QED BY <1>1, <1>4, <2>1, <2>2, <2>3 DEF HeldGood, Acceptable
<1>12. OnlyHeldGood'
  BY <1>1, <1>4 DEF OnlyHeldGood, Acceptable
<1>13. ExchangesBounded'
  BY <1>2, <1>3, <1>4, BoundStep
<1> QED BY <1>6, <1>7, <1>8, <1>9, <1>10, <1>11, <1>12, <1>13

\* The cleanup and the clock.
LEMMA AgeStep ==
  ASSUME SessionInv, removeExpiredOrRevokedTokens \/ Tick
  PROVE  SessionInv'
<1> USE DEF SessionInv
<1>1. /\ token' \in [Tokens -> TokenType] /\ \A t \in Tokens : Aged(t)
      /\ held' = held /\ refresh' = refresh /\ failed' = failed
  BY CleanupAges, TickAges DEF removeExpiredOrRevokedTokens, Tick
<1>2. \A r \in Refreshes : InFlight(r)' = InFlight(r) /\ refresh'[r] = refresh[r]
  BY <1>1 DEF InFlight
<1>3. TypeOK'
  BY <1>1, <1>2 DEF TypeOK
<1>4. \A t \in Tokens : token[t].age \in Nat /\ token'[t].age \in Nat
  BY <1>1, ConstantsAssumption DEF TypeOK, TokenType
<1>5. RevokedFirst'
  <2>1. \A r \in Refreshes : refresh[r].pc = "revoked" => refresh[r].token \in Tokens
    BY DEF TypeOK, InFlight
  <2> QED BY <1>1, <2>1 DEF RevokedFirst, Aged
<1>6. ExchangedTokenDead'
  <2>1. \A u \in Tokens : token[u].parent # None => token[u].parent \in Tokens
    BY DEF TypeOK, TokenType
  <2> QED BY <1>1, <2>1 DEF ExchangedTokenDead, Aged
<1>7. OwnTokens'
  <2>1. \A d \in Clients : held[d] # None => held[d] \in Tokens
    BY DEF TypeOK
  <2>2. \A q \in Refreshes : InFlight(q) => refresh[q].token \in Tokens
    BY DEF TypeOK
  <2> QED BY <1>1, <1>2, <2>1, <2>2 DEF OwnTokens, Aged
<1>8. OneAtATime' /\ SendsHeld'
  BY <1>1, <1>2 DEF OneAtATime, SendsHeld
<1>11. ExchangesBounded'
  BY <1>1, <1>2, BoundStep DEF Aged
<1>9. HeldGood'
  <2> SUFFICES ASSUME NEW d \in SerialClients \ failed, held[d] # None, ~Exchanging(d)
               PROVE  (Acceptable(held[d]) \/ token[held[d]].age >= REFRESH_TOKEN_TTL)'
    BY <1>1 DEF HeldGood, Exchanging
  <2>1. held[d] \in Tokens
    BY ConstantsAssumption DEF TypeOK
  <2>2. Acceptable(held[d]) \/ token[held[d]].age >= REFRESH_TOKEN_TTL
    BY DEF HeldGood
  <2> QED BY <1>1, <1>4, <2>1, <2>2, ConstantsAssumption DEF Aged, Stale, HasRow, Acceptable
<1>10. OnlyHeldGood'
  <2>1. \A t \in Tokens : Acceptable(t)' => Acceptable(t)
    BY <1>1, <1>4, ConstantsAssumption DEF Acceptable, Aged
  <2> QED BY <1>1, <2>1 DEF OnlyHeldGood, Aged
<1> QED BY <1>3, <1>5, <1>6, <1>7, <1>8, <1>9, <1>10, <1>11

LEMMA SessionStep == SessionInv /\ [Next]_vars => SessionInv'
<1> SUFFICES ASSUME SessionInv, [Next]_vars PROVE SessionInv'
  OBVIOUS
<1>1. ASSUME NEW c \in Clients, NEW t \in Tokens, ClientStep(c, t) PROVE SessionInv'
  BY <1>1, LoginStep, LogoutStep, RejectStep, FindStep DEF ClientStep
<1>2. ASSUME NEW r \in Refreshes, RefreshStep(r) PROVE SessionInv'
  BY <1>2, RevokeStep, RefreshIssueStep, RefreshEndStep DEF RefreshStep
<1>3. CASE UNCHANGED vars
  BY <1>3 DEF vars, SessionInv, TypeOK, InFlight, RevokedFirst, ExchangedTokenDead,
     OwnTokens, OneAtATime, SendsHeld, Exchanging, HeldGood, OnlyHeldGood, Acceptable,
     ExchangesBounded, Successors, UnderWay, Allowed
<1> QED BY <1>1, <1>2, <1>3, AgeStep DEF Next

-------------------------------------------------------------------------------
(* The theorems. *)

\* Whatever the clients, the cleanup and the clock do in between, a client's
\* tokens are touched by its own requests and by the cleanup of dead rows alone.
THEOREM SessionInvCorrect == Spec => []SessionInv
<1>1. SessionInv /\ [Next]_vars => SessionInv'
  BY SessionStep
<1> QED BY <1>1, InitSession, PTL DEF Spec

\* Every variable has its type, and a request under way has its client and token.
THEOREM TokenTypeCorrect == Spec => []TypeOK
<1>1. SessionInv => TypeOK
  BY DEF SessionInv
<1> QED BY <1>1, SessionInvCorrect, PTL

\* A token that was exchanged is not found again by a later refresh (refresh()
\* revokes before issueTokenPair), for careless clients and after failures too.
THEOREM ExchangedTokenDeadCorrect == Spec => []ExchangedTokenDead
<1>1. SessionInv => ExchangedTokenDead
  BY DEF SessionInv
<1> QED BY <1>1, SessionInvCorrect, PTL

\* Refreshes in flight together may exchange one token several times, but no
\* more often than there are; a client that awaits each answer exchanges it once.
THEOREM ExchangesBoundedCorrect == Spec => []ExchangesBounded
<1>1. SessionInv => ExchangesBounded
  BY DEF SessionInv
<1> QED BY <1>1, SessionInvCorrect, PTL

\* A careful client's token is good until it expires.
THEOREM HeldTokenGoodCorrect == Spec => []HeldTokenGood
<1>1. SessionInv => HeldTokenGood
  <2> SUFFICES ASSUME SessionInv, NEW c \in Clients, Settled(c), held[c] # None
               PROVE  Acceptable(held[c]) \/ token[held[c]].age >= REFRESH_TOKEN_TTL
    BY DEF HeldTokenGood
  <2>1. c \in SerialClients \ failed /\ ~Exchanging(c)
    BY DEF Settled, Exchanging, InFlight
  <2> QED BY <2>1 DEF SessionInv, HeldGood
<1> QED BY <1>1, SessionInvCorrect, PTL

\* No other token than the one a careful client keeps opens its session.
THEOREM OnlyHeldTokenGoodCorrect == Spec => []OnlyHeldTokenGood
<1>1. SessionInv => OnlyHeldTokenGood
  BY DEF SessionInv, OnlyHeldGood, OnlyHeldTokenGood, Settled
<1> QED BY <1>1, SessionInvCorrect, PTL
===============================================================================
