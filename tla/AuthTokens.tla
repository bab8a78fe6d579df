------------------------------ MODULE AuthTokens ------------------------------
(***************************************************************************)
(* Refresh tokens: login, refresh with rotation, logout and the daily      *)
(* cleanup (src/src/auth/auth.service.ts and                               *)
(* src/src/auth/refresh-token-cleanup.service.ts).                         *)
(*                                                                         *)
(* refresh() is three statements of the database, each an action; the      *)
(* other operations write in one statement.  A token is known by the order *)
(* of its issue: it is 64 random bytes, and its hash selects one row.      *)
(* Access tokens are stateless and read no row: they are not modelled.     *)
(***************************************************************************)
EXTENDS Naturals, FiniteSets

CONSTANTS
  Clients,        \* devices: each has one login at a time
  Refreshes,      \* what bounds the requests POST /auth/refresh in flight at once
  None,           \* the absent token or client
  MaxTokens,      \* bound of the tokens ever issued
  REFRESH_TOKEN_TTL,
  SerialClients,  \* the clients that await each answer before they call again
  Faults          \* TRUE: requests may die underway and answers may be lost

Tokens == 1..MaxTokens

ASSUME ConstantsAssumption ==
  /\ MaxTokens \in Nat
  /\ REFRESH_TOKEN_TTL \in Nat
  /\ IsFiniteSet(Refreshes)
  /\ SerialClients \subseteq Clients
  /\ Faults \in BOOLEAN
  /\ None \notin Tokens /\ None \notin Clients

VARIABLES
  token,    \* the table RefreshToken, with the tokens not issued yet
  held,     \* the refresh token a careful client keeps, or None
  refresh,  \* the refresh requests in flight; an answered one makes room
  failed    \* history: careful clients that got no answer to some request

vars == <<token, held, refresh, failed>>

\* age is the time since the issue while the token is valid, up to the first
\* moment after expiresAt.  client and parent, the token this one was exchanged
\* for, stay known after the row is gone.
TokenType == [state : {"unused", "valid", "revoked", "removed"},
              age : 0..(REFRESH_TOKEN_TTL + 1),
              client : Clients \union {None},
              parent : Tokens \union {None}]

RefreshType == [pc : {"idle", "found", "revoked"},
                client : Clients \union {None},
                token : Tokens \union {None}]

InFlight(r) == refresh[r].pc # "idle"
Idle == [pc |-> "idle", client |-> None, token |-> None]
HasRow(t) == token[t].state \in {"valid", "revoked"}

\* Shapes, and a request past its first statement has its client and token.
TypeOK ==
  /\ token \in [Tokens -> TokenType]
  /\ held \in [Clients -> Tokens \union {None}]
  /\ refresh \in [Refreshes -> RefreshType]
  /\ failed \subseteq SerialClients
  /\ \A r \in Refreshes : InFlight(r) =>
       refresh[r].client \in Clients /\ refresh[r].token \in Tokens

-------------------------------------------------------------------------------
(* Clients *)

MayCall(c) ==
  c \in SerialClients =>
    \A r \in Refreshes : InFlight(r) => refresh[r].client # c

\* A careful client sends the token it keeps; another tab may send an older one.
MaySend(c, t) == /\ token[t].client = c
                 /\ c \in SerialClients => held[c] = t

\* A careful client asks for the password when it keeps no token.
MayLogIn(c) == MayCall(c) /\ (c \in SerialClients => held[c] = None)

\* The client keeps the token it was answered with; what a careless one does
\* with its tokens is not followed.
Kept(c, t) == [held EXCEPT ![c] = IF c \in SerialClients THEN t ELSE None]

\* The client gets no answer and keeps what it has.
NoAnswer(c) == /\ failed' = failed \union (SerialClients \intersect {c})
               /\ UNCHANGED held

\* The client forgets a token that was refused or logged out.
Forgotten(c, t) == [held EXCEPT ![c] = IF @ = t THEN None ELSE @]

-------------------------------------------------------------------------------
(* The actions *)

Init ==
  /\ token = [t \in Tokens |-> [state |-> "unused", age |-> 0,
                                client |-> None, parent |-> None]]
  /\ held = [c \in Clients |-> None]
  /\ refresh = [r \in Refreshes |-> Idle]
  /\ failed = {}

Unissued(t) == /\ token[t].state = "unused"
               /\ \A u \in 1..(t - 1) : token[u].state # "unused"

\* The row issueTokenPair inserts for client c, in exchange for token p.
Row(c, p) == [state |-> "valid", age |-> 0, client |-> c, parent |-> p]

login(c, t) ==
  /\ MayLogIn(c)
  /\ Unissued(t)
  /\ token' = [token EXCEPT ![t] = Row(c, None)]
  /\ held' = Kept(c, t)
  /\ UNCHANGED <<refresh, failed>>

\* The same, but the answer does not reach the client.
loginAnswerLost(c, t) ==
  /\ Faults
  /\ MayLogIn(c)
  /\ Unissued(t)
  /\ token' = [token EXCEPT ![t] = Row(c, None)]
  /\ NoAnswer(c)
  /\ UNCHANGED refresh

\* Mutant: revoked: false is left out of the query.
AcceptableRevoked(t) == HasRow(t) /\ token[t].age < REFRESH_TOKEN_TTL

\* The condition of findFirst.
Acceptable(t) == token[t].state = "valid" /\ token[t].age < REFRESH_TOKEN_TTL

refreshFind(r, c, t) ==
  /\ refresh[r].pc = "idle"
  /\ MayCall(c)
  /\ MaySend(c, t)
  /\ Acceptable(t)
  /\ refresh' = [refresh EXCEPT ![r] =
                   [pc |-> "found", client |-> c, token |-> t]]
  /\ UNCHANGED <<token, held, failed>>

\* 401: the client is to log in again.
refreshReject(c, t) ==
  /\ MayCall(c)
  /\ MaySend(c, t)
  /\ ~Acceptable(t)
  /\ held' = Forgotten(c, t)
  /\ UNCHANGED <<token, refresh, failed>>

\* Mutant: the row is left as it is.
RevokedNot(t) == token

Revoked(t) == [token EXCEPT ![t].state = "revoked"]

\* The update names the row by its id alone: it may be revoked already.
refreshRevoke(r) ==
  /\ refresh[r].pc = "found"
  /\ HasRow(refresh[r].token)
  /\ token' = Revoked(refresh[r].token)
  /\ refresh' = [refresh EXCEPT ![r].pc = "revoked"]
  /\ UNCHANGED <<held, failed>>

\* The cleanup took the row in between: the update throws, nothing is issued.
refreshRevokeThrows(r) ==
  /\ refresh[r].pc = "found"
  /\ ~HasRow(refresh[r].token)
  /\ refresh' = [refresh EXCEPT ![r] = Idle]
  /\ UNCHANGED <<token, held, failed>>

refreshIssue(r, t) ==
  /\ refresh[r].pc = "revoked"
  /\ Unissued(t)
  /\ token' = [token EXCEPT ![t] = Row(refresh[r].client, refresh[r].token)]
  /\ held' = Kept(refresh[r].client, t)
  /\ refresh' = [refresh EXCEPT ![r] = Idle]
  /\ UNCHANGED failed

\* The same, but the answer does not reach the client.
refreshAnswerLost(r, t) ==
  /\ Faults
  /\ refresh[r].pc = "revoked"
  /\ Unissued(t)
  /\ token' = [token EXCEPT ![t] = Row(refresh[r].client, refresh[r].token)]
  /\ refresh' = [refresh EXCEPT ![r] = Idle]
  /\ NoAnswer(refresh[r].client)

\* A statement fails or the process dies: the steps already taken stay.
refreshFails(r) ==
  /\ Faults
  /\ InFlight(r)
  /\ refresh' = [refresh EXCEPT ![r] = Idle]
  /\ NoAnswer(refresh[r].client)
  /\ UNCHANGED token

\* One conditional updateMany, which may match no row.
LoggedOut(t) == IF token[t].state = "valid" THEN Revoked(t) ELSE token

logout(c, t) ==
  /\ MayCall(c)
  /\ MaySend(c, t)
  /\ token' = LoggedOut(t)
  /\ held' = Forgotten(c, t)
  /\ UNCHANGED <<refresh, failed>>

\* The same, but the answer does not reach the client.
logoutAnswerLost(c, t) ==
  /\ Faults
  /\ MayCall(c)
  /\ MaySend(c, t)
  /\ token' = LoggedOut(t)
  /\ NoAnswer(c)
  /\ UNCHANGED refresh

\* Mutant: expired rows are forgotten.
StaleRevokedOnly(t) == token[t].state = "revoked"

\* Mutant: the comparison with the clock is turned round.
StaleSwapped(t) ==
  HasRow(t) /\ (token[t].age < REFRESH_TOKEN_TTL \/ token[t].state = "revoked")

\* The condition of the daily deleteMany.
Stale(t) ==
  HasRow(t) /\ (token[t].age > REFRESH_TOKEN_TTL \/ token[t].state = "revoked")

removeExpiredOrRevokedTokens ==
  /\ token' = [t \in Tokens |-> IF Stale(t) THEN [token[t] EXCEPT !.state = "removed"]
                                ELSE token[t]]
  /\ UNCHANGED <<held, refresh, failed>>

Tick ==
  /\ token' = [t \in Tokens |->
                 IF token[t].state = "valid" /\ token[t].age <= REFRESH_TOKEN_TTL
                 THEN [token[t] EXCEPT !.age = @ + 1] ELSE token[t]]
  /\ UNCHANGED <<held, refresh, failed>>

ClientStep(c, t) ==
  \/ login(c, t)
  \/ loginAnswerLost(c, t)
  \/ logout(c, t)
  \/ logoutAnswerLost(c, t)
  \/ refreshReject(c, t)
  \/ \E r \in Refreshes : refreshFind(r, c, t)

RefreshStep(r) ==
  \/ refreshRevoke(r)
  \/ refreshRevokeThrows(r)
  \/ \E t \in Tokens : refreshIssue(r, t) \/ refreshAnswerLost(r, t)
  \/ refreshFails(r)

Next ==
  \/ \E c \in Clients, t \in Tokens : ClientStep(c, t)
  \/ \E r \in Refreshes : RefreshStep(r)
  \/ removeExpiredOrRevokedTokens
  \/ Tick

Spec == Init /\ [][Next]_vars

\* Time passes and the cron job fires.
FairSpec == Spec /\ WF_vars(Tick) /\ WF_vars(removeExpiredOrRevokedTokens)

-------------------------------------------------------------------------------
(* Properties *)

Successors(t) == {u \in Tokens : token[u].parent = t}
UnderWay(t) == {r \in Refreshes : InFlight(r) /\ refresh[r].token = t}
Allowed(t) == IF token[t].client \in SerialClients THEN 1 ELSE Cardinality(Refreshes)

\* A token is exchanged no more often than requests can be in flight at once:
\* all of these may find its row before one of them revokes it, but no retry that
\* comes later adds another exchange.  The token of a client that awaits each
\* answer is exchanged once, also when the answer was lost and the client retries.
ExchangesBounded ==
  \A t \in Tokens : Cardinality(Successors(t)) + Cardinality(UnderWay(t)) <= Allowed(t)

\* A careful client all of whose requests were answered, and no refresh under way.
Settled(c) ==
  /\ c \in SerialClients \ failed
  /\ \A r \in Refreshes : InFlight(r) => refresh[r].client # c

\* Such a client is not thrown out early: the token it keeps is good until it
\* expires, whatever the cleanup and the other clients do.
HeldTokenGood ==
  \A c \in Clients : Settled(c) /\ held[c] # None =>
    Acceptable(held[c]) \/ token[held[c]].age >= REFRESH_TOKEN_TTL

\* And no other token opens its session: one token at a time, none after its
\* logout.
OnlyHeldTokenGood ==
  \A c \in Clients, t \in Tokens :
    Settled(c) /\ token[t].client = c /\ Acceptable(t) => t = held[c]

\* No row stays in the table for ever.
RowsRemoved == \A t \in Tokens : HasRow(t) ~> ~HasRow(t)

-------------------------------------------------------------------------------
(* The inductive invariant behind the safety properties: nobody but a          *)
(* client's own requests touches its tokens, and it has one request at a time. *)

\* A refresh about to issue has its token revoked.
RevokedFirst ==
  \A r \in Refreshes : refresh[r].pc = "revoked" =>
    token[refresh[r].token].state \in {"revoked", "removed"}

\* A token that was exchanged is found by no later refresh: it is revoked before
\* the next one is issued.
ExchangedTokenDead ==
  \A t \in Tokens : token[t].parent # None =>
    token[token[t].parent].state \in {"revoked", "removed"}

OwnTokens ==
  /\ \A c \in Clients : held[c] # None => token[held[c]].client = c
  /\ \A r \in Refreshes : InFlight(r) =>
       token[refresh[r].token].client = refresh[r].client
  /\ \A t \in Tokens : token[t].state = "unused" => token[t].client = None

OneAtATime ==
  \A r, q \in Refreshes :
    /\ InFlight(r) /\ InFlight(q)
    /\ refresh[r].client = refresh[q].client
    /\ refresh[r].client \in SerialClients
    => r = q

SendsHeld ==
  \A r \in Refreshes : InFlight(r) /\ refresh[r].client \in SerialClients =>
    held[refresh[r].client] = refresh[r].token

Exchanging(c) ==
  \E r \in Refreshes : refresh[r].pc = "revoked" /\ refresh[r].client = c

\* HeldTokenGood and OnlyHeldTokenGood, also while a refresh is under way.
HeldGood ==
  \A c \in SerialClients \ failed : held[c] # None /\ ~Exchanging(c) =>
    Acceptable(held[c]) \/ token[held[c]].age >= REFRESH_TOKEN_TTL

OnlyHeldGood ==
  \A c \in SerialClients \ failed, t \in Tokens :
    token[t].client = c /\ Acceptable(t) => t = held[c]

SessionInv ==
  /\ TypeOK
  /\ RevokedFirst
  /\ ExchangedTokenDead
  /\ OwnTokens
  /\ OneAtATime
  /\ ExchangesBounded
  /\ SendsHeld
  /\ HeldGood
  /\ OnlyHeldGood
===============================================================================
