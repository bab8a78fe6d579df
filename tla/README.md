# varelion-api in TLA+

Specifications of the server of the game in this repository: a NestJS API on
PostgreSQL (accounts, saves, idle rewards, battle sessions, runs, leaderboard)
and the Socket.IO room service of *Emberhold: The Last Gate*. The modules are
checked with TLC on small instances, and the main invariants are proved with
TLAPS for every value of the constants.

Paths below are relative to the repository; its code is under `src/`, its
documents under `docs/` and in `BACKEND_DESIGN.md`.

## 1. The system

| Component (source) | State | Operations | Works with |
|---|---|---|---|
| battle sessions (`battle-sessions.service.ts`) | `BattleSession`, `BattleEvent` | `create`, `recordEvent`, `reconcile` | runs calls `reconcile` |
| runs (`runs.service.ts`) | `Run` | `create` | battle sessions; read by the leaderboard |
| saves (`saves.service.ts`) | `GameSave` | `getMine`, `putMine` | shares the row with idle rewards |
| idle rewards (`idle-rewards.service.ts`) | `GameSave` | `claim` | shares the row with saves |
| meta levels (`meta-level-reached.ts`) | `MetaLevelReached` | `recordMetaLevels` | called by saves and by idle rewards |
| last gate rooms (`last-gate-room.service.ts`) | two maps in memory | create, join, resume, disconnect, sweep | called by the gateway |
| last gate gateway (`last-gate.gateway.ts`) | rate windows, Socket.IO rooms | handlers of socket events, input relay | calls the rooms; Socket.IO relays by its own rooms |
| auth (`auth.service.ts`) | `User`, `RefreshToken` | register, login, refresh, logout | shares the table with the cleanup |
| refresh token cleanup (`refresh-token-cleanup.service.ts`) | `RefreshToken` | daily delete | auth |
| leaderboard (`leaderboard.service.ts`) | none | ranking queries | reads `Run`, `MetaLevelReached` |
| level curve (`game-balance.ts`) | none | XP per level, rates | saves, idle rewards |
| users, prisma, bootstrap, common | none of their own | one read, wiring, logging | |

Components meet in the database. A handler is a chain of awaits; between two of
them any other handler may run, there are no locks in the process, and only
`claim` uses a transaction. So nearly everything that is hard here is one
pattern: a row is read, another request writes, the first acts on what it read.
The code has three answers to it, and the modules ask whether they are enough:

* a conditional update that one request wins (`reconcile` closes a session with
  `updateMany where status = active`);
* an optimistic lock (`putMine` updates `where version = dto.version`);
* an order of statements that leaves a harmless state behind when the process
  dies (`refresh` revokes before it issues, `putMine` writes the save before the
  levels).

The room service is different: its operations are synchronous, so no two
interleave. It is hard because two maps are written separately, because a
socket that already sits in a room leaves it halfway through its next
operation, and because connections disappear and come back under another id.
The gateway in front of it awaits again: who is in a room is kept a second time
by Socket.IO, and the two are brought together over several awaits.

What makes each component correct:

* battle sessions and runs: one run per session; a run counts for the
  leaderboard only if the log of its own closed session explains it, and does
  count when it is explained; runs of a user are spaced by their survival time;
  a closed session takes no event; a closed session gets its run.
* saves, idle rewards, meta levels: equal versions are equal saves; every
  accepted PUT is a plausible step from the row it replaces; a 409 brings a newer
  save; idle time is paid once; a claim takes no progress away; levels are
  recorded, in the order they were reached.
* rooms: a connected player and the membership of its socket agree; no seat is
  held by a connection that is gone; no room is empty; rooms of two survive until
  both players have been away for the TTL; abandoned rooms are swept; nobody is
  seated over somebody else; who is answered with a session has a seat.
* gateway: once its handlers are through, a member is in the Socket.IO room of
  its membership and in no other; a frame reaches the peer; nobody joins
  unannounced; a rate window admits what it says and outlives no connection.
* leaderboard: the list and the own rank tell one story; a place is lost to the
  progress of another only.
* auth: a token is exchanged once by a client that awaits each answer, and no more
  often than requests are in flight at once by any other; the client's token is good
  until it expires; no other token of the login is; no row stays for ever.

## 2. The modules

Each component has a module with its specification and properties, an `MC`
module with the values of a small instance, and a `Proofs` module with the
theorems (`SaveSync` has two: `SaveSyncSerialProofs` extends `SaveSyncProofs`). Mutated forms of some definitions (`\* Mutant: ...`) stand next to the
originals and are used by no action: replacing the original by one of them makes
a property fail, which shows that the property says something about the code.

### BattleRuns: battle sessions and runs

A request is a small process whose program counter names the await it stands
at. Its record keeps what the handler read (`last`, `reason`), however stale.

| Action | Code |
|---|---|
| `CreateSession` | `BattleSessionsService.create` |
| `RecordEventFind`, `RecordEventInsert` | the two statements of `recordEvent` |
| `RejectRate`, `SubmitRun` | `RunsService.create` up to its first await: rate check, latest run |
| `RejectTooSoon` | the interval check that follows |
| `Finalize` / `NoSession` | `reconcile`'s conditional `updateMany`, which matches or does not |
| `Reconcile` | `findMany` of the events and the verdict |
| `CreateRun` | `run.create` |
| `EventFails`, `RunFails` | a statement fails or the process dies; what was written stays |

The event rows are kept as the totals `reconcile` derives from them (sums of
kills and gold, highest level). Columns no check reads are left out. `floor` is
a history field: the totals when the submission came in. So is the way a request
ends: `abandoned` if it died between the `updateMany` it won and its insert,
`failed` if it died anywhere else.

### SessionLedger: what BattleRuns promises

The abstract specification of the same component, without requests, statements
or logs: a session is opened by its owner and closed once, and a book of runs in
which a closed session is entered at most once, under its owner. The mapping is
`session` to itself and the rows of `Run` to the book, without their payload.
`Finalize` is `Close`, `CreateRun` is `Enter` or `EnterUnlinked`, and every other
action, failures included, is a stutter. That `Enter` is allowed when a
submission gets to its insert, two awaits after it closed the session, is what
the refinement adds to `OneRunPerSession`.

### SaveSync: saves, idle rewards, meta levels

One account, since every query names the user. `putMine` is an action per
statement (`PutRead`, `PutCreate`/`PutCreateClash`, `PutUpdate`/`PutUpdateMisses`,
`PutReread`, `PutRecordLevel` for each upsert) with the validation and
plausibility checks as guards of `PutInvalid`, `PutImplausible` and `PutUpdate`.
`claim` takes its time before the transaction (`ClaimStart`), reads
(`ClaimRead`), and updates and records levels (`ClaimCommit`, one action: the
update holds the row's lock up to the commit, and a failure rolls all of it
back). The XP curve is a constant (`TotalXp`, increasing), the rewards are
constant operators (`IdleGold`, `IdleXp`) with values in `Nat`. `born` and `paid`
are history variables.

### LastGateRooms: the room service

`rooms` and `socketMemberships` are the two maps of the service, `sockets` says
what became of each connection, `answer` is the session the last step answered
with. One action per public method, each with the prune that opens it:
`createRoom`, `createRoomExhausted` (no free code, after the socket has left its
room), `joinRoom`, `resumeRoom`, `disconnectSocket`, `cleanupExpiredRooms` (also
the refused calls and the reads, which prune and do nothing else), and `Restart`.
The effect of `leaveSocket` on the rooms is `LeftRooms`. When a socket leaves the
very room it is joining, the code writes on into an object that is out of the
map; so does the model. Times are ages in minutes up to the TTL they are compared
with. A reconnect token is named by its player. `app.module.ts` leaves the module
of the rooms out at this commit; the service is there with its tests and its
document.

### LastGateGateway: the rooms behind Socket.IO

Extends `LastGateRooms`, whose actions it runs unchanged. `ioRooms` is what
Socket.IO knows of each socket, `handling` the room operations that wait at an
await of `handleRoomOperation`, `seen` the slots the last `room:state` showed a
socket.

| Action | Code |
|---|---|
| `roomOperation` | the service's operation and the loop up to its first await |
| `roomOperationThrows` | `createRoom` throws after the socket has left: no Socket.IO room changes |
| `leaveResumed` | one more turn of the loop over `client.rooms`, or the join after it |
| `joinResumed` | `getSnapshot`, which prunes, and `room:state` to the Socket.IO room |
| `handleDisconnect` | `disconnectSocket`, and Socket.IO takes the socket out of its rooms |
| `GatewayRestart` | a restart: no handler is resumed |

Calls that are refused and the reads are the prune alone, as in `LastGateRooms`.
`input:relay` changes nothing, so it is the operator `Receivers`: whom a frame
reaches. A socket that disconnects while its handler waits is not taken back
into a room (`Joined`); its handler runs to the end.

### RateWindows: the limits of the gateway

Two maps of fixed windows, one entry per socket. `assertRate` is both
`assertRateLimit` and `assertRoomOperationRateLimit`, which differ in their
numbers; `relayInput`, `roomOperation` and `handleDisconnect` are the handlers as
far as they touch the windows. `admitted` is a history of the times at which
messages got past the check. The clock does not go backwards. A count over the
limit is kept at limit + 1: the code compares it with the limit and nothing else.

### Leaderboard: the ranking

The two queries are operators (`getTop`, `getMyRank`) over the tables `Run` and
`MetaLevelReached`, and the actions are the writers of those tables as far as the
queries can tell: runs of any user with any level, kills and verdict, and level
records in any order, with the time at which their request read its clock, or
never. The initial states are those a migration leaves behind: runs without a
meta level, grandfathered as eligible, and the one level the backfill recorded.
`getTop` is the set of lists the statement may return, ties in any order.

### AuthTokens: refresh tokens

`token` is the table with the tokens not issued yet, `held` is what each careful client
keeps, `refresh` the requests in flight (an answered one makes room for another,
so their number is not bounded). `refreshFind`, `refreshRevoke` and
`refreshIssue` are the statements of `refresh`; `refreshRevokeThrows` is the update
of a row the cleanup took in between; `login`, `logout` and
`removeExpiredOrRevokedTokens` write in one statement each. The answer to any of
the three requests may be lost (`loginAnswerLost`, `refreshAnswerLost`,
`logoutAnswerLost`): the table is as after an answered one, and the client keeps
what it had (`NoAnswer`) and may retry with it.

## 3. What TLC checks

| Run | Instance | What it shows |
|---|---|---|
| `BattleRuns_concurrent` | 2 users, 1 session, 1 event request, 2 submissions, failures | with no assumption on clients: one run per session, sound verdicts both ways, the ledger is implemented, and a closed session gets its run unless the request that closed it died before its insert |
| `BattleRuns_serial` | 1 user, 2 sessions, 2 event requests, 2 submissions, failures | with clients that await answers: runs spaced, no late event, verdict equal to the log's |
| `SaveSync_concurrent` | 2 PUTs, 1 claim, failures | the optimistic lock, the plausibility of accepted PUTs, and the recording of levels unless a PUT died |
| `SaveSync_serial` | 3 PUTs, 2 claims, one device | idle time is paid once, a claim keeps progress, levels are in order |
| `SaveSync_claim_race` | 2 PUTs, 1 claim | *violation*: a claim overwrites the progress of a PUT accepted after its read |
| `LastGateRooms_any` | 3 sockets, 2 codes | seats, memberships, answers, retention and sweeping under any sequence of operations |
| `LastGateRooms_fresh` | 4 sockets, 2 codes, one operation each | the two maps agree in both directions, nobody is replaced |
| `LastGateRooms_third_player` | 3 sockets, 2 codes | *violation*: after the host has left, a join replaces the connected guest |
| `LastGateGateway_serial` | 3 sockets with one operation in flight each, 2 codes | memberships and Socket.IO rooms agree once the handlers are through, peers hear each other, nobody joins unannounced |
| `RateWindows_bursts` | 1 socket, limits 3 and 2, lengths 2 and 3, clock to 5 | what any stretch of a window's length admits, who is refused, what a disconnect leaves |
| `Leaderboard_ranking` | 3 users, 3 runs, 2 levels | list and rank agree, places are lost to progress only |
| `AuthTokens_rotation` | a careful and a careless client, 2 refreshes at a time, 3 tokens, failures and lost answers | how often a token is exchanged, the one good token of a careful client, and the removal of rows |

**Bounds.** Every race here is between two requests on one row, so two requests
of each kind reach it; a third actor (the event request, the claim, the other
client) shows that the winner is not disturbed afterwards. Payloads are the
smallest that tell outcomes apart: submissions explained by no event, by a kill
batch or by a level-up only; saves at levels 1, 2 and 3 of a curve of three, one
of them invalid. The clock runs to 2 or 3 so that survival times and allowances of
both signs occur. In `LastGateRooms` the TTLs are 3 and 2 minutes as in the code,
and ages stop there: an older age satisfies the same comparisons. `LastGateGateway`
has them at 1, where what expires is seen and how late it is is not asked. Two codes let a
socket leave one room for another and let codes run out. In `AuthTokens` three
tokens are a login, an exchange, and a second exchange or login by either client;
the age goes through "before", "at" and "after" the expiry, which the code treats
in three ways (`gt` in `refresh`, `lt` in the cleanup). In `LastGateGateway` three
sockets are two players and a third who joins, resumes or takes a seat while
their handlers wait, and the second code is the room somebody came from. The
windows of `RateWindows` are of unequal length and limit, and two of each fit
into the time; a second socket would have entries of its own. Three users are a
pair and one who moves between them, three runs give one of them two, and with
one kill per run a sum of kills is a number of runs. The passing runs have between
5 thousand and a million states. The safety properties of all of them are proved
besides, so the bounds only matter for the liveness properties and for the
violations.

**Deadlock** is checked in `LastGateRooms`, `LastGateGateway` and `AuthTokens`. The
others stop when the pools of requests, sockets or rows and the clock are used up.

**Symmetry** is used in runs without liveness only, over ids that occur in no
order or arithmetic.

**Fairness.** An answer of the database resumes the await that waits for it, so
the steps of a request in flight are weakly fair (`RecordEventInsert`, `Answered`,
`PutStep`); nothing makes a client call, a claim go on or a statement fail. In
`LastGateRooms` and `AuthTokens` the clock and the `setInterval` or cron job are
weakly fair.

**Assumptions on clients.** `SerialClients` is what the game client does
(`docs/battle-session-validation/plan.md`: the queue is flushed and awaited
before the run is submitted); it is an assumption, not something the server
enforces. The runs that need it say so, and `SaveSync_claim_race` drops it. In the
same way `FreshSockets` is a client that makes one room operation per connection,
dropped by `LastGateRooms_third_player`, and `Lanes` with one element is a client
that awaits the answer of a room operation before it sends the next. `KnownVersions`
of `SaveSync`, in all of its runs, is a client that sends no version the server has
not given out: the code compares whatever number comes in, and a client with a
version from the future could be answered with a conflict and an older save.

## 4. Where the code and its documents disagree

Two runs show a disagreement; `PROJECT.json` quotes the lines.

* `SaveSync_claim_race`: `claim` updates by user alone and sets level and XP from
  what it read; its transaction does not lock the row at the read.
* `LastGateRooms_third_player`: `joinRoom` counts players and writes slot 2.

Five more are one constant or one condition away from the runs that pass, and TLC
finds each of them:

* `BattleRuns_serial` with `SerialClients = FALSE` violates `RunsSpaced`: the
  interval check (`runs.service.ts:25`) reads the latest run and the insert comes
  awaits later, so two submissions in flight pass it together.
  `BACKEND_DESIGN.md:264` has the server reject the second.
* The same change violates `NoLateEvent`: `recordEvent` checks the session in one
  statement and inserts in the next, so an event is stored in a session that was
  closed in between. `docs/battle-session-validation/spec.md:52` refuses it.
* `FullRoomsRetained` of rooms that have a guest, instead of rooms of two, fails in
  `LastGateRooms_any` for the sweep: the waiting TTL counts from the creation and is
  asked whenever a room has one player, so a guest whose host has left loses a room
  older than three minutes, connected or not. `docs/last-gate-room-service.md:39` lets a
  room expire when no guest joins, and keeps one whose players are away for two
  minutes.
* `NewcomersSit` without its second disjunct fails in `LastGateRooms_any`: when the lone
  host of a room joins that room, `joinRoom` has found it before the socket leaves,
  which deletes it, and then seats the socket in an object that is out of the map.
  `resumeRoom` by the socket that holds the slot, a retry whose first answer was lost,
  ends without a seat as well.
* `LastGateGateway_serial` with two lanes violates `MemberListens` in nine steps: of
  two room operations of one socket, sent without waiting, the second may join
  its Socket.IO room before the first has gone through its loop; the
  socket is then a member of one room and listens in another.

Smaller ones, without a run of their own:

* Two first uploads at once: the second insert violates the unique key and is
  answered with an internal error (`PutCreateClash`).
* A player alone in a waiting room who loses the connection may be swept before the
  two minutes for reconnecting are over, because the waiting TTL counts from the
  creation; that is why `FullRoomsRetained` speaks of rooms of two.
* Two refreshes with one token, both under way at once, both find it valid
  (`auth.service.ts:74`), both revoke it, which the second update does not notice,
  and both issue a pair. No document promises that a token is exchanged once.
  `ExchangesBounded` says how far it goes: as many pairs as requests were in flight
  together, none for a request that comes later, and one for a client that awaits
  each answer. With the bound 1 for every client TLC finds it violated.
* `docs/last-gate-room-service.md:32` has `room:state` broadcast membership changes;
  a disconnect, a leave and an expiry are not broadcast. So `PeersAnnounced` says
  that a snapshot shows every player who sits there, not that it shows no other.
* A socket whose player was resumed on another connection, or whose seat was
  taken, loses its membership and stays in the Socket.IO room: it can send no
  frame and hears all of them until it disconnects or enters another room. So
  `MemberListens` speaks of members.
* `docs/last-gate-room-service.md:37` caps inputs at 120 per second and room
  operations at 10 per minute per socket. The windows are fixed, so up to
  239 and 19 get through in some stretch of that length (`BurstBounded`; with a bound
  lower by one TLC finds it violated); a connection that is opened again begins anew.
* The comment at `leaderboard.service.ts:41` orders by level, kills and play time; both
  queries order by level, first time at that level (unknown last) and kills. The
  meta level of a run is what the client submitted, and a level without a record
  has no time (`leaderboard_entries`).

Limits of the positive results, all visible in the formulas: a submission that
dies between the update with which it closed the session and its insert loses the
battle, and no other death does (`ClosedSessionGetsRun`); a PUT
that dies after its update leaves its levels unrecorded (`LevelsRecorded`), and
then a later claim records higher levels alone, so `LevelsReachedInOrder` is
checked without failures; two claims in flight together are both paid, so
`IdleTimePaidOnce` is a property of the serial run; a refresh whose answer is lost
ends the session of its client, and a login whose answer is lost leaves a good token
nobody holds, so `HeldTokenGood` and `OnlyHeldTokenGood` speak of clients all of whose
requests were answered (`Settled`).

## 5. What is proved

The assumptions are those of the modules (`ConstantsAssumption`,
`NoneAssumption`, `IdleAssumption`, `LeaderboardAssumption`): numbers are numbers,
absent values are none of the ids, the XP curve increases, a table has finitely
many rows, finitely many refreshes are in flight. TLC evaluates them in every run. Theorems whose names end in `WhenSerial`
or `WhenFresh` assume the client that the run of their property assumes (`SerialClients`,
`FreshSockets`), and only section 4 says what happens without it.

* **BattleRunsProofs.** `IInv` is inductive. `OneRunPerSession` alone is not: a
  second run could be inserted by a request half-way. So the invariant says that
  every closed session has at most one *claimant* (a request past `Finalize`) or
  one row, never both (`ClaimsExclusive`), that claimants and rows belong to
  closed sessions of their user (`ClaimsClosed`, `RowsClosed`), and that verdicts
  stay valid because logs only grow (`VerdictSound`, `FloorBelowLog`, lemma
  `MismatchShrinks`). It also says that a closed session has its run or a request
  that closed it and owes it, alive or dead (`ClosedAccounted`, `Owes`): the safety
  half of `ClosedSessionGetsRun`. From it: `OneRunPerSession`, `EligibleRunsExplained`,
  `NoFalseMismatch` for any number of users, sessions and requests, with failures.
  `NoLateEventWhenSerial` and `CheckedEventsOpenWhenSerial` prove `NoLateEvent` and
  `CheckedEventsOpen` under `SerialClients`, and so do two more. `RunsSpacedWhenSerial`
  needs `SpacingInv`: a user has one submission in flight (`OneInFlight`), the latest
  run that it read is still the latest (`LatestKnown`), and past the check the interval
  has passed and only grows (`IntervalPassed`, lemma `IntervalGrows`).
  `VerdictMatchesLogWhenSerial` needs that a log does not change once its session is
  closed (`FinalizedLogKept`), so the mismatch a request computed is the mismatch
  of the log when its row is inserted and ever after. `LedgerImplementedCorrect` is the
  refinement: the initial states map to the ledger's, and each action to one of
  its steps or a stutter; that `Enter` finds its session closed and not entered
  yet is `ClaimsClosed` and `ClaimsExclusive`.
* **SaveSyncProofs.** `LockInv`: no request holds a row from the future, past the
  check the row read has the request's version, and equal versions are equal rows.
  Every write moves the version up, so a row read is either still there or can
  never be mistaken for the present one. From it `VersionIdentifiesSave`,
  `ConflictBodyIsNewer` and the action property `AcceptedPutsPlausible`, for any
  number of PUTs and claims, any curve and any rates. `LevelsFor` describes the loop
  of `claim` by where it stops; `ClaimLoopSteps` shows that an iteration, taken on the
  loop's own condition, leaves that place alone and that the loop exits there,
  `ClaimLoopStops` that there is one such place. Types need the invariant (a
  claim writes a row again because its XP is at least that of the level it
  starts from), so the two are proved together.
* **SaveSyncSerialProofs** has the theorems that need `SerialClients`, one device that
  awaits each answer. `SerialInv`: one request is in flight (`Alone`), and what it
  read is the row as it is (`Current`), because whoever writes is the only one under
  way (`WriterAlone`). Then `ClaimKeepsProgressWhenSerial` is what the loop of `claim`
  computes from the row it read. `IdleTimePaidOnceWhenSerial` adds that no stamp is
  later than the clock (`StampsFit`) and that all that was paid, and could be, fits into
  the age of the save (`PaidBefore`); it holds with failures.
  `LevelsReachedInOrderWhenSerial` adds that the levels recorded are an unbroken range
  up to the one the loop of `putMine` has reached (`LoopInv`); this one needs
  `~Faults`, since a PUT that dies in its loop leaves a gap that may be filled later,
  with a later time.
* **LastGateRoomsProofs.** `SeatInv`: a connected player's socket is a member at
  the player's slot. With it a socket sits in one seat at most, so leaving,
  replacing and pruning drop the right membership. `LeftOK` does the work for the
  three operations that begin with a leave. From it `SeatsHeld`, `NoGhostSeat`,
  `NoEmptyRoom` and the action properties `FullRoomsRetained` and `NewcomersSit`, for
  any number of sockets and codes and any TTLs. The other direction, that a
  membership names a seat its socket sits in, is false for sockets that leave a room
  for another, and true under `FreshSockets`: `FreshInv` has it beside "a room in the
  map has its host", without which `joinRoom` could write over a connected guest. From
  it `MembersSitWhenFresh` and `GuestNotReplacedWhenFresh`.
* **LastGateGatewayProofs.** `GatewayImplementsRooms`: behind the gateway the rooms
  behave as `LastGateRooms` says, so its theorems hold there. `GatewayInv` adds what
  holds while a handler waits: it is for the room of its socket's membership, and
  once it has joined the socket is in that room alone (`HandlersFollow`);
  `MemberListens` and `PeersAnnounced` speak of sockets whose handlers are through
  and carry themselves with it. All of it under `OneLane`, for any number of sockets
  and codes. `PeersHear` follows from `MemberListens` and the seats.
* **RateWindowsProofs.** `BurstBounded` speaks of the history and the code keeps a
  window, so `WindowInv` ties them: the window's messages are the last of the
  history, and whatever is a full limit older than its first message was admitted
  a window earlier (`WindowMatches`). From it `BurstBounded` and
  `RefusedOnlyAtLimit`, for all limits and lengths and any number of sockets.
* **AuthTokensProofs.** `SessionInv`: a client's tokens are touched by its own
  requests only, a careful client has one request at a time and sends what it
  holds, and a token about to be exchanged is revoked first. From it
  `ExchangesBounded`, for any finite number of requests, and `HeldTokenGood` and
  `OnlyHeldTokenGood` for careful clients. `ExchangesBounded` counts the tokens issued
  for a token together with the refreshes under way for it: a refresh that starts
  finds the token valid, so nothing was issued for it yet (`ExchangedTokenDead`), one
  that issues moves from one count to the other (`BoundEmpty`, `BoundMoved`,
  `BoundKept`).

* **LeaderboardProofs.** Both properties speak of an order of numbers, so first it
  is shown what the aggregates return, for any finite table: the sum of the kills,
  a recursion over the set of rows, is defined, is a number, and does not depend on
  the order in which rows are taken (`KillSums`, `KillSumSplit`); the greatest level is
  one of the levels (`MaxOfFinite`). The library's induction theorems cannot be used,
  so these lemmas argue by a minimal counterexample (`LeastNumber`, `MinimalSubset`).
  Then `Before` is a strict weak order (`BeforeIrreflexive`, `BeforeSplits`), the view
  has one entry per user, and `PagesAlwaysShowRanks` counts: those ahead of the i-th
  entry stand in the first i - 1 places, and are ahead of every entry left out.
  `OvertakingNeedsProgress` has three parts: a user without progress keeps the entry
  (`NoProgressSameEntry`), every other entry only gets better (`EntryImproves`, where
  a further run raises the sum or the level and a known time stays), and who gets
  better stays ahead (`ImprovedStaysAhead`).

Only model-checked: the liveness properties (`ClosedSessionGetsRun`,
`LevelsRecorded`, `AbandonedRoomsSwept`, `RowsRemoved`), since liveness and
`ENABLED` are out of the prover's reach. Every safety and action property of the
passing runs is a theorem.
No project module declares a recursive operator. That the totals of a log, which
`BattleRuns` keeps as it grows, are what `reconcile` sums up from the rows is by
reading.

## 6. What is not modelled

* In the gateway the shape of an input frame, the origin check and the content of
  frames: no state. That Socket.IO keeps the frames of one sender in order is
  Socket.IO's.
* The numbers of the level curve (`game-balance.json`): `SaveSync` takes any
  increasing curve.
* `register` (one insert with unique keys, a clash is a 409), access tokens (no
  state on the server), hashing, signing.
* Users (one read), Prisma's connection, bootstrap, filters, interceptors,
  controllers beyond the validation they pass on: pure I/O.
* The JSON payload of a save, the columns of a run no check reads, room-code
  letters and run seeds: data no property looks at.

## 7. Plan

In order of importance; 1 to 9 are done.

1. `BattleRuns`: session log and runs; `IInv` proved.
2. `SaveSync`: optimistic lock and claims; `LockInv` proved.
3. `LastGateRooms`: the two maps; `SeatInv` proved.
4. `AuthTokens`: rotation of refresh tokens; `SessionInv` proved.
5. `SessionLedger`: the abstract specification of `BattleRuns`; refinement checked
   and proved.
6. `LastGateGateway`: the rooms composed with the awaits of `handleRoomOperation`
   and the Socket.IO rooms; `GatewayInv` proved.
7. `RateWindows`: the limits of the gateway; `WindowInv` proved.
8. `Leaderboard`: the two queries over tables that change; both properties proved.
9. The theorems for serial clients, one device and fresh sockets: proved.
10. A second abstract specification: an atomic read and conditional write, which
   `SaveSync` implements for PUTs.
