# A verification of the werewolf game server (go_demo)

TLA+ models of the repository's own core logic, checked with TLC on small
instances and proved with TLAPS for all of them. Paths are relative to the
repository's root (`src/` here).

## 1. What the repository is

Two Go programs and a few helpers around them.

* `cmd/werewolf` is a gRPC server that keeps the rooms of a werewolf (Mafia)
  game in memory and plays the moderator: `services/werewolf/service.go`.
* `cmd/main.go` is an HTTP gateway (gin) with four unrelated parts: the REST
  and websocket front of the game server, user accounts (MySQL and Redis), a
  crawl of market prices, and logging.

### Components, their state and what makes them correct

| component | state | operations | what makes it correct |
|---|---|---|---|
| **GameRoom** (`services/werewolf/service.go`) | State, CurrentPhase, DayCount, players (role, IsAlive, CanAct), the night's targets, the witch's bottles, Votes, NightActions, DeadPlayers, the channel PhaseDone, room.mu | JoinRoom, StartGame, NightAction, Vote (RPC goroutines); runGameLoop (one goroutine per room) | the game follows the rules; every phase ends; answers count in the phase they answer; the records of the dead agree |
| **Lobby** (same file, `internal/services/werewolf_service.go`) | rooms, Position of a player, MaxPlayers, RoleConfig; the browsers' cookies | CreateRoom, JoinRoom, StartGame, LeaveRoom | seats are numbered; cookies name a seat of their player; a game starts full and as asked for; nobody comes in once it has |
| **EventStream** (same file) | room.Subscribers, one channel of 100 events each | SubscribeGameEvents, its clean-up, broadcastEvent | a connected subscriber is registered; a channel that was closed is never sent to |
| **WSHandler** (`internal/websocket/websocket_ws.go`) | clients (by player), each with a channel of 256 and a connection | HandleWebSocket, readPump, writePump, subscribeGameEvents, removeClient, BroadcastToRoom | a channel is closed once and not while registered, across reconnects; a goroutine ends with its connection; events arrive in order |
| **WSManager** (`internal/client/werewolf_ws_manager.go`) | as WSHandler, plus a cancel function per client | RegisterClient, UnregisterClient, Close, SendToPlayer, ... | nothing routed registers a client with it: its map is always empty |
| **Gateway** (controllers, `werewolf_grpc_client.go`, dto, routes) | none of its own: cookies, websockets | translation of requests | what it checks fits what the server checks |
| **Accounts** (`internal/services/user_service.go`, `email_service.go`, `repositories/user_repository.go`, `redis_repository.go`) | table users (unique email, soft delete), verification codes in Redis | RegisterUser, VerifyUserEmail, SendVerificationEmail, CreateUser, UpdateUser, DeleteUser, Login | one account an email, another only after its own has moved to a free one; verified by a code of an email it had; no write is undone but by a stale save |
| **Market crawl** (`repositories/market_price_repository.go`, cron) | the page it is on; rows of prices | CrawlAndSave, at the start and every night | what it misses has a cause; it ends when it has everything |
| **DailyLogWriter** (`utils/log_writer.go`) | date, open file | Write, rotate, Close | no line is lost but for a failure of its own; the files are one log in order |

Interaction: the gateway calls the game server by gRPC and opens one event
stream for each websocket; the server pushes events into the subscribers'
channels while it holds the room's mutex; the game loop and the RPC handlers of
a room share room.mu and PhaseDone. Before a game the lobby passes a configuration
through three layers, each of which checks something else. Accounts, crawl and logging
share nothing with the game; every statement of accounts and crawl writes a line of the log.

### What is hard

* **PhaseDone** has capacity one, everybody sends on it holding room.mu, and
  the only receiver, the game loop, sends on it too. The select's 60 s timer
  covers the receive and nothing else.
* **The gap between phases**: the loop releases the mutex between nextPhase,
  the check for the end of the game, executeX and the select. Requests come in
  between all of these.
* **CanAct** is set by executeX and by the vote, and cleared by an action only.
* **Deaths** are decided in three places by targets that were recorded earlier,
  by people who may have died since.
* **nil players**: several handlers look up an id and use the result unchecked;
  grpc-go does not recover from a panic.
* Reconnecting websockets and event streams replace map entries that an older
  goroutine later deletes.
* **Rooms** are found under one mutex and used under another; answers of JoinRoom get
  lost; counts are ints in the gateway and int32 in the server.
* **Accounts** live in two stores without a transaction: each request is a sequence of
  calls, any of which may fail, or be applied and fail; rows are read, changed in memory
  and saved whole.
* **The crawl** pages through a list that changes meanwhile, and goes on after any failure.
* **Midnight** falls anywhere between the dating of a line and its write.

`PROJECT.json` lists every hazard at its line with the properties that watch it.

## 2. Modules

| module | what it is |
|---|---|
| `GameRoom` | the model of one room: the game loop, the handlers, the mutex, the channel, timeouts, panics |
| `GameRules` | the abstract specification: who may die, when, and when the game is over |
| `MCGameRoom`, `MCGameRoomLive` | instances for TLC |
| `GameRoomProofs` | type correctness and the game's clock |
| `GameRoomSafety` | the dead, the deal, the ballots, the end of the game, no crash |
| `GameRoomChannel` | the channel: tokens, lost wakeups, wedged loop, blocked handlers, targets; why a room gets stuck and that it stays so |
| `GameRoomRefinement` | GameRoom implements GameRules; how many die in a game |
| `EventStream` | the subscriptions of a room: the handler of each call, its channel, the stream below it |
| `WSHandler` | the gateway's websockets over those streams (it extends `EventStream`) |
| `EventFeed` | the abstract specification of the two: what a listener hears |
| `MCWSHandler` | instances for TLC |
| `Lobby` | rooms before their games: registry, seats, cookies, the two checks of a configuration |
| `Accounts` | the requests on accounts, call by call of MySQL and Redis |
| `EmailRegistry` | the abstract specification: whose an email is |
| `MarketCrawl` | the crawl of prices over a site that changes |
| `DailyLogWriter` | the writer of the log files, its callers and the clock |
| `Background` | the two together: the crawl's inserts are logged |
| `MCLobby`, `MCAccounts`, `MCBackground` | instances for TLC |
| `WSHandlerProofs` | a channel that was closed is never sent to; the gateway uses the streams as `EventStream` says; types; the map of clients; the two implement `EventFeed` |
| `LobbyProofs` | everything the run `lobby` checks |
| `AccountsProofs` | everything the run `accounts` checks, `EmailRegistry` included |
| `BackgroundProofs` | everything the run `background` checks, and that the two modules compose |

### How GameRoom corresponds to the code

Every handler, and every phase the loop executes, takes room.mu at its start
and releases it at its end, so each is one action. The loop is cut where it
releases the mutex; its place is the variable `loop`:

| `loop` | in runGameLoop |
|---|---|
| `idle` | not started (StartGame starts it) |
| `top` | before the check for the end of the game |
| `exec` | after it, before executeX takes the mutex |
| `select` | in the select |
| `advance` | after the select, before nextPhase takes the mutex |
| `wedged` | blocked on its own send in executeX, holding the mutex |
| `done`, `crashed` | the game is over; a goroutine panicked and ended the process |

`phaseDone` is the channel. The code sends `true`; the model sends the phase it
was sent in, a history the code's behaviour does not depend on; a ballot in `votes` carries the day it was
cast on in the same way. `rpc` is the
handler blocked on a full channel, mutex in hand; there is one at most, since
every other needs the mutex. A blocked handler is released only by the loop's
receive, which then puts its value in the channel: `TakePhaseDone` does both. (In
Go a waiting receiver is handed the value directly. The model lets it rest in
the channel until the loop's next step: a second sender then blocks for a moment
instead of finding the buffer empty, and the same state follows.)

`players`, `alive` and `canAct` are sets of ids for a map of structs with flags;
a map from ids to strings is a function with `NoEntry` where there is no key,
so that the empty id `NoOne`, which a client may send, is not the absence of an
entry. The order of Go's map iteration is a nondeterministic choice (which of two
guards is woken, which of the equal top votes wins). Camp is a function of role.
A refused request changes nothing and is no step. Broadcast events, names and
seats are left out. `Callers` and `Targets` are the ids a request may carry: the
gateway demands that they are not empty, and the server, on its own port,
demands nothing; `StrayRequests` chooses between requests that name people of
the room and any requests at all.

`MaxDays` bounds DayCount in `Nightfall`, for TLC only. The theorems hold for every
value of it, so for every number of days.

### How EventStream and WSHandler correspond to the code

`Conns` are websocket connections; each makes one call of SubscribeGameEvents, so
that they name the calls too. `PlayerOf[c]` is the player id of both. All the calls
are for one room: streams of different rooms share nothing, and the gateway's map
knows no rooms.

| variable | in the code |
|---|---|
| `subscribers` | room.Subscribers; a channel is named by its call |
| `handler[c]` | the server's goroutine: `called` (not yet registered), `serving` (in the select), `leaving` (returning, before its deferred function has the mutex), `done` (its channel is closed) |
| `eventChan[c]` | the channel's content, events being numbered as they are broadcast |
| `wire[c]`, `lost` | the gRPC stream: sent and not received; whether its transport broke |
| `clients` | h.clients; a client is named by its connection |
| `send[c]`, `closed` | client.send: its content (event numbers and `Pong`) and whether it was closed |
| `socket[c]` | client.conn, closed by the reader's or the writer's deferred call |
| `reader[c]`, `writer[c]`, `feeder[c]` | where readPump, writePump and subscribeGameEvents are |
| `held[c]` | the event the feeder has received and is sending |
| `crashed` | a goroutine has panicked; nothing in the gateway runs any more |

What runs under a mutex is one action: Register, Broadcast, CleanUp, RemoveClient. A
channel send that would block is an action that is not enabled. broadcastEvent is called
holding room.mu, as are the registration and the clean-up; a room wedged as
`timeout_wedge` shows stops these too, which only takes steps away. The server is
external to the gateway and the transport to both: `Break` may come at any time, loses
some of what was under way, and each side finds out at its next step or later.

`MaxEvents` bounds `issued` for TLC only; the theorems hold for every value.

### How Lobby corresponds to the code

| variable | in the code |
|---|---|
| `registry` | WerewolfServer.rooms; ids are clock readings, rooms are objects |
| `room[r]` | MaxPlayers, RoleConfig and whether State is WAITING; `asked` is the request's own counts, a history |
| `seat[r]` | Position of each entry of room.Players, 0 for no entry |
| `join[p]` | the call of JoinRoom that drew the id `p`: not made, room found, cookies set, or gone |
| `starting` | rooms found by calls of StartGame that wait for room.mu |
| `lost` | rooms whose id was given again or whose server ended; a history |

A call is two actions, the look-up under s.mu and the step under room.mu, in the gateway's
order: the player id is drawn (`uuid.New`, never twice) before the look-up, cookies are
set after the answer. `SetCookies` loses the answer or not; a lost one leaves a seat nobody
knows of. A refusal is answered 500: `JoinRoom` of werewolf_service.go reads the Position of a
Player that is nil, and gin recovers. LeaveRoom clears the cookies and does not tell the
server, so the seat stays. `Restart` is the game server's; the gateway notices nothing but
failing calls.

`RoleConfig` is the conversion of counts to int32, with `Half` for 2^31. One wolf, two villagers, 2^31
seers and -(2^31 - 1) guards sum up to four in the gateway; the conversion makes the seers negative too, and
the server's loop deals a role for positive counts only: a room of four starts with three players. `StartsAsAsked` excepts just these. Four roles
stand for any: a wolf and a villager are named by the check, the others only summed up. What
GameRoom assumes of a started room, a role for each player and no negative count, is what a room
without such a conversion has.

### How Accounts corresponds to the code

A request is a goroutine that makes one call of a store after another; `req[r]` is where it is and
what it carries, and each call is an action. An action whose call fails is the same action
with another outcome; where a call can be applied and still fail (a connection lost with the
answer) both effects are there. `Restart` ends every request where it is.

| variable | in the code |
|---|---|
| `rows` | the table users by primary key; `live` is deleted_at, and a row never goes away; `version` counts its writes, a history |
| `codes` | the keys `email_code:<email>` of Redis |
| `held`, `issued`, `presented` | histories: which account had which email, codes generated, codes that came and matched |

* The unique index of the email knows deleted rows and the queries do not: `Taken` and `Found`.
* RegisterUser answers 201 without an account when the email is found (user_service.go:64 returns
  the nil error), so in the model it is an answer like any other; the passwords of requests are never stored.
* The undoing of a registration is a soft delete: its email is taken for ever.
* UpdateUser and the verification save the whole row they read (`copy`); gorm's Save inserts
  again what was deleted meanwhile, with the id it had, which brings a deleted account back.
* The code is compared, deleted and the account verified in four calls; the deletion's error is
  dropped, and it deletes whatever code is there by then.
* ErrDuplicatedKey is never returned, as gorm's TranslateError is not set: a taken email is a
  failure like any other.

routes.go wires Register and Login only. The other handlers of the controller are modelled as
they stand.

### How MarketCrawl, DailyLogWriter and Background correspond to the code

`crawl` is the place in CrawlAndSave and its local variables: fetching a page, with the rows
and total of the page at hand, or with the total only once they are saved. The site is external: it
lists any records in any order when the crawl begins, and inserts and withdraws some at any place while
it runs. `GoOn` is the loop's next round. One crawl runs at a time: the first is over before
cron starts, and the next comes a day later. Every exit of the loop is here: a failed fetch goes on
to the next page, an error code of the site ends the crawl, an empty page is the error "No more data
found.", a failed insert is logged and forgotten. `due`, `grown` and `unsaved` are histories for what
the crawl owes.

The code's own shortcomings are in the model and in the causes that `NothingMissed` names: a page
that fails is not asked for again; no more than five pages of 100 are read; records the site inserts push
others to a page that was read already, which saves them once more for each record that pushed them, as the table has no unique index for
OnConflict to act on (and market_prices is not among the migrated tables, so that on a fresh database every insert
fails). cron logs that the crawl completed successfully after a failed one too.

`line[w]` is one goroutine's line: dated by the logger, or past the rotation and holding the
mutex. `rotateFileIfNeeded` reads the clock; midnight may come before and after. Close leaves the
closed file in place: lines that come afterwards fail, until the next day's file. In `Background` the
crawl's insert and the dating of its line are one step, and the crawl goes on once the line is written
or lost.

## 3. Runs

| run | instance | shows |
|---|---|---|
| `game_days` | wolf, guard, two villagers; two days | the deal, the clock, ballots of this day by the living, lost wakeups, tokens, blocked handlers, targets and whose answer stands |
| `game_potions` | wolf, witch, two villagers; two days | the dead, no crash, GameRoom implements GameRules |
| `game_stray` | two wolves, guard, witch, seer and a sixth id nobody has; one night and day without ballots; stray ids | the same with panics reached, two wolves sharing the end of their phase, a wedged loop |
| `game_live` | wolf, guard, witch; one day; FairSpec | each phase ends, or the room is stuck in a named way |
| `timeout_wedge` | as game_live | **violated**: "timeout, force the move to the next phase" (service.go:241) |
| `ws_reconnect` | one player, two connections, no events; FairPumps | closings, removals and the ends of the goroutines while a player reconnects |
| `ws_events` | one connection, three events, a channel of two; FairSpec | WSHandler implements EventFeed; events arrive |
| `ws_closed` | one connection, one event | **violated**: "send the event to the websocket client" (websocket_ws.go:150) |
| `accounts` | four requests, two emails, two codes | emails are unique, and another account's only once free again; verified accounts, only stale saves undo; Accounts implements EmailRegistry |
| `lobby` | five players, two rooms of four, two clock readings, int32 of four bits | seats, cookies, starts as asked for, closed once started |
| `background` | three records, two pages of one; two writers, two days | what a crawl misses, how it ends, lost lines, order over midnight |
| `stream_cleanup` | one player, two connections | **violated**: "clean up the subscription" / "send the event stream" (service.go:755, 763) |

The three violations are the findings of `PROJECT.json`. In the game: an answer that comes after
its phase timed out leaves a token in PhaseDone, and if nobody holds the next phase's role the room is
blocked for ever. A second answer does the same without any timeout: Vote does not ask whether the
ballots were complete, so a ballot changed before the loop has moved on sends once more, and
executeLastWords blocks on it. Two more disagreements with the comments follow from the same states and are bounded by
properties of the passing runs: service.go:239 takes any token for the end of the present phase,
while a late one ends the next phase before anybody acted in it (`StaleByOnePhase` says it is never
older than that); and service.go:36 calls GuardTarget the target the guard protects, while a guard
with the CanAct left from the vote may act before executeGuardPhase, is told it succeeded, and has
its target erased at service.go:287 (`TargetsAreLogged` says that a target which is there was
named this night, and `AnswerStands` that only a guard who may answer again loses a target).

Two comments promise more than the code gives, and no property states them:

* service.go:671 asks "has everybody voted". Votes is cleared when the loop executes the vote
  (service.go:466) and the handler asks for DAY_VOTING only, so a ballot cast between nextPhase and
  that is dropped, though its voter was told it succeeded. On a later day it counts the day before's
  ballots as answers, sends, and the vote ends before anybody voted in it. What is left is bounded:
  `LivingBallots` says that whatever countVotes reads is of this day, `StaleByOnePhase` that the token
  goes no further, and `BlockedOutOfTurn` names the vote as one of the places a handler blocks at.
* email_service.go:81 deletes a code "to prevent its reuse". Reading and deleting it are two calls and the
  error of the second is dropped, so two requests may both be served by one code, and a code whose deletion
  failed serves until it expires. `VerifiedByItsCode` says whose email the code was of, and nothing of how often
  it served.

In the gateway: the feeder's call is never cancelled, so it sends the first event
after its client has left into a closed channel and the gateway ends; and the
clean-up of a subscription deletes by player id, so a player who subscribes again before
the server has noticed the end of the first call is forgotten by the server.

**Bounds.** Two days are needed, and enough, for what is carried from one night
to the next (targets, bottles, CanAct, votes): nextPhase resets or keeps each of
them in the same way on every later day. Four players allow a game that is
still open after one death. The room of `game_days` has a place to spare, so that
joining late is refused for the right reason. Requests name two of the players in the
larger runs (`Named`); the others are interchangeable as targets. `game_stray`
casts no ballots (constraint `NoBallots`), its subject being the night. Symmetry: ids
are interchangeable within and outside `Named`; no liveness run uses it. Deadlock
is not checked: a finished game, a wedged room and the last day of a run really
stop.

The gateway's capacities are cut to one or two, which every blocking or skipping
branch needs and no more. Two connections of one player are the reconnect; those of
different players share nothing but the events and the map, which every step reads and writes at
its own player only. (A second player beside the two connections was checked once, for the safety
properties: 1.1 million states; with the liveness properties that is too large a run. The theorems
about the map are for any players.) `ws_reconnect` has no events because
none of its properties is about them, and the answers to pings fill the channels as well;
`ws_events` has one connection because a second shares no queue with it. The
safety properties of both, two connections and two events at once, were checked too
(4.7 million states, under symmetry) and are not repeated here for its size.

`lobby` has five players so that a room of four refuses one, two clock readings so that ids collide
or not, and a configuration of each kind: as meant, a role short, a negative count, and one that the
conversion changes; int32 is narrowed to four bits, which the conversion needs to be reached with
rooms of four. `accounts` has four requests, enough for a registration or a verification to be overtaken by two others
and an update; five requests were checked once (368585 states) and are not repeated.
`background` has pages of one record, so that each change of the site moves a record over a
border, and one record more than the pages hold; the crawl alone was also checked with five records and two pages of
two (59864 states). Two days and two writers are one midnight and one line held up over it.
`LastDay` bounds the clock. Deadlock is not checked in these either: requests and ids are used up.

**Fairness.** GameRoom's `FairSpec` is weak fairness of the loop's steps: its goroutine is
scheduled, its timer fires, and Go's mutex hands over in order once a waiter
starves. Players owe nothing. Under it every phase ends or the room is `Stuck`.
WSHandler's `FairPumps` is weak fairness of what the reader and the writer of a socket
must do: deadlines and tickers fire, a read from or a ping to a closed socket fails. Nobody
owes a message, a ping or an end. Its `FairSpec` adds the server's goroutines and the feeder, and
strong fairness of the feeder's send, which competes for room in the channel with
the answers to pings: Go serves senders blocked on a channel in order. Nothing makes
a transport break.

## 4. Proofs

For every set of ids, configuration, room size, number of days, and for stray
requests or not:

1. `TypeCorrect`, `TimeCorrect` (`GameRoomProofs`). `StateMatchesPhase` is
   inductive with the conjunct that the loop runs exactly while a game is on.
2. `DeadCorrect`, `DealCorrect`, `OpenCorrect`, `BallotsCorrect`, `CrashFree`
   (`GameRoomSafety`), each from an inductive strengthening of its own over `Base`
   (types and clock). `OpenCorrect` needs that no action but the two settling
   phases changes who is alive (`PeopleStep`); `CrashFree` that every recorded target is a
   player of the room or nobody.
3. `WakeupCorrect`, `StaleCorrect`, `WedgeCorrect`, `BlockedCorrect`,
   `TargetsCorrect`, `AnswerCorrect` (`GameRoomChannel`) from one invariant of the channel, `TokenInv`: which
   phase a token can stem from, place by place of the loop. A token of an
   earlier phase was sent after the select had been left or beside another one, and from the third
   phase on it would have been taken. `BlockedCorrect` adds `TurnInv`: in the first night CanAct is handed
   out phase by phase, so nobody acts before the loop has called upon the role. `AnswerCorrect` adds
   `AnswerInv`: what erases a role's target hands its living holder CanAct again, and a handler that is
   blocked has recorded its target.
   `StuckIsForEver`: no action is possible in a `Stuck` room. `StuckByAnswersOutOfTime` names the cause
   that the timeouts are not: under `Spec /\ [][~OutOfTime]_vars`, in which every answer that ends a phase
   comes while the loop waits on an empty channel, nobody ever blocks, whatever times out.
   TLC has played such games to the end of their second day, so the hypothesis is not empty.
4. `Refinement` (`GameRoomRefinement`): `Spec => Rules!Spec`. The rules' `stage` is read off
   State, CurrentPhase and the place of the loop; dawn is executeDayDiscussion, exile
   executeLastWords. The mapping needs `RulesInv`: a night whose first phase has
   begun is one of an open game, a poison poured has emptied the bottle, and nobody
   has a role in the lobby. Every other action changes nothing the rules see. `TollCorrect` counts the
   dead over a game from the rules' steps: each day two, and one by poison.

For any players, connections and capacities:

5. `SubscribedCorrect` (`WSHandlerProofs`, as are the next three): inductive together with the types. A
   clean-up may delete another call's entry, but never leaves its own.
6. `Composition`: `Spec => StreamSpec`, step by step; with it
   `SubscribedCorrect` and the streams' types carry over to the gateway.
7. `GatewayTypes`, `RegisteredCorrect`, `CutOffCorrect`, `ForgottenCorrect`. The types need that
   a feeder that sends has an event in its hand; the other three are inductive
   together with `Fresh`: a connection that has not come yet is nowhere. The connection that ended in
   another's place is no longer registered once it has deleted that one, and only what is registered
   is closed, so its channel stays open.
8. `HeardInOrder`: `Spec => Broadcasts!Spec`, the safety of the whole way
   from broadcastEvent to the browser. `OrderInv` says of each connection that three numbers
   part what is in `send`, in the feeder's hand, on the stream and in the subscriber's channel,
   between the last event heard and `issued`, and that each of the four rises; moving an event
   on moves one of the numbers. A connection that has not come has nothing under way, which is what a
   fresh listener needs. `HeardOnce` is proved of `EventFeed` alone and carried over: what a browser
   was written rises strictly and does not run ahead of what was issued.

For any requests, emails and codes:

9. `TypeCorrect`, `EmailsAreUnique`, `VerifiedCorrect`, `UndoneByStaleSaves` (`AccountsProofs`) from one
   invariant over table, codes and requests: the copy a request will save is no newer than the row, is
   verified only if the row's account has proved an email, and, if the row was not written since, agrees
   with it on being verified and live; a code in Redis was generated for its email.
10. `EmailsStayProved`: `Spec => EmailRegistry!Spec`. An insert is a claim, a save with another email a
   move, and everything else, deletions and undone registrations included, leaves the registry alone.

For any players, rooms, requests and width of the integers:

11. `TypeCorrect`, `SeatsNumbered`, `CookiesHoldProved`, `StartsProved` (`LobbyProofs`) from one invariant:
   seats are an injection into 1 .. number of players; a call that has not joined has no seat; a room the
   registry names, or a call has found, exists; a started room has as many players as roles dealt. That the
   roles dealt are max_players needs that no count of an unchanged configuration is negative: the
   gateway's sum equals max_players, the room has no more players than that, and a negative count would make
   the roles dealt more than the sum.
12. `ClosedProved`: a step of `Spec` under that invariant never seats anybody in a started room.

For any records, page size, number of pages, writers and days (`BackgroundProofs`):

13. `BackgroundComposition`: `Spec => CrawlSpec /\ LogSpec`, the crawl and the writer each with any of its
   own steps; whatever is proved of one alone holds of the two. `BackgroundTypes` are their types.
14. `LostForACauseProved`, `WrittenInOrderProved` from `LogInv`. No file has a later day than currentDate, and
   currentDate none than today; whoever writes holds the mutex and found the file open, or closed by
   Close; and without an open file, unless Close was called, currentDate is another day than today, so that the
   next line opens one.
15. `NothingMissedProved`, `NoDataHasACauseProved` from `CrawlInv`, which follows each record owed over the pages:
   as long as nothing was withdrawn it is on the site, at most `grown` places further
   down (`Kept`); if it is before the end of the pages read so far, it was read (`ReadUpToReach`), since a
   record only moves towards pages to come; a total that says "that was all" says so of everything owed, and one that
   does not leaves a record on the next page (`TotalIsRight`); and each reading of a record beyond the first
   took a place it was moved by (`SavedOnce`). The lists the site makes by publishing and withdrawing
   are described by lemmas on sequences (`PushedIn`, `CutOut`).

Assumptions: the ids are a finite set, without the two values that stand for "" and
for "no key"; MaxPlayers and the counts of the configuration are naturals; each
connection has a player, "no client" is not one of them, and channels have room for one thing at least;
"no code" is no code, "no room" no room; the players of the lobby are finitely many, max_players is 4 to 12 as
the dto demands, and int32 has at least one bit beside its sign; a page has room for one record and a crawl
asks for one page at least, "nobody" does not log, and the crawl logs as one of the writers. Of
the records nothing is assumed.

Every invariant and every safety property of a step that a passing run checks is proved. Only model-checked: the
liveness properties (`PhaseEndsOrStuck`, `WriterFollowsReader`, `ReaderFollowsWriter`, `EventArrives`),
which are out of the prover's reach, and the violations.

## 5. Plan

1. Done: GameRoom, GameRules and their proofs.
2. Done: EventStream, WSHandler, EventFeed and the proofs of their safety properties.
3. Done: Accounts and EmailRegistry with their proofs.
4. Done: Lobby with its proofs.
5. Done: MarketCrawl, DailyLogWriter and Background with their proofs.
6. Done: what the refinements and the channel's invariant say of a whole game and a whole connection
   (`StuckIsForEver`, `StuckByAnswersOutOfTime`, `TollCorrect`, `HeardOnce`).
7. Next: an abstract log, cut at midnights, for DailyLogWriter to implement; and the safety the liveness
   properties rest on: that a loop which is not stuck, idle or done has a step to take.
8. WSManager, once something registers clients with it.

## 6. Not modelled, and why

Generated protobuf code, configuration and start-up, geolocation, uploads and the
commented-out consumers have no state of their own or are not reached. The WSManager's
RegisterClient has one caller, HandleWebSocket of the controller, which no route names: its map is empty
in every state of the program, and the two of its functions that are reached find nothing in it.
GetGameState and the responses of JoinRoom hand out a live `*Player` after the mutex is released: a data
race on the content of a response that no later state depends on. Requests that only read (GetUserByID,
GetAllUser, Login, GetRoomPlayers) are answered and change nothing. WSHandler's
BroadcastToRoom, which writes the map under a read lock, is called by nobody. A restart of
the gateway after a crash starts from Init with every transport broken.
