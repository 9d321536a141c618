# Kung Fu Chess in TLA+

Real-time chess: pieces move when their player says so, take time to arrive and
rest afterwards; an authoritative server runs each game and broadcasts what
happened. This directory holds TLA+ models of that program, TLC
configurations that check them and TLAPS proofs about the game, the match, the
lobby, the accounts, the client and the client's copy of the board.

Paths below are relative to the repository root unless they name a module.

## 1. The system

| Part | State | Operations | Talks to |
|---|---|---|---|
| Rules (`logic/src/kfc/rules`) | none | legal destinations of each kind, `validate_move` | read by the engine and by nobody else |
| Board (`logic/src/kfc/model`) | one optional piece record per cell | `piece_at`, `add_piece`, `set_piece_state`, `remove_piece` | written by the arbiter only |
| RealTimeArbiter, CollisionResolver, MotionFactory (`logic/src/kfc/realtime`) | motions in flight in the order they began, rests remaining | `start_motion`, `advance_time` | Board |
| GameEngine | `game_over_` | `request_move`, `request_jump`, `wait` | rules, arbiter |
| Observers (`GameOverObserver`, score, move log) | winner, draw and instant; scores; lines | `on_arrival` | fed with the events of each `wait` |
| Match (`server/src/kfc/server/match.cpp`) | command queue, engine, revision, `game_over_`, a resignation to announce, release time | `join`, `join_spectator`, `reconnect`, `enqueue`, `on_disconnect`, `tick` | engine, DisconnectWatch, MatchAudience, result hook |
| DisconnectWatch | drop reported, countdown running, `frozen_` flag | `report_disconnect`, `advance`, `cancel`, `clear` | called by connection threads and by `tick` |
| MatchAudience | immutable roster: two seats, watchers | `seat`, `reseat`, `watch`, `unwatch`, `broadcast`, `release_all` | sends to connections |
| RoomManager | rooms, names, waiting rooms by rating, seats and connections counted | `join_any`, `create_room`, `join_room`, `enqueue`, `on_disconnect` | Match, MatchScheduler, room directory |
| ClientSession, SessionRegistry | account, seat, message window; accounts live | `on_text`, `on_close`; `claim`, `release` | RoomManager, account store |
| MatchScheduler | workers with their matches, owner of each match | `add`, `remove`, `wake`, `run` | ticks matches |
| RateLimiter, AuthTokenStore | windows per address; tokens with an expiry | `allow`; `issue`, `username_for` | sessions, HTTP |
| Room directory (Redis) | room name to worker, with a time to live | `register_room`, `owner_of`, `forget_room` | other workers |
| Accounts (`database`) | users and games in SQLite | `authenticate`, `rerate_pair`, `rerate`, `record_game` | result hook, login |
| Client (`ui`): ServerLink, MatchOverlay, rendering | mirrored board, revision, predicted motions, banner | `on_message`, `wait`, clicks | server messages |
| Controller (`logic/src/kfc/input`) | selected cell and piece | `click`, `jump` | engine or ServerLink |

**Who runs when.** Each connection has its own thread, which logs in, joins,
enqueues commands and reports its own close. Each scheduler worker ticks the
matches it holds, one after the other. All changes of a board happen in `tick`
under `board_mutex_`, so the engine below is sequential; `game_over_`,
`frozen_`, the roster, the queue and the watch are shared, each under its own
lock or atomic, and a tick reads and writes them at different moments.

**What is hard here.**

- *Order inside one wait.* Arrivals due in one call are resolved by their instant
  and change the board for each other; the outcome must not depend on how a
  stretch of time was cut into calls.
- *Snapshots and flags.* A motion carries a copy of its piece from its
  beginning; the board carries flags for what the motion list also says.
- *A seat between two owners.* A drop, a countdown, its expiry, a return and the
  tick that turns one into the other run on three threads.
- *Several endings.* A king capture, a resignation and a forfeit can fall into
  one tick; each announces itself and calls the rating hook.
- *Joining while the game runs.* A newcomer registers and takes a snapshot while
  updates are being published.

**What makes each part correct.** Rules and arbiter: each piece in one place,
captured pieces gone for good, flags and motions in agreement, jumpers safe,
the result a function of instants. Engine and observer: one verdict, earned by a
capture. Match: no update lost, one result per match, no forfeit of a player who
is there, no board change during a countdown, every countdown settled, everybody
released. RoomManager: seats neither oversold nor leaked, no room reaped under
somebody, nobody seated where nobody is. Scheduler: every live match ticked by one worker, no removed one ticked
again. Client: its board equals the server's at its revision. Accounts: each
result counted once and whole.

## 2. Modules

| Module | Models | Run by |
|---|---|---|
| `MovementRules` | board, pieces, the seven rules, `validate_move` | used below |
| `RealTimeGame` | arbiter, engine, GameOverObserver | `MCRealTimeGame` |
| `AdvanceInChunks` | `advance_time` and `wait` as functions of the state, over `RealTimeGame` | `MCAdvanceInChunks` |
| `Match` | Match, DisconnectWatch, MatchAudience, RoomManager's part for one named room | `MCMatch` |
| `MatchLife` | what a match promises, as one abstract machine | refined by `Match` |
| `Lobby` | sessions, registry, rooms, matchmaking, directory, scheduler | `MCLobby` |
| `Accounts` | user and game tables, HTTP endpoints, tokens, limiter, result hook, crash and restart | `MCAccounts` |
| `Client` | one client process: dialogs, connecting, frame loop, overlay, mouse callback | `Client` |
| `Mirror` | `RealTimeGame` composed with what Match publishes, the wire format and one ServerLink | `MCMirror` |
| `RealTimeGame_proofs` | theorems about `RealTimeGame` | TLAPS |
| `Match_proofs` | theorems about `Match` | TLAPS |
| `Lobby_proofs`, `Accounts_proofs`, `Client_proofs`, `Mirror_proofs` | theorems about the modules they are named after | TLAPS |
| `AdvanceInChunks_proofs` | theorems about `AdvanceInChunks`, over those of `RealTimeGame` | TLAPS |
| `FoldTheorems` | what a fold over a finite set or a sequence computes, for any operator; sums | TLAPS |

The server is seen four times, each time with the part in question in full and
the others reduced to what it reads of them: `Match` has one room and every step
of a tick, `Lobby` has all rooms and a match as seats, countdown and verdict,
`Accounts` has a match as a report to file, and `Mirror` has the real engine
under a match that nobody leaves.

### RealTimeGame

| TLA+ | Code |
|---|---|
| `board[cell]` | `Board::cells_`: `None` or `[id, kind, state, moved]` |
| `motion[p]`, `before` | `active_motions_` (one per piece, as `is_piece_busy` forbids a second) and its order |
| `cooldown[p]` | `cooldowns_remaining_ms_` |
| `gameOver`, `verdict` | `GameEngine::game_over_`, `GameOverObserver` |
| `captured` | history: the `captured_piece` of each event |
| `tick`, `pending`, `fallen` | the call of `wait` under way: its ms, the arrivals to resolve, `captured_this_batch` |
| `RequestMove`, `RequestJump` | accepted calls; refused ones change nothing |
| `BeginTick`, `ResolveArrival` / `SkipArrival`, `EndTick` | `advance_time` from top to bottom, one step per arrival of the sorted list |
| `WaitAfterGameOver` | `wait` of a decided game |

A wait is cut into steps to see the board between two arrivals. No other action
is enabled while one runs, as calls are serialised by `board_mutex_`.
In `AdvanceInChunks` the call is one function: `Arrivals` is the pending list, the
loop is `Swept`, a fold of `Resolved` that takes the `Latest` arrival last, and
`Advance` is all of `advance_time`. `StepsMakeOneWait` says that the steps together
do what that function does. Cells, promotion, colours, the order of the
collision tests and the clamping of instants are the code's. Time is in an
abstract unit: a cell's travel, a jump and the two rests are constants. An
absolute clock is not needed: the observer compares instants of one wait only,
as no later wait moves anything once a king is taken.

### Match

One named room, from its creation to its reaping.

| TLA+ | Code |
|---|---|
| `stage[x]`, `user[x]` | where connection x's thread is in `ClientSession` / `RoomManager` / `Match`, and its account |
| `room` | `RoomManager::Room`: `seats_taken`, `connected`, and whether it is still in `rooms_` |
| `seat`, `watchers` | the roster |
| `inbox[x]` | what x's client got: the revision of its Welcome, the updates, MatchStart, whether its banner is up |
| `queue`, `batch` | `queue_`, and what `tick` swapped out of it |
| `engine` | what Match sees of the engine: colours with something in flight, game over |
| `watch` | `pending_`, `watching_`, time left, `frozen_` |
| `pc`, `advancing`, `outcome`, `resigned`, `expired` | where `tick` is, `should_advance`, the verdict of this batch, `pending_game_over_`, `Tick::expired_for` |
| `announced`, `results` | history: GameOvers broadcast, calls of the result hook |
| `release` | `release_at_`, `released_` |

Each action is the code between two points at which another thread can act: a
mutex taken or released, an atomic flag, a broadcast. `Enter`, for instance, is
`join_room` under `rooms_mutex_`; `Claim`, `Reseat`, `Resume` and
`TellReconnected` are the four steps of `reconnect`. `TickBegins` ...
`ReleaseParticipants` are the phases of `tick`. One tick is the unit of the
grace and of the release delay, and every tick of a countdown broadcasts it.
A snapshot and the send of the Welcome it is for are one step (`Welcome`),
without effect: an inbox keeps which updates came and not in what order, so an
update that overtakes the Welcome leaves the same inbox. `Mirror` has two steps.
Arrivals are nondeterministic: any subset of the motions in flight arrives, and
any of them may take a king; `RealTimeGame` says which do.

`MatchLife` is the promise behind it: a phase (waiting, running, frozen,
finished), the player whose grace counts down, and the result. A frozen match
goes on only when the absent player returns, a king falls only while nobody is
counted out, a resignation ends the match at once and is told later, a forfeit
goes to the player who stayed, and the first result told is the last. `Match`
maps to it by `phase`, `absent` and `result`: the phase is `Match::state()`,
except that a countdown which has expired counts as frozen until the tick has
told the forfeit, since `DisconnectWatch::advance` lowers its flag first.

Left out of Match: MoveRejected, MotionStarted (in `Mirror`), ratings and names
in Welcome, rooms of `join_any` (in `Lobby`), and a connection that closes in the
middle of joining (the socket library calls a connection's handlers one after the
other). A Move carries the colour of the seat it came from and no cell, as the engine
is seen as the set of colours with a motion in flight.

### Lobby

| TLA+ | Code |
|---|---|
| `at[x]`, `user[x]`, `hold[x]` | how far connection x's thread is; `pending_` with its `username_lease_`; `seat_`, or what a join carries towards it |
| `registry` | `SessionRegistry::live_` |
| `rooms`, `named`, `waiting`, `nextRoom` | `rooms_`, `named_rooms_`, `waiting_by_rating_`, `next_room_id_` |
| `match[r]` | seats, reported drop, countdown, watchers, over |
| `directory` | this server's names in Redis |
| `owner`, `running` | `MatchScheduler::owners_`; the scheduler exists and runs |
| `Play`, `CreateRoom`, `JoinRoom` | the part of `join_any`, `create_room`, `join_room` under `rooms_mutex_` |
| `Join`, `Return`, `Watch`, `GiveBack` | what the match answers outside it, and the undo of a refusal |
| `Close`, `CountOut`, `Unschedule`, `Forget`, `Release` | `on_close`: match told, count taken under the lock, `scheduler_->remove`, `directory_->forget_room`, lease released |
| `TickMatch`, `StopAll`, `EntryExpires` | a worker's tick, the server's shutdown, a name's time to live |

`ClosestWaitingRoom` is the code's look at the two neighbours of `lower_bound`,
not a minimum over the list; that it finds the minimum is a property.

### Accounts

| TLA+ | Code |
|---|---|
| `users`, `games`, `tx` | the two SQLite tables; ratings written by a transaction not yet committed |
| `tokens`, `buckets`, `calls` | `AuthTokenStore`, `RateLimiter` |
| `request[h]`, `reply[h]` | one HTTP request or socket Login with the place its thread has reached, and what it was answered |
| `report[g]` | a match's end on its way through the result hook |
| `process`, `starts` | up, stopping (sockets gone), quiet (HTTP gone), down |
| `Ask`, `LookUp`, `Authenticate`, `Issue`, `AskHistory` | limiter first, then account, password, insertion under one lock, then the token |
| `WriteFirst`, `WriteSecond`, `Commit`, `Record` | `rerate_pair` or `rerate` in its transaction, then `record_game` in a statement of its own |
| `Stop`, `StopHttp`, `Exit`, `Crash`, `Start` | `main`'s order of shutdown; a death at any step; the tables found by the next start |

### Client

`pc` is where the main thread is; `drawn` is the part of a frame in which
`waitKey` runs the window's callbacks. `target` is the object the callback was
last given (`home`, `menu`, `board` or none), `link` the `ServerLink` with its
three slots and its queue, `overlay` the `MatchOverlay`. `SocketOpens`,
`SocketCloses`, `Answer` and `Receive` belong to the socket thread, everything
else to the main thread. A dialog is what it ends with: what is typed is left out,
and with it the difference of the two back ends (OpenCV and Windows prompt). An
image is its banner.

### Mirror

`RealTimeGame` extended with `history` and `revision` of Match, the update it has
not broadcast yet (`outbox`), the texts under way in both directions (`wire`,
`requests`), `client`, the ServerLink (board, revision, predictions and the two
observers), and `selected`, the Controller's selection.
Messages are encoded and decoded field by field with the defaults of `json.cpp`,
so what the wire drops is dropped. A connection joins in three steps: it is on the
roster (`Register`), its snapshot is taken under `board_mutex_` (`Snapshot`, the
Welcome then in `greeting`), and the Welcome is sent without the lock
(`SendWelcome`). A tick may publish between any two of them, so updates reach the
client before its Welcome, both such as the snapshot covers and newer ones;
`ServerLink` keeps the Welcome in a slot of its own, and `Queued` is the queue
left once it is taken out. An update goes out after `board_mutex_` is released
(`FinishWait`, then `Publish`). Clicks are pixels, turned into cells by
`PixelToCell`. `untold` is a history variable for `PredictionsAreTrue`: the pieces
this client was told had set off and whose flight was over at its snapshot.

## 3. Runs

| Run | Shows | States |
|---|---|---|
| `row` | every interleaving of moves, jumps and waits of four pieces on 1 x 4 cells | 3.1 M |
| `chunks` | from each reachable state of a 2 x 2 board with pawns and kings, one wait equals two shorter ones | 0.9 M |
| `match_room` | three connections and three accounts against the tick thread, and that `Match` implements `MatchLife` | 3.3 M (with symmetry) |
| `match_live` | liveness, two accounts, no spectators, no arrivals | 0.5 M |
| `lobby` | four connections of three accounts logging in, meeting, creating, returning, watching and leaving | 1.35 M (with symmetry) |
| `accounts` | three requests of any kind and one report, with a shutdown or a crash at any step and a restart | 0.74 M (with symmetry) |
| `client` | game after game, against any user, network and server | 0.56 M |
| `mirror` | the real engine and one client that joins at any moment, its Welcome overtaken by updates | 1.97 M |
| `vanish`, `dropped`, `gameover`, `banner` | expected violations, section 5 | |

**Bounds and why they are enough.**

- `row`: two kings and two rooks in a row. Every rook attacks a king and stands
  next to its own, so captures at a source, blocked landings, passes under a
  jumper, captures of a piece in flight and king captures all happen. Times are
  the shipped ones in units of 100 ms (400 ms a cell, jump 700 ms, rests 2500 ms
  and 834 ms, the last rounded down); waits of 100 and 200 ms.
- `chunks`: each pawn attacks a king and is one step from promotion, so a draw,
  a promotion and a capture by a promoted piece are reachable. Kings are slower
  than in the shipped configuration, so that one can be taken with its move
  under way. Waits of 2; splits into 1 + 1, 1 + 2, 2 + 1 and 2 + 2 are compared.
- `match_room`: three connections are a player each and either a spectator or
  the return of the one who dropped. A grace and a release delay of one tick, a
  queue of one command, one spectator and one batch of arrivals reach each limit.
- `match_live`: `MaxRevision = 0` takes arrivals away, which neither property is
  about, and no spectator may watch.
- `lobby`: ratings 0, 5 and 3 with a gap of 3, so that one pair may not meet, one
  may, and one meets at exactly the gap. Four connections let an account come back
  while its old connection is still closing; two rooms and one name that is freed
  and drawn again; two workers, of which the less loaded is to be found; one place
  for spectators, so that one is refused. A room in the model is opened once:
  `MaxRooms` bounds rooms ever opened, not rooms at a time.
- `accounts`: a clock of three values, a window of two, a budget of one attempt, a
  sweep at every second call and a token lifetime of one, so that a window ends, an
  entry is swept and a token expires while a request is under way. Two accounts,
  one password too weak for a new one, one address. Ratings start at 10 with a
  factor of 3, so that halves are rounded. `BadNames` is empty: a name that may not
  be registered is refused as a weak password is, and `WeakWords` covers that.
- `client`: both frame counts are 1 and the queue holds two messages. The properties ask
  which screen, link and callback meet, and each screen is reached from each other.
- `mirror`: three rooks on a row of three cells, travel of 2 a cell, a jump and a
  rest after a move of 6, waits of 3. A jump outlasts two captures of its cell, so
  the vanishing jumper is among the states; captures, blocked landings and passes
  under a jump all happen with three messages under way, two publishing waits and
  one request of the client. Promotion is encoded and
  decoded but no pawn is on the board.

`CHECK_DEADLOCK FALSE` in the configurations of `Match`, `Lobby` and `Accounts`: a
room really stops once everyone has left and it is reaped; a lobby once all
connections are gone (a closed one does not come back) and the server is down;
accounts once the requests, the clock and the starts of the bounds are used up.
`RealTimeGame` never stops; `Client` ends in `Over`, `Mirror` in `AtBound`.

**Fairness.** None in `RealTimeGame`: players need not play. In `Match`,
`WF_vars(Tick)` only: a worker of `MatchScheduler::run` ticks each match it
holds at least every 16 ms for as long as the room is registered, and no step of
a tick waits for a client (`board_mutex_` and the watch's mutex are held for
bounded stretches, sends are buffered). Connections get no fairness: a player
may never come back, never finish joining, never leave. In `Client`, weak fairness
of `WaitForWelcome` (`wait_for` returns after its timeout), `NetworkedFrame` and
`FrameEnds` (a frame never blocks); none for the user, the sockets or the server.
None in `Lobby`, `Accounts` and `Mirror`, whose properties are about safety.

### Properties

| Property | What would break it |
|---|---|
| `OnePlacePerPiece`, `MoverAtSource`, `CapturedStaysOff` | snapshots written back by arrivals |
| `StateMatchesMotion` | a flag left up or taken from the wrong piece |
| `AirborneIsSafe` | the order of landing and capture in one wait |
| `VerdictMatchesCaptures` | engine and observer disagreeing about the end |
| `ChunkingIsInvisible` | the result depending on the caller's step size |
| `StepsMakeOneWait` | the stepwise model and the loop as one function differing |
| `FrozenFlagHonest` | `frozen_` out of step with the fields it mirrors |
| `NoUpdateLost` | an update between registering and the snapshot |
| `DecidedIsReported` | an ending not announced, or a second rating change |
| `PresentNeverForfeits` | a return and the expiry of the grace both succeeding |
| `SeatStaysWithAccount`, `NobodyPlaysBothSides` | a seat reserved under one lock and taken or handed over outside it |
| `ImplementsMatchLife` | any interleaving that takes a match off its promised life |
| `CountdownStopsTheClock` | arrivals or new motions during a countdown |
| `DropIsSettled`, `EveryoneIsReleased` | a match frozen or held for ever |
| `WaitingListIsExact` | a waiting room left listed when paired or reaped, or dropped while its player waits |
| `WaitingAreFarApart`, `ClosestIsClosest` | the two neighbours of `lower_bound` missing the nearest opponent |
| `SeatsAreReserved` | a seat counted under the lock and not there when it is taken outside |
| `RoomsCountTheirConnections` | a room reaped under somebody, or a count given back twice |
| `OneConnectionPerSeat` | a return while the dropped connection is still closing |
| `NamesLeadToRooms` | a name freed and drawn again that leads to the first room, or an entry no thread will take off |
| `ScheduledWhileLive` | a match added and taken off by different threads, or by none |
| `OnlyFullRoomsStandEmpty` | a newcomer paired with, or seated in, a room that everybody has left (a refusal leaves it standing, `room_manager.cpp:288`) |
| `NameIsTakenOnce` | two registrations that both find the name free |
| `HistoryIsPrivate` | a token that outlives its request, process or account shown for another's history |
| `BudgetHolds` | windows, sweeps and refused attempts letting through more than twice the limit |
| `PointsAreAccountedFor` | a transaction half written, a rating counted twice, rounding that makes points |
| `ClicksHitLiveObjects` | a callback left on a local that has returned or a view that was freed |
| `GameIsTheOneAskedFor` | a link left over from an earlier game |
| `VerdictStays` | a late countdown taking the MENU button away |
| `WaitingEnds` | a lost answer, a closed socket or an absent opponent holding the client for ever |
| `MirrorAgrees` | an update lost, applied twice or out of order around the Welcome; what was queued before it thrown away |
| `EachArrivalCountsOnce` | score and move list fed by history and update with the same arrival |
| `PredictionsAreTrue` | a prediction that nothing ends |

Every property is also run against a mutated definition (the `Mutant_` operators,
each a plausible slip in that code) and is violated by it.

## 4. Proofs

For every board size, set of pieces, start position, timing and set of waits that
meet the named assumptions of `MovementRules` and `RealTimeGame` (positive travel
and jump times, pieces idle and distinct at the start, and `RestAssumption`: a
rest after a move is no shorter than a jump, as in `config/gameplay.json`).

| Theorem | Says |
|---|---|
| `TypeCorrect` | `[]TypeOK` |
| `EachPieceOnce` | `[]OnePlacePerPiece` |
| `MoversHoldTheirSource` | `[]MoverAtSource` |
| `ArrivalsAreSafe` | no arrival meets a condition on which `Board` throws |
| `CapturedNeverReturns` | `[]CapturedStaysOff` |
| `StateTellsTheMotion` | `[]StateMatchesMotion` |
| `JumpProtects` | `AirborneIsSafe` |
| `VerdictIsEarned` | `[]VerdictMatchesCaptures` |
| `StepsComeToOneCall` | `StepsMakeOneWait` (over `SpecChunks`) |
| `SplitsAreInvisible` | `[]ChunkingIsInvisible`, for any set of natural numbers as `Chunks` |

For any number of connections and accounts, any grace, release delay, queue cap,
spectator limit and number of arrivals (`MatchAssumption`: grace and cap positive, and
`None` none of the values it stands in for):

| Theorem | Says |
|---|---|
| `FlagIsHonest` | `[]FrozenFlagHonest` |
| `EndingsAreReported` | `[]DecidedIsReported` |
| `ClockIsStopped` | `CountdownStopsTheClock` |
| `MatchKeepsItsPromise` | `Match` implements `MatchLife` |
| `PresentPlayersAreSafe` | `PresentNeverForfeits` |
| `SeatsKeepTheirAccount` | `SeatStaysWithAccount` |
| `NothingIsMissed` | `[]NoUpdateLost` |
| `NobodyFacesThemselves` | `[]NobodyPlaysBothSides` |
| `TypesHold` | `[]TypeOK`, the caps of queue and batch among it |

For any number of connections, accounts, rooms, names and workers, any ratings and
any gap (`LobbyAssumption`, `NoneAssumption`: natural numbers, finitely many
connections, at least one worker, and `None` none of the values it stands in for):

| Theorem | Says |
|---|---|
| `LobbyInvariant`, `LobbyTypes` | the inductive invariant; `[]TypeOK` |
| `RoomsCount` | `[]RoomsCountTheirConnections` |
| `SeatsReserved` | `[]SeatsAreReserved` |
| `OneConnection` | `[]OneConnectionPerSeat` |
| `NamesLead` | `[]NamesLeadToRooms` |
| `WaitingExact`, `WaitingFarApart` | `[]WaitingListIsExact`, `[]WaitingAreFarApart` |
| `ClosestFound` | `[]ClosestIsClosest` |
| `Scheduled` | `[]ScheduledWhileLive` |
| `EmptyRoomsAreFull` | `[]OnlyFullRoomsStandEmpty` |

For any accounts, requests, matches, tokens and addresses, any Elo table with the
symmetry of the formula, and a crash at any step (`AccountsAssumption`,
`NoneAssumption`); and for any frame counts and queues of a client
(`BoundsAssumption`, `NoneAssumption`):

| Theorem | Says |
|---|---|
| `AccountsInvariant`, `AccountsTypes` | the inductive invariant; `[]TypeOK` |
| `NamesTakenOnce` | `[]NameIsTakenOnce` |
| `HistoriesPrivate` | `[]HistoryIsPrivate` |
| `BudgetsHold` | `[]BudgetHolds` |
| `PointsAccountedFor` | `[]PointsAreAccountedFor` |
| `ClientInvariant` | the inductive invariant |
| `AskedForGame` | `[]GameIsTheOneAskedFor` |
| `ClicksLive` | `[]ClicksHitLiveObjects` |
| `VerdictIsKept` | `VerdictStays` |

For one client of any game that meets the assumptions of `RealTimeGame`, whenever it
joins and whatever it clicks, with any piece values and limits (`ClientAssumption`:
the client's colour is one of the two, cells have a size, `None` is no board):

| Theorem | Says |
|---|---|
| `MirrorsAgree` | `[]MirrorAgrees` |
| `PredictionsHold` | `[]PredictionsAreTrue` |
| `ArrivalsCountOnce` | `[]EachArrivalCountsOnce` |

And of folds, for any operator and any way to pick the next element:

| Theorem | Says |
|---|---|
| `FoldStep`, `FoldEmpty` | a fold over a finite set is one application of the operator to the fold of the rest; over nothing it is the base |
| `FoldConcat`, `FoldOne`, `FoldAppend`, `FoldHead` | a sequence is folded from the left, one part after the other |
| `FoldAgrees`, `FoldStays` | a fold looks at its set only, and keeps what the operator keeps |

**The argument.** None of these is inductive: that a piece is on one cell rests
on what its motion's snapshot says and on where a mover stands. `Placement`
(module `RealTimeGame_proofs`) is the invariant for the first four: types,
motions filed under their piece with source and destination on the board, the
phases of a batch, one place per piece, a mover on its source, and a jumper on
its own cell or nowhere. `Captures` adds,
for the next three, how long a motion has to go (`MotionTiming`), that a captured
piece has no flight left, and the heart of the matter: while a jump is in flight,
whoever else stands on the jumper's cell has arrived during that jump and rests
at least until the landing (`VisitorRests`, the step that needs
`RestAssumption`), so no second jump or move ever starts there. `VerdictIsEarned`
has a small invariant of its own over `Placement`, `VerdictFollows`: which kings
the captures hold and what the observer says of them. One lemma per action carries each invariant
over a step.

For `Match` there are three invariants, each resting on the one before it.
`Course` (module `Match_proofs`) says where a tick can be when something is
decided: an announcement is owed only between the resignation and its broadcast
(`EndingTold`), an expired grace excludes any other ending and any countdown
(`ExpiryPending`), and once a tick means to let time pass only that tick could
open a countdown (`TimePasses`), which is why the check made before the lock
still holds after it. It carries the refinement: `Outlined` says that a step
which leaves the flag, the countdown, the seats and the endings alone stutters in
`MatchLife`, and the others are mapped one by one. `Seating` adds that an account has one live connection, that a reserved seat
is free until it is taken, and `AbsentAreGone`: whoever a drop, a countdown or an
expiry names has no connection, while a player on the way back into a seat is
named by none of them. `Hearing` adds that whoever is past registering is on the
roster, so that the broadcast after a snapshot reaches them. `Occupancy` counts the
room: with one seat taken exactly one connection is inside, and it holds the seat or
is about to take it, so a second one of the same account is refused before the
second seat is reserved (`NobodyPlaysBothSides`). `Bounds` completes the types.

`Lobby` has one inductive invariant, as its properties lean on each other in a
circle: who may take a seat depends on the counts, the counts on who is routed
where. To the listed properties it adds what a thread carries between two locks.
`Sessions` ties the registry to the connections that hold a lease, so that an
account has one session; `Carried` says which seat, name and live room go with
each stage; `Unopened` that rooms not opened yet are untouched; `SeatsKept` that a
seat's account stays while the room lives; `WatchersCounted` that a match counts
its spectators; `ReapedOnce` that one thread only takes a reaped match off the
scheduler; `CreatorsKnowTheName` that a creator holds its room's name. With them a
room's `seatsTaken` is the seats taken plus the connections on their way to one,
which is why `Match::join` never finds both seats full. That the neighbours of
`lower_bound` suffice needs `LeastNatural` (a set of ratings has a least member,
by well-founded induction on subsets); that a tie hides nobody needs
`WaitingAreFarApart`, which is itself kept because a player opens a room only when
nobody in reach waits. `EmptyRoomsAreFull` is a second induction over that invariant,
and a mutual one (`LateNext`): whoever is refused found both seats taken
(`LateFindFull`), since with one seat taken the room has a connection inside
(`OnlyFullRoomsStandEmpty` itself), that connection holds the seat, and its account
cannot have logged in a second time to reclaim it (`ReclaimedIsFull`); a room that
loses its last connection to anything but a refusal is reaped (`RoomsMove`).

`Accounts` strengthens its two properties to what holds between two locks:
`Claims` (a registration that inserted its name, answered or not, is the only one
of that name) and `Earned` (each stored token, and each token a history was shown
against, was handed to a request that knew the password). `Growth` is what every
step respects, a crash included: accounts keep their words and answers stand.
`PlayersKnown` makes a rating step well typed: both players of a report are in the
table, and an open transaction belongs to a match that is being rated. `Client`
needs `Linked` (a link is there exactly on the screens that wait or play, and is
the one dialled last) and `Aimed` (where each screen leaves the callback); that a
verdict stays is an induction over the messages of a frame (`UpdatedKeeps`).

`BudgetHolds` speaks of every window of time at once, so its invariant does, too:
`Kept` says of an address that no stretch of one window holds more than twice the
budget, that since its entry's start at most the budget was let through and no more
than the entry has counted, and, when it has no entry, that what the latest window
still holds is within one budget. `PointsAreAccountedFor` rests on `RatesFairly`
(two accounts play, and an open transaction has written what follows from the
ratings in the table), on Elo being zero-sum after rounding, and on `SumChange`:
changing one or two summands changes the sum by the difference.

**Folds.** The prover cannot instantiate an induction theorem, whose parameter is an
operator. `FoldTheorems` needs none: `NatSets` derives induction over a *set* of
numbers from the well-foundedness of `<`, the fold's recursive definition is shown
to have one solution by two such inductions (`FoldUnique`, `FoldExists`), and the
operator folded with is a CONSTANT of the module, which `AdvanceInChunks_proofs`,
`Accounts_proofs`, `Mirror_proofs` and `Client_proofs` instantiate. The sweep over the
arrivals of a call, sums, replays of a list of events and of a list of messages are
all reasoned about that way.

**The client's copy.** `Mirror_proofs` first shows that decoding undoes encoding
(`PieceReadBack` to `TextsReadBack`): pieces, boards, events, motions and each
message survive, whatever defaults `json.cpp` fills in. `Linked` says that the client
has its board or that exactly one text under way is its Welcome; `Reached` is then the client after
it has heard the texts under way, and `CaughtUp` that client and the update not yet
broadcast. A client is `Expecting` from its snapshot on, and what it is sent is `Sent`,
the wire with the Welcome being last, although the Welcome is still to be sent and
newer updates may pass it: by `ReachedByGreeting` and `ReachedPastGreeting` it makes
no difference to a client on which side of its Welcome a text arrives.
Before the snapshot there is no client to follow, only `Foretelling`: a piece in motion
was last announced to go where it goes, so the Welcome lays wrong predictions open for
pieces at rest alone, and those are `untold`. What must stay in step with the engine is not `CaughtUp`, which lags
during a wait, but `Ahead`: the same client told the arrivals of the wait under way
as well. `Shows(Ahead)` is the agreement of boards, of observers with the history
and of predictions with motions, and it holds between any two arrivals of a wait.
That the replay of an arrival (clear source, clear target, put the piece down) does
what the arbiter did needs `Captures` of `RealTimeGame_proofs` and `Provenance`: a
mover still looks as its snapshot does, and nothing flies or stands that was not on
the start board. `VanishedStays` shows that once a jumper is lost it stays lost, so the invariant never has to recover agreement after the exception of
`MirrorAgrees`. `Counted`
adds, for `ArrivalsCountOnce`, that each side's move list has one line for each event of that
side, in order, and its score is the worth of the pieces it has taken.

**One call and its parts.** `StepsComeToOneCall` needs that the order of arrivals is
total whenever no call is under way (`Ordered`): then the arrivals resolved so far are a
prefix of the sorted list, and `WaitUnderWay` says that the state is the sweep of
that prefix. For `SplitsAreInvisible` one call of a + b and two of a and b are swept
side by side (`SwathInduction` carries a relation from each prefix to the next). In
the first a, the two have the same board, fallen and captures, and rests that differ
by b (`SameSoFar`, `FirstPart`). Afterwards a piece that fell in the first part skips
its arrival in the long call and has no motion in the second short one, and a jump
whose piece has fallen still lands in both (`SameSince`, `SecondPart`). The verdicts of the second part differ by a
in their instants only (`VerdictShifts`), unless the first part decided the game: then
the long call's verdict stays and the engine takes no second call. `Rested` (a piece in flight has no rest left) is what makes a
landing's rest the only one it leaves.

**Checked by TLC only.** Liveness under fairness (`DropIsSettled`,
`EveryoneIsReleased`, `WaitingEnds`), which this prover does not reach. Every
safety invariant and action property that a passing run checks is also proved.

## 5. Where the code and what is said of it differ

- `vanish`: an enemy passes under a jumper and its record is cleared; a friend of
  the jumper takes the enemy; the jumper lands on a friend, is blocked and is
  never put back (`real_time_arbiter.cpp:114-121`). `collision_resolver.cpp:9-11`
  guards against a piece that "vanishes on landing". A client replays the landing
  without knowing that it was blocked (`server_link.cpp:277`), so its board shows
  the lost jumper in place of the friend it landed on: `Mirror` reaches such states, and
  `MirrorAgrees` excepts them.
- `dropped`: `DisconnectWatch::cancel` forgets the other player's drop
  (`disconnect_watch.cpp:59-61`), and `advance` one reported during a countdown
  (`:17-22`); the match is Running with an empty seat, against `match.hpp:38`.
- `gameover`: a resignation and a king capture in one tick give two GameOvers,
  possibly for different winners (`match.cpp:159-177`). Ratings follow the first.
- `banner`: the tick sends a countdown it decided on before a return cancelled it
  (`match.cpp:203-218`, `270-271`); the opponent's banner stays up.

Where the server's README describes an older design, the models follow the code, with
no run of their own: "spectators are unlimited" (`server/README.md:99-100`), but
`MatchAudience::kMaxSpectators` refuses one too many; a "dedicated tick thread" per
room (lines 12, 16, 23-32), but the workers of `MatchScheduler` tick all rooms; rooms
torn down "once empty" (line 15), but one left empty by a refused join stays
(`room_manager.cpp:288`); and the dropped player reclaims their colour (lines 105-111),
but not before the tick has opened the countdown (`match.cpp:240`): who returns in
those milliseconds is a spectator, and then forfeits.

## 6. Not modelled, and why

**Components.** Board text and its scripted tests, metrics, FileLogger, and the
client's animation, rendering, audio and platform layer display, format or count,
and nothing reads them back. EventBus is a synchronous call to a fixed list of
subscribers; the overlay's are in `Client`, sounds change nothing. The gameplay
configuration is read once at start and appears as CONSTANTS: `RestAssumption`
states the relation of rest and jump times the proofs need, which the loader does
not check. Password hashing is the fact that a stored hash verifies exactly its
password. Threads and buffers of the socket, HTTP and SQLite libraries are outside.
`PROJECT.json` lists every component.

**Inside modelled components.**

- `join_any`'s undo after a refused join: `SeatsAreReserved` shows it unreachable.
- A redirect to another server and a refusal of a name no server has: they change
  nothing here. Two servers on one directory are not composed.
- `wake`, `enqueue`'s look-up and the clamp of `elapsed_ms`: the time of a tick is
  abstract. The window on messages per second drops a message and changes nothing
  else; MoveRejected is only logged by the client.
- The travel time is a double truncated to an `int` (`motion_factory.cpp:32`); the
  models take it as a given number per kind of piece.
- A spectator who attaches after `release_all` is not closed by it: no
  property, as nothing promises it.
- A player who returns before the tick opened the countdown is modelled, against
  `server/README.md:105-111` (section 5): a hazard without a property.
- `PieceAnimatorRegistry` lives longer than a game (`kfc_gui_app/main.cpp:91`), and
  the second Welcome after an automatic reconnection is stored and never taken
  (`server_link.cpp:30`): `Mirror` follows one connection.

**Exceptions written into properties.** `ClicksHitLiveObjects` leaves out the box
that tells of a failed search: `disconnect()` has freed the view before
`show_message` runs (`kfc_gui_app/main.cpp:333`), and the model lets the click do
nothing or end the process. `PredictionsAreTrue` leaves out the pieces in
`untold`: announced ahead of the snapshot, arrived by it and not set off since. The
Welcome lays their prediction open again and `wait` returns before it is dropped
(`server_link.cpp:266`, `281`), against `ui/README.md:34`. `OnlyFullRoomsStandEmpty`
allows an empty room left by a refusal, but only with both seats taken: no waiting
player's room can be one. `NamesLeadToRooms` allows the two windows of the directory,
a name still registered while its room is taken down (`room_manager.cpp:380`) and a
room not registered yet, and `PointsAreAccountedFor` counts a rated game whose history
row a crash prevented (`kfc_server/main.cpp:160`); these windows are hazards without
a property. `MirrorAgrees` compares boards on which no
piece has vanished (section 5, `vanish`). A click on the home screen's buttons made
while the room dialog is open is taken when it closes (`home_screen.cpp:87`); the
model keeps that, and no property forbids it.

## 7. What is left

In order of what matters most:

1. `Match` and `Mirror` composed: drops, returns and a resignation on the real
   engine, and MatchStart's place between a snapshot and a second player.
2. Two servers on one directory: a name registered by both, redirects that chase
   each other, and an entry that outlives its server.
3. `Client` with a second Welcome after reconnecting, over `Mirror`'s board.
4. An abstract register of rooms which `Lobby` implements, as `Match` does
   `MatchLife`.
