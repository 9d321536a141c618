------------------------------- MODULE Match -------------------------------
(***************************************************************************)
(* One match of a named room, from create_room to the reaping of the room: *)
(* Match, DisconnectWatch and MatchAudience, with what RoomManager decides *)
(* about a connection that comes or goes.                                  *)
(*                                                                         *)
(* Each connection has a thread, which joins, watches, returns, sends and  *)
(* leaves; a scheduler worker runs tick.  Each action is a stretch of code *)
(* between two points where another thread can be seen: a mutex, an atomic *)
(* flag or a broadcast.  The engine is seen as Match sees it: colours with *)
(* something in flight, and batches of arrivals that may take a king.      *)
(* One tick is the unit of time.                                           *)
(***************************************************************************)
EXTENDS Integers, Sequences, FiniteSets

CONSTANTS
    Conns,          \* connections, one thread each
    Users,          \* accounts
    None,           \* std::nullopt
    Grace,          \* disconnect_grace_ms, in ticks
    ReleaseDelay,   \* release_delay_ms, in ticks
    QueueCap,       \* kMaxQueuedCommands
    MaxSpectators,  \* MatchAudience::kMaxSpectators
    MaxRevision     \* bound of the model: batches of arrivals in a match

Colors == {"White", "Black"}
Opposite(color) == IF color = "White" THEN "Black" ELSE "White"
Winners == Colors \cup {"Draw"}

ASSUME MatchAssumption ==
    /\ Grace \in Nat \ {0} /\ ReleaseDelay \in Nat
    /\ QueueCap \in Nat \ {0} /\ MaxSpectators \in Nat /\ MaxRevision \in Nat
    /\ None \notin Conns \cup Users \cup Winners

VARIABLES
    stage,        \* how far each connection's thread has come
    user,         \* the account it is logged in with
    room,         \* RoomManager::Room: [live, seatsTaken, connected]
    seat,         \* white_send, black_send
    watchers,     \* the roster's watchers
    early,        \* spectators who read already_started as false
    inbox,        \* what each connection's client was sent
    queue,        \* queue_
    engine,       \* [moving, over]: colours with a motion in flight; game_over_
    revision,     \* revision_
    gameOver,     \* Match::game_over_
    watch,        \* DisconnectWatch: [pending, watching, left, frozen]
    pc,           \* where tick is
    batch,        \* tick's pending commands
    advancing,    \* should_advance
    outcome,      \* the king taken by this tick's arrivals
    resigned,     \* pending_game_over_
    expired,      \* Tick::expired_for
    announced,    \* the GameOvers broadcast
    results,      \* the calls of on_result_
    release       \* [in, done]: ticks until release_at_, released_

audience == <<seat, watchers>>
thread == <<pc, batch, advancing, outcome, resigned, expired>>
ending == <<gameOver, announced, results, release>>
vars == <<stage, user, room, audience, early, inbox, queue, engine, revision, watch,
          thread, ending>>

Stages == {"away", "seating", "greeting", "starting", "peeking", "attaching",
           "viewing", "claiming", "returning", "resuming", "reporting", "in",
           "leaving", "left"}
Command == [from : Colors, resign : BOOLEAN]
Letters == [welcome : {None} \cup (0 .. MaxRevision), updates : SUBSET (1 .. MaxRevision),
            started : BOOLEAN, banner : BOOLEAN]
Unopened == [welcome |-> None, updates |-> {}, started |-> FALSE, banner |-> FALSE]

Init ==
    /\ stage = [x \in Conns |-> "away"]
    /\ user = [x \in Conns |-> None]
    /\ room = [live |-> TRUE, seatsTaken |-> 0, connected |-> 0]
    /\ seat = [c \in Colors |-> None] /\ watchers = {} /\ early = {}
    /\ inbox = [x \in Conns |-> Unopened]
    /\ queue = <<>>
    /\ engine = [moving |-> {}, over |-> FALSE]
    /\ revision = 0
    /\ watch = [pending |-> None, watching |-> None, left |-> 0, frozen |-> FALSE]
    /\ pc = "idle" /\ batch = <<>> /\ advancing = FALSE
    /\ outcome = None /\ resigned = None /\ expired = None
    /\ gameOver = FALSE /\ announced = <<>> /\ results = <<>>
    /\ release = [in |-> None, done |-> FALSE]
-----------------------------------------------------------------------------
BothSeatsTaken == \A c \in Colors : seat[c] # None
Roster == ({seat[c] : c \in Colors} \cup watchers) \ {None}
\* The seat of x's account, the only one it can have (NobodyPlaysBothSides).
Mutant_ColorsOf(x) == {c \in Colors : seat[c] # None}
ColorsOf(x) == {c \in Colors : seat[c] # None /\ user[seat[c]] = user[x]}
BoardUnlocked == pc # "applying"

Mutant_State ==
    IF gameOver THEN "Finished" ELSE IF ~BothSeatsTaken THEN "Waiting" ELSE "Running"

State ==
    IF gameOver THEN "Finished"
    ELSE IF watch.frozen THEN "Frozen"
    ELSE IF ~BothSeatsTaken THEN "Waiting"
    ELSE "Running"

\* A send to a connection that has closed reaches nobody.
Tell(receivers, letter) ==
    inbox' = [x \in Conns |-> IF x \in receivers /\ stage[x] \notin {"leaving", "left"}
                             THEN letter[x] ELSE inbox[x]]
MatchStart == [x \in Conns |-> [inbox[x] EXCEPT !.started = TRUE]]
Banner(up) == [x \in Conns |-> [inbox[x] EXCEPT !.banner = up]]
BoardUpdate == [x \in Conns |-> [inbox[x] EXCEPT !.updates = @ \cup {revision}]]
Step(x, from, to) == stage[x] = from /\ stage' = [stage EXCEPT ![x] = to]

\* welcome_for takes the snapshot under board_mutex_, and the send follows without
\* it.  One step here: an inbox keeps which updates came, not when, so an update
\* that overtakes the Welcome leaves the same inbox.  Mirror has two steps.
Welcome(x, started) ==
    /\ BoardUnlocked
    /\ Tell({x}, [inbox EXCEPT ![x].welcome = revision, ![x].started = @ \/ started])
-----------------------------------------------------------------------------
\* DisconnectWatch, whose every operation holds its mutex.

Quiet == [pending |-> None, watching |-> None, left |-> 0, frozen |-> FALSE]

ReportDisconnect(color) == [watch EXCEPT !.pending = color, !.frozen = TRUE]

Mutant_CancelKeepsPending == [watch EXCEPT !.watching = None, !.frozen = FALSE]
Mutant_CancelNothing == watch
Cancelled == [watch EXCEPT !.watching = None, !.pending = None, !.frozen = FALSE]

\* advance's first half: a drop reported opens a countdown if none runs.
Mutant_Opened ==
    IF watch.pending # None \/ watch.watching # None
    THEN [watch EXCEPT !.watching = IF @ = None THEN watch.pending ELSE @,
                       !.left = Grace, !.pending = None]
    ELSE watch
Opened ==
    IF watch.pending # None /\ watch.watching = None
    THEN [watch EXCEPT !.watching = watch.pending, !.left = Grace, !.pending = None]
    ELSE [watch EXCEPT !.pending = None]
-----------------------------------------------------------------------------
\* Connection threads.  create_room seats the first; the room's id reaches the
\* others with that player's Welcome, and one account has one connection.
Mutant_MayEnter(x, name) ==
    /\ room.live /\ stage[x] = "away"
    /\ room.seatsTaken = 0 \/ \E y \in Conns : stage[y] \notin {"away", "seating", "greeting"}

MayEnter(x, name) ==
    /\ room.live /\ stage[x] = "away"
    /\ \A y \in Conns : user[y] = name => stage[y] = "left"
    /\ room.seatsTaken = 0 \/ \E y \in Conns : stage[y] \notin {"away", "seating", "greeting"}

\* join_room, under rooms_mutex_.
Enter(x, name) ==
    LET enter(to, seats) ==
            /\ stage' = [stage EXCEPT ![x] = to]
            /\ room' = [room EXCEPT !.seatsTaken = @ + seats, !.connected = @ + 1]
        mine == {c \in Colors : seat[c] # None /\ user[seat[c]] = name}
    IN  /\ MayEnter(x, name)
        /\ user' = [user EXCEPT ![x] = name]
        /\ IF gameOver THEN stage' = [stage EXCEPT ![x] = "left"] /\ UNCHANGED room
           ELSE IF watch.watching \in mine THEN enter("claiming", 0)
           ELSE IF room.seatsTaken >= 2 THEN enter("peeking", 0)
           ELSE enter("seating", 1)
        /\ UNCHANGED <<audience, early, inbox, queue, engine, revision, watch, thread, ending>>

\* Match::join: the seat, the Welcome and, for Black, the MatchStart.
Seat(x) ==
    /\ Step(x, "seating", "greeting")
    /\ seat' = [seat EXCEPT ![IF seat["White"] = None THEN "White" ELSE "Black"] = x]
    /\ UNCHANGED <<user, room, watchers, early, inbox, queue, engine, revision, watch, thread, ending>>

Greet(x) ==
    /\ Step(x, "greeting", IF seat["Black"] = x THEN "starting" ELSE "in")
    /\ Welcome(x, FALSE)
    /\ UNCHANGED <<user, room, audience, early, queue, engine, revision, watch, thread, ending>>

StartMatch(x) ==
    /\ Step(x, "starting", "in")
    /\ Tell(Roster, MatchStart)
    /\ UNCHANGED <<user, room, audience, early, queue, engine, revision, watch, thread, ending>>

\* Match::join_spectator: already_started, then watch, then the Welcome.
Peek(x) ==
    /\ Step(x, "peeking", "attaching")
    /\ early' = IF BothSeatsTaken THEN early ELSE early \cup {x}
    /\ UNCHANGED <<user, room, audience, inbox, queue, engine, revision, watch, thread, ending>>

Attach(x) ==
    /\ IF Cardinality(watchers) >= MaxSpectators
       THEN /\ Step(x, "attaching", "left")
            /\ room' = [room EXCEPT !.connected = @ - 1]
            /\ UNCHANGED watchers
       ELSE /\ Step(x, "attaching", "viewing")
            /\ watchers' = watchers \cup {x}
            /\ UNCHANGED room
    /\ UNCHANGED <<user, seat, early, inbox, queue, engine, revision, watch, thread, ending>>

View(x) ==
    /\ Step(x, "viewing", "in")
    /\ Welcome(x, x \notin early)
    /\ UNCHANGED <<user, room, audience, early, queue, engine, revision, watch, thread, ending>>

\* Match::reconnect: DisconnectWatch::cancel, reseat, Welcome and MatchStart,
\* then the news.  A refused claim gives its connection back to the room.
Claim(x) ==
    /\ IF gameOver \/ watch.watching \notin ColorsOf(x)
       THEN /\ Step(x, "claiming", "left")
            /\ room' = [room EXCEPT !.connected = @ - 1]
            /\ UNCHANGED watch
       ELSE /\ Step(x, "claiming", "returning")
            /\ watch' = Cancelled
            /\ UNCHANGED room
    /\ UNCHANGED <<user, audience, early, inbox, queue, engine, revision, thread, ending>>

Mutant_Reseat(x) ==
    /\ Step(x, "returning", "resuming")
    /\ UNCHANGED <<user, room, audience, early, inbox, queue, engine, revision, watch, thread, ending>>

Reseat(x) ==
    /\ Step(x, "returning", "resuming")
    /\ seat' = [c \in Colors |-> IF c \in ColorsOf(x) THEN x ELSE seat[c]]
    /\ UNCHANGED <<user, room, watchers, early, inbox, queue, engine, revision, watch, thread, ending>>

Resume(x) ==
    /\ Step(x, "resuming", "reporting")
    /\ Welcome(x, TRUE)
    /\ UNCHANGED <<user, room, audience, early, queue, engine, revision, watch, thread, ending>>

TellReconnected(x) ==
    /\ Step(x, "reporting", "in")
    /\ Tell(Roster, Banner(FALSE))
    /\ UNCHANGED <<user, room, audience, early, queue, engine, revision, watch, thread, ending>>

\* Match::enqueue; a command past the cap is dropped.
Mutant_QueueHasRoom == Len(queue) <= QueueCap
QueueHasRoom == Len(queue) < QueueCap

Enqueue(x, resign) ==
    /\ room.live /\ stage[x] = "in" /\ QueueHasRoom
    /\ \E c \in Colors : seat[c] = x /\ queue' = Append(queue, [from |-> c, resign |-> resign])
    /\ UNCHANGED <<stage, user, room, audience, early, inbox, engine, revision, watch, thread, ending>>

\* RoomManager::on_disconnect tells the match, then counts the connection out.
Disconnect(x) ==
    /\ Step(x, "in", "leaving")
    /\ IF x \in watchers
       THEN watchers' = watchers \ {x} /\ UNCHANGED watch
       ELSE /\ \E c \in Colors :
                 seat[c] = x /\ watch' = ReportDisconnect(c)
            /\ UNCHANGED watchers
    /\ inbox' = [inbox EXCEPT ![x] = Unopened] /\ early' = early \ {x}
    /\ UNCHANGED <<user, room, seat, queue, engine, revision, thread, ending>>

CountOut(x) ==
    /\ Step(x, "leaving", "left")
    /\ room' = [room EXCEPT !.connected = @ - 1, !.live = room.connected > 1]
    /\ UNCHANGED <<user, audience, early, inbox, queue, engine, revision, watch, thread, ending>>
-----------------------------------------------------------------------------
\* Match::tick, on a worker of the scheduler.

At(from, to) == pc = from /\ pc' = to

\* The queue is taken, and should_advance read, before board_mutex_.
TickBegins ==
    /\ room.live /\ At("idle", "applying")
    /\ batch' = queue /\ queue' = <<>>
    /\ advancing' = (State = "Running")
    /\ watch' = [watch EXCEPT !.left = IF @ = 0 THEN 0 ELSE @ - 1]
    /\ release' = [release EXCEPT !.in = IF @ \in {None, 0} THEN @ ELSE @ - 1]
    /\ UNCHANGED <<stage, user, room, audience, early, inbox, engine, revision, outcome,
                   resigned, expired, gameOver, announced, results>>

\* apply, for the oldest command; the engine may refuse what it asks for, and
\* does once MaxRevision batches have arrived.
Apply ==
    /\ pc = "applying" /\ batch # <<>>
    /\ batch' = Tail(batch)
    /\ LET command == Head(batch)
       IN  \/ /\ State \in {"Finished", "Waiting"} \/ (State = "Frozen" /\ ~command.resign)
              /\ UNCHANGED <<gameOver, resigned, engine>>
           \/ /\ State \in {"Frozen", "Running"} /\ command.resign
              /\ gameOver' = TRUE /\ resigned' = Opposite(command.from)
              /\ UNCHANGED engine
           \/ /\ State = "Running" /\ ~command.resign
              /\ \/ UNCHANGED engine
                 \/ /\ ~engine.over /\ revision < MaxRevision
                    /\ engine' = [engine EXCEPT !.moving = @ \cup {command.from}]
              /\ UNCHANGED <<gameOver, resigned>>
    /\ UNCHANGED <<stage, user, room, audience, early, inbox, queue, revision, watch, pc,
                   advancing, outcome, expired, announced, results, release>>

\* The verdict the observer reaches when these colours take a king.
Verdicts(taking) ==
    IF taking = {} THEN {None} ELSE IF taking = Colors THEN Winners ELSE taking

\* GameEngine::wait, and the revision of the batch it returns.
Wait ==
    /\ pc = "applying" /\ batch = <<>>
    /\ IF advancing /\ ~engine.over
       THEN \E arrived \in SUBSET engine.moving, still \in SUBSET engine.moving,
               taking \in SUBSET engine.moving, verdict \in Winners \cup {None} :
                /\ engine.moving = arrived \cup still /\ taking \subseteq arrived
                /\ verdict \in Verdicts(taking)
                /\ arrived # {} => revision < MaxRevision
                /\ engine' = [moving |-> still, over |-> taking # {}]
                /\ revision' = IF arrived = {} THEN revision ELSE revision + 1
                /\ outcome' = verdict
                /\ pc' = IF arrived = {} THEN "resigning" ELSE "updating"
       ELSE pc' = "resigning" /\ UNCHANGED <<engine, revision, outcome>>
    /\ advancing' = FALSE
    /\ UNCHANGED <<stage, user, room, audience, early, inbox, queue, watch, batch,
                   resigned, expired, ending>>

BroadcastUpdate ==
    /\ At("updating", IF outcome = None THEN "resigning" ELSE "deciding")
    /\ Tell(Roster, BoardUpdate)
    /\ UNCHANGED <<stage, user, room, audience, early, queue, engine, revision, watch, batch,
                   advancing, outcome, resigned, expired, ending>>

\* The GameOver is broadcast, then report_result runs.
Mutant_Announce(winner) ==
    /\ announced' = Append(announced, winner)
    /\ results' = Append(results, winner)
    /\ gameOver' = TRUE
    /\ Tell(Roster, Banner(FALSE))

Announce(winner) ==
    /\ announced' = Append(announced, winner)
    /\ results' = IF results = <<>> THEN <<winner>> ELSE results
    /\ gameOver' = TRUE
    /\ Tell(Roster, Banner(FALSE))

AnnounceCapture ==
    /\ At("deciding", "resigning")
    /\ Announce(outcome) /\ outcome' = None
    /\ UNCHANGED <<stage, user, room, audience, early, queue, engine, revision, watch, batch,
                   advancing, resigned, expired, release>>

AnnounceResignation ==
    /\ At("resigning", "counting")
    /\ IF resigned # None THEN Announce(resigned)
       ELSE UNCHANGED <<announced, results, gameOver, inbox>>
    /\ resigned' = None
    /\ UNCHANGED <<stage, user, room, audience, early, queue, engine, revision, watch, batch,
                   advancing, outcome, expired, release>>

\* DisconnectWatch::advance; with the match over, DisconnectWatch::clear.
AdvanceWatch ==
    /\ pc = "counting"
    /\ \/ /\ gameOver
          /\ pc' = "releasing" /\ watch' = Quiet /\ UNCHANGED expired
       \/ /\ ~gameOver /\ Opened.watching = None
          /\ pc' = "releasing" /\ watch' = Opened /\ UNCHANGED expired
       \/ /\ ~gameOver /\ Opened.watching # None /\ Opened.left > 0
          /\ pc' = "warning" /\ watch' = Opened /\ UNCHANGED expired
       \/ /\ ~gameOver /\ Opened.watching # None /\ Opened.left = 0
          /\ pc' = "forfeiting" /\ watch' = Quiet /\ expired' = Opened.watching
    /\ UNCHANGED <<stage, user, room, audience, early, inbox, queue, engine, revision, batch,
                   advancing, outcome, resigned, ending>>

\* OpponentDisconnected, sent outside DisconnectWatch's mutex.
BroadcastCountdown ==
    /\ At("warning", "releasing")
    /\ Tell(Roster, Banner(TRUE))
    /\ UNCHANGED <<stage, user, room, audience, early, queue, engine, revision, watch, batch,
                   advancing, outcome, resigned, expired, ending>>

Mutant_Forfeit ==
    /\ At("forfeiting", "releasing")
    /\ Announce(expired) /\ expired' = None
    /\ UNCHANGED <<stage, user, room, audience, early, queue, engine, revision, watch, batch,
                   advancing, outcome, resigned, release>>

Forfeit ==
    /\ At("forfeiting", "releasing")
    /\ Announce(Opposite(expired)) /\ expired' = None
    /\ UNCHANGED <<stage, user, room, audience, early, queue, engine, revision, watch, batch,
                   advancing, outcome, resigned, release>>

Mutant_ReleaseIn == IF gameOver THEN ReleaseDelay ELSE release.in
ReleaseIn == IF gameOver /\ release.in = None THEN ReleaseDelay ELSE release.in

ReleaseParticipants ==
    /\ At("releasing", "idle")
    /\ release' = [in |-> ReleaseIn, done |-> release.done \/ ReleaseIn = 0]
    /\ UNCHANGED <<stage, user, room, audience, early, inbox, queue, engine, revision, watch, batch,
                   advancing, outcome, resigned, expired, gameOver, announced, results>>

Tick == \/ TickBegins \/ Apply \/ Wait \/ BroadcastUpdate \/ AnnounceCapture
        \/ AnnounceResignation \/ AdvanceWatch \/ BroadcastCountdown \/ Forfeit
        \/ ReleaseParticipants

Connection(x) ==
    \/ \E name \in Users : Enter(x, name)
    \/ Seat(x) \/ Greet(x) \/ StartMatch(x)
    \/ Peek(x) \/ Attach(x) \/ View(x)
    \/ Claim(x) \/ Reseat(x) \/ Resume(x) \/ TellReconnected(x)
    \/ \E resign \in BOOLEAN : Enqueue(x, resign)
    \/ Disconnect(x) \/ CountOut(x)

Next == Tick \/ \E x \in Conns : Connection(x)

\* A worker of the scheduler ticks each match it holds for as long as the room
\* lives (match_scheduler.cpp:138); nothing is asked of the connections.
Spec == Init /\ [][Next]_vars /\ WF_vars(Tick)
-----------------------------------------------------------------------------
\* Properties.

\* Types of the state.
TypeOK ==
    /\ stage \in [Conns -> Stages]
    /\ user \in [Conns -> Users \cup {None}]
    /\ room.live \in BOOLEAN /\ room.seatsTaken \in 0 .. 2 /\ room.connected \in Nat
    /\ seat \in [Colors -> Conns \cup {None}] /\ watchers \subseteq Conns /\ early \subseteq Conns
    /\ inbox \in [Conns -> Letters]
    /\ Len(queue) <= QueueCap /\ Len(batch) <= QueueCap
    /\ engine \in [moving : SUBSET Colors, over : BOOLEAN]
    /\ revision \in 0 .. MaxRevision
    /\ watch \in [pending : Colors \cup {None}, watching : Colors \cup {None},
                  left : 0 .. Grace, frozen : BOOLEAN]
    /\ outcome \in Winners \cup {None} /\ resigned \in Colors \cup {None}
    /\ expired \in Colors \cup {None}
    /\ gameOver \in BOOLEAN /\ advancing \in BOOLEAN
    /\ release.in \in {None} \cup (0 .. ReleaseDelay)

\* frozen_ is read without DisconnectWatch's mutex, so it has to say at every
\* instant what pending_ and watching_ say: a flag left up would stop the match
\* for good, one left down would let the survivor play on.
FrozenFlagHonest ==
    watch.frozen <=> watch.pending # None \/ watch.watching # None

\* "Registered before snapshotting so a BoardUpdate can't slip through unseen
\* between the two" (match.cpp:62): whoever was welcomed has had each update since
\* the one the Welcome's board includes, in a seat, back in it or watching.
NoUpdateLost ==
    LET sent == IF pc = "updating" THEN revision - 1 ELSE revision
    IN  \A x \in Conns :
            inbox[x].welcome # None =>
                (inbox[x].welcome + 1) .. sent \subseteq inbox[x].updates

\* Between ticks a decided match has told everyone, and told the result hook
\* once, with the winner announced first, whichever of the three endings met.
DecidedIsReported ==
    /\ pc = "idle" => (gameOver <=> announced # <<>>)
    /\ results = (IF announced = <<>> THEN <<>> ELSE <<Head(announced)>>)

\* Nobody faces themselves: an account has one connection, and a room that its
\* only player leaves is reaped before that account can come back to it.
NobodyPlaysBothSides == BothSeatsTaken => user[seat["White"]] # user[seat["Black"]]

\* A player whose connection holds the seat does not lose it on time, however a
\* return and the expiry of the grace fall together.
PresentNeverForfeits ==
    [][Len(results') > Len(results) /\ expired # None
         => stage[seat[expired]] \in {"leaving", "left"}]_vars

\* A seat is reserved under one mutex and taken later, and handed over while its
\* last owner's thread may still be leaving: it never changes accounts.
SeatStaysWithAccount ==
    [][\A c \in Colors : seat[c] # None => user'[seat'[c]] = user[seat[c]]]_vars

\* "countdown running, board frozen for both sides" (match.hpp:40): while the
\* grace counts down nothing arrives and nothing new sets off.
CountdownStopsTheClock ==
    [][watch.watching # None => UNCHANGED <<revision, engine>>]_vars

\* The match as MatchLife sees it: a countdown that has run out stays one until
\* the forfeit is told.
phase == IF expired # None THEN "Frozen" ELSE State
absent == IF gameOver THEN None ELSE IF expired # None THEN expired ELSE watch.watching
result == IF results = <<>> THEN None ELSE results[1]
Life == INSTANCE MatchLife WITH phase <- phase, absent <- absent, result <- result,
                                None <- None

\* The match keeps what MatchLife promises, through every interleaving of the
\* threads that tick, drop, return and resign.
ImplementsMatchLife == Life!Spec

\* A drop is settled, by a return, a forfeit or an ending of another kind.
DropIsSettled == watch.frozen ~> ~watch.frozen \/ ~room.live

\* A decided match lets its participants go.
EveryoneIsReleased == gameOver ~> release.done \/ ~room.live

\* MatchState::Running: "Both seats filled, nobody dropped" (match.hpp:38).  A
\* seat with no connection behind it is being reclaimed.
RunningMeansNobodyDropped ==
    State = "Running" /\ pc = "idle" =>
        \A c \in Colors :
            \/ stage[seat[c]] \notin {"leaving", "left"}
            \/ \E x \in Conns : stage[x] = "returning" /\ c \in ColorsOf(x)

\* A resignation's GameOver is broadcast "instead" of an arrival's, so a match
\* has one (match.cpp:172).
OneGameOver == Len(announced) <= 1

\* OpponentReconnected: "They came back; clear the countdown" (protocol/README.md).
NoStaleBanner ==
    /\ State = "Running" /\ pc = "idle"
    /\ \A x \in Conns : stage[x] \notin {"returning", "resuming", "reporting"}
    => \A x \in Roster : ~inbox[x].banner
=============================================================================
