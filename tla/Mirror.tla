------------------------------- MODULE Mirror -------------------------------
(***************************************************************************)
(* The board of a match seen from one client: the engine of RealTimeGame,  *)
(* what Match publishes of it, the wire format, and the ServerLink of a    *)
(* player or spectator who joins (or comes back) at any moment, with the   *)
(* Controller that turns clicks into requests and the score and move-log   *)
(* observers fed by the arrivals.                                          *)
(*                                                                         *)
(* wire is the socket together with incoming_queue_, both in order.  A     *)
(* wait touches neither the wire nor the requests, so the client's steps   *)
(* are taken between waits.                                                *)
(***************************************************************************)
EXTENDS RealTimeGame, SequencesExt

CONSTANTS
    OwnColor,      \* assigned_color of the player
    PieceValue,    \* piece_value of config/gameplay.json
    CellSize,      \* kCellSizePixels
    Pixels,        \* the coordinates clicked
    MaxRevision,   \* bound: waits that publish arrivals
    MaxWire,       \* bound: texts to this client under way when Match acts
    MaxRequests    \* bound: requests of this client under way

ASSUME ClientAssumption ==
    /\ OwnColor \in Colors
    /\ PieceValue \in [Kinds -> Nat]
    /\ CellSize \in Nat \ {0} /\ {MaxRevision, MaxWire, MaxRequests} \subseteq Nat
    /\ Pixels \subseteq Int
    /\ None \notin Boards

VARIABLES
    events,     \* arrivals of the wait under way
    history,    \* Match::history_
    revision,   \* Match::revision_
    outbox,     \* the BoardUpdate built by the tick and not yet broadcast, if any
    role,       \* None before it joins, then Player or Spectator
    joined,     \* No, Registered (on the roster), Snapshotted or Welcomed
    greeting,   \* the Welcome built and not yet sent, if any
    wire,       \* texts sent to this client and not yet applied
    requests,   \* texts it sent and Match has not yet applied
    client,     \* the ServerLink and its observers
    selected,   \* the Controller: selected_cell_, selected_piece_id_
    untold      \* history: pieces announced to this client whose motion was over
                \* at its snapshot, until they set off again

engineVars == vars
serverVars == <<events, history, revision, outbox>>
mirrorVars == <<vars, serverVars, role, joined, greeting, wire, requests, client, selected,
                untold>>

Roles == {"Player", "Spectator"}
-----------------------------------------------------------------------------
\* protocol/json.cpp.  A text is its type and its payload; a field that holds
\* nothing is left out, and a reader fills in what may be missing.

PieceOnWire(piece, cell) ==
    [id |-> piece.id, color |-> ColorOf[piece.id], kind |-> piece.kind,
     cell |-> cell, state |-> piece.state, has_moved |-> piece.moved]
PieceFrom(w) == [id |-> w.id, kind |-> w.kind, state |-> w.state, moved |-> w.has_moved]

SnapshotOf(b) == {PieceOnWire(b[c], c) : c \in {d \in Cells : b[d] # None}}
BoardFrom(pieces) ==
    [c \in Cells |-> IF \E w \in pieces : w.cell = c
                     THEN PieceFrom(CHOOSE w \in pieces : w.cell = c) ELSE None]

Without(record, field) == [f \in DOMAIN record \ {field} |-> record[f]]
Given(w, field, default) == IF field \in DOMAIN w THEN w[field] ELSE default

EventOnWire(e) ==
    LET full == [moved_piece |-> PieceOnWire(e.piece, e.destination), source |-> e.source,
                 destination |-> e.destination, jump |-> e.jump,
                 was_promotion |-> e.promoted,
                 captured_piece |-> IF e.captured = None THEN None
                                    ELSE PieceOnWire(e.captured, e.destination)]
    IN  IF e.captured = None THEN Without(full, "captured_piece") ELSE full

EventFrom(w) ==
    [piece |-> PieceFrom(w.moved_piece), source |-> w.source,
     destination |-> w.destination, jump |-> w.jump, promoted |-> w.was_promotion,
     captured |-> IF "captured_piece" \in DOMAIN w THEN PieceFrom(w.captured_piece) ELSE None]

MotionOnWire(m) ==
    [moving_piece |-> PieceOnWire(m.piece, m.source), source |-> m.source,
     destination |-> m.destination, jump |-> m.jump, duration_ms |-> m.duration,
     elapsed_ms |-> m.elapsed, cooldown_ms |-> m.cooldown]
MotionFrom(w) ==
    [piece |-> PieceFrom(w.moving_piece), source |-> w.source,
     destination |-> w.destination, jump |-> w.jump, duration |-> w.duration_ms,
     elapsed |-> w.elapsed_ms, cooldown |-> w.cooldown_ms]

EventsOnWire(es) == [i \in DOMAIN es |-> EventOnWire(es[i])]
EventsFrom(ws) == [i \in DOMAIN ws |-> EventFrom(ws[i])]

\* encode: the envelope around the messages that concern a board.
WelcomeText ==
    [type |-> "Welcome",
     payload |-> [assigned_color |-> IF role = "Player" THEN OwnColor ELSE "White",
                  board |-> SnapshotOf(board), spectator |-> role = "Spectator",
                  history |-> EventsOnWire(history), revision |-> revision]]
UpdateText(es, r) ==
    [type |-> "BoardUpdate", payload |-> [arrival_events |-> EventsOnWire(es), revision |-> r]]
MotionText(m) == [type |-> "MotionStarted", payload |-> [motion |-> MotionOnWire(m)]]
MoveText(source, destination) ==
    [type |-> "Move", payload |-> [source |-> source, destination |-> destination]]
JumpText(cell) == [type |-> "Jump", payload |-> [cell |-> cell]]

\* decode_server_message: spectator, history and revision have defaults.
DecodedServer(text) ==
    LET p == text.payload
    IN  CASE text.type = "Welcome" ->
                [kind |-> "Welcome", color |-> p.assigned_color, board |-> BoardFrom(p.board),
                 spectator |-> Given(p, "spectator", FALSE),
                 history |-> EventsFrom(Given(p, "history", <<>>)),
                 revision |-> Given(p, "revision", 0)]
          [] text.type = "BoardUpdate" ->
                [kind |-> "BoardUpdate", events |-> EventsFrom(p.arrival_events),
                 revision |-> Given(p, "revision", 0)]
          [] text.type = "MotionStarted" ->
                [kind |-> "MotionStarted", motion |-> MotionFrom(p.motion)]

\* decode_client_message, for what the Controller sends.
DecodedClient(text) ==
    LET p == text.payload
    IN  CASE text.type = "Move" ->
                [kind |-> "Move", source |-> p.source, destination |-> p.destination]
          [] text.type = "Jump" -> [kind |-> "Jump", source |-> p.cell]
-----------------------------------------------------------------------------
\* Match, as far as the board goes.

\* The event resolve_arrival makes of motion m arriving on board b.
ArrivalOf(b, m) ==
    LET occupant == b[m.destination]
        collision == CollisionKind(m.piece, occupant)
        landed == Landed(m)
    IN  IF collision = "FriendlyBlocked"
        THEN [piece |-> [m.piece EXCEPT !.state = "Idle"], source |-> m.source,
              destination |-> m.source, jump |-> m.jump, promoted |-> FALSE, captured |-> None]
        ELSE [piece |-> landed, source |-> m.source, destination |-> m.destination,
              jump |-> m.jump, promoted |-> landed.kind # m.piece.kind,
              captured |-> IF collision = "EnemyCaptured" THEN occupant ELSE None]

ToRoster(text) == wire' = IF joined = "No" THEN wire ELSE Append(wire, text)

Free == tick = 0 /\ outbox = <<>> /\ Len(wire) < MaxWire
ClientStays == UNCHANGED <<role, joined, greeting, client, selected>>

\* apply() of an accepted request: the motion is announced at once.
Announce(p) == ToRoster(MotionText(motion'[p])) /\ untold' = untold \ {p}

\* The commands of the other connections.
OtherRequest(p) ==
    /\ Free
    /\ role = "Player" => ColorOf[p] # OwnColor
    /\ \E c \in Cells :
          /\ Holds(board, c, p)
          /\ RequestJump(c) \/ \E d \in Cells : RequestMove(c, d)
    /\ Announce(p)
    /\ UNCHANGED <<serverVars, requests>> /\ ClientStays

Owns(cell) == Occupied(board, cell) /\ ColorOf[board[cell].id] = OwnColor

\* Ownership is judged by the cell's piece when the request is applied; a
\* refusal answers MoveRejected, which the client only logs.
ApplyRequest ==
    LET r == DecodedClient(Head(requests))
        p == board[r.source].id
        accepted ==
            /\ Owns(r.source) /\ ~gameOver /\ ~Busy(p)
            /\ r.kind = "Move" => ValidMove(board, r.source, r.destination)
    IN  /\ Free /\ requests # <<>>
        /\ requests' = Tail(requests)
        /\ IF ~accepted THEN UNCHANGED <<vars, wire, untold>>
           ELSE /\ IF r.kind = "Move" THEN RequestMove(r.source, r.destination)
                   ELSE RequestJump(r.source)
                /\ Announce(p)
        /\ UNCHANGED serverVars /\ ClientStays

StartWait(ms) ==
    /\ Free /\ revision < MaxRevision
    /\ BeginTick(ms)
    /\ events' = <<>>
    /\ UNCHANGED <<history, revision, outbox, wire, requests, untold>> /\ ClientStays

Arrive(p) ==
    /\ \/ SkipArrival(p) /\ UNCHANGED events
       \/ ResolveArrival(p) /\ events' = Append(events, ArrivalOf(board, motion[p]))
    /\ UNCHANGED <<history, revision, outbox, wire, requests, untold>> /\ ClientStays

\* Still under board_mutex_: history and revision move with the board.
FinishWait ==
    /\ EndTick
    /\ history' = history \o events
    /\ IF events = <<>> THEN UNCHANGED <<revision, outbox>>
       ELSE revision' = revision + 1 /\ outbox' = <<UpdateText(events, revision + 1)>>
    /\ events' = <<>>
    /\ UNCHANGED <<wire, requests, untold>> /\ ClientStays

\* Without the lock, to whoever is on the roster by now.
Publish ==
    /\ outbox # <<>>
    /\ ToRoster(Head(outbox))
    /\ outbox' = <<>>
    /\ UNCHANGED <<vars, events, history, revision, requests, untold>> /\ ClientStays

\* join, reconnect and join_spectator put the connection on the roster first,
Register ==
    /\ joined = "No"
    /\ joined' = "Registered" /\ role' \in Roles
    /\ UNCHANGED <<vars, serverVars, greeting, wire, requests, client, selected, untold>>

Announced(p) ==
    \E i \in DOMAIN wire :
        wire[i].type = "MotionStarted" /\ wire[i].payload.motion.moving_piece.id = p

\* snapshot the board under board_mutex_ afterwards,
Snapshot ==
    /\ joined = "Registered" /\ tick = 0
    /\ joined' = "Snapshotted"
    /\ greeting' = <<WelcomeText>>
    /\ untold' = {p \in Ids : motion[p] = None /\ Announced(p)}
    /\ UNCHANGED <<vars, serverVars, role, wire, requests, client, selected>>

\* and send it without the lock, behind what the tick has sent meanwhile.
SendWelcome ==
    /\ joined = "Snapshotted" /\ tick = 0
    /\ joined' = "Welcomed"
    /\ wire' = wire \o greeting /\ greeting' = <<>>
    /\ UNCHANGED <<vars, serverVars, role, requests, client, selected, untold>>
-----------------------------------------------------------------------------
\* ScoreObserver and MoveLogObserver.

NewObservers == [score |-> [c \in Colors |-> 0], moves |-> [c \in Colors |-> <<>>]]

\* What algebraic_notation writes down of an arrival.
Notation(e) ==
    [kind |-> e.piece.kind, at |-> e.destination, jump |-> e.jump,
     promoted |-> e.promoted, takes |-> e.captured # None]

Scored(score, e) ==
    IF e.captured = None THEN score
    ELSE [score EXCEPT ![ColorOf[e.piece.id]] = @ + PieceValue[e.captured.kind]]
Logged(moves, e) == [moves EXCEPT ![ColorOf[e.piece.id]] = Append(@, Notation(e))]
Observed(o, e) == [score |-> Scored(o.score, e), moves |-> Logged(o.moves, e)]
-----------------------------------------------------------------------------
\* ServerLink.

NoClient ==
    [board |-> None, revision |-> 0, spectator |-> FALSE,
     predicted |-> [p \in Ids |-> None], observers |-> NewObservers]

\* apply_board_update's three calls for one event, on the mirrored board.
Replayed(b, e) == [[b EXCEPT ![e.source] = None] EXCEPT ![e.destination] = e.piece]

\* Predictions of the piece that moved and of the one it took are dropped.
Mutant_Closed(e) == {e.piece.id}
Closed(e) == {e.piece.id} \cup (IF e.captured = None THEN {} ELSE {e.captured.id})

AfterEvent(k, e) ==
    [k EXCEPT !.board = Replayed(@, e),
              !.predicted = [p \in Ids |-> IF p \in Closed(e) THEN None ELSE @[p]],
              !.observers = Observed(@, e)]

Mutant_Covered(k, u) == u.revision # 0 /\ u.revision < k.revision
\* The snapshot already reflects this update.
Covered(k, u) == u.revision # 0 /\ u.revision <= k.revision

\* wait(), for one message.
Heard(k, text) ==
    LET m == DecodedServer(text)
    IN  IF m.kind = "MotionStarted"
        THEN [k EXCEPT !.predicted[m.motion.piece.id] = m.motion]
        ELSE IF Covered(k, m) THEN k
        ELSE FoldLeft(AfterEvent, [k EXCEPT !.revision = m.revision], m.events)

IsWelcome(text) == text.type = "Welcome"
WelcomeIn(w) == CHOOSE i \in DOMAIN w : IsWelcome(w[i])

\* wait_for_welcome takes the Welcome past what queued before it, which stays.
Mutant_Queued(w) == SubSeq(w, WelcomeIn(w) + 1, Len(w))
Queued(w) == RemoveAt(w, WelcomeIn(w))

\* main() feeds the history of the Welcome to the observers.
Welcomed(k, text) ==
    LET m == DecodedServer(text)
    IN  [k EXCEPT !.board = m.board, !.revision = m.revision, !.spectator = m.spectator,
                  !.observers = FoldLeft(Observed, @, m.history)]

TakeWelcome ==
    /\ tick = 0 /\ joined = "Welcomed" /\ client.board = None
    /\ client' = Welcomed(client, wire[WelcomeIn(wire)])
    /\ wire' = Queued(wire)
    /\ UNCHANGED <<vars, serverVars, role, joined, greeting, requests, selected, untold>>

Apply ==
    /\ tick = 0 /\ client.board # None /\ wire # <<>>
    /\ client' = Heard(client, Head(wire))
    /\ wire' = Tail(wire)
    /\ UNCHANGED <<vars, serverVars, role, joined, greeting, requests, selected, untold>>
-----------------------------------------------------------------------------
\* BoardMapper and Controller.

PixelToCell(x, y) ==
    LET cell == <<y \div CellSize, x \div CellSize>>
    IN  IF x < 0 \/ y < 0 \/ cell \notin Cells THEN None ELSE cell

CanControl(piece) == ColorOf[piece.id] = OwnColor

\* The selection, unless its piece has left the cell meanwhile.
Current ==
    IF selected # None /\ Holds(client.board, selected.cell, selected.id)
    THEN selected ELSE None

Select(cell) == [cell |-> cell, id |-> client.board[cell].id]

CanAct ==
    /\ tick = 0 /\ client.board # None /\ ~client.spectator
    /\ Len(requests) < MaxRequests

\* Controller::click; own pieces reselect, anything else is a destination.
Click(x, y) ==
    LET cell == PixelToCell(x, y)
        held == Current
        own == cell # None /\ client.board[cell] # None /\ CanControl(client.board[cell])
    IN  /\ CanAct
        /\ selected' = IF own THEN Select(cell) ELSE None
        /\ requests' = IF held # None /\ cell # None /\ ~own
                       THEN Append(requests, MoveText(held.cell, cell)) ELSE requests
        /\ UNCHANGED <<vars, serverVars, role, joined, greeting, wire, client, untold>>

\* Controller::jump, on a double click.
DoubleClick(x, y) ==
    LET cell == PixelToCell(x, y)
    IN  /\ CanAct
        /\ cell # None /\ client.board[cell] # None /\ CanControl(client.board[cell])
        /\ requests' = Append(requests, JumpText(cell))
        /\ UNCHANGED <<vars, serverVars, role, joined, greeting, wire, client, selected, untold>>
-----------------------------------------------------------------------------
MirrorInit ==
    /\ Init
    /\ events = <<>> /\ history = <<>> /\ revision = 0 /\ outbox = <<>>
    /\ role = None /\ joined = "No" /\ greeting = <<>>
    /\ wire = <<>> /\ requests = <<>>
    /\ client = NoClient /\ selected = None /\ untold = {}

\* The bound is reached and all is delivered.
AtBound ==
    /\ Free /\ revision = MaxRevision /\ wire = <<>> /\ client.board # None
    /\ UNCHANGED mirrorVars

MirrorNext ==
    \/ \E p \in Ids : OtherRequest(p) \/ Arrive(p)
    \/ ApplyRequest
    \/ \E ms \in TickSizes : StartWait(ms)
    \/ FinishWait \/ Publish
    \/ Register \/ Snapshot \/ SendWelcome
    \/ TakeWelcome \/ Apply
    \/ \E x, y \in Pixels : Click(x, y) \/ DoubleClick(x, y)
    \/ AtBound

MirrorSpec == MirrorInit /\ [][MirrorNext]_mirrorVars
-----------------------------------------------------------------------------
\* Properties.

\* The client once it has applied all that is sent or about to be.
CaughtUp ==
    LET under == wire \o greeting \o outbox
    IN  IF client.board # None THEN FoldLeft(Heard, client, under)
        ELSE FoldLeft(Heard, Welcomed(client, under[WelcomeIn(under)]), Queued(under))

Settled == tick = 0 /\ joined \in {"Snapshotted", "Welcomed"}

\* What a client can see of a piece: flags of motions stay with the server.
Seen(piece) == IF piece = None THEN None
               ELSE [id |-> piece.id, kind |-> piece.kind, moved |-> piece.moved]

\* "a joiner may see an update its own snapshot already contains, but never miss
\* one" (messages.hpp:33): whoever joined whenever, the mirrored board is the
\* server's once what was sent has been applied.  Left out: once a blocked jumper
\* has vanished (run vanish) the client, which replays the landing, shows it.
MirrorAgrees ==
    Settled /\ NoPieceVanishes =>
        LET mirrored == CaughtUp.board
        IN  \A c \in Cells : Seen(mirrored[c]) = Seen(board[c])

\* The same for score and move list, which get the history from the Welcome and
\* later arrivals from updates: each arrival is counted once.
EachArrivalCountsOnce ==
    Settled =>
        LET observers == CaughtUp.observers
            worth == [x \in captured |-> PieceValue[x.kind]]
        IN  \A c \in Colors :
                LET own == {i \in DOMAIN history : ColorOf[history[i].piece.id] = c}
                    taken == {x \in captured : ColorOf[x.id] = Opposite(c)}
                IN  /\ observers.score[c] = SumFunctionOnSet(worth, taken)
                    /\ Len(observers.moves[c]) = Cardinality(own)
                    /\ \A i \in own :
                          observers.moves[c][Cardinality({j \in own : j <= i})]
                              = Notation(history[i])

\* A piece is drawn in motion only while the server moves it so.  Left out until
\* it sets off again: a piece that was announced before the snapshot and had
\* arrived by it, for the snapshot covers the arrival and nothing else ends the
\* prediction (server_link.cpp:266 returns before 281).
PredictionsAreTrue ==
    Settled =>
        LET predicted == CaughtUp.predicted
        IN  \A p \in Ids \ untold :
                predicted[p] # None =>
                    /\ motion[p] # None
                    /\ predicted[p].destination = motion[p].destination
=============================================================================
