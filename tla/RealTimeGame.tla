---------------------------- MODULE RealTimeGame ----------------------------
(***************************************************************************)
(* The rules engine of one game: Board, RealTimeArbiter, CollisionResolver,*)
(* MotionFactory, GameEngine and the GameOverObserver fed with its events. *)
(*                                                                         *)
(* Calls come one at a time (Match holds board_mutex_ around them), so     *)
(* RequestMove, RequestJump and wait(ms) never overlap.  wait is modelled  *)
(* in the steps of advance_time: BeginTick, one ResolveArrival per pending *)
(* arrival, EndTick.  tick > 0 says a wait is under way, and then no other *)
(* action is enabled.  Time is in an abstract unit.                        *)
(***************************************************************************)
EXTENDS MovementRules, FiniteSets

CONSTANTS
    StartBoard,      \* the board the game begins with
    TimePerCell,     \* travel time of each kind over one cell
    JumpDuration,    \* kJumpDurationMs
    MoveCooldown,    \* StandardCooldownPolicy
    JumpCooldown,    \* JumpCooldownPolicy
    TickSizes        \* the elapsed times wait is called with

ASSUME TimeAssumption ==
    /\ TimePerCell \in [Kinds -> Nat \ {0}]
    /\ JumpDuration \in Nat \ {0}
    /\ MoveCooldown \in Nat
    /\ JumpCooldown \in Nat
    /\ TickSizes \subseteq Nat \ {0}

\* config/gameplay.json: a rest after a move (2500 ms) outlasts any jump (700 ms).
ASSUME RestAssumption == JumpDuration <= MoveCooldown

\* Pieces start idle, and no two cells start with one identity.
ASSUME StartAssumption ==
    /\ StartBoard \in Boards
    /\ \A c \in Cells : StartBoard[c] # None => StartBoard[c].state = "Idle"
    /\ \A c, d \in Cells :
          StartBoard[c] # None /\ Holds(StartBoard, d, StartBoard[c].id) => c = d

VARIABLES
    board,      \* Board::cells_
    motion,     \* active_motions_, keyed by the moving piece
    before,     \* the order of active_motions_: <<p, q>> when p's stands before q's
    cooldown,   \* cooldowns_remaining_ms_, 0 for a piece with no entry
    gameOver,   \* GameEngine::game_over_
    verdict,    \* GameOverObserver
    captured,   \* the captured_piece of every event so far
    tick,       \* ms of the wait under way, 0 between two calls
    pending,    \* pieces whose arrival this wait has yet to resolve
    fallen      \* captured_this_batch

vars == <<board, motion, before, cooldown, gameOver, verdict, captured,
          tick, pending, fallen>>

Motion == [piece : Piece, source : Cells, destination : Cells, jump : BOOLEAN,
           duration : Nat, elapsed : Nat, cooldown : Nat]
ASSUME NoMotionAssumption == None \notin Motion

Verdict == [winner : Colors \cup {None}, draw : BOOLEAN, at : Nat]

InFlight == {p \in Ids : motion[p] # None}
OnBoard(p) == \E c \in Cells : Holds(board, c, p)
Busy(p) == motion[p] # None \/ cooldown[p] > 0

Init ==
    /\ board = StartBoard
    /\ motion = [p \in Ids |-> None]
    /\ before = {}
    /\ cooldown = [p \in Ids |-> 0]
    /\ gameOver = FALSE
    /\ verdict = [winner |-> None, draw |-> FALSE, at |-> 0]
    /\ captured = {}
    /\ tick = 0
    /\ pending = {}
    /\ fallen = {}
-----------------------------------------------------------------------------
\* MotionFactory.

Abs(n) == IF n < 0 THEN -n ELSE n
Mutant_Larger(a, b) == IF a < b THEN a ELSE b
Larger(a, b) == IF a < b THEN b ELSE a
CellSteps(c, d) == Larger(Abs(c[1] - d[1]), Abs(c[2] - d[2]))

MoveMotion(piece, source, destination) ==
    [piece |-> piece, source |-> source, destination |-> destination,
     jump |-> FALSE, duration |-> CellSteps(source, destination) * TimePerCell[piece.kind],
     elapsed |-> 0, cooldown |-> MoveCooldown]

JumpMotion(piece, cell) ==
    [piece |-> piece, source |-> cell, destination |-> cell, jump |-> TRUE,
     duration |-> JumpDuration, elapsed |-> 0, cooldown |-> JumpCooldown]

StartMotion(m) ==
    LET p == m.piece.id
    IN  /\ motion' = [motion EXCEPT ![p] = m]
        /\ before' = before \cup {<<q, p>> : q \in InFlight}
        /\ board' = [board EXCEPT ![m.source].state =
                                IF m.jump THEN "Airborne" ELSE "Moving"]
        /\ UNCHANGED <<cooldown, gameOver, verdict, captured, tick, pending, fallen>>

\* Refused requests answer with a reason and change nothing.
RequestMove(source, destination) ==
    /\ tick = 0 /\ ~gameOver
    /\ ValidMove(board, source, destination)
    /\ ~Busy(board[source].id)
    /\ StartMotion(MoveMotion(board[source], source, destination))

RequestJump(cell) ==
    /\ tick = 0 /\ ~gameOver
    /\ board[cell] # None
    /\ ~Busy(board[cell].id)
    /\ StartMotion(JumpMotion(board[cell], cell))
-----------------------------------------------------------------------------
\* RealTimeArbiter::advance_time.

Due(m) == m.elapsed >= m.duration
\* How far into a wait of ms the motion arrives, once elapsed counts that wait.
TimeIntoTick(m, ms) ==
    LET untilArrival == m.duration - (m.elapsed - ms)
    IN  IF untilArrival < 0 THEN 0 ELSE IF untilArrival > ms THEN ms ELSE untilArrival

\* stable_sort on time_into_tick_ms: equal instants keep active_motions_' order.
ArrivesBefore(p, q) ==
    LET s == TimeIntoTick(motion[p], tick)
        t == TimeIntoTick(motion[q], tick)
    IN  s < t \/ (s = t /\ <<p, q>> \in before)

Mutant_CollisionKindGrounded(mover, occupant) ==
    IF occupant = None \/ occupant.id = mover.id THEN "VacatedCell"
    ELSE IF ColorOf[occupant.id] = ColorOf[mover.id] THEN "FriendlyBlocked"
    ELSE "EnemyCaptured"

\* The colour is looked at before the Airborne flag.
CollisionKind(mover, occupant) ==
    IF occupant = None \/ occupant.id = mover.id THEN "VacatedCell"
    ELSE IF ColorOf[occupant.id] = ColorOf[mover.id] THEN "FriendlyBlocked"
    ELSE IF occupant.state = "Airborne" THEN "PassedThroughAirborne"
    ELSE "EnemyCaptured"

PromotionRow(color) == IF color = "White" THEN 0 ELSE Height - 1
Landed(m) ==
    LET promotes == /\ m.piece.kind = "Pawn"
                    /\ m.destination[1] = PromotionRow(ColorOf[m.piece.id])
    IN  [id |-> m.piece.id, kind |-> IF promotes THEN "Queen" ELSE m.piece.kind,
         state |-> "Idle", moved |-> m.piece.moved \/ ~m.jump]

Mutant_BoardAfterLeaving(b, m) ==
    IF CollisionKind(m.piece, b[m.destination]) = "FriendlyBlocked"
    THEN [b EXCEPT ![m.source].state = "Idle"]
    ELSE [b EXCEPT ![m.destination] = Landed(m)]

Mutant_BoardAfterBlocked(b, m) ==
    IF CollisionKind(m.piece, b[m.destination]) = "FriendlyBlocked"
    THEN b
    ELSE [[b EXCEPT ![m.source] = None] EXCEPT ![m.destination] = Landed(m)]

\* resolve_arrival's effect on the board.
BoardAfter(b, m) ==
    IF CollisionKind(m.piece, b[m.destination]) = "FriendlyBlocked"
    THEN [b EXCEPT ![m.source].state = "Idle"]
    ELSE [[b EXCEPT ![m.source] = None] EXCEPT ![m.destination] = Landed(m)]

Mutant_RestAfter(m, ms) == m.cooldown
RestAfter(m, ms) == Larger(0, m.cooldown - (ms - TimeIntoTick(m, ms)))

Mutant_VerdictAfterLoser(v, mover, victim, at) ==
    IF v.draw \/ victim.kind # "King" THEN v
    ELSE [winner |-> ColorOf[victim.id], draw |-> FALSE, at |-> at]

\* GameOverObserver::on_arrival, for an event in which mover takes victim.  The
\* instants compared lie in one wait, as no wait follows a king's capture.
VerdictAfter(v, mover, victim, at) ==
    IF v.draw \/ victim.kind # "King" THEN v
    ELSE IF v.winner = None THEN [winner |-> ColorOf[mover.id], draw |-> FALSE, at |-> at]
    ELSE IF v.winner # ColorOf[mover.id] /\ v.at = at
         THEN [winner |-> None, draw |-> TRUE, at |-> at]
    ELSE v

BeginTick(ms) ==
    /\ tick = 0 /\ ~gameOver
    /\ tick' = ms
    /\ cooldown' = [p \in Ids |-> Larger(0, cooldown[p] - ms)]
    /\ motion' = [p \in Ids |-> IF motion[p] = None THEN None
                                ELSE [motion[p] EXCEPT !.elapsed = @ + ms]]
    /\ pending' = {p \in InFlight : Due(motion'[p])}
    /\ fallen' = {}
    /\ UNCHANGED <<board, before, gameOver, verdict, captured>>

NextArrival(p) ==
    /\ tick > 0 /\ p \in pending
    /\ \A q \in pending \ {p} : ArrivesBefore(p, q)
    /\ pending' = pending \ {p}

\* A piece captured earlier in this wait skips its own arrival.
SkipArrival(p) ==
    /\ NextArrival(p)
    /\ p \in fallen
    /\ UNCHANGED <<board, motion, before, cooldown, gameOver, verdict, captured, tick, fallen>>

ResolveArrival(p) ==
    LET m == motion[p]
        occupant == board[m.destination]
        collision == CollisionKind(m.piece, occupant)
        rest == RestAfter(m, tick)
    IN  /\ NextArrival(p)
        /\ p \notin fallen
        /\ board' = BoardAfter(board, m)
        /\ IF collision = "EnemyCaptured"
           THEN /\ fallen' = fallen \cup {occupant.id}
                /\ captured' = captured \cup {occupant}
                /\ verdict' = VerdictAfter(verdict, m.piece, occupant, TimeIntoTick(m, tick))
           ELSE UNCHANGED <<fallen, captured, verdict>>
        /\ IF collision # "FriendlyBlocked" /\ rest > 0
           THEN cooldown' = [cooldown EXCEPT ![p] = rest]
           ELSE UNCHANGED cooldown
        /\ UNCHANGED <<motion, before, gameOver, tick>>

Mutant_Ends(p) == Due(motion[p])

\* Arrived motions go, and so do the moves and rests of captured pieces; the
\* engine then looks for a captured king among the events.
Ends(p) == Due(motion[p]) \/ (p \in fallen /\ ~motion[p].jump)

EndTick ==
    /\ tick > 0 /\ pending = {}
    /\ motion' = [p \in Ids |-> IF motion[p] = None \/ Ends(p) THEN None ELSE motion[p]]
    /\ before' = {pq \in before : motion'[pq[1]] # None /\ motion'[pq[2]] # None}
    /\ cooldown' = [p \in Ids |-> IF p \in fallen THEN 0 ELSE cooldown[p]]
    /\ gameOver' = \E x \in captured : x.kind = "King"
    /\ tick' = 0
    /\ fallen' = {}
    /\ UNCHANGED <<board, verdict, captured, pending>>

\* wait returns at once when the game is over.
WaitAfterGameOver == tick = 0 /\ gameOver /\ UNCHANGED vars

Next ==
    \/ \E c, d \in Cells : RequestMove(c, d)
    \/ \E c \in Cells : RequestJump(c)
    \/ \E ms \in TickSizes : BeginTick(ms)
    \/ \E p \in Ids : SkipArrival(p) \/ ResolveArrival(p)
    \/ EndTick
    \/ WaitAfterGameOver

Spec == Init /\ [][Next]_vars
-----------------------------------------------------------------------------
\* Properties.

\* The motion is still to arrive (advance_time keeps resolved ones to the end).
Active(p) == motion[p] # None /\ (p \in pending \/ ~Due(motion[p]))
Jumping(p) == Active(p) /\ motion[p].jump

\* Types of the state.
TypeOK ==
    /\ board \in Boards
    /\ motion \in [Ids -> Motion \cup {None}]
    /\ before \subseteq Ids \X Ids
    /\ cooldown \in [Ids -> Nat]
    /\ gameOver \in BOOLEAN
    /\ verdict \in Verdict
    /\ captured \subseteq Piece
    /\ tick \in Nat
    /\ pending \subseteq Ids
    /\ fallen \subseteq Ids

\* An arrival puts a piece back from the snapshot its motion took, so a wrong
\* removal would leave one piece on two cells.
OnePlacePerPiece ==
    \A c, d \in Cells : board[c] # None /\ Holds(board, d, board[c].id) => c = d

\* "A moving piece still occupies its source" (realtime/README.md) until its
\* move arrives or it is captured there, whatever lands on or leaves that cell.
MoverAtSource ==
    \A p \in InFlight :
        Active(p) /\ ~motion[p].jump /\ p \notin fallen
            => Holds(board, motion[p].source, p)

\* A piece on the board is flagged Airborne exactly while its jump is in
\* flight, and Moving exactly while its move is: a flag left behind would make
\* a piece invulnerable, one lost would make a jump useless.
StateMatchesMotion ==
    \A c \in Cells, p \in Ids : Holds(board, c, p) =>
        /\ board[c].state = "Airborne" <=> Jumping(p)
        /\ board[c].state = "Moving" <=> Active(p) /\ ~Jumping(p)

\* A captured piece never comes back: not from a move it had in flight, not
\* from a jump, not from an arrival in the same batch.
CapturedStaysOff == \A x \in captured : ~OnBoard(x.id)

\* The engine and the observer, told of the same events, agree on whether the
\* game is over, and the verdict names a side that took the other's king.
VerdictMatchesCaptures ==
    LET kingTaken(color) == \E x \in captured : x.kind = "King" /\ ColorOf[x.id] = color
    IN  /\ tick = 0 => (gameOver <=> verdict.draw \/ verdict.winner # None)
        /\ \A c \in Colors : verdict.winner = c => kingTaken(Opposite(c)) /\ ~verdict.draw
        /\ verdict.draw => \A c \in Colors : kingTaken(c)

\* A piece in the air is never captured, in whatever order the arrivals of one
\* wait are resolved.
AirborneIsSafe ==
    [][\A x \in captured' \ captured : ~Jumping(x.id)]_vars

\* "... or its board record gets cleared and it vanishes on landing"
\* (collision_resolver.cpp:9): a piece of the game is on the board, captured,
\* or in a jump an enemy is passing under.
NoPieceVanishes ==
    \A p \in Ids :
        (\E c \in Cells : Holds(StartBoard, c, p))
            => OnBoard(p) \/ Jumping(p) \/ \E x \in captured : x.id = p
=============================================================================
