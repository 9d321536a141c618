--------------------------- MODULE MovementRules ---------------------------
(***************************************************************************)
(* Where a piece may be sent: RuleEngine, the seven piece rules and the    *)
(* two ray/offset walks they share.  A board is a function from cells to   *)
(* a piece record or None, a cell is a pair <<row, col>>.                  *)
(***************************************************************************)
EXTENDS Integers

CONSTANTS
    Width, Height,   \* the board's size
    Ids,             \* PieceId: identities, stable over a piece's life
    ColorOf,         \* the colour of each identity (it never changes)
    None             \* std::nullopt

Colors == {"White", "Black"}
Kinds == {"King", "Queen", "Rook", "Bishop", "Knight", "Pawn", "Drone"}
States == {"Idle", "Moving", "Airborne"}
Cells == (0 .. Height - 1) \X (0 .. Width - 1)

\* A piece record, as the board holds it and as a motion snapshots it.  The
\* cell field is the index on the board; Captured is only given to the copy
\* an arrival event carries, so no piece on the board has it.
Piece == [id : Ids, kind : Kinds, state : States, moved : BOOLEAN]
Boards == [Cells -> Piece \cup {None}]

ASSUME BoardAssumption == Width \in Nat \ {0} /\ Height \in Nat \ {0}
ASSUME ColorAssumption == ColorOf \in [Ids -> Colors]
ASSUME NoneAssumption == None \notin Piece \cup Colors

Opposite(color) == IF color = "White" THEN "Black" ELSE "White"
Holds(board, cell, id) == board[cell] # None /\ board[cell].id = id
Occupied(board, cell) == cell \in Cells /\ board[cell] # None
FriendAt(board, cell, color) ==
    Occupied(board, cell) /\ ColorOf[board[cell].id] = color
EnemyAt(board, cell, color) ==
    Occupied(board, cell) /\ ColorOf[board[cell].id] # color

Plus(cell, step, n) == <<cell[1] + n * step[1], cell[2] + n * step[2]>>

Straight == {<<-1, 0>>, <<1, 0>>, <<0, -1>>, <<0, 1>>}
Diagonal == {<<-1, -1>>, <<-1, 1>>, <<1, -1>>, <<1, 1>>}
KnightOffsets == {o \in (-2 .. 2) \X (-2 .. 2) : o[1] * o[1] + o[2] * o[2] = 5}
DroneOffsets == Straight \cup {<<-2, 0>>, <<2, 0>>, <<0, -2>>, <<0, 2>>}

\* A ray walk: empty cells up to and including the first enemy, stopping
\* before the first friend or the edge.
SlidingDestinations(board, from, color, directions) ==
    {to \in Cells :
        /\ ~FriendAt(board, to, color)
        /\ \E step \in directions, n \in 1 .. Width + Height :
              /\ to = Plus(from, step, n)
              /\ \A k \in 1 .. n - 1 : ~Occupied(board, Plus(from, step, k))}

\* Offsets hop over whatever lies between.
SteppingDestinations(board, from, color, offsets) ==
    {to \in Cells :
        ~FriendAt(board, to, color) /\ \E o \in offsets : to = Plus(from, o, 1)}

PawnDestinations(board, from, piece) ==
    LET color == ColorOf[piece.id]
        ahead == <<IF color = "White" THEN -1 ELSE 1, 0>>
    IN  {to \in Cells :
            \/ to = Plus(from, ahead, 1) /\ ~Occupied(board, to)
            \/ /\ to = Plus(from, ahead, 2) /\ ~piece.moved
               /\ ~Occupied(board, to) /\ ~Occupied(board, Plus(from, ahead, 1))
            \/ /\ EnemyAt(board, to, color)
               /\ to[1] = from[1] + ahead[1] /\ to[2] \in {from[2] - 1, from[2] + 1}}

LegalDestinations(board, from) ==
    LET piece == board[from]
        color == ColorOf[piece.id]
    IN  CASE piece.kind = "Rook" -> SlidingDestinations(board, from, color, Straight)
          [] piece.kind = "Bishop" -> SlidingDestinations(board, from, color, Diagonal)
          [] piece.kind = "Queen" ->
                SlidingDestinations(board, from, color, Straight \cup Diagonal)
          [] piece.kind = "King" ->
                SteppingDestinations(board, from, color, Straight \cup Diagonal)
          [] piece.kind = "Knight" ->
                SteppingDestinations(board, from, color, KnightOffsets)
          [] piece.kind = "Drone" ->
                SteppingDestinations(board, from, color, DroneOffsets)
          [] piece.kind = "Pawn" -> PawnDestinations(board, from, piece)

\* RuleEngine::validate_move's answer, once both cells are on the board.
ValidMove(board, source, destination) ==
    /\ Occupied(board, source)
    /\ ~FriendAt(board, destination, ColorOf[board[source].id])
    /\ destination \in LegalDestinations(board, source)
=============================================================================
