------------------------ MODULE RealTimeGame_proofs ------------------------
(***************************************************************************)
(* The placement of pieces is right for every board, every set of pieces,  *)
(* every timing and every sequence of calls.                               *)
(*                                                                         *)
(* Captures are final and a jump protects, for every board and timing in   *)
(* which a rest after a move outlasts a jump (RestAssumption): the enemy   *)
(* that passed under a jumper, or whoever took it, is still resting on the *)
(* jumper's cell when the jumper lands, so two motions never meet there.   *)
(***************************************************************************)
EXTENDS RealTimeGame, TLAPS

-----------------------------------------------------------------------------
\* Facts about the operators.

\* A product of positive numbers is positive: travel times are never zero.
LEMMA ProductPositive ==
    ASSUME NEW a \in Nat \ {0}, NEW b \in Nat \ {0} PROVE a * b \in Nat \ {0}
BY SMT

\* A move crosses at least one cell.
LEMMA StepsPositive ==
    ASSUME NEW c \in Cells, NEW d \in Cells, c # d
    PROVE  CellSteps(c, d) \in Nat \ {0}
<1>1. c[1] \in Int /\ c[2] \in Int /\ d[1] \in Int /\ d[2] \in Int
  BY BoardAssumption DEF Cells
<1>2. c[1] # d[1] \/ c[2] # d[2]
  BY BoardAssumption DEF Cells
<1>3. QED BY <1>1, <1>2 DEF CellSteps, Larger, Abs

\* A move's motion is well formed.
LEMMA MoveMotionType ==
    ASSUME NEW x \in Piece, NEW c \in Cells, NEW d \in Cells, c # d
    PROVE  /\ MoveMotion(x, c, d) \in Motion
           /\ MoveMotion(x, c, d).duration \in Nat \ {0}
<1>1. TimePerCell[x.kind] \in Nat \ {0}
  BY TimeAssumption DEF Piece
<1>2. CellSteps(c, d) * TimePerCell[x.kind] \in Nat \ {0}
  BY <1>1, StepsPositive, ProductPositive
<1>3. QED BY <1>2, TimeAssumption DEF MoveMotion, Motion

\* A jump's motion is well formed.
LEMMA JumpMotionType ==
    ASSUME NEW x \in Piece, NEW c \in Cells
    PROVE  JumpMotion(x, c) \in Motion
BY TimeAssumption DEF JumpMotion, Motion

\* The instant of an arrival lies within the wait.
LEMMA TimeIntoTickRange ==
    ASSUME NEW m \in Motion, NEW ms \in Nat
    PROVE  TimeIntoTick(m, ms) \in 0 .. ms
BY DEF TimeIntoTick, Motion

\* What lands is the same piece, idle.
LEMMA LandedType ==
    ASSUME NEW m \in Motion
    PROVE  Landed(m) \in Piece /\ Landed(m).id = m.piece.id /\ Landed(m).state = "Idle"
BY DEF Landed, Motion, Piece, Kinds, States
-----------------------------------------------------------------------------
\* The inductive invariant of the placement properties.

\* Motions are filed under their piece; a jump stays on its cell, a move leaves.
MotionsFiled ==
    \A p \in InFlight :
        /\ motion[p].piece.id = p
        /\ motion[p].jump => motion[p].destination = motion[p].source
        /\ ~motion[p].jump => motion[p].destination # motion[p].source

\* Between two calls nothing is due; during one, only due motions are pending.
BatchPhase ==
    /\ pending \subseteq {p \in InFlight : Due(motion[p])}
    /\ tick = 0 => /\ pending = {} /\ fallen = {}
                   /\ \A p \in InFlight : ~Due(motion[p])

\* A mover stands on its source, where an arriving enemy captures it.
MoverGrounded ==
    \A p \in InFlight :
        Active(p) /\ ~motion[p].jump /\ p \notin fallen
            => /\ Holds(board, motion[p].source, p)
               /\ board[motion[p].source].state # "Airborne"

\* A jumper is on its cell or, while an enemy passes under it, nowhere.
JumperHome ==
    \A p \in InFlight : Jumping(p) =>
        \A c \in Cells : Holds(board, c, p) => c = motion[p].source

Placement ==
    /\ TypeOK
    /\ MotionsFiled
    /\ BatchPhase
    /\ OnePlacePerPiece
    /\ MoverGrounded
    /\ JumperHome

\* The game begins well placed.
LEMMA PlacementInit == Init => Placement
<1> SUFFICES ASSUME Init PROVE Placement
  OBVIOUS
<1>1. TypeOK
  BY StartAssumption, NoneAssumption DEF Init, TypeOK, Verdict, Boards
<1>2. InFlight = {}
  BY DEF Init, InFlight
<1>3. OnePlacePerPiece
  BY StartAssumption DEF Init, OnePlacePerPiece
<1>4. QED
  BY <1>1, <1>2, <1>3 DEF Init, Placement, MotionsFiled, BatchPhase, MoverGrounded, JumperHome

\* Starting a motion keeps every piece where it is.
LEMMA PlacementStart ==
    ASSUME Placement, tick = 0,
           NEW m \in Motion, m.piece \in Piece,
           board[m.source] # None, m.piece = board[m.source],
           motion[m.piece.id] = None, StartMotion(m),
           m.elapsed = 0, m.duration \in Nat \ {0},
           m.jump <=> m.destination = m.source
    PROVE  Placement'
<1> DEFINE p == m.piece.id
<1> USE NoneAssumption, NoMotionAssumption
<1>1. /\ m.source \in Cells /\ p \in Ids /\ m # None /\ board[m.source].id = p
      /\ motion' = [motion EXCEPT ![p] = m]
      /\ motion \in [Ids -> Motion \cup {None}]
      /\ board \in Boards
      /\ UNCHANGED <<cooldown, gameOver, verdict, captured, tick, pending, fallen>>
  BY DEF StartMotion, Placement, TypeOK, Motion, Piece
<1>2. PICK s \in States : /\ s # "Airborne" <=> ~m.jump
                          /\ board' = [board EXCEPT ![m.source].state = s]
  BY <1>1 DEF StartMotion, States, Motion
<1>3. board' \in Boards
  BY <1>1, <1>2 DEF Boards, Piece
<1>4. before' \subseteq Ids \X Ids
  BY <1>1 DEF StartMotion, Placement, TypeOK, InFlight
<1>5. TypeOK'
  BY <1>1, <1>3, <1>4 DEF Placement, TypeOK
<1>6. InFlight' = InFlight \cup {p}
  BY <1>1 DEF InFlight
<1>7. \A q \in InFlight : q # p /\ motion'[q] = motion[q]
  BY <1>1 DEF InFlight
<1>8. motion'[p] = m
  BY <1>1
<1>9. ~Due(m)
  BY DEF Due, Motion
<1>10. MotionsFiled'
  BY <1>6, <1>7, <1>8 DEF MotionsFiled, Placement, Motion
<1>11. BatchPhase'
  BY <1>1, <1>6, <1>7, <1>8, <1>9 DEF BatchPhase, Placement, Due
<1>12. \A c \in Cells, q \in Ids : Holds(board, c, q)' <=> Holds(board, c, q)
  BY <1>1, <1>2 DEF Holds, Boards, Piece
<1>13. \A c \in Cells : c # m.source => board'[c] = board[c]
  BY <1>1, <1>2 DEF Boards
<1>14. OnePlacePerPiece'
  BY <1>1, <1>3, <1>12 DEF OnePlacePerPiece, Placement, Boards, Piece, Holds
<1>15. \A q \in InFlight : Active(q)' <=> Active(q)
  BY <1>1, <1>7 DEF Active, Due
<1>16. MoverGrounded'
  <2> SUFFICES ASSUME NEW q \in InFlight', Active(q)', ~motion'[q].jump, q \notin fallen'
               PROVE  /\ Holds(board, motion[q].source, q)'
                      /\ board'[motion'[q].source].state # "Airborne"
    BY DEF MoverGrounded
  <2>1. CASE q = p
    BY <2>1, <1>1, <1>2, <1>8 DEF Holds, Boards, Piece
  <2>2. CASE q # p
    <3>1. q \in InFlight /\ motion'[q] = motion[q] /\ motion[q] \in Motion
      BY <2>2, <1>1, <1>6, <1>7 DEF InFlight
    <3>2. Holds(board, motion[q].source, q) /\ board[motion[q].source].state # "Airborne"
      BY <3>1, <1>1, <1>15 DEF Placement, MoverGrounded
    <3>3. motion[q].source \in Cells /\ motion[q].source # m.source
      BY <2>2, <3>1, <3>2, <1>1 DEF Holds, Motion
    <3>4. QED BY <3>1, <3>2, <3>3, <1>13 DEF Holds
  <2>3. QED BY <2>1, <2>2
<1>17. JumperHome'
  <2> SUFFICES ASSUME NEW q \in InFlight', Jumping(q)', NEW c \in Cells, Holds(board, c, q)'
               PROVE  c = motion'[q].source
    BY DEF JumperHome
  <2>0. q \in Ids /\ Holds(board, c, q)
    BY <1>12 DEF InFlight
  <2>1. CASE q = p
    BY <2>0, <2>1, <1>1, <1>8 DEF Placement, OnePlacePerPiece, Holds
  <2>2. CASE q # p
    BY <2>0, <2>2, <1>6, <1>7, <1>15 DEF Placement, JumperHome, Jumping
  <2>3. QED BY <2>1, <2>2
<1>18. QED
  BY <1>5, <1>10, <1>11, <1>14, <1>16, <1>17 DEF Placement

\* An accepted move or jump request.
LEMMA PlacementRequest ==
    ASSUME Placement, NEW c \in Cells, NEW d \in Cells, RequestMove(c, d) \/ RequestJump(c)
    PROVE  Placement'
<1>1. tick = 0 /\ board[c] # None /\ ~Busy(board[c].id)
  BY DEF RequestMove, RequestJump, ValidMove, Occupied
<1>2. board[c] \in Piece /\ motion[board[c].id] = None
  BY <1>1 DEF Placement, TypeOK, Boards, Busy
<1>3. CASE RequestMove(c, d)
  <2>1. c # d
    BY <1>3, <1>1, <1>2 DEF RequestMove, ValidMove, FriendAt, Occupied
  <2>2. StartMotion(MoveMotion(board[c], c, d))
    BY <1>3 DEF RequestMove
  <2>3. QED
    BY <1>1, <1>2, <2>1, <2>2, MoveMotionType, PlacementStart DEF MoveMotion
<1>4. CASE RequestJump(c)
  <2>1. StartMotion(JumpMotion(board[c], c))
    BY <1>4 DEF RequestJump
  <2>2. QED
    BY <1>1, <1>2, <2>1, JumpMotionType, PlacementStart, TimeAssumption DEF JumpMotion
<1>5. QED BY <1>3, <1>4

\* A wait begins: clocks move on, no piece does.
LEMMA PlacementBegin ==
    ASSUME Placement, NEW ms \in TickSizes, BeginTick(ms) PROVE Placement'
<1> USE NoneAssumption, NoMotionAssumption
<1>1. ms \in Nat \ {0} /\ tick = 0 /\ tick' = ms
      /\ pending = {} /\ fallen = {} /\ fallen' = {}
      /\ UNCHANGED <<board, before, gameOver, verdict, captured>>
  BY TimeAssumption DEF BeginTick, Placement, BatchPhase
<1>2. \A p \in Ids : motion'[p] = IF motion[p] = None THEN None
                                  ELSE [motion[p] EXCEPT !.elapsed = @ + ms]
  BY DEF BeginTick
<1>3. motion' \in [Ids -> Motion \cup {None}]
  BY <1>1, <1>2 DEF BeginTick, Placement, TypeOK, Motion
<1>4. InFlight' = InFlight
  BY <1>2, <1>3, <1>1 DEF InFlight, Placement, TypeOK, Motion
<1>5. \A p \in InFlight :
        /\ motion[p] \in Motion
        /\ motion'[p].piece = motion[p].piece
        /\ motion'[p].source = motion[p].source
        /\ motion'[p].destination = motion[p].destination
        /\ motion'[p].jump = motion[p].jump
  BY ZenonT(30), <1>2 DEF InFlight, Placement, TypeOK, Motion
<1>6. pending' = {p \in InFlight : Due(motion'[p])}
  BY DEF BeginTick
<1>7. \A p \in InFlight : Active(p)
  BY <1>1 DEF InFlight, Active, Placement, BatchPhase
<1>8. TypeOK'
  <2>1. cooldown' \in [Ids -> Nat]
    BY <1>1 DEF BeginTick, Placement, TypeOK, Larger
  <2>2. QED BY <1>1, <1>3, <1>6, <2>1 DEF Placement, TypeOK, InFlight
<1>9. MotionsFiled'
  BY <1>4, <1>5 DEF Placement, MotionsFiled
<1>10. BatchPhase'
  BY <1>1, <1>4, <1>6 DEF BatchPhase
<1>11. OnePlacePerPiece'
  BY <1>1 DEF Placement, OnePlacePerPiece, Holds
<1>12. MoverGrounded'
  BY <1>1, <1>4, <1>5, <1>7 DEF Placement, MoverGrounded, Holds
<1>13. JumperHome'
  BY <1>1, <1>4, <1>5, <1>7 DEF Placement, JumperHome, Jumping, Holds
<1>14. QED
  BY <1>8, <1>9, <1>10, <1>11, <1>12, <1>13 DEF Placement

\* A resolved arrival is no longer active; the others are as before.
LEMMA PendingShrinks ==
    ASSUME BatchPhase, NEW p \in pending, pending' = pending \ {p}, UNCHANGED motion
    PROVE  /\ InFlight' = InFlight
           /\ p \in InFlight /\ Active(p) /\ ~Active(p)'
           /\ \A q \in Ids : q # p => (Active(q)' <=> Active(q))
BY DEF BatchPhase, InFlight, Active, Due

\* Skipping a captured piece's arrival.
LEMMA PlacementSkip ==
    ASSUME Placement, NEW p \in Ids, SkipArrival(p) PROVE Placement'
<1>1. /\ p \in pending /\ pending' = pending \ {p} /\ tick > 0 /\ tick' = tick
      /\ UNCHANGED <<board, motion, before, cooldown, gameOver, verdict, captured, fallen>>
  BY DEF SkipArrival, NextArrival
<1>2. /\ InFlight' = InFlight
      /\ \A q \in Ids : Active(q)' => Active(q)
  BY <1>1, PendingShrinks DEF Placement
<1>3. TypeOK'
  BY <1>1 DEF Placement, TypeOK
<1>4. MotionsFiled' /\ BatchPhase' /\ OnePlacePerPiece'
  BY <1>1, <1>2 DEF Placement, MotionsFiled, BatchPhase, OnePlacePerPiece, Holds, Due
<1>5. MoverGrounded' /\ JumperHome'
  BY <1>1, <1>2 DEF Placement, MoverGrounded, JumperHome, Holds, Jumping, InFlight
<1>6. QED BY <1>3, <1>4, <1>5 DEF Placement

\* Who stands where after an arrival: nobody has moved when it was blocked ...
LEMMA BlockedBoard ==
    ASSUME Placement, NEW p \in pending, p \notin fallen,
           CollisionKind(motion[p].piece, board[motion[p].destination]) = "FriendlyBlocked"
    PROVE  /\ board[motion[p].source] # None
           /\ BoardAfter(board, motion[p]) \in Boards
           /\ \A c \in Cells, q \in Ids :
                 Holds(BoardAfter(board, motion[p]), c, q) <=> Holds(board, c, q)
           /\ \A c \in Cells : board[c] # None =>
                 BoardAfter(board, motion[p])[c].state
                     = IF c = motion[p].source THEN "Idle" ELSE board[c].state
<1> DEFINE m == motion[p]
<1> USE NoneAssumption
<1>1. p \in InFlight /\ Active(p) /\ m \in Motion /\ m.piece.id = p
  BY NoMotionAssumption DEF Placement, BatchPhase, Active, InFlight, TypeOK, MotionsFiled
<1>2. board[m.source] # None
  <2>1. CASE ~m.jump
    BY <2>1, <1>1 DEF Placement, MoverGrounded, Holds
  <2>2. CASE m.jump
    BY <2>2, <1>1 DEF Placement, MotionsFiled, CollisionKind
  <2>3. QED BY <2>1, <2>2
<1>3. BoardAfter(board, m) = [board EXCEPT ![m.source].state = "Idle"]
  BY DEF BoardAfter
<1>4. board \in Boards /\ m.source \in Cells
  BY <1>1 DEF Placement, TypeOK, Motion
<1>5. QED
  BY <1>2, <1>3, <1>4 DEF Boards, Piece, States, Holds

\* ... and otherwise the mover alone has, onto its destination.
LEMMA LandedBoard ==
    ASSUME Placement, NEW p \in pending,
           CollisionKind(motion[p].piece, board[motion[p].destination]) # "FriendlyBlocked"
    PROVE  /\ BoardAfter(board, motion[p]) \in Boards
           /\ BoardAfter(board, motion[p])[motion[p].destination] = Landed(motion[p])
           /\ Holds(BoardAfter(board, motion[p]), motion[p].destination, p)
           /\ \A c \in Cells : c # motion[p].destination =>
                 BoardAfter(board, motion[p])[c]
                     = IF c = motion[p].source THEN None ELSE board[c]
<1> DEFINE m == motion[p]
<1> USE NoneAssumption
<1>1. m \in Motion /\ m.piece.id = p
  BY NoMotionAssumption DEF Placement, BatchPhase, InFlight, TypeOK, MotionsFiled
<1>2. BoardAfter(board, m) = [[board EXCEPT ![m.source] = None] EXCEPT ![m.destination] = Landed(m)]
  BY DEF BoardAfter
<1>3. board \in Boards /\ m.source \in Cells /\ m.destination \in Cells
  BY <1>1 DEF Placement, TypeOK, Motion
<1>4. Landed(m) \in Piece /\ Landed(m).id = p /\ Landed(m) # None
  BY <1>1, LandedType
<1>5. QED
  BY <1>2, <1>3, <1>4 DEF Boards, Holds

\* Whom an arrival captures: an enemy that stood on the destination, grounded.
LEMMA CaptureFacts ==
    ASSUME Placement, NEW p \in pending, p \notin fallen, ResolveArrival(p)
    PROVE  LET m == motion[p]
               occupant == board[m.destination]
               kind == CollisionKind(m.piece, occupant)
           IN  /\ kind = "EnemyCaptured" =>
                     /\ occupant \in Piece /\ occupant.id # p
                     /\ occupant.state # "Airborne"
                     /\ fallen' = fallen \cup {occupant.id}
                     /\ captured' = captured \cup {occupant}
               /\ kind # "EnemyCaptured" => UNCHANGED <<fallen, captured, verdict>>
               /\ board' = BoardAfter(board, m)
               /\ \A q \in Ids : q # p /\ Holds(board, m.destination, q)
                                 /\ occupant.state # "Airborne" /\ kind # "FriendlyBlocked"
                     => q \in fallen'
<1> DEFINE m == motion[p]
<1>1. m \in Motion /\ m.piece.id = p
  BY NoMotionAssumption DEF Placement, BatchPhase, InFlight, TypeOK, MotionsFiled
<1>2. m.destination \in Cells /\ board[m.destination] \in Piece \cup {None}
  BY <1>1 DEF Motion, Placement, TypeOK, Boards
<1>3. QED BY <1>1, <1>2 DEF ResolveArrival, CollisionKind, Holds

\* The verdict stays a verdict.
LEMMA VerdictType ==
    ASSUME NEW v \in Verdict, NEW x \in Piece, NEW y \in Piece, NEW n \in Nat
    PROVE  VerdictAfter(v, x, y, n) \in Verdict
BY ColorAssumption DEF VerdictAfter, Verdict, Piece

\* One arrival resolved.
LEMMA PlacementResolve ==
    ASSUME Placement, NEW p \in Ids, ResolveArrival(p) PROVE Placement'
<1> DEFINE m == motion[p]
           kind == CollisionKind(m.piece, board[m.destination])
<1> USE NoneAssumption, NoMotionAssumption
<1>1. /\ p \in pending /\ p \notin fallen /\ pending' = pending \ {p}
      /\ tick > 0 /\ tick' = tick
      /\ UNCHANGED <<motion, before, gameOver>>
  BY DEF ResolveArrival, NextArrival
<1>2. /\ InFlight' = InFlight
      /\ p \in InFlight /\ Active(p) /\ ~Active(p)'
      /\ \A q \in Ids : q # p => (Active(q)' <=> Active(q))
  BY <1>1, PendingShrinks DEF Placement
<1>3. m \in Motion /\ m.piece.id = p
  BY <1>2 DEF Placement, TypeOK, InFlight, MotionsFiled
<1>4. /\ board' = BoardAfter(board, m) /\ fallen \subseteq fallen'
      /\ fallen' \subseteq Ids /\ captured' \subseteq Piece
  BY <1>1, CaptureFacts DEF Placement, TypeOK, Piece
<1>5. board' \in Boards
  BY <1>1, <1>4, BlockedBoard, LandedBoard
<1>6. TypeOK'
  <2>1. cooldown' \in [Ids -> Nat]
    BY <1>1, <1>3 DEF ResolveArrival, Placement, TypeOK, RestAfter, Larger, TimeIntoTick, Motion
  <2>2. verdict' \in Verdict
    <3>1. CASE kind = "EnemyCaptured"
      <4>1. board[m.destination] \in Piece
        BY <1>1, <3>1, CaptureFacts
      <4>2. TimeIntoTick(m, tick) \in Nat
        BY <1>3, TimeIntoTickRange DEF Placement, TypeOK
      <4>3. m.piece \in Piece /\ verdict \in Verdict
        BY <1>3 DEF Motion, Placement, TypeOK
      <4>4. QED BY <3>1, <4>1, <4>2, <4>3, VerdictType DEF ResolveArrival
    <3>2. CASE kind # "EnemyCaptured"
      BY <1>1, <3>2, CaptureFacts DEF Placement, TypeOK
    <3>3. QED BY <3>1, <3>2
  <2>3. QED
    BY <1>1, <1>4, <1>5, <2>1, <2>2 DEF Placement, TypeOK
<1>7. MotionsFiled'
  BY <1>1, <1>2 DEF Placement, MotionsFiled
<1>8. BatchPhase'
  BY <1>1, <1>2 DEF Placement, BatchPhase, Due
<1>9. CASE kind = "FriendlyBlocked"
  <2>1. fallen' = fallen
    BY <1>1, <1>9, CaptureFacts
  <2>2. \A c \in Cells, q \in Ids : Holds(board, c, q)' <=> Holds(board, c, q)
    BY <1>1, <1>4, <1>9, BlockedBoard DEF Holds
  <2>3. \A c \in Cells : board[c] # None /\ board[c].state # "Airborne"
                            => board'[c].state # "Airborne"
    BY <1>1, <1>4, <1>9, BlockedBoard
  <2>4. OnePlacePerPiece'
    BY <1>5, <2>2 DEF Placement, OnePlacePerPiece, Holds, Boards, Piece
  <2>5. MoverGrounded'
    <3> SUFFICES ASSUME NEW q \in InFlight, Active(q)', ~motion[q].jump, q \notin fallen
                 PROVE  /\ Holds(board, motion[q].source, q)'
                        /\ board'[motion[q].source].state # "Airborne"
      BY <1>1, <1>2, <2>1 DEF MoverGrounded
    <3>1. q \in Ids /\ Active(q) /\ motion[q].source \in Cells
      BY <1>2 DEF InFlight, Placement, TypeOK, Motion
    <3>2. Holds(board, motion[q].source, q) /\ board[motion[q].source].state # "Airborne"
      BY <3>1 DEF Placement, MoverGrounded
    <3>3. QED BY <1>1, <2>2, <2>3, <3>1, <3>2 DEF Holds
  <2>6. JumperHome'
    BY <1>1, <1>2, <2>2 DEF Placement, JumperHome, Jumping, InFlight
  <2>7. QED BY <1>6, <1>7, <1>8, <2>4, <2>5, <2>6 DEF Placement
<1>10. CASE kind # "FriendlyBlocked"
  <2>1. /\ Holds(board', m.destination, p)
        /\ \A c \in Cells : c # m.destination =>
              board'[c] = IF c = m.source THEN None ELSE board[c]
    BY <1>1, <1>4, <1>10, LandedBoard DEF Holds
  <2>2. \A c \in Cells, q \in Ids : q # p /\ Holds(board, c, q)' => Holds(board, c, q)
    BY <2>1 DEF Holds
  \* The mover was nowhere but on its source and its destination.
  <2>3. \A c \in Cells : Holds(board, c, p) => c = m.source
    <3>1. CASE m.jump
      BY <3>1, <1>2 DEF Placement, JumperHome, Jumping
    <3>2. CASE ~m.jump
      <4>1. Holds(board, m.source, p)
        BY <3>2, <1>1, <1>2 DEF Placement, MoverGrounded
      <4>2. m.source \in Cells
        BY <1>3 DEF Motion
      <4>3. QED BY <4>1, <4>2 DEF Placement, OnePlacePerPiece, Holds
    <3>3. QED BY <3>1, <3>2
  <2>4. \A c \in Cells : Holds(board, c, p)' => c = m.destination
    BY <2>1, <2>3 DEF Holds
  <2>5. OnePlacePerPiece'
    <3> SUFFICES ASSUME NEW c \in Cells, NEW d \in Cells,
                        board'[c] # None, Holds(board, d, board[c].id)'
                 PROVE  c = d
      BY DEF OnePlacePerPiece
    <3>1. board'[c].id \in Ids /\ Holds(board, c, board[c].id)'
      BY <1>5 DEF Boards, Piece, Holds
    <3>2. CASE board'[c].id = p
      BY <3>1, <3>2, <2>4
    <3>3. CASE board'[c].id # p
      BY <3>1, <3>3, <2>2 DEF Placement, OnePlacePerPiece, Holds
    <3>4. QED BY <3>2, <3>3
  <2>6. MoverGrounded'
    <3> SUFFICES ASSUME NEW q \in InFlight, Active(q)', ~motion[q].jump, q \notin fallen'
                 PROVE  /\ Holds(board, motion[q].source, q)'
                        /\ board'[motion[q].source].state # "Airborne"
      BY <1>1, <1>2 DEF MoverGrounded
    <3> DEFINE s == motion[q].source
    <3>1. q \in Ids /\ q # p /\ Active(q) /\ s \in Cells
      BY <1>2 DEF InFlight, Placement, TypeOK, Motion
    <3>2. Holds(board, s, q) /\ board[s].state # "Airborne"
      BY <1>4, <3>1 DEF Placement, MoverGrounded
    <3>3. s # m.destination
      BY <1>1, <1>10, <3>1, <3>2, CaptureFacts
    <3>4. s # m.source
      <4>1. CASE m.jump
        BY <4>1, <1>2, <3>3 DEF Placement, MotionsFiled
      <4>2. CASE ~m.jump
        BY <4>2, <1>1, <1>2, <3>1, <3>2 DEF Placement, MoverGrounded, Holds
      <4>3. QED BY <4>1, <4>2
    <3>5. QED BY <1>1, <2>1, <3>1, <3>2, <3>3, <3>4 DEF Holds
  <2>7. JumperHome'
    BY <1>1, <1>2, <2>2 DEF Placement, JumperHome, Jumping, InFlight
  <2>8. QED BY <1>6, <1>7, <1>8, <2>5, <2>6, <2>7 DEF Placement
<1>11. QED BY <1>9, <1>10

\* What is left in flight when a wait ends, and what was active before it did.
LEMMA MotionsAtEnd ==
    ASSUME Placement, EndTick
    PROVE  /\ motion' \in [Ids -> Motion \cup {None}]
           /\ \A q \in InFlight' : /\ q \in InFlight /\ motion'[q] = motion[q]
                                   /\ ~Due(motion[q]) /\ Active(q)
                                   /\ motion[q].jump \/ q \notin fallen
<1> USE NoMotionAssumption
<1>1. \A q \in Ids : motion'[q] = IF motion[q] = None \/ Ends(q) THEN None ELSE motion[q]
  BY DEF EndTick
<1>2. \A q \in InFlight' : /\ q \in InFlight /\ motion'[q] = motion[q] /\ ~Ends(q)
  BY <1>1 DEF InFlight
<1>3. motion' \in [Ids -> Motion \cup {None}]
  BY <1>1 DEF EndTick, Placement, TypeOK
<1>4. QED BY <1>2, <1>3 DEF Ends, Active, InFlight

\* A wait ends: motions go, no piece does.
LEMMA PlacementEnd ==
    ASSUME Placement, EndTick PROVE Placement'
<1>1. /\ pending = {} /\ pending' = {} /\ tick' = 0 /\ fallen' = {}
      /\ UNCHANGED <<board, verdict, captured>>
  BY DEF EndTick
<1>2. TypeOK'
  <2>1. before' \subseteq Ids \X Ids /\ gameOver' \in BOOLEAN
    BY DEF EndTick, Placement, TypeOK
  <2>2. cooldown' \in [Ids -> Nat]
    BY DEF EndTick, Placement, TypeOK
  <2>3. QED
    BY <1>1, <2>1, <2>2, MotionsAtEnd DEF Placement, TypeOK
<1>3. MotionsFiled'
  BY MotionsAtEnd DEF Placement, MotionsFiled
<1>4. BatchPhase'
  BY <1>1, MotionsAtEnd DEF BatchPhase, Due
<1>5. OnePlacePerPiece'
  BY <1>1 DEF Placement, OnePlacePerPiece, Holds
<1>6. MoverGrounded'
  BY <1>1, MotionsAtEnd DEF Placement, MoverGrounded, Holds
<1>7. JumperHome'
  BY <1>1, MotionsAtEnd DEF Placement, JumperHome, Jumping, Holds
<1>8. QED BY <1>2, <1>3, <1>4, <1>5, <1>6, <1>7 DEF Placement

\* Every step keeps the placement.
LEMMA PlacementStep == Placement /\ [Next]_vars => Placement'
<1> SUFFICES ASSUME Placement, [Next]_vars PROVE Placement'
  OBVIOUS
<1>1. CASE \E c, d \in Cells : RequestMove(c, d)
  BY <1>1, PlacementRequest
<1>2. CASE \E c \in Cells : RequestJump(c)
  BY <1>2, PlacementRequest
<1>3. CASE \E ms \in TickSizes : BeginTick(ms)
  BY <1>3, PlacementBegin
<1>4. CASE \E p \in Ids : SkipArrival(p) \/ ResolveArrival(p)
  BY <1>4, PlacementSkip, PlacementResolve
<1>5. CASE EndTick
  BY <1>5, PlacementEnd
<1>6. CASE UNCHANGED vars
  BY <1>6
  DEF vars, Placement, TypeOK, MotionsFiled, BatchPhase, OnePlacePerPiece, MoverGrounded,
      JumperHome, InFlight, Active, Jumping, Holds, Due
<1>7. QED
  BY <1>1, <1>2, <1>3, <1>4, <1>5, <1>6 DEF Next, WaitAfterGameOver

\* The placement invariant holds in every reachable state.
LEMMA PlacementInvariant == Spec => []Placement
<1>1. QED BY PlacementInit, PlacementStep, PTL DEF Spec

\* The state has its types (Board, RealTimeArbiter, GameEngine, GameOverObserver).
THEOREM TypeCorrect == Spec => []TypeOK
<1>1. Placement => TypeOK
  BY DEF Placement
<1>2. QED BY <1>1, PlacementInvariant, PTL

\* No identity ever stands on two cells, although resolve_arrival puts pieces
\* back from snapshots taken when their motions began.
THEOREM EachPieceOnce == Spec => []OnePlacePerPiece
<1>1. Placement => OnePlacePerPiece
  BY DEF Placement
<1>2. QED BY <1>1, PlacementInvariant, PTL

\* A piece with a move in flight occupies its source until the move ends.
THEOREM MoversHoldTheirSource == Spec => []MoverAtSource
<1>1. Placement => MoverAtSource
  BY DEF Placement, MoverGrounded, MoverAtSource
<1>2. QED BY <1>1, PlacementInvariant, PTL

\* The next arrival meets none of the conditions Board throws on: a blocked
\* mover's source is empty, or the landing cell is still occupied.
ArrivalNeverThrows ==
    \A p \in pending \ fallen :
        LET m == motion[p]
            occupant == board[m.destination]
        IN  /\ CollisionKind(m.piece, occupant) = "FriendlyBlocked"
                    => board[m.source] # None
            /\ Holds(board, m.destination, p) => m.source = m.destination

\* advance_time never makes Board throw: a blocked mover's source is occupied,
\* and a landing cell is free when the piece is added.
THEOREM ArrivalsAreSafe == Spec => []ArrivalNeverThrows
<1>1. Placement => ArrivalNeverThrows
  <2> SUFFICES ASSUME Placement, NEW p \in pending \ fallen
               PROVE  /\ CollisionKind(motion[p].piece, board[motion[p].destination])
                            = "FriendlyBlocked" => board[motion[p].source] # None
                      /\ Holds(board, motion[p].destination, p)
                            => motion[p].source = motion[p].destination
    BY DEF ArrivalNeverThrows
  <2>1. p \in InFlight /\ Active(p) /\ motion[p] \in Motion
    BY NoMotionAssumption DEF Placement, BatchPhase, InFlight, TypeOK, Active
  <2>2. CASE motion[p].jump
    BY <2>1, <2>2, BlockedBoard DEF Placement, MotionsFiled
  <2>3. CASE ~motion[p].jump
    <3>1. Holds(board, motion[p].source, p)
      BY <2>1, <2>3 DEF Placement, MoverGrounded
    <3>2. motion[p].source \in Cells /\ motion[p].destination \in Cells
      BY <2>1 DEF Motion
    <3>3. QED BY <3>1, <3>2 DEF Placement, OnePlacePerPiece, Holds
  <2>4. QED BY <2>2, <2>3
<1>2. QED BY <1>1, PlacementInvariant, PTL
-----------------------------------------------------------------------------
\* Jumps last JumpDuration, moves rest MoveCooldown, and in a wait every
\* motion has counted that wait.
MotionTiming ==
    \A p \in InFlight :
        /\ motion[p].jump => motion[p].duration = JumpDuration
        /\ ~motion[p].jump => motion[p].cooldown = MoveCooldown
        /\ motion[p].elapsed >= tick

\* Two jumps are never in flight over one cell ...
JumpCellsDistinct ==
    \A p, q \in InFlight :
        Jumping(p) /\ Jumping(q) /\ motion[p].source = motion[q].source => p = q

\* ... because whoever stands there meanwhile rests at least until the landing.
VisitorRests ==
    \A p \in InFlight : Jumping(p) =>
        \A q \in Ids : q # p /\ Holds(board, motion[p].source, q) =>
            ~Active(q) /\ cooldown[q] >= motion[p].duration - motion[p].elapsed

\* A captured piece has no jump in flight, and its move is about to be dropped.
CapturedGrounded ==
    /\ \A x \in captured : ~Jumping(x.id) /\ (Active(x.id) => x.id \in fallen)
    /\ \A q \in fallen : \E x \in captured : x.id = q

Captures ==
    /\ Placement
    /\ MotionTiming
    /\ JumpCellsDistinct
    /\ VisitorRests
    /\ StateMatchesMotion
    /\ CapturedStaysOff
    /\ CapturedGrounded

\* Nothing is captured and nothing flies when the game begins.
LEMMA CapturesInit == Init => Captures
<1> SUFFICES ASSUME Init PROVE Captures
  OBVIOUS
<1>1. Placement
  BY PlacementInit
<1>2. InFlight = {} /\ \A p : ~Active(p) \/ p \notin Ids
  BY DEF Init, InFlight, Active
<1>3. StateMatchesMotion
  BY <1>2, StartAssumption DEF Init, StateMatchesMotion, Holds, Jumping
<1>4. QED
  BY <1>1, <1>2, <1>3
  DEF Init, Captures, MotionTiming, JumpCellsDistinct, VisitorRests, CapturedStaysOff,
      CapturedGrounded

\* A request starts a motion of a piece that no jump is waiting for.
LEMMA CapturesStart ==
    ASSUME Captures, Placement', tick = 0,
           NEW m \in Motion, m.piece \in Piece,
           board[m.source] # None, m.piece = board[m.source],
           ~Busy(m.piece.id), StartMotion(m),
           m.elapsed = 0, m.duration \in Nat \ {0},
           m.jump => m.duration = JumpDuration,
           ~m.jump => m.cooldown = MoveCooldown
    PROVE  Captures'
<1> DEFINE p == m.piece.id
<1> USE NoneAssumption, NoMotionAssumption
<1>1. /\ m.source \in Cells /\ p \in Ids /\ m # None /\ board[m.source].id = p
      /\ motion[p] = None /\ cooldown[p] = 0
      /\ motion' = [motion EXCEPT ![p] = m]
      /\ motion \in [Ids -> Motion \cup {None}] /\ cooldown \in [Ids -> Nat]
      /\ board \in Boards
      /\ UNCHANGED <<cooldown, gameOver, verdict, captured, tick, pending, fallen>>
  <2>1. /\ motion \in [Ids -> Motion \cup {None}] /\ cooldown \in [Ids -> Nat]
        /\ board \in Boards
    BY DEF Captures, Placement, TypeOK
  <2>2. m.source \in Cells /\ p \in Ids /\ m # None /\ board[m.source].id = p
    BY DEF Motion, Piece
  <2>3. motion[p] = None /\ cooldown[p] = 0
    BY <2>1, <2>2 DEF Busy
  <2>4. /\ motion' = [motion EXCEPT ![p] = m]
        /\ UNCHANGED <<cooldown, gameOver, verdict, captured, tick, pending, fallen>>
    BY DEF StartMotion
  <2>5. QED BY <2>1, <2>2, <2>3, <2>4
<1>2. PICK s \in States : /\ s = IF m.jump THEN "Airborne" ELSE "Moving"
                          /\ board' = [board EXCEPT ![m.source].state = s]
  BY <1>1 DEF StartMotion, States
<1>3. /\ InFlight' = InFlight \cup {p} /\ p \notin InFlight
      /\ \A q \in Ids : q # p => motion'[q] = motion[q] /\ (Active(q)' <=> Active(q))
                                 /\ (Jumping(q)' <=> Jumping(q))
      /\ motion'[p] = m /\ Active(p)' /\ ~Active(p) /\ (Jumping(p)' <=> m.jump)
  BY <1>1 DEF InFlight, Active, Jumping, Due, Motion
<1>4. \A c \in Cells, q \in Ids : Holds(board', c, q) <=> Holds(board, c, q)
  BY <1>1, <1>2 DEF Holds, Boards, Piece
<1>5. Holds(board, m.source, p)
  BY <1>1 DEF Holds
\* No jump is in flight over the cell: p would be its resting visitor.
<1>6. \A r \in InFlight : Jumping(r) => motion[r].source # m.source
  <2> SUFFICES ASSUME NEW r \in InFlight, Jumping(r), motion[r].source = m.source
               PROVE  FALSE
    OBVIOUS
  <2>1. r # p /\ motion[r] \in Motion /\ ~Due(motion[r])
    BY <1>1, <1>3 DEF InFlight, Captures, Placement, BatchPhase
  <2>2. cooldown[p] >= motion[r].duration - motion[r].elapsed
    BY <2>1, <1>1, <1>5 DEF Captures, VisitorRests
  <2>3. QED BY <2>1, <2>2, <1>1 DEF Due, Motion
<1>7. MotionTiming'
  BY <1>1, <1>3 DEF Captures, MotionTiming, InFlight
<1>8. JumpCellsDistinct'
  BY <1>3, <1>6 DEF Captures, JumpCellsDistinct, InFlight
<1>9. VisitorRests'
  <2> SUFFICES ASSUME NEW r \in InFlight', Jumping(r)', NEW q \in Ids, q # r,
                      Holds(board', motion'[r].source, q)
               PROVE  ~Active(q)' /\ cooldown'[q] >= motion'[r].duration - motion'[r].elapsed
    BY DEF VisitorRests
  <2>1. CASE r = p
    BY <2>1, <1>1, <1>3, <1>4, <1>5 DEF Holds
  <2>2. CASE r # p
    <3>1. r \in InFlight /\ Jumping(r) /\ motion'[r] = motion[r] /\ motion[r].source \in Cells
      BY <2>2, <1>1, <1>3 DEF InFlight, Motion
    <3>2. Holds(board, motion[r].source, q)
      BY <3>1, <1>4
    <3>3. q # p
      BY <3>1, <3>2, <1>5, <1>6, <1>1 DEF Captures, Placement, OnePlacePerPiece, Holds
    <3>4. QED BY <3>1, <3>2, <3>3, <1>1, <1>3 DEF Captures, VisitorRests
  <2>3. QED BY <2>1, <2>2
<1>10. StateMatchesMotion'
  <2> SUFFICES ASSUME NEW c \in Cells, NEW q \in Ids, Holds(board', c, q)
               PROVE  /\ board'[c].state = "Airborne" <=> Jumping(q)'
                      /\ board'[c].state = "Moving" <=> Active(q)' /\ ~Jumping(q)'
    BY DEF StateMatchesMotion
  <2>1. CASE c = m.source
    <3>1. q = p /\ board'[c].state = IF m.jump THEN "Airborne" ELSE "Moving"
      BY <2>1, <1>1, <1>2 DEF Boards, Piece, Holds
    <3>2. QED BY <3>1, <1>3
  <2>2. CASE c # m.source
    <3>1. board'[c] = board[c] /\ Holds(board, c, q) /\ q # p
      BY <2>2, <1>1, <1>2, <1>4, <1>5 DEF Captures, Placement, OnePlacePerPiece, Holds, Boards
    <3>2. QED BY <3>1, <1>3 DEF Captures, StateMatchesMotion
  <2>3. QED BY <2>1, <2>2
<1>11. CapturedStaysOff' /\ CapturedGrounded'
  <2>1. \A x \in captured : x.id \in Ids /\ x.id # p
    BY <1>1, <1>5 DEF Captures, CapturedStaysOff, OnBoard, Placement, TypeOK, Piece
  <2>2. QED
    BY <1>1, <1>3, <1>4, <2>1 DEF Captures, CapturedStaysOff, CapturedGrounded, OnBoard
<1>12. QED
  BY <1>7, <1>8, <1>9, <1>10, <1>11 DEF Captures

\* An accepted move or jump request.
LEMMA CapturesRequest ==
    ASSUME Captures, NEW c \in Cells, NEW d \in Cells, RequestMove(c, d) \/ RequestJump(c)
    PROVE  Captures'
<1>1. tick = 0 /\ board[c] # None /\ ~Busy(board[c].id)
  BY DEF RequestMove, RequestJump, ValidMove, Occupied
<1>2. Placement' /\ board[c] \in Piece
  BY <1>1, PlacementRequest DEF Captures, Placement, TypeOK, Boards
<1>3. CASE RequestMove(c, d)
  <2>1. c # d
    BY <1>1, <1>2, <1>3 DEF RequestMove, ValidMove, FriendAt, Occupied
  <2>2. StartMotion(MoveMotion(board[c], c, d))
    BY <1>3 DEF RequestMove
  <2>3. QED
    BY <1>1, <1>2, <2>1, <2>2, MoveMotionType, CapturesStart DEF MoveMotion
<1>4. CASE RequestJump(c)
  <2>1. StartMotion(JumpMotion(board[c], c))
    BY <1>4 DEF RequestJump
  <2>2. QED
    BY <1>1, <1>2, <2>1, JumpMotionType, CapturesStart, TimeAssumption DEF JumpMotion
<1>5. QED BY <1>3, <1>4

\* A wait begins: rests and flights shorten by the same time.
LEMMA CapturesBegin ==
    ASSUME Captures, NEW ms \in TickSizes, BeginTick(ms) PROVE Captures'
<1> USE NoneAssumption, NoMotionAssumption
<1>1. ms \in Nat \ {0} /\ tick = 0 /\ tick' = ms
      /\ pending = {} /\ fallen = {} /\ fallen' = {}
      /\ UNCHANGED <<board, before, gameOver, verdict, captured>>
  BY TimeAssumption DEF BeginTick, Captures, Placement, BatchPhase
<1>2. Placement'
  BY PlacementBegin DEF Captures
<1>3. \A p \in Ids : motion'[p] = IF motion[p] = None THEN None
                                  ELSE [motion[p] EXCEPT !.elapsed = @ + ms]
  BY DEF BeginTick
<1>4. /\ InFlight' = InFlight
      /\ \A p \in InFlight :
           /\ p \in Ids /\ motion[p] \in Motion /\ motion'[p] \in Motion
           /\ motion'[p].source = motion[p].source
           /\ motion'[p].jump = motion[p].jump
           /\ motion'[p].duration = motion[p].duration
           /\ motion'[p].cooldown = motion[p].cooldown
           /\ motion'[p].elapsed = motion[p].elapsed + ms
  <2>1. \A p \in Ids : motion[p] \in Motion \cup {None}
    BY DEF Captures, Placement, TypeOK
  <2>2. \A p \in Ids : motion[p] # None =>
           /\ motion'[p] = [motion[p] EXCEPT !.elapsed = @ + ms]
           /\ motion'[p] \in Motion
    BY <1>1, <1>3, <2>1 DEF Motion
  <2>3. \A p \in Ids : motion[p] = None => motion'[p] = None
    BY <1>3
  <2>4. InFlight' = InFlight
    BY <2>1, <2>2, <2>3 DEF InFlight
  <2>5. ASSUME NEW p \in InFlight
        PROVE  /\ p \in Ids /\ motion[p] \in Motion /\ motion'[p] \in Motion
               /\ motion'[p] = [motion[p] EXCEPT !.elapsed = @ + ms]
    BY <2>1, <2>2 DEF InFlight
  <2>6. QED BY <2>4, <2>5 DEF Motion
<1>5. \A q \in Ids : /\ Active(q) <=> q \in InFlight
                     /\ Active(q)' <=> q \in InFlight
                     /\ Jumping(q)' <=> Jumping(q)
  <2>1. \A q \in Ids : Active(q) <=> q \in InFlight
    BY <1>1 DEF InFlight, Active, Captures, Placement, BatchPhase
  <2>2. pending' = {p \in InFlight : Due(motion'[p])}
    BY DEF BeginTick
  <2>3. \A q \in Ids : Active(q)' <=> q \in InFlight
    BY <1>4, <2>2 DEF InFlight, Active, Due
  <2>4. QED BY <1>4, <2>1, <2>3 DEF Jumping
<1>6. MotionTiming'
  BY <1>1, <1>4 DEF Captures, MotionTiming, Motion
<1>7. JumpCellsDistinct'
  BY <1>4, <1>5 DEF Captures, JumpCellsDistinct
<1>8. VisitorRests'
  <2> SUFFICES ASSUME NEW r \in InFlight, Jumping(r), NEW q \in Ids, q # r,
                      Holds(board, motion[r].source, q)
               PROVE  ~Active(q)' /\ cooldown'[q] >= motion'[r].duration - motion'[r].elapsed
    BY <1>1, <1>4, <1>5 DEF VisitorRests, Holds
  <2>1. ~Active(q) /\ cooldown[q] >= motion[r].duration - motion[r].elapsed
    BY DEF Captures, VisitorRests
  <2>2. cooldown'[q] = Larger(0, cooldown[q] - ms) /\ cooldown[q] \in Nat
    BY DEF BeginTick, Captures, Placement, TypeOK
  <2>3. cooldown[q] - ms >= motion'[r].duration - motion'[r].elapsed
    BY <1>1, <1>4, <2>1, <2>2 DEF Motion
  <2>4. /\ cooldown'[q] >= cooldown[q] - ms /\ cooldown'[q] \in Int
        /\ motion'[r].duration \in Int /\ motion'[r].elapsed \in Int
    BY <1>1, <1>4, <2>2 DEF Larger, Motion
  <2>5. QED BY <1>1, <1>5, <2>1, <2>2, <2>3, <2>4
<1>9. StateMatchesMotion'
  BY <1>1, <1>5 DEF Captures, StateMatchesMotion, Holds
<1>10. CapturedStaysOff'
  BY <1>1 DEF Captures, CapturedStaysOff, OnBoard, Holds
<1>11. CapturedGrounded'
  <2>1. \A x \in captured : x.id \in Ids
    BY DEF Captures, Placement, TypeOK, Piece
  <2>2. QED BY <1>1, <1>5, <2>1 DEF Captures, CapturedGrounded
<1>12. QED
  BY <1>2, <1>6, <1>7, <1>8, <1>9, <1>10, <1>11 DEF Captures

\* Skipping a captured piece's arrival.
LEMMA CapturesSkip ==
    ASSUME Captures, NEW p \in Ids, SkipArrival(p) PROVE Captures'
<1>1. /\ p \in pending /\ p \in fallen /\ pending' = pending \ {p}
      /\ UNCHANGED <<board, motion, before, cooldown, gameOver, verdict, captured, tick, fallen>>
  BY DEF SkipArrival, NextArrival
<1>2. Placement'
  BY PlacementSkip DEF Captures
<1>3. /\ InFlight' = InFlight /\ p \in InFlight
      /\ Active(p) /\ ~Active(p)'
      /\ \A q \in Ids : q # p => (Active(q)' <=> Active(q)) /\ (Jumping(q)' <=> Jumping(q))
  BY <1>1, PendingShrinks DEF Captures, Placement, Jumping
<1>4. \A c \in Cells : ~Holds(board, c, p)
  BY <1>1 DEF Captures, CapturedGrounded, CapturedStaysOff, OnBoard
<1>5. \A q \in Ids : (Active(q)' => Active(q)) /\ (Jumping(q)' => Jumping(q))
  BY <1>3 DEF Jumping
<1>6. MotionTiming' /\ JumpCellsDistinct'
  BY <1>1, <1>3, <1>5 DEF Captures, MotionTiming, JumpCellsDistinct, InFlight
<1>7. VisitorRests'
  BY <1>1, <1>3, <1>5 DEF Captures, VisitorRests, Holds, InFlight
<1>8. StateMatchesMotion'
  BY <1>1, <1>3, <1>4 DEF Captures, StateMatchesMotion, Holds
<1>9. CapturedStaysOff' /\ CapturedGrounded'
  <2>1. \A x \in captured : x.id \in Ids
    BY DEF Captures, Placement, TypeOK, Piece
  <2>2. QED
    BY <1>1, <1>5, <2>1 DEF Captures, CapturedStaysOff, CapturedGrounded, OnBoard, Holds
<1>10. QED
  BY <1>2, <1>6, <1>7, <1>8, <1>9 DEF Captures

\* A blocked arrival: the mover's flag is undone, nothing else changes.
LEMMA CapturesBlocked ==
    ASSUME Captures, Placement', NEW p \in Ids, ResolveArrival(p),
           CollisionKind(motion[p].piece, board[motion[p].destination]) = "FriendlyBlocked"
    PROVE  Captures'
<1> DEFINE m == motion[p]
<1> USE NoneAssumption, NoMotionAssumption
<1>1. /\ p \in pending /\ p \notin fallen /\ pending' = pending \ {p} /\ tick' = tick
      /\ UNCHANGED <<motion, before, gameOver, cooldown>>
  BY DEF ResolveArrival, NextArrival
<1>2. UNCHANGED <<fallen, captured>> /\ board' = BoardAfter(board, m)
  BY <1>1, CaptureFacts DEF Captures
<1>3. /\ InFlight' = InFlight /\ p \in InFlight
      /\ Active(p) /\ ~Active(p)'
      /\ \A q \in Ids : q # p => (Active(q)' <=> Active(q)) /\ (Jumping(q)' <=> Jumping(q))
  BY <1>1, PendingShrinks DEF Captures, Placement, Jumping
<1>4. \A q \in Ids : (Active(q)' => Active(q)) /\ (Jumping(q)' => Jumping(q))
  BY <1>3 DEF Jumping
<1>5. /\ \A c \in Cells, q \in Ids : Holds(board', c, q) <=> Holds(board, c, q)
      /\ \A c \in Cells : board[c] # None =>
            board'[c].state = IF c = m.source THEN "Idle" ELSE board[c].state
  BY <1>1, <1>2, BlockedBoard DEF Captures
<1>6. MotionTiming' /\ JumpCellsDistinct'
  BY <1>1, <1>3, <1>4 DEF Captures, MotionTiming, JumpCellsDistinct, InFlight
<1>7. VisitorRests'
  <2>1. \A r \in InFlight : motion[r].source \in Cells
    BY DEF InFlight, Captures, Placement, TypeOK, Motion
  <2>2. QED
    BY <1>1, <1>3, <1>4, <1>5, <2>1 DEF Captures, VisitorRests, InFlight
<1>8. StateMatchesMotion'
  <2> SUFFICES ASSUME NEW c \in Cells, NEW q \in Ids, Holds(board', c, q)
               PROVE  /\ board'[c].state = "Airborne" <=> Jumping(q)'
                      /\ board'[c].state = "Moving" <=> Active(q)' /\ ~Jumping(q)'
    BY DEF StateMatchesMotion
  <2>1. Holds(board, c, q) /\ board[c] # None
    BY <1>5 DEF Holds
  <2>2. CASE c = m.source
    <3>1. board'[c].state = "Idle"
      BY <1>5, <2>1, <2>2
    <3>2. q = p \/ ~Active(q)
      <4>1. CASE m.jump
        BY <4>1, <1>3, <2>1, <2>2 DEF Captures, VisitorRests, Jumping
      <4>2. CASE ~m.jump
        BY <4>2, <1>1, <1>3, <2>1, <2>2 DEF Captures, Placement, MoverGrounded, Holds
      <4>3. QED BY <4>1, <4>2
    <3>3. QED BY <3>1, <3>2, <1>3, <1>4 DEF Jumping
  <2>3. CASE c # m.source
    <3>1. q # p
      <4>1. CASE m.jump
        BY <4>1, <1>3, <2>1, <2>3 DEF Captures, Placement, JumperHome, Jumping
      <4>2. CASE ~m.jump
        <5>1. Holds(board, m.source, p) /\ m.source \in Cells
          BY <4>2, <1>1, <1>3
          DEF Captures, Placement, MoverGrounded, TypeOK, InFlight, Motion
        <5>2. QED BY <5>1, <2>1, <2>3 DEF Captures, Placement, OnePlacePerPiece, Holds
      <4>3. QED BY <4>1, <4>2
    <3>2. board'[c].state = board[c].state
      BY <1>5, <2>1, <2>3
    <3>3. QED BY <3>1, <3>2, <1>3, <2>1 DEF Captures, StateMatchesMotion
  <2>4. QED BY <2>2, <2>3
<1>9. CapturedStaysOff' /\ CapturedGrounded'
  <2>1. \A x \in captured : x.id \in Ids
    BY DEF Captures, Placement, TypeOK, Piece
  <2>2. QED
    BY <1>2, <1>4, <1>5, <2>1 DEF Captures, CapturedStaysOff, CapturedGrounded, OnBoard
<1>10. QED
  BY <1>6, <1>7, <1>8, <1>9 DEF Captures

\* An arrival onto its destination: whoever it captures is out of play, and on
\* a jumper's cell it rests until the jumper has landed.
LEMMA CapturesLanded ==
    ASSUME Captures, Placement', NEW p \in Ids, ResolveArrival(p),
           CollisionKind(motion[p].piece, board[motion[p].destination]) # "FriendlyBlocked"
    PROVE  Captures'
<1> DEFINE m == motion[p]
           o == board[m.destination]
<1> USE NoneAssumption, NoMotionAssumption
<1>1. /\ p \in pending /\ p \notin fallen /\ pending' = pending \ {p}
      /\ tick' = tick /\ tick \in Nat
      /\ UNCHANGED <<motion, before, gameOver>>
  BY DEF ResolveArrival, NextArrival, Captures, Placement, TypeOK
<1>2. /\ InFlight' = InFlight /\ p \in InFlight
      /\ Active(p) /\ ~Active(p)'
      /\ \A q \in Ids : q # p => (Active(q)' <=> Active(q)) /\ (Jumping(q)' <=> Jumping(q))
  BY <1>1, PendingShrinks DEF Captures, Placement, Jumping
<1>3. /\ m \in Motion /\ m.piece.id = p /\ m.source \in Cells /\ m.destination \in Cells
      /\ m.jump => m.destination = m.source
  BY <1>2 DEF Captures, Placement, TypeOK, InFlight, MotionsFiled, Motion
<1>4. \A q \in Ids : (Active(q)' => Active(q)) /\ (Jumping(q)' => Jumping(q))
  BY <1>2 DEF Jumping
<1>5. board' = BoardAfter(board, m)
  BY <1>1, CaptureFacts DEF Captures
<1>6. /\ Holds(board', m.destination, p) /\ board'[m.destination].state = "Idle"
      /\ \A c \in Cells : c # m.destination =>
            board'[c] = IF c = m.source THEN None ELSE board[c]
  BY <1>1, <1>3, <1>5, LandedBoard, LandedType DEF Captures
<1>7. \A c \in Cells, q \in Ids : q # p /\ Holds(board', c, q) =>
            c # m.destination /\ Holds(board, c, q) /\ board'[c] = board[c]
  BY <1>6 DEF Holds
<1>8. \A c \in Cells : Holds(board', c, p) => c = m.destination
  BY <1>6, <1>3 DEF Placement, OnePlacePerPiece, Holds
<1>9. MotionTiming' /\ JumpCellsDistinct'
  BY <1>1, <1>2, <1>4 DEF Captures, MotionTiming, JumpCellsDistinct, InFlight
<1>10. VisitorRests'
  <2> SUFFICES ASSUME NEW r \in InFlight, Jumping(r)', NEW q \in Ids, q # r,
                      Holds(board', motion[r].source, q)
               PROVE  ~Active(q)' /\ cooldown'[q] >= motion[r].duration - motion[r].elapsed
    BY <1>1, <1>2 DEF VisitorRests
  <2>1. r \in Ids /\ r # p /\ Jumping(r) /\ motion[r] \in Motion /\ motion[r].source \in Cells
    BY <1>2, <1>4 DEF InFlight, Jumping, Captures, Placement, TypeOK, Motion
  <2>2. CASE q # p
    <3>1. Holds(board, motion[r].source, q)
      BY <1>7, <2>1, <2>2
    <3>2. cooldown'[q] = cooldown[q]
      <4>1. cooldown \in [Ids -> Nat]
        BY DEF Captures, Placement, TypeOK
      <4>2. cooldown' = cooldown \/ cooldown' = [cooldown EXCEPT ![p] = RestAfter(m, tick)]
        BY DEF ResolveArrival
      <4>3. QED BY <2>2, <4>1, <4>2
    <3>3. QED BY <1>4, <2>1, <3>1, <3>2 DEF Captures, VisitorRests
  <2>3. CASE q = p
    <3>1. motion[r].source = m.destination
      BY <1>8, <2>1, <2>3
    <3>2. ~m.jump /\ m.cooldown = MoveCooldown
      BY <1>2, <1>3, <2>1, <3>1
      DEF Captures, JumpCellsDistinct, MotionTiming, Jumping
    <3>3. motion[r].duration - motion[r].elapsed <= JumpDuration - tick
      BY <1>1, <2>1, TimeAssumption DEF Captures, MotionTiming, Jumping, Motion
    <3>4. TimeIntoTick(m, tick) \in 0 .. tick
      BY <1>1, <1>3, TimeIntoTickRange
    <3>5. /\ RestAfter(m, tick) \in Nat
          /\ RestAfter(m, tick) >= MoveCooldown - tick
      BY <1>1, <3>2, <3>4, TimeAssumption DEF RestAfter, Larger
    <3>6. cooldown'[p] \in Nat /\ cooldown'[p] >= RestAfter(m, tick)
      <4>1. cooldown \in [Ids -> Nat]
        BY DEF Captures, Placement, TypeOK
      <4>2. CASE RestAfter(m, tick) > 0
        BY <4>1, <4>2, <3>5 DEF ResolveArrival
      <4>3. CASE ~(RestAfter(m, tick) > 0)
        BY <4>1, <4>3, <3>5 DEF ResolveArrival
      <4>4. QED BY <4>2, <4>3
    <3>7. motion[r].duration \in Int /\ motion[r].elapsed \in Int
      BY <2>1 DEF Motion
    <3>8. QED
      BY <1>1, <1>2, <2>3, <3>3, <3>5, <3>6, <3>7, TimeAssumption, RestAssumption
  <2>4. QED BY <2>2, <2>3
<1>11. StateMatchesMotion'
  <2> SUFFICES ASSUME NEW c \in Cells, NEW q \in Ids, Holds(board', c, q)
               PROVE  /\ board'[c].state = "Airborne" <=> Jumping(q)'
                      /\ board'[c].state = "Moving" <=> Active(q)' /\ ~Jumping(q)'
    BY DEF StateMatchesMotion
  <2>1. CASE q = p
    BY <2>1, <1>2, <1>6, <1>8 DEF Jumping
  <2>2. CASE q # p
    BY <2>2, <1>2, <1>7 DEF Captures, StateMatchesMotion
  <2>3. QED BY <2>1, <2>2
\* The captured piece stood on the destination, grounded: no jump of its own.
<1>12. \A x \in captured' : /\ x.id \in Ids /\ x.id # p
                            /\ \A c \in Cells : ~Holds(board', c, x.id)
                            /\ ~Jumping(x.id)
                            /\ Active(x.id) => x.id \in fallen'
  <2> SUFFICES ASSUME NEW x \in captured'
               PROVE  /\ x.id \in Ids /\ x.id # p
                      /\ \A c \in Cells : ~Holds(board', c, x.id)
                      /\ ~Jumping(x.id)
                      /\ Active(x.id) => x.id \in fallen'
    OBVIOUS
  <2>1. CASE x \in captured
    <3>1. x.id \in Ids
      BY <2>1 DEF Captures, Placement, TypeOK, Piece
    <3>2. x.id # p
      BY <2>1, <1>1, <1>2 DEF Captures, CapturedGrounded
    <3>3. fallen \subseteq fallen'
      BY <1>1, CaptureFacts DEF Captures
    <3>4. QED
      BY <2>1, <3>1, <3>2, <3>3, <1>7
      DEF Captures, CapturedStaysOff, CapturedGrounded, OnBoard
  <2>2. CASE x \notin captured
    <3>1. /\ x = o /\ o \in Piece /\ o.id # p /\ o.state # "Airborne"
          /\ fallen' = fallen \cup {o.id}
      BY <1>1, <2>2, CaptureFacts DEF Captures
    <3>2. x.id \in Ids /\ Holds(board, m.destination, x.id)
      BY <3>1 DEF Holds, Piece
    <3>3. ~Jumping(x.id)
      BY <1>3, <3>1, <3>2 DEF Captures, StateMatchesMotion
    <3>4. \A c \in Cells : ~Holds(board', c, x.id)
      BY <1>3, <1>7, <3>1, <3>2 DEF Captures, Placement, OnePlacePerPiece, Holds
    <3>5. QED BY <3>1, <3>2, <3>3, <3>4
  <2>3. QED BY <2>1, <2>2
<1>13. \A q \in fallen' : \E x \in captured' : x.id = q
  BY <1>1, CaptureFacts DEF Captures, CapturedGrounded
<1>14. CapturedStaysOff' /\ CapturedGrounded'
  BY <1>4, <1>12, <1>13 DEF CapturedStaysOff, CapturedGrounded, OnBoard
<1>15. QED
  BY <1>9, <1>10, <1>11, <1>14 DEF Captures

\* A wait ends: the captured lose their motions and rests.
LEMMA CapturesEnd ==
    ASSUME Captures, EndTick PROVE Captures'
<1>1. /\ pending = {} /\ pending' = {} /\ tick' = 0 /\ fallen' = {}
      /\ UNCHANGED <<board, verdict, captured>>
      /\ \A q \in Ids : cooldown'[q] = IF q \in fallen THEN 0 ELSE cooldown[q]
  BY DEF EndTick
<1>2. Placement'
  BY PlacementEnd DEF Captures
<1>3. \A q \in InFlight' : /\ q \in Ids /\ q \in InFlight /\ motion'[q] = motion[q]
                           /\ motion[q] \in Motion /\ ~Due(motion[q]) /\ Active(q)
                           /\ motion[q].jump \/ q \notin fallen
  BY MotionsAtEnd DEF Captures, Placement, InFlight, TypeOK
<1>4. \A q \in Ids : /\ Active(q)' => Active(q) /\ q \in InFlight'
                     /\ Jumping(q)' => Jumping(q)
  BY <1>3 DEF Active, Jumping, InFlight
<1>5. \A q \in fallen, c \in Cells : ~Holds(board, c, q)
  BY DEF Captures, CapturedGrounded, CapturedStaysOff, OnBoard
<1>6. \A q \in Ids : q \notin fallen => (Active(q)' <=> Active(q)) /\ (Jumping(q)' <=> Jumping(q))
  <2>1. \A q \in Ids : motion'[q] = IF motion[q] = None \/ Ends(q) THEN None ELSE motion[q]
    BY DEF EndTick
  <2>2. QED
    BY <1>1, <2>1, NoMotionAssumption DEF Active, Jumping, Ends, Due
<1>7. MotionTiming'
  BY <1>1, <1>3 DEF Captures, MotionTiming, Motion
<1>8. JumpCellsDistinct'
  BY <1>3, <1>4 DEF Captures, JumpCellsDistinct
<1>9. VisitorRests'
  <2> SUFFICES ASSUME NEW r \in InFlight', Jumping(r)', NEW q \in Ids, q # r,
                      Holds(board', motion'[r].source, q)
               PROVE  ~Active(q)' /\ cooldown'[q] >= motion'[r].duration - motion'[r].elapsed
    BY DEF VisitorRests
  <2>1. /\ r \in InFlight /\ Jumping(r) /\ motion'[r] = motion[r]
        /\ motion[r].source \in Cells /\ Holds(board, motion[r].source, q)
    BY <1>1, <1>3, <1>4 DEF Motion
  <2>2. q \notin fallen
    BY <1>5, <2>1
  <2>3. QED BY <1>1, <1>4, <2>1, <2>2 DEF Captures, VisitorRests
<1>10. StateMatchesMotion'
  BY <1>1, <1>5, <1>6 DEF Captures, StateMatchesMotion, Holds
<1>11. CapturedStaysOff' /\ CapturedGrounded'
  <2>1. \A x \in captured : x.id \in Ids
    BY DEF Captures, Placement, TypeOK, Piece
  <2>2. \A x \in captured : ~Active(x.id)' /\ ~Jumping(x.id)'
    BY <1>3, <1>4, <2>1 DEF Captures, CapturedGrounded, Jumping
  <2>3. QED
    BY <1>1, <2>2 DEF Captures, CapturedStaysOff, CapturedGrounded, OnBoard, Holds
<1>12. QED
  BY <1>2, <1>7, <1>8, <1>9, <1>10, <1>11 DEF Captures

\* Every step keeps the invariant.
LEMMA CapturesStep == Captures /\ [Next]_vars => Captures'
<1> SUFFICES ASSUME Captures, [Next]_vars PROVE Captures'
  OBVIOUS
<1>1. CASE \E c, d \in Cells : RequestMove(c, d)
  BY <1>1, CapturesRequest
<1>2. CASE \E c \in Cells : RequestJump(c)
  BY <1>2, CapturesRequest
<1>3. CASE \E ms \in TickSizes : BeginTick(ms)
  BY <1>3, CapturesBegin
<1>4. CASE \E p \in Ids : SkipArrival(p) \/ ResolveArrival(p)
  <2>1. Placement'
    BY PlacementStep DEF Captures
  <2>2. QED BY <1>4, <2>1, CapturesSkip, CapturesBlocked, CapturesLanded
<1>5. CASE EndTick
  BY <1>5, CapturesEnd
<1>6. CASE UNCHANGED vars
  <2>1. Placement'
    BY PlacementStep DEF Captures
  <2>2. QED
    BY <1>6, <2>1
    DEF vars, Captures, MotionTiming, JumpCellsDistinct, VisitorRests, StateMatchesMotion,
        CapturedStaysOff, CapturedGrounded, InFlight, Active, Jumping, Holds, Due, OnBoard
<1>7. QED
  BY <1>1, <1>2, <1>3, <1>4, <1>5, <1>6 DEF Next, WaitAfterGameOver

\* The invariant holds in every reachable state.
LEMMA CapturesInvariant == Spec => []Captures
<1>1. QED BY CapturesInit, CapturesStep, PTL DEF Spec

\* A captured piece never stands on the board again (real_time_arbiter.cpp:99:
\* "so it can't resurrect later").
THEOREM CapturedNeverReturns == Spec => []CapturedStaysOff
<1>1. Captures => CapturedStaysOff
  BY DEF Captures
<1>2. QED BY <1>1, CapturesInvariant, PTL

\* The flag a collision looks at tells the truth about the motion in flight.
THEOREM StateTellsTheMotion == Spec => []StateMatchesMotion
<1>1. Captures => StateMatchesMotion
  BY DEF Captures
<1>2. QED BY <1>1, CapturesInvariant, PTL

\* No step captures a piece that is in the air.
THEOREM JumpProtects == Spec => AirborneIsSafe
<1>1. Captures /\ [Next]_vars => [\A x \in captured' \ captured : ~Jumping(x.id)]_vars
  <2> SUFFICES ASSUME Captures, [Next]_vars, NEW x \in captured' \ captured
               PROVE  ~Jumping(x.id)
    OBVIOUS
  <2>1. PICK p \in Ids : ResolveArrival(p)
    BY DEF Next, RequestMove, RequestJump, StartMotion, BeginTick, SkipArrival, EndTick,
           WaitAfterGameOver, vars
  <2>2. p \in pending /\ p \notin fallen
    BY <2>1 DEF ResolveArrival, NextArrival
  <2>3. /\ x = board[motion[p].destination] /\ x \in Piece /\ x.state # "Airborne"
    BY <2>1, <2>2, CaptureFacts DEF Captures
  <2>4. motion[p].destination \in Cells
    BY <2>2, NoMotionAssumption
    DEF Captures, Placement, BatchPhase, InFlight, TypeOK, Motion
  <2>5. x.id \in Ids /\ Holds(board, motion[p].destination, x.id)
    BY <2>3, NoneAssumption DEF Holds, Piece
  <2>6. QED BY <2>3, <2>4, <2>5 DEF Captures, StateMatchesMotion
<1>2. QED BY <1>1, CapturesInvariant, PTL DEF Spec, AirborneIsSafe
-----------------------------------------------------------------------------
\* The verdict.

KingTaken(color) == \E x \in captured : x.kind = "King" /\ ColorOf[x.id] = color

\* The observer has decided exactly when some king is among the captured; the
\* engine learns of it when the wait ends.
VerdictFollows ==
    /\ \A c \in Colors : verdict.winner = c => KingTaken(Opposite(c)) /\ ~verdict.draw
    /\ verdict.draw => \A c \in Colors : KingTaken(c)
    /\ (verdict.draw \/ verdict.winner # None) <=> \E x \in captured : x.kind = "King"
    /\ gameOver => tick = 0
    /\ tick = 0 => (gameOver <=> verdict.draw \/ verdict.winner # None)

\* One arrival: the verdict moves with the capture.
LEMMA VerdictResolve ==
    ASSUME Placement, VerdictFollows, NEW p \in Ids, ResolveArrival(p) PROVE VerdictFollows'
<1> DEFINE m == motion[p]
           o == board[m.destination]
           kind == CollisionKind(m.piece, o)
<1> USE NoneAssumption, NoMotionAssumption
<1>1. p \in pending /\ p \notin fallen /\ tick > 0 /\ tick' = tick /\ gameOver' = gameOver
  BY DEF ResolveArrival, NextArrival
<1>2. m.piece \in Piece /\ m.piece.id = p
  BY <1>1 DEF Placement, BatchPhase, InFlight, TypeOK, MotionsFiled, Motion
<1>3. CASE kind # "EnemyCaptured"
  <2>1. UNCHANGED <<captured, verdict>>
    BY <1>1, <1>3, CaptureFacts
  <2>2. QED BY <1>1, <2>1 DEF VerdictFollows, KingTaken
<1>4. CASE kind = "EnemyCaptured"
  <2> DEFINE v == verdict
             w == VerdictAfter(v, m.piece, o, TimeIntoTick(m, tick))
  <2>1. /\ captured' = captured \cup {o} /\ o \in Piece /\ verdict' = w
        /\ v \in Verdict /\ ColorOf[o.id] \in Colors /\ ColorOf[p] \in Colors
        /\ ColorOf[o.id] # ColorOf[p]
    <3>1. captured' = captured \cup {o} /\ o \in Piece
      BY <1>1, <1>4, CaptureFacts
    <3>2. verdict' = w
      BY <1>4 DEF ResolveArrival
    <3>3. ColorOf[o.id] # ColorOf[p]
      BY <1>2, <1>4 DEF CollisionKind
    <3>4. ColorOf[o.id] \in Colors /\ ColorOf[p] \in Colors
      BY <3>1, ColorAssumption DEF Piece
    <3>5. QED BY <3>1, <3>2, <3>3, <3>4 DEF Placement, TypeOK
  <2>2. ColorOf[o.id] = Opposite(ColorOf[p])
    BY <2>1 DEF Colors, Opposite
  <2>3. \A c \in Colors : KingTaken(c)' <=> KingTaken(c) \/ (o.kind = "King" /\ ColorOf[o.id] = c)
    BY <2>1 DEF KingTaken
  <2>4. CASE v.draw \/ o.kind # "King"
    <3>1. w = v
      BY <2>4 DEF VerdictAfter
    <3>2. v.draw => \E x \in captured : x.kind = "King"
      BY DEF VerdictFollows
    <3>3. (\E x \in captured' : x.kind = "King") <=> \E x \in captured : x.kind = "King"
      BY <2>1, <2>4, <3>2
    <3>4. \A c \in Colors : Opposite(c) \in Colors
      BY DEF Opposite, Colors
    <3>5. QED BY <1>1, <2>1, <2>3, <3>1, <3>3, <3>4 DEF VerdictFollows
  <2>5. CASE ~v.draw /\ o.kind = "King"
    <3>1. /\ \E x \in captured' : x.kind = "King"
          /\ \A c \in Colors : c = ColorOf[o.id] => KingTaken(c)'
      BY <2>1, <2>3, <2>5
    <3>2. \A c \in Colors : KingTaken(c) => KingTaken(c)'
      BY <2>3
    <3>3. CASE v.winner = None
      <4>1. w.winner = ColorOf[p] /\ ~w.draw
        BY <1>2, <2>5, <3>3 DEF VerdictAfter
      <4>2. \A c \in Colors : c = ColorOf[p] => KingTaken(Opposite(c))'
        BY <2>1, <2>2, <3>1
      <4>3. QED BY <1>1, <2>1, <3>1, <4>1, <4>2 DEF VerdictFollows
    <3>4. CASE v.winner # None
      <4>1. v.winner \in Colors /\ KingTaken(Opposite(v.winner)) /\ Opposite(v.winner) \in Colors
        BY <2>1, <3>4 DEF Verdict, VerdictFollows, Opposite, Colors
      <4>2. CASE w = v
        BY <1>1, <2>1, <3>1, <3>2, <3>4, <4>1, <4>2 DEF VerdictFollows
      <4>3. CASE w # v
        <5>1. w.winner = None /\ w.draw /\ v.winner # ColorOf[p]
          BY <1>2, <2>5, <3>4, <4>3 DEF VerdictAfter
        <5>2. v.winner = ColorOf[o.id]
          BY <2>1, <4>1, <5>1 DEF Colors
        <5>3. \A c \in Colors : c = v.winner \/ c = Opposite(v.winner)
          BY <4>1 DEF Colors, Opposite
        <5>4. \A c \in Colors : KingTaken(c)'
          BY <3>1, <3>2, <4>1, <5>2, <5>3
        <5>5. QED BY <1>1, <2>1, <3>1, <5>1, <5>4 DEF VerdictFollows
      <4>4. QED BY <4>2, <4>3
    <3>5. QED BY <3>3, <3>4
  <2>6. QED BY <2>4, <2>5
<1>5. QED BY <1>3, <1>4

\* Whatever the observer says follows from the kings taken.
LEMMA VerdictInvariant == Spec => []VerdictFollows
<1>1. Init => VerdictFollows
  BY NoneAssumption DEF Init, VerdictFollows
<1>2. Placement /\ VerdictFollows /\ [Next]_vars => VerdictFollows'
  <2> SUFFICES ASSUME Placement, VerdictFollows, [Next]_vars PROVE VerdictFollows'
    OBVIOUS
  <2>1. CASE UNCHANGED <<captured, verdict, gameOver, tick>>
    BY <2>1 DEF VerdictFollows, KingTaken
  <2>2. CASE \E ms \in TickSizes : BeginTick(ms)
    BY <2>2, TimeAssumption DEF BeginTick, VerdictFollows, KingTaken
  <2>3. CASE \E p \in Ids : ResolveArrival(p)
    BY <2>3, VerdictResolve
  <2>4. CASE EndTick
    BY <2>4 DEF EndTick, VerdictFollows, KingTaken
  <2>5. QED
    BY <2>1, <2>2, <2>3, <2>4
    DEF Next, RequestMove, RequestJump, StartMotion, SkipArrival, WaitAfterGameOver, vars
<1>3. QED BY <1>1, <1>2, PlacementInvariant, PTL DEF Spec

\* The engine and the observer agree, and the verdict names who took a king.
THEOREM VerdictIsEarned == Spec => []VerdictMatchesCaptures
<1>1. VerdictFollows => VerdictMatchesCaptures
  BY DEF VerdictFollows, VerdictMatchesCaptures, KingTaken
<1>2. QED BY <1>1, VerdictInvariant, PTL
=============================================================================
