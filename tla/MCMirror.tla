------------------------------ MODULE MCMirror ------------------------------
(***************************************************************************)
(* A row of three cells: two white rooks and a black one, so that moves    *)
(* capture, block and pass under jumps.  A move over one cell takes two    *)
(* units of time.                                                          *)
(***************************************************************************)
EXTENDS Mirror

CONSTANTS wr, ws, br

RowColors == [p \in {wr, ws, br} |-> IF p = br THEN "Black" ELSE "White"]
Fresh(p, kind) == [id |-> p, kind |-> kind, state |-> "Idle", moved |-> FALSE]

RowBoard == [c \in {0} \X (0 .. 2) |->
                CASE c[2] = 0 -> Fresh(wr, "Rook")
                  [] c[2] = 1 -> Fresh(ws, "Rook")
                  [] c[2] = 2 -> Fresh(br, "Rook")]

SomePixels == {-1, 0, 2, 4}
Travel == [k \in Kinds |-> 2]
Values == [k \in Kinds |-> CASE k = "Rook" -> 5 [] k = "Bishop" -> 3 [] OTHER -> 1]
=============================================================================
