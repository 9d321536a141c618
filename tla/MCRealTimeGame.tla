--------------------------- MODULE MCRealTimeGame ---------------------------
(***************************************************************************)
(* A row of four cells with both kings and a rook each, in units of 100 ms:*)
(* 400 ms a cell (a drone 600), a jump of 700 ms.                          *)
(***************************************************************************)
EXTENDS RealTimeGame

CONSTANTS wk, wr, bk, br

RowColors == [p \in {wk, wr, bk, br} |-> IF p \in {wk, wr} THEN "White" ELSE "Black"]
Fresh(p, kind) == [id |-> p, kind |-> kind, state |-> "Idle", moved |-> FALSE]

RowBoard == [c \in {0} \X (0 .. 3) |->
                CASE c[2] = 0 -> Fresh(wr, "Rook")
                  [] c[2] = 1 -> Fresh(wk, "King")
                  [] c[2] = 2 -> Fresh(br, "Rook")
                  [] c[2] = 3 -> Fresh(bk, "King")]

Travel == [k \in Kinds |-> IF k = "Drone" THEN 6 ELSE 4]
=============================================================================
