------------------------- MODULE MCAdvanceInChunks -------------------------
(***************************************************************************)
(* A 2 x 2 board on which each pawn is one capture of the other side's king*)
(* away, so both kings can fall at once, and one step from promotion.  The *)
(* kings are the slower: a pawn can take one whose move has begun.         *)
(***************************************************************************)
EXTENDS AdvanceInChunks

CONSTANTS wk, wp, bk, bp

PawnColors == [p \in {wk, wp, bk, bp} |-> IF p \in {wk, wp} THEN "White" ELSE "Black"]
Fresh(p, kind) == [id |-> p, kind |-> kind, state |-> "Idle", moved |-> FALSE]

PawnBoard == [c \in (0 .. 1) \X (0 .. 1) |->
                CASE c = <<0, 0>> -> Fresh(bp, "Pawn")
                  [] c = <<0, 1>> -> Fresh(bk, "King")
                  [] c = <<1, 0>> -> Fresh(wp, "Pawn")
                  [] c = <<1, 1>> -> Fresh(wk, "King")]

Travel == [k \in Kinds |-> IF k \in {"Drone", "King"} THEN 3 ELSE 2]
=============================================================================
