----------------------------- MODULE MatchLife -----------------------------
(***************************************************************************)
(* What a match promises to those who play it, whoever does what when: it  *)
(* waits, runs and freezes until it is finished, a frozen match goes on    *)
(* only if the absent player returns, only that player can lose it by      *)
(* absence, and one result stands, never taken back.                       *)
(***************************************************************************)
CONSTANT None

VARIABLES
    phase,    \* Match::state()
    absent,   \* the player whose grace counts down
    result    \* what the result hook was told

vars == <<phase, absent, result>>

Colors == {"White", "Black"}
Opposite(color) == IF color = "White" THEN "Black" ELSE "White"

Init == phase = "Waiting" /\ absent = None /\ result = None

Begin == phase = "Waiting" /\ phase' = "Running" /\ UNCHANGED <<absent, result>>

Freeze == /\ phase \in {"Waiting", "Running"} /\ phase' = "Frozen"
          /\ UNCHANGED <<absent, result>>

CountDown(color) == /\ phase = "Frozen" /\ absent = None /\ absent' = color
                    /\ UNCHANGED <<phase, result>>

Return == /\ phase = "Frozen" /\ absent # None /\ absent' = None
          /\ phase' \in {"Waiting", "Running"}
          /\ UNCHANGED result

\* A king is taken: not while a player is being counted out.
Capture(outcome) == /\ phase \in {"Running", "Frozen"} /\ absent = None
                    /\ phase' = "Finished" /\ result' = outcome
                    /\ UNCHANGED absent

\* A player gives up, at any time once both are there; the result follows.
Resign == /\ phase \in {"Running", "Frozen"} /\ phase' = "Finished"
          /\ absent' = None
          /\ UNCHANGED result

Report(outcome) == /\ phase = "Finished" /\ result = None /\ result' = outcome
                   /\ UNCHANGED <<phase, absent>>

Forfeit == /\ phase = "Frozen" /\ absent # None /\ phase' = "Finished"
           /\ absent' = None /\ result' = Opposite(absent)

Next == \/ Begin \/ Freeze \/ Return \/ Resign \/ Forfeit
        \/ \E color \in Colors : CountDown(color)
        \/ \E outcome \in Colors \cup {"Draw"} : Capture(outcome) \/ Report(outcome)

Spec == Init /\ [][Next]_vars
=============================================================================
