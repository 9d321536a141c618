--------------------------- MODULE AdvanceInChunks ---------------------------
(***************************************************************************)
(* advance_time and GameEngine::wait as functions of the whole state, and  *)
(* what splitting one call into two may change.  The machine is            *)
(* RealTimeGame's with a history variable, `entry`, the state in which the *)
(* wait under way was called.                                              *)
(***************************************************************************)
EXTENDS RealTimeGame, Folds

CONSTANT Chunks   \* the elapsed times a wait is split into

ASSUME ChunksAssumption == Chunks \subseteq Nat

VARIABLE entry

Now == [board |-> board, motion |-> motion, before |-> before,
        cooldown |-> cooldown, captured |-> captured, verdict |-> verdict]

\* active_motions_ once this wait is counted.
Later(s, ms) == [p \in {p \in Ids : s.motion[p] # None} |->
                    [s.motion[p] EXCEPT !.elapsed = @ + ms]]

\* PendingArrival, with the rest that will be left of it when the wait is over
\* and the motions that stand before it.
Arrival(s, m, ms) == [motion |-> m, at |-> TimeIntoTick(m, ms), rest |-> RestAfter(m, ms),
                      ahead |-> {q \in Ids : <<q, m.piece.id>> \in s.before}]
Arrivals(s, ms) ==
    LET later == Later(s, ms)
    IN  {Arrival(s, later[p], ms) : p \in {p \in DOMAIN later : Due(later[p])}}

\* stable_sort by the instant of the arrivals puts this one last.
Latest(arrivals) ==
    CHOOSE a \in arrivals : \A b \in arrivals \ {a} :
        b.at < a.at \/ (b.at = a.at /\ b.motion.piece.id \in a.ahead)

\* What the loop over the arrivals carries along, at first ...
Entered(s, ms) ==
    [board |-> s.board, fallen |-> {}, captured |-> s.captured, verdict |-> s.verdict,
     cooldown |-> [p \in Ids |-> Larger(0, s.cooldown[p] - ms)]]

\* ... and after one more arrival, of which the observer is told.
Resolved(a, acc) ==
    LET m == a.motion
        occupant == acc.board[m.destination]
        collision == CollisionKind(m.piece, occupant)
        taken == IF collision = "EnemyCaptured" THEN {occupant} ELSE {}
    IN  IF m.piece.id \in acc.fallen THEN acc
        ELSE [board |-> BoardAfter(acc.board, m),
              fallen |-> acc.fallen \cup {x.id : x \in taken},
              captured |-> acc.captured \cup taken,
              verdict |-> IF taken = {} THEN acc.verdict
                          ELSE VerdictAfter(acc.verdict, m.piece, occupant, a.at),
              cooldown |-> IF collision = "FriendlyBlocked" \/ a.rest = 0 THEN acc.cooldown
                           ELSE [acc.cooldown EXCEPT ![m.piece.id] = a.rest]]

Swept(acc, arrivals) == MapThenFoldSet(Resolved, acc, LAMBDA a : a, Latest, arrivals)

\* advance_time(ms).
Advance(s, ms) ==
    LET end == Swept(Entered(s, ms), Arrivals(s, ms))
        later == Later(s, ms)
        on == {p \in DOMAIN later : ~Due(later[p]) /\ ~(p \in end.fallen /\ ~later[p].jump)}
    IN  [board |-> end.board,
         motion |-> [p \in Ids |-> IF p \in on THEN later[p] ELSE None],
         before |-> s.before \cap (on \X on),
         cooldown |-> [p \in Ids |-> IF p \in end.fallen THEN 0 ELSE end.cooldown[p]],
         captured |-> end.captured,
         verdict |-> end.verdict]

\* GameEngine::wait: nothing moves once a king has been captured.
WaitFor(s, ms) ==
    IF \E x \in s.captured : x.kind = "King" THEN s ELSE Advance(s, ms)

InitChunks == Init /\ entry = None
NextChunks ==
    /\ Next
    /\ entry' = IF tick' = 0 THEN None ELSE IF tick = 0 THEN Now ELSE entry
SpecChunks == InitChunks /\ [][NextChunks]_<<vars, entry>>
-----------------------------------------------------------------------------
\* The steps of one wait, arrival by arrival, come to what the call computes.
StepsMakeOneWait ==
    [][tick > 0 /\ tick' = 0 => Now' = Advance(entry, tick)]_<<vars, entry>>

\* "Advancing by 1300 ms gives exactly the same result as advancing by 1000
\* and then 300" (realtime/README.md): the board, the motions under way, the
\* rests left and the captures do not tell how a stretch of time was split.  The
\* engine stops at the call in which a king falls, so there the board may depend
\* on the split; who won, or that it is a draw, does not.
ChunkingIsInvisible ==
    tick = 0 /\ ~gameOver =>
        \A a, b \in Chunks :
            LET whole == Advance(Now, a + b)
                parts == Advance(Advance(Now, a), b)
                played == WaitFor(Now, a + b).verdict
                split == WaitFor(WaitFor(Now, a), b).verdict
            IN  /\ \A f \in {"board", "motion", "before", "cooldown", "captured"} :
                       whole[f] = parts[f]
                /\ played.winner = split.winner /\ played.draw = split.draw
=============================================================================
