---------------------------- MODULE Match_proofs ----------------------------
(***************************************************************************)
(* A match keeps to its promised life for any number of connections and    *)
(* accounts, any grace and release delay, and every interleaving of the    *)
(* connection threads with the tick thread.  Seats are neither taken twice *)
(* nor lost by players who are there, nobody faces themselves, and nobody  *)
(* in the room misses an update.                                           *)
(***************************************************************************)
EXTENDS Match, FiniteSetTheorems, TLAPS

-----------------------------------------------------------------------------
\* The inductive invariant.

Ticking == {"idle", "applying", "updating", "deciding", "resigning", "counting",
            "warning", "forfeiting", "releasing"}

CourseTypes ==
    /\ pc \in Ticking /\ gameOver \in BOOLEAN /\ advancing \in BOOLEAN
    /\ watch \in [pending : Colors \cup {None}, watching : Colors \cup {None},
                  left : 0 .. Grace, frozen : BOOLEAN]
    /\ seat \in [Colors -> Conns \cup {None}]
    /\ queue \in Seq(Command) /\ batch \in Seq(Command)
    /\ outcome \in Winners \cup {None} /\ resigned \in Colors \cup {None}
    /\ expired \in Colors \cup {None}
    /\ announced \in Seq(Winners)

\* A resignation waits to be told only in the tick that applied it, and until
\* then nothing has been told unless a king fell in that tick too.
EndingTold ==
    /\ announced # <<>> => gameOver
    /\ gameOver /\ announced = <<>> => resigned # None
    /\ resigned # None =>
           gameOver /\ pc \in {"applying", "updating", "deciding", "resigning"}
    /\ results = (IF announced = <<>> THEN <<>> ELSE <<Head(announced)>>)

\* A grace that has expired is settled in the same tick, before the match ends
\* otherwise and with nobody left to return.
ExpiryPending ==
    /\ expired # None <=> pc = "forfeiting"
    /\ expired # None => ~gameOver /\ watch.watching = None

\* Once tick means to let time pass, only tick could open a countdown.
TimePasses ==
    /\ advancing => pc = "applying"
    /\ advancing \/ pc \in {"updating", "deciding"} => watch.watching = None /\ BothSeatsTaken
    /\ pc = "deciding" => outcome # None

Course ==
    /\ CourseTypes
    /\ FrozenFlagHonest
    /\ EndingTold
    /\ ExpiryPending
    /\ TimePasses
-----------------------------------------------------------------------------
\* Course.

course == <<pc, gameOver, advancing, watch, seat, queue, batch, outcome, resigned, expired,
            announced, results>>

LEMMA CourseUnchanged == Course /\ UNCHANGED course => Course'
BY DEF course, Course, CourseTypes, FrozenFlagHonest, EndingTold, ExpiryPending, TimePasses,
       BothSeatsTaken

\* A match begins on course.
LEMMA CourseInit == Init => Course
<1> SUFFICES ASSUME Init PROVE Course
  OBVIOUS
<1>1. CourseTypes
  <2>1. watch \in [pending : Colors \cup {None}, watching : Colors \cup {None},
                   left : 0 .. Grace, frozen : BOOLEAN]
    BY MatchAssumption DEF Init
  <2>2. seat \in [Colors -> Conns \cup {None}]
    BY DEF Init
  <2>3. /\ pc \in Ticking /\ gameOver \in BOOLEAN /\ advancing \in BOOLEAN
        /\ queue \in Seq(Command) /\ batch \in Seq(Command) /\ announced \in Seq(Winners)
    <3>1. <<>> \in Seq(Command) /\ <<>> \in Seq(Winners)
      OBVIOUS
    <3>2. QED BY <3>1 DEF Init, Ticking
  <2>4. QED
    BY <2>1, <2>2, <2>3 DEF Init, CourseTypes
<1>2. FrozenFlagHonest
  BY DEF Init, FrozenFlagHonest
<1>3. EndingTold /\ ExpiryPending /\ TimePasses
  BY DEF Init, EndingTold, ExpiryPending, TimePasses
<1>4. QED BY <1>1, <1>2, <1>3 DEF Course

\* The steps of a connection's thread.
LEMMA CourseConnection ==
    ASSUME Course, NEW x \in Conns, Connection(x) PROVE Course'
<1> USE MatchAssumption DEF course
<1>1. ASSUME NEW name \in Users, Enter(x, name) PROVE Course'
  BY <1>1, CourseUnchanged DEF Enter, audience, thread, ending
<1>2. CASE Seat(x)
  <2>1. /\ seat' = [seat EXCEPT ![IF seat["White"] = None THEN "White" ELSE "Black"] = x]
        /\ UNCHANGED <<watch, queue, thread, ending>>
    BY <1>2 DEF Seat
  <2>2. seat' \in [Colors -> Conns \cup {None}] /\ (BothSeatsTaken => BothSeatsTaken')
    BY <2>1 DEF Course, CourseTypes, BothSeatsTaken, Colors, Winners
  <2>3. QED
    BY <2>1, <2>2 DEF Course, CourseTypes, FrozenFlagHonest, EndingTold, ExpiryPending,
                      TimePasses, thread, ending
<1>3. CASE Greet(x)
  BY <1>3, CourseUnchanged DEF Greet, audience, thread, ending
<1>4. CASE StartMatch(x)
  BY <1>4, CourseUnchanged DEF StartMatch, audience, thread, ending
<1>5. CASE Peek(x)
  BY <1>5, CourseUnchanged DEF Peek, audience, thread, ending
<1>6. CASE Attach(x)
  BY <1>6, CourseUnchanged DEF Attach, thread, ending
<1>7. CASE View(x)
  BY <1>7, CourseUnchanged DEF View, audience, thread, ending
<1>8. CASE Claim(x)
  <2>1. /\ watch' \in {watch, [watch EXCEPT !.watching = None, !.pending = None, !.frozen = FALSE]}
        /\ UNCHANGED <<seat, queue, thread, ending>>
    BY <1>8 DEF Claim, Cancelled, audience
  <2>2. QED
    BY <2>1 DEF Course, CourseTypes, FrozenFlagHonest, EndingTold, ExpiryPending, TimePasses,
                BothSeatsTaken, thread, ending
<1>9. CASE Reseat(x)
  <2>1. /\ seat' = [c \in Colors |-> IF c \in ColorsOf(x) THEN x ELSE seat[c]]
        /\ UNCHANGED <<watch, queue, thread, ending>>
    BY <1>9 DEF Reseat
  <2>2. seat' \in [Colors -> Conns \cup {None}] /\ (BothSeatsTaken => BothSeatsTaken')
    BY <2>1 DEF Course, CourseTypes, BothSeatsTaken, Colors, Winners
  <2>3. QED
    BY <2>1, <2>2 DEF Course, CourseTypes, FrozenFlagHonest, EndingTold, ExpiryPending,
                      TimePasses, thread, ending
<1>10. CASE Resume(x)
  BY <1>10, CourseUnchanged DEF Resume, audience, thread, ending
<1>11. CASE TellReconnected(x)
  BY <1>11, CourseUnchanged DEF TellReconnected, audience, thread, ending
<1>12. ASSUME NEW resign \in BOOLEAN, Enqueue(x, resign) PROVE Course'
  <2>1. PICK c \in Colors : queue' = Append(queue, [from |-> c, resign |-> resign])
    BY <1>12 DEF Enqueue
  <2>2. queue' \in Seq(Command)
    BY <2>1 DEF Course, CourseTypes, Command
  <2>3. QED
    BY <1>12, <2>2 DEF Enqueue, Course, CourseTypes, FrozenFlagHonest, EndingTold, ExpiryPending,
                       TimePasses, BothSeatsTaken, audience, thread, ending
<1>13. CASE Disconnect(x)
  <2>1. /\ \/ watch' = watch
           \/ \E c \in Colors : watch' = [watch EXCEPT !.pending = c, !.frozen = TRUE]
        /\ UNCHANGED <<seat, queue, thread, ending>>
    BY <1>13 DEF Disconnect, ReportDisconnect
  <2>2. /\ watch' \in [pending : Colors \cup {None}, watching : Colors \cup {None},
                       left : 0 .. Grace, frozen : BOOLEAN]
        /\ watch'.watching = watch.watching
    BY <2>1 DEF Course, CourseTypes
  <2>3. FrozenFlagHonest'
    BY <2>1 DEF Course, CourseTypes, FrozenFlagHonest, Colors, Winners
  <2>4. QED
    BY <2>1, <2>2, <2>3 DEF Course, CourseTypes, EndingTold, ExpiryPending, TimePasses,
                            BothSeatsTaken, thread, ending
<1>14. CASE CountOut(x)
  BY <1>14, CourseUnchanged DEF CountOut, audience, thread, ending
<1>15. QED
  BY <1>1, <1>2, <1>3, <1>4, <1>5, <1>6, <1>7, <1>8, <1>9, <1>10, <1>11, <1>12, <1>13, <1>14
     DEF Connection

\* The result hook hears the first ending announced.
LEMMA AnnounceTells ==
    ASSUME Course, NEW winner \in Winners, Announce(winner)
    PROVE  /\ gameOver' = TRUE
           /\ announced' \in Seq(Winners) /\ announced' # <<>>
           /\ results' = <<Head(announced')>>
           /\ results # <<>> => results' = results
           /\ results = <<>> => results' = <<winner>>
<1>1. announced \in Seq(Winners) /\ announced' = Append(announced, winner)
  BY DEF Announce, Course, CourseTypes
<1>2. /\ announced' \in Seq(Winners) /\ announced' # <<>>
      /\ announced = <<>> => Head(announced') = winner
      /\ announced # <<>> => Head(announced') = Head(announced)
  BY <1>1
<1>3. QED
  BY <1>2 DEF Announce, Course, EndingTold

\* The steps of a tick.
LEMMA CourseTick ==
    ASSUME Course, Tick PROVE Course'
<1> USE MatchAssumption DEF course, thread, ending
<1>1. CASE TickBegins
  <2>1. /\ pc = "idle" /\ pc' = "applying" /\ batch' = queue /\ queue' = <<>>
        /\ advancing' = (State = "Running")
        /\ watch' = [watch EXCEPT !.left = IF @ = 0 THEN 0 ELSE @ - 1]
        /\ UNCHANGED <<seat, outcome, resigned, expired, gameOver, announced, results>>
    BY <1>1 DEF TickBegins, At, audience
  <2>2. /\ watch' \in [pending : Colors \cup {None}, watching : Colors \cup {None},
                       left : 0 .. Grace, frozen : BOOLEAN]
        /\ watch'.watching = watch.watching /\ watch'.pending = watch.pending
        /\ watch'.frozen = watch.frozen
    <3>1. (IF watch.left = 0 THEN 0 ELSE watch.left - 1) \in 0 .. Grace
      BY DEF Course, CourseTypes
    <3>2. QED BY <2>1, <3>1 DEF Course, CourseTypes
  <2>3. advancing' => watch.watching = None /\ BothSeatsTaken
    BY <2>1 DEF State, Course, FrozenFlagHonest
  <2>4. QED
    BY <2>1, <2>2, <2>3 DEF Course, CourseTypes, FrozenFlagHonest, EndingTold, ExpiryPending,
                            TimePasses, BothSeatsTaken, Ticking
<1>2. CASE Apply
  <2>1. /\ pc = "applying" /\ batch # <<>> /\ batch' = Tail(batch)
        /\ UNCHANGED <<seat, queue, watch, pc, advancing, outcome, expired, announced, results>>
    BY <1>2 DEF Apply, audience
  <2>2. batch' \in Seq(Command) /\ Head(batch).from \in Colors
    <3>1. batch \in Seq(Command)
      BY DEF Course, CourseTypes
    <3>2. Head(batch) \in Command /\ Tail(batch) \in Seq(Command)
      BY <2>1, <3>1
    <3>3. QED BY <2>1, <3>2 DEF Command
  <2>3. \/ UNCHANGED <<gameOver, resigned>>
        \/ gameOver' = TRUE /\ resigned' = Opposite(Head(batch).from)
    BY <1>2 DEF Apply
  <2>4. Opposite(Head(batch).from) \in Colors
    BY DEF Opposite, Colors
  <2>5. QED
    <3>1. CASE UNCHANGED <<gameOver, resigned>>
      BY <2>1, <2>2, <3>1
         DEF Course, CourseTypes, FrozenFlagHonest, EndingTold, ExpiryPending, TimePasses,
             BothSeatsTaken
    <3>2. CASE gameOver' = TRUE /\ resigned' = Opposite(Head(batch).from)
      <4>1. resigned' # None /\ resigned' \in Colors
        BY <2>4, <3>2, MatchAssumption DEF Winners
      <4>2. CourseTypes' /\ FrozenFlagHonest'
        BY <2>1, <2>2, <3>2, <4>1 DEF Course, CourseTypes, FrozenFlagHonest
      <4>3. QED
        BY <2>1, <3>2, <4>1, <4>2
           DEF Course, EndingTold, ExpiryPending, TimePasses, BothSeatsTaken
    <3>3. QED BY <2>3, <3>1, <3>2
<1>3. CASE Wait
  <2>1. /\ pc = "applying" /\ advancing' = FALSE
        /\ pc' \in {"resigning", "updating"} /\ outcome' \in Winners \cup {None}
        /\ pc' = "updating" => advancing
        /\ UNCHANGED <<seat, queue, watch, batch, resigned, expired, ending>>
    BY <1>3 DEF Wait, audience, Course, CourseTypes
  <2>2. QED
    BY <2>1 DEF Course, CourseTypes, FrozenFlagHonest, EndingTold, ExpiryPending, TimePasses,
                BothSeatsTaken, Ticking
<1>4. CASE BroadcastUpdate
  BY <1>4 DEF BroadcastUpdate, At, audience, Course, CourseTypes, FrozenFlagHonest, EndingTold,
              ExpiryPending, TimePasses, BothSeatsTaken, Ticking
<1>5. CASE AnnounceCapture
  <2>1. /\ pc = "deciding" /\ pc' = "resigning" /\ Announce(outcome) /\ outcome' = None
        /\ UNCHANGED <<seat, queue, watch, batch, advancing, resigned, expired>>
    BY <1>5 DEF AnnounceCapture, At, audience
  <2>2. outcome \in Winners
    BY <2>1 DEF Course, CourseTypes, TimePasses
  <2>3. QED
    BY <2>1, <2>2, AnnounceTells
       DEF Course, CourseTypes, FrozenFlagHonest, EndingTold, ExpiryPending, TimePasses,
           BothSeatsTaken, Ticking
<1>6. CASE AnnounceResignation
  <2>1. /\ pc = "resigning" /\ pc' = "counting" /\ resigned' = None
        /\ IF resigned # None THEN Announce(resigned)
           ELSE UNCHANGED <<announced, results, gameOver, inbox>>
        /\ UNCHANGED <<seat, queue, watch, batch, advancing, outcome, expired>>
    BY <1>6 DEF AnnounceResignation, At, audience
  <2>2. resigned # None => resigned \in Winners
    BY DEF Course, CourseTypes, Winners
  <2>3. QED
    BY <2>1, <2>2, AnnounceTells
       DEF Course, CourseTypes, FrozenFlagHonest, EndingTold, ExpiryPending, TimePasses,
           BothSeatsTaken, Ticking
<1>7. CASE AdvanceWatch
  <2>1. /\ pc = "counting" /\ resigned = None /\ expired = None /\ ~advancing
        /\ UNCHANGED <<seat, queue, batch, advancing, outcome, resigned, ending>>
    BY <1>7 DEF AdvanceWatch, audience, Course, EndingTold, ExpiryPending, TimePasses
  <2>2. /\ Opened \in [pending : Colors \cup {None}, watching : Colors \cup {None},
                       left : 0 .. Grace, frozen : BOOLEAN]
        /\ Opened.pending = None /\ (Opened.frozen <=> Opened.watching # None)
    <3>1. Grace \in 0 .. Grace
      BY MatchAssumption
    <3>2. CASE watch.pending # None /\ watch.watching = None
      <4>1. Opened = [watch EXCEPT !.watching = watch.pending, !.left = Grace, !.pending = None]
        BY <3>2 DEF Opened
      <4>2. QED BY <3>1, <3>2, <4>1 DEF Course, CourseTypes, FrozenFlagHonest
    <3>3. CASE ~(watch.pending # None /\ watch.watching = None)
      <4>1. Opened = [watch EXCEPT !.pending = None]
        BY <3>3 DEF Opened
      <4>2. QED BY <3>3, <4>1 DEF Course, CourseTypes, FrozenFlagHonest
    <3>4. QED BY <3>2, <3>3
  <2>3. /\ Quiet \in [pending : Colors \cup {None}, watching : Colors \cup {None},
                      left : 0 .. Grace, frozen : BOOLEAN]
        /\ Quiet.pending = None /\ Quiet.watching = None /\ Quiet.frozen = FALSE
    BY DEF Quiet
  <2>4. \/ pc' = "releasing" /\ watch' = Quiet /\ UNCHANGED expired
        \/ pc' \in {"releasing", "warning"} /\ watch' = Opened /\ UNCHANGED expired
        \/ /\ pc' = "forfeiting" /\ watch' = Quiet /\ ~gameOver
           /\ expired' = Opened.watching /\ Opened.watching # None
    BY <1>7 DEF AdvanceWatch
  <2>5. QED
    BY <2>1, <2>2, <2>3, <2>4
       DEF Course, CourseTypes, FrozenFlagHonest, EndingTold, ExpiryPending, TimePasses,
           BothSeatsTaken, Ticking
<1>8. CASE BroadcastCountdown
  BY <1>8 DEF BroadcastCountdown, At, audience, Course, CourseTypes, FrozenFlagHonest,
              EndingTold, ExpiryPending, TimePasses, BothSeatsTaken, Ticking
<1>9. CASE Forfeit
  <2>1. /\ pc = "forfeiting" /\ pc' = "releasing" /\ Announce(Opposite(expired))
        /\ expired' = None
        /\ UNCHANGED <<seat, queue, watch, batch, advancing, outcome, resigned>>
    BY <1>9 DEF Forfeit, At, audience
  <2>2. Opposite(expired) \in Winners
    BY DEF Opposite, Colors, Winners
  <2>3. QED
    BY <2>1, <2>2, AnnounceTells
       DEF Course, CourseTypes, FrozenFlagHonest, EndingTold, ExpiryPending, TimePasses,
           BothSeatsTaken, Ticking
<1>10. CASE ReleaseParticipants
  BY <1>10 DEF ReleaseParticipants, At, audience, Course, CourseTypes, FrozenFlagHonest,
               EndingTold, ExpiryPending, TimePasses, BothSeatsTaken, Ticking
<1>11. QED
  BY <1>1, <1>2, <1>3, <1>4, <1>5, <1>6, <1>7, <1>8, <1>9, <1>10 DEF Tick

\* Every step keeps the course.
LEMMA CourseStep == Course /\ [Next]_vars => Course'
<1> SUFFICES ASSUME Course, [Next]_vars PROVE Course'
  OBVIOUS
<1>1. CASE Next
  BY <1>1, CourseTick, CourseConnection DEF Next
<1>2. CASE UNCHANGED vars
  BY <1>2, CourseUnchanged DEF vars, course, audience, thread, ending
<1>3. QED BY <1>1, <1>2

LEMMA CourseAlways == Spec => []Course
BY CourseInit, CourseStep, PTL DEF Spec

\* DisconnectWatch's flag and its fields never disagree, at any instant at which
\* another thread can read the flag without the mutex.
THEOREM FlagIsHonest == Spec => []FrozenFlagHonest
BY CourseAlways, PTL DEF Course

\* Whatever endings meet, each is told, and the result hook hears the first one.
THEOREM EndingsAreReported == Spec => []DecidedIsReported
<1>1. Course => DecidedIsReported
  BY DEF Course, EndingTold, DecidedIsReported
<1>2. QED BY <1>1, CourseAlways, PTL

\* Whatever was queued and whatever tick had decided before, nothing arrives and
\* nothing sets off while a grace counts down.
THEOREM ClockIsStopped == Spec => CountdownStopsTheClock
<1> DEFINE Stopped == watch.watching # None => UNCHANGED <<revision, engine>>
<1>1. Course /\ [Next]_vars => [Stopped]_vars
  <2> SUFFICES ASSUME Course, Next, watch.watching # None
               PROVE  UNCHANGED <<revision, engine>>
    OBVIOUS
  <2>1. State # "Running" /\ ~advancing
    BY DEF State, Course, FrozenFlagHonest, TimePasses
  <2>2. CASE Apply
    BY <2>1, <2>2 DEF Apply
  <2>3. CASE Wait
    BY <2>1, <2>3 DEF Wait
  <2>4. CASE Tick /\ ~Apply /\ ~Wait
    BY <2>4 DEF Tick, TickBegins, BroadcastUpdate, AnnounceCapture, AnnounceResignation,
                AdvanceWatch, BroadcastCountdown, Forfeit, ReleaseParticipants
  <2>5. ASSUME NEW x \in Conns, Connection(x) PROVE UNCHANGED <<revision, engine>>
    BY <2>5 DEF Connection, Enter, Seat, Greet, StartMatch, Peek, Attach, View, Claim, Reseat,
                Resume, TellReconnected, Enqueue, Disconnect, CountOut
  <2>6. QED BY <2>2, <2>3, <2>4, <2>5 DEF Next
<1>2. QED
  BY <1>1, CourseAlways, PTL DEF Spec, CountdownStopsTheClock
-----------------------------------------------------------------------------
\* The match implements MatchLife.

\* What the life of a match looks at.
outline == <<gameOver, watch.frozen, watch.watching, BothSeatsTaken, expired, results>>

LEMMA Outlined == UNCHANGED outline => UNCHANGED Life!vars
BY DEF outline, Life!vars, State, phase, absent, result

\* The steps of a connection's thread.
LEMMA LifeConnection ==
    ASSUME Course, NEW x \in Conns, Connection(x) PROVE [Life!Next]_Life!vars
<1> USE MatchAssumption DEF outline, phase, absent, result
<1>1. CASE Seat(x)
  <2>1. /\ seat' = [seat EXCEPT ![IF seat["White"] = None THEN "White" ELSE "Black"] = x]
        /\ UNCHANGED <<watch, thread, ending>>
    BY <1>1 DEF Seat
  <2>2. BothSeatsTaken => BothSeatsTaken'
    BY <2>1 DEF Course, CourseTypes, BothSeatsTaken
  <2>3. CASE BothSeatsTaken' = BothSeatsTaken
    BY <2>1, <2>3, Outlined DEF thread, ending
  <2>4. CASE ~BothSeatsTaken /\ BothSeatsTaken' /\ ~gameOver /\ ~watch.frozen /\ expired = None
    <3>1. Life!Begin
      BY <2>1, <2>4 DEF Life!Begin, State, thread, ending
    <3>2. QED BY <3>1 DEF Life!Next
  <2>5. CASE ~BothSeatsTaken /\ BothSeatsTaken' /\ (gameOver \/ watch.frozen \/ expired # None)
    BY <2>1, <2>5 DEF Life!vars, State, thread, ending
  <2>6. QED
    BY <2>2, <2>3, <2>4, <2>5 DEF BothSeatsTaken
<1>2. CASE Reseat(x)
  <2>1. /\ seat' = [c \in Colors |-> IF c \in ColorsOf(x) THEN x ELSE seat[c]]
        /\ UNCHANGED <<watch, thread, ending>>
    BY <1>2 DEF Reseat
  <2>2. BothSeatsTaken' = BothSeatsTaken
    BY <2>1 DEF BothSeatsTaken, ColorsOf
  <2>3. QED BY <2>1, <2>2, Outlined DEF thread, ending
<1>3. CASE Claim(x)
  <2>1. UNCHANGED <<seat, thread, ending>>
    BY <1>3 DEF Claim, audience
  <2>2. CASE UNCHANGED watch
    BY <2>1, <2>2, Outlined DEF BothSeatsTaken, thread, ending
  <2>3. CASE watch' = Cancelled /\ ~gameOver /\ watch.watching \in ColorsOf(x)
    <3>1. watch.watching # None /\ watch.frozen /\ expired = None
      BY <2>3 DEF ColorsOf, Colors, Winners, Course, FrozenFlagHonest, ExpiryPending
    <3>2. watch'.frozen = FALSE /\ watch'.watching = None
      BY <2>3 DEF Cancelled, Course, CourseTypes
    <3>3. Life!Return
      BY <2>1, <2>3, <3>1, <3>2 DEF Life!Return, State, BothSeatsTaken, thread, ending
    <3>4. QED BY <3>3 DEF Life!Next
  <2>4. QED BY <1>3, <2>2, <2>3 DEF Claim
<1>4. CASE Disconnect(x)
  <2>1. UNCHANGED <<seat, thread, ending>>
    BY <1>4 DEF Disconnect
  <2>2. CASE UNCHANGED watch
    BY <2>1, <2>2, Outlined DEF BothSeatsTaken, thread, ending
  <2>3. ASSUME NEW c \in Colors, watch' = ReportDisconnect(c) PROVE [Life!Next]_Life!vars
    <3>1. watch'.frozen = TRUE /\ watch'.watching = watch.watching
      BY <2>3 DEF ReportDisconnect, Course, CourseTypes
    <3>2. CASE gameOver \/ watch.frozen \/ expired # None
      BY <2>1, <3>1, <3>2 DEF Life!vars, State, thread, ending, BothSeatsTaken
    <3>3. CASE ~gameOver /\ ~watch.frozen /\ expired = None
      <4>1. Life!Freeze
        BY <2>1, <3>1, <3>3 DEF Life!Freeze, State, thread, ending, BothSeatsTaken
      <4>2. QED BY <4>1 DEF Life!Next
    <3>4. QED BY <3>2, <3>3 DEF Course, CourseTypes
  <2>4. QED BY <1>4, <2>2, <2>3 DEF Disconnect
<1>5. CASE Connection(x) /\ ~Seat(x) /\ ~Reseat(x) /\ ~Claim(x) /\ ~Disconnect(x)
  <2>1. UNCHANGED <<seat, watch, thread, ending>>
    BY <1>5 DEF Connection, Enter, Greet, StartMatch, Peek, Attach, View, Resume,
                TellReconnected, Enqueue, CountOut, audience
  <2>2. QED BY <2>1, Outlined DEF BothSeatsTaken, thread, ending
<1>6. QED BY <1>1, <1>2, <1>3, <1>4, <1>5

\* The steps of a tick.
LEMMA LifeTick ==
    ASSUME Course, Tick PROVE [Life!Next]_Life!vars
<1> USE MatchAssumption DEF outline, phase, absent, result
<1>1. CASE TickBegins
  <2>1. /\ watch' = [watch EXCEPT !.left = IF @ = 0 THEN 0 ELSE @ - 1]
        /\ UNCHANGED <<seat, expired, gameOver, results>>
    BY <1>1 DEF TickBegins, audience
  <2>2. watch'.frozen = watch.frozen /\ watch'.watching = watch.watching
    BY <2>1 DEF Course, CourseTypes
  <2>3. QED BY <2>1, <2>2, Outlined DEF BothSeatsTaken
<1>2. CASE Apply
  <2>1. UNCHANGED <<seat, watch, expired, results>> /\ pc = "applying"
    BY <1>2 DEF Apply, audience
  <2>2. CASE UNCHANGED gameOver
    BY <2>1, <2>2, Outlined DEF BothSeatsTaken
  <2>3. CASE State \in {"Frozen", "Running"} /\ gameOver' = TRUE
    <3>1. expired = None /\ ~gameOver
      BY <2>1, <2>3 DEF Course, ExpiryPending, State
    <3>2. Life!Resign
      BY <2>1, <2>3, <3>1 DEF Life!Resign, State
    <3>3. QED BY <3>2 DEF Life!Next
  <2>4. QED BY <1>2, <2>2, <2>3 DEF Apply
<1>3. CASE AnnounceCapture
  <2>1. /\ pc = "deciding" /\ Announce(outcome)
        /\ UNCHANGED <<seat, watch, expired>>
    BY <1>3 DEF AnnounceCapture, At, audience
  <2>2. /\ outcome \in Winners /\ outcome # None /\ expired = None
        /\ watch.watching = None /\ BothSeatsTaken
    BY <2>1 DEF Course, CourseTypes, TimePasses, ExpiryPending
  <2>3. CASE gameOver /\ results # <<>>
    BY <2>1, <2>2, <2>3, AnnounceTells, Outlined DEF BothSeatsTaken
  <2>4. CASE gameOver /\ results = <<>>
    <3>1. results' = <<outcome>> /\ gameOver' = TRUE
      BY <2>1, <2>2, <2>4, AnnounceTells
    <3>2. Life!Report(outcome)
      BY <2>1, <2>2, <2>4, <3>1 DEF Life!Report, State
    <3>3. QED BY <2>2, <3>2 DEF Life!Next, Life!Colors, Winners, Colors
  <2>5. CASE ~gameOver
    <3>1. results' = <<outcome>> /\ gameOver' = TRUE
      BY <2>1, <2>2, <2>5, AnnounceTells DEF Course, EndingTold
    <3>2. Life!Capture(outcome)
      BY <2>1, <2>2, <2>5, <3>1 DEF Life!Capture, State
    <3>3. QED BY <2>2, <3>2 DEF Life!Next, Life!Colors, Winners, Colors
  <2>6. QED BY <2>3, <2>4, <2>5
<1>4. CASE AnnounceResignation
  <2>1. /\ pc = "resigning"
        /\ IF resigned # None THEN Announce(resigned) ELSE UNCHANGED <<results, gameOver>>
        /\ UNCHANGED <<seat, watch, expired>>
    BY <1>4 DEF AnnounceResignation, At, audience
  <2>2. CASE resigned = None
    BY <2>1, <2>2, Outlined DEF BothSeatsTaken
  <2>3. CASE resigned # None
    <3>1. Announce(resigned) /\ resigned \in Winners /\ gameOver /\ expired = None
      BY <2>1, <2>3 DEF Course, CourseTypes, EndingTold, ExpiryPending, Winners
    <3>2. CASE results # <<>>
      BY <2>1, <3>1, <3>2, AnnounceTells, Outlined DEF BothSeatsTaken
    <3>3. CASE results = <<>>
      <4>1. results' = <<resigned>> /\ gameOver' = TRUE
        BY <3>1, <3>3, AnnounceTells
      <4>2. Life!Report(resigned)
        BY <2>1, <2>3, <3>1, <3>3, <4>1 DEF Life!Report, State
      <4>3. QED BY <3>1, <4>2 DEF Life!Next, Life!Colors, Winners, Colors
    <3>4. QED BY <3>2, <3>3
  <2>4. QED BY <2>2, <2>3
<1>5. CASE AdvanceWatch
  <2>1. pc = "counting" /\ expired = None /\ UNCHANGED <<seat, gameOver, results>>
    BY <1>5 DEF AdvanceWatch, audience, ending, Course, ExpiryPending
  <2>2. /\ Opened.frozen = watch.frozen
        /\ watch.watching # None => Opened.watching = watch.watching
        /\ Opened.watching \in Colors \cup {None}
        /\ Opened.watching # None => watch.frozen
    BY DEF Opened, Course, CourseTypes, FrozenFlagHonest
  <2>3. CASE gameOver
    BY <1>5, <2>1, <2>3 DEF AdvanceWatch, Life!vars, State
  <2>4. CASE ~gameOver /\ Opened.watching = None
    BY <1>5, <2>1, <2>2, <2>4, Outlined DEF AdvanceWatch, BothSeatsTaken
  <2>5. CASE ~gameOver /\ Opened.watching # None
    <3>1. /\ phase = "Frozen" /\ phase' = "Frozen" /\ absent = watch.watching
          /\ absent' = Opened.watching /\ UNCHANGED result
      BY <1>5, <2>1, <2>2, <2>5 DEF AdvanceWatch, Quiet, State
    <3>2. CASE watch.watching = None
      <4>1. Life!CountDown(Opened.watching)
        BY <3>1, <3>2 DEF Life!CountDown
      <4>2. QED BY <2>2, <2>5, <4>1 DEF Life!Next, Life!Colors, Colors
    <3>3. CASE watch.watching # None
      BY <2>2, <3>1, <3>3 DEF Life!vars
    <3>4. QED BY <3>2, <3>3
  <2>6. QED BY <2>3, <2>4, <2>5
<1>6. CASE Forfeit
  <2>1. /\ pc = "forfeiting" /\ Announce(Opposite(expired)) /\ expired' = None
        /\ expired # None /\ ~gameOver /\ results = <<>>
    BY <1>6 DEF Forfeit, At, Course, ExpiryPending, EndingTold
  <2>2. Opposite(expired) \in Winners /\ Opposite(expired) # None
    BY DEF Opposite, Colors, Winners
  <2>3. gameOver' = TRUE /\ results' = <<Opposite(expired)>>
    BY <2>1, <2>2, AnnounceTells
  <2>4. Life!Forfeit
    BY <2>1, <2>2, <2>3 DEF Life!Forfeit, Life!Opposite, Opposite, State
  <2>5. QED BY <2>4 DEF Life!Next
<1>7. CASE Wait \/ BroadcastUpdate \/ BroadcastCountdown \/ ReleaseParticipants
  <2>1. UNCHANGED <<seat, watch, expired, gameOver, results>>
    BY <1>7 DEF Wait, BroadcastUpdate, BroadcastCountdown, ReleaseParticipants, audience, ending
  <2>2. QED BY <2>1, Outlined DEF BothSeatsTaken
<1>8. QED BY <1>1, <1>2, <1>3, <1>4, <1>5, <1>6, <1>7 DEF Tick

\* Every interleaving of the threads is a life MatchLife allows: a frozen match
\* goes on only when the absent player is back, is lost by absence only by that
\* player, and the result hook's first word is the last.
THEOREM MatchKeepsItsPromise == Spec => ImplementsMatchLife
<1>1. Init => Life!Init
  BY MatchAssumption
     DEF Init, Life!Init, State, BothSeatsTaken, Colors, phase, absent, result
<1>2. Course /\ [Next]_vars => [Life!Next]_Life!vars
  <2> SUFFICES ASSUME Course, [Next]_vars PROVE [Life!Next]_Life!vars
    OBVIOUS
  <2>1. CASE Next
    BY <2>1, LifeTick, LifeConnection DEF Next
  <2>2. CASE UNCHANGED vars
    BY <2>2, Outlined DEF vars, outline, BothSeatsTaken, audience, thread, ending
  <2>3. QED BY <2>1, <2>2
<1>3. QED
  BY <1>1, <1>2, CourseAlways, PTL DEF Spec, ImplementsMatchLife, Life!Spec
-----------------------------------------------------------------------------
\* Who is absent, and where the seats went.

Gone == {"leaving", "left"}

\* The colours whose player a drop, a countdown or its expiry is about.
Absent == {watch.pending, watch.watching, expired} \ {None}

\* An account has one connection that has not ended (client_session.cpp:124).
OneLivePerAccount ==
    \A x, y \in Conns :
        x # y /\ user[x] = user[y] /\ user[x] # None
            => stage[x] = "left" \/ stage[y] = "left"

\* A seat reserved by join_room is free until its player takes it.
SeatsReserved ==
    /\ seat["White"] = None => seat["Black"] = None
    /\ room.seatsTaken < 2 => seat["Black"] = None
    /\ room.seatsTaken < 1 => seat["White"] = None /\ \A x \in Conns : stage[x] # "seating"
    /\ \A x \in Conns : stage[x] = "seating" =>
           /\ seat["Black"] = None
           /\ seat["White"] # None => room.seatsTaken >= 2
           /\ \A y \in Conns : stage[y] = "seating" /\ y # x =>
                  /\ seat["White"] = None /\ room.seatsTaken >= 2
                  /\ \A z \in Conns : stage[z] = "seating" => z \in {x, y}

\* Whoever is absent has a seat and no connection; whoever is coming back is not
\* absent any more.
AbsentAreGone ==
    /\ \A c \in Absent : seat[c] # None /\ stage[seat[c]] \in Gone
    /\ \A x \in Conns : stage[x] = "returning" => ColorsOf(x) \cap Absent = {}

RoomRecord == [live : BOOLEAN, seatsTaken : 0 .. 2, connected : Int]

Seating ==
    /\ stage \in [Conns -> Stages] /\ user \in [Conns -> Users \cup {None}]
    /\ room \in RoomRecord
    /\ \A x \in Conns : user[x] = None <=> stage[x] = "away"
    /\ \A c \in Colors : seat[c] # None => stage[seat[c]] \notin {"away", "seating"}
    /\ OneLivePerAccount
    /\ SeatsReserved
    /\ AbsentAreGone
-----------------------------------------------------------------------------
\* The variables Seating depends on.
seating == <<stage, user, room, seat, watch, expired>>

LEMMA SeatingUnchanged == Seating /\ UNCHANGED seating => Seating'
BY DEF seating, Seating, OneLivePerAccount, SeatsReserved, AbsentAreGone, Absent, ColorsOf

LEMMA SeatingInit == Init => Seating
BY MatchAssumption
   DEF Init, Seating, OneLivePerAccount, SeatsReserved, AbsentAreGone, Absent, Stages, Colors, RoomRecord

\* A thread that goes on within its room, neither seated by the step nor let back.
LEMMA SeatingStage ==
    ASSUME Course, Seating, NEW x \in Conns, NEW from \in Stages \ {"away", "left"},
           NEW to \in Stages \ {"away", "seating", "returning"},
           to \in Gone \/ from \notin Gone, Step(x, from, to),
           UNCHANGED <<user, seat, watch, expired>>,
           room' \in RoomRecord,
           room'.seatsTaken = room.seatsTaken
    PROVE  Seating'
<1>1. stage' \in [Conns -> Stages] /\ stage[x] = from /\ stage'[x] = to
      /\ \A y \in Conns : y # x => stage'[y] = stage[y]
  BY DEF Seating, Step
<1>2. OneLivePerAccount'
  BY <1>1 DEF Seating, OneLivePerAccount
<1>3. SeatsReserved'
  BY <1>1 DEF Seating, SeatsReserved
<1>4. \A c \in Colors : seat[c] # None => seat[c] \in Conns
  BY DEF Course, CourseTypes
<1>5. AbsentAreGone'
  <2>1. Absent' = Absent /\ \A y \in Conns : ColorsOf(y)' = ColorsOf(y)
    BY DEF Absent, ColorsOf
  <2>2. Absent \subseteq Colors
    BY DEF Absent, Course, CourseTypes
  <2>3. ASSUME NEW c \in Absent PROVE seat[c] # None /\ stage'[seat[c]] \in Gone
    BY <1>1, <1>4, <2>2, <2>3 DEF Seating, AbsentAreGone
  <2>4. QED
    BY <1>1, <2>1, <2>3 DEF Seating, AbsentAreGone, Gone
<1>6. \A y \in Conns : user[y] = None <=> stage'[y] = "away"
  BY <1>1 DEF Seating
<1>7. \A c \in Colors : seat[c] # None => stage'[seat[c]] \notin {"away", "seating"}
  BY <1>1, <1>4 DEF Seating
<1>8. QED
  BY <1>1, <1>2, <1>3, <1>5, <1>6, <1>7 DEF Seating

\* A step after which nobody else is absent.
LEMMA SeatingFewerAbsent ==
    ASSUME Seating, UNCHANGED <<stage, user, room, seat>>, Absent' \subseteq Absent
    PROVE  Seating'
<1>1. OneLivePerAccount' /\ SeatsReserved'
  BY DEF Seating, OneLivePerAccount, SeatsReserved
<1>2. AbsentAreGone'
  BY DEF Seating, AbsentAreGone, ColorsOf
<1>3. QED BY <1>1, <1>2 DEF Seating

\* join_room: a connection of an account that has no other enters the room.
LEMMA SeatingEnter ==
    ASSUME Course, Seating, NEW x \in Conns, NEW name \in Users, Enter(x, name)
    PROVE  Seating'
<1> USE MatchAssumption
<1>1. /\ stage[x] = "away" /\ user' = [user EXCEPT ![x] = name] /\ name # None
      /\ \A y \in Conns : user[y] = name => stage[y] = "left"
      /\ UNCHANGED <<seat, watch, expired>>
  BY DEF Enter, MayEnter, audience, thread
<1>2. PICK to \in {"left", "claiming", "peeking", "seating"} :
        /\ stage' = [stage EXCEPT ![x] = to]
        /\ room' \in RoomRecord
        /\ to # "seating" => room'.seatsTaken = room.seatsTaken
        /\ to = "seating" => room.seatsTaken < 2 /\ room'.seatsTaken = room.seatsTaken + 1
  <2> DEFINE Taking(k) == [live |-> room.live, seatsTaken |-> room.seatsTaken + k,
                           connected |-> room.connected + 1]
  <2>1. /\ room \in RoomRecord /\ room.live \in BOOLEAN /\ room.connected + 1 \in Int
        /\ room.seatsTaken \in 0 .. 2 /\ room.seatsTaken + 0 = room.seatsTaken
        /\ room.seatsTaken < 2 => room.seatsTaken + 1 \in 0 .. 2
    BY DEF Seating, RoomRecord
  <2>2. \A k \in {0, 1} :
            [room EXCEPT !.seatsTaken = @ + k, !.connected = @ + 1] = Taking(k)
    <3> SUFFICES ASSUME NEW k \in {0, 1}, NEW s,
                        s = [room EXCEPT !.seatsTaken = @ + k, !.connected = @ + 1]
                 PROVE  s = Taking(k)
      OBVIOUS
    <3>1. QED BY <2>1 DEF RoomRecord
  <2>3. CASE stage' = [stage EXCEPT ![x] = "left"] /\ UNCHANGED room
    BY <2>1, <2>3
  <2>4. ASSUME NEW to \in {"claiming", "peeking"}, stage' = [stage EXCEPT ![x] = to],
               room' = [room EXCEPT !.seatsTaken = @ + 0, !.connected = @ + 1]
        PROVE  room' \in RoomRecord /\ room'.seatsTaken = room.seatsTaken
    <3>1. room' = Taking(0)
      BY <2>2, <2>4
    <3>2. QED BY <2>1, <3>1 DEF RoomRecord
  <2>5. ASSUME stage' = [stage EXCEPT ![x] = "seating"], room.seatsTaken < 2,
               room' = [room EXCEPT !.seatsTaken = @ + 1, !.connected = @ + 1]
        PROVE  room' \in RoomRecord /\ room'.seatsTaken = room.seatsTaken + 1
    <3>1. room' = Taking(1)
      BY <2>2, <2>5
    <3>2. QED BY <2>1, <2>5, <3>1 DEF RoomRecord
  <2>6. \/ stage' = [stage EXCEPT ![x] = "left"] /\ UNCHANGED room
        \/ /\ \E to \in {"claiming", "peeking"} : stage' = [stage EXCEPT ![x] = to]
           /\ room' = [room EXCEPT !.seatsTaken = @ + 0, !.connected = @ + 1]
        \/ /\ stage' = [stage EXCEPT ![x] = "seating"] /\ room.seatsTaken < 2
           /\ room' = [room EXCEPT !.seatsTaken = @ + 1, !.connected = @ + 1]
    BY <2>1 DEF Enter
  <2>7. QED BY <2>3, <2>4, <2>5, <2>6
<1>3. /\ stage' \in [Conns -> Stages] /\ stage'[x] = to
      /\ user' \in [Conns -> Users \cup {None}] /\ user'[x] = name
      /\ \A y \in Conns : y # x => stage'[y] = stage[y] /\ user'[y] = user[y]
  BY <1>1, <1>2 DEF Seating, Stages
<1>4. \A c \in Colors : seat[c] # None => seat[c] \in Conns /\ seat[c] # x
  BY <1>1 DEF Seating, Course, CourseTypes
<1>5. OneLivePerAccount'
  BY <1>1, <1>3 DEF Seating, OneLivePerAccount
<1>6. SeatsReserved'
  <2>1. CASE to # "seating"
    BY <1>1, <1>2, <1>3, <2>1 DEF Seating, SeatsReserved
  <2>2. CASE to = "seating" /\ room.seatsTaken = 0
    BY <1>1, <1>2, <1>3, <2>2 DEF Seating, SeatsReserved
  <2>3. CASE to = "seating" /\ room.seatsTaken = 1
    BY <1>1, <1>2, <1>3, <2>3 DEF Seating, SeatsReserved
  <2>4. QED BY <1>2, <2>1, <2>2, <2>3 DEF Seating, RoomRecord
<1>7. AbsentAreGone'
  <2>1. Absent' = Absent /\ Absent \subseteq Colors
    BY <1>1 DEF Absent, Course, CourseTypes
  <2>2. \A y \in Conns : y # x => ColorsOf(y)' = ColorsOf(y)
    BY <1>1, <1>3, <1>4 DEF ColorsOf
  <2>3. QED BY <1>1, <1>2, <1>3, <1>4, <2>1, <2>2 DEF Seating, AbsentAreGone
<1>8. \A y \in Conns : user'[y] = None <=> stage'[y] = "away"
  BY <1>1, <1>2, <1>3 DEF Seating
<1>9. \A c \in Colors : seat'[c] # None => stage'[seat'[c]] \notin {"away", "seating"}
  BY <1>1, <1>3, <1>4 DEF Seating
<1>10. QED
  BY <1>2, <1>3, <1>5, <1>6, <1>7, <1>8, <1>9 DEF Seating

\* Match::join takes a seat that is free.
LEMMA SeatingSeat ==
    ASSUME Course, Seating, NEW x \in Conns, Seat(x) PROVE Seating'
<1> USE MatchAssumption
<1> DEFINE target == IF seat["White"] = None THEN "White" ELSE "Black"
<1>1. /\ stage[x] = "seating" /\ stage' = [stage EXCEPT ![x] = "greeting"]
      /\ seat' = [seat EXCEPT ![target] = x]
      /\ UNCHANGED <<user, room, watch, expired>>
  BY DEF Seat, Step, thread
<1>2. /\ stage' \in [Conns -> Stages] /\ stage'[x] = "greeting"
      /\ \A y \in Conns : y # x => stage'[y] = stage[y]
  BY <1>1 DEF Seating, Stages
<1>3. /\ target \in Colors /\ seat[target] = None /\ seat'[target] = x
      /\ \A c \in Colors : c # target => seat'[c] = seat[c]
      /\ \A c \in Colors : seat[c] # None => seat[c] \in Conns /\ seat[c] # x
  <2>1. target \in Colors /\ seat[target] = None
    BY <1>1 DEF Seating, SeatsReserved, Colors
  <2>2. \A c \in Colors : seat[c] # None => seat[c] \in Conns
    BY DEF Course, CourseTypes
  <2>3. seat'[target] = x /\ \A c \in Colors : c # target => seat'[c] = seat[c]
    BY <1>1, <2>1 DEF Course, CourseTypes
  <2>4. \A c \in Colors : seat[c] # x
    BY <1>1 DEF Seating
  <2>5. QED BY <2>1, <2>2, <2>3, <2>4
<1>4. OneLivePerAccount'
  BY <1>1, <1>2 DEF Seating, OneLivePerAccount
<1>5. SeatsReserved'
  <2>1. /\ seat["White"] # None => room.seatsTaken >= 2
        /\ seat["Black"] = None /\ ~(room.seatsTaken < 1)
        /\ \A y \in Conns : stage[y] = "seating" /\ y # x =>
               seat["White"] = None /\ room.seatsTaken >= 2
        /\ \A y, z \in Conns : stage[y] = "seating" /\ y # x /\ stage[z] = "seating"
               => z \in {x, y}
    BY <1>1 DEF Seating, SeatsReserved
  <2>2. room.seatsTaken \in 0 .. 2 /\ x # None
    BY DEF Seating, RoomRecord
  <2>3. CASE seat["White"] = None
    <3>1. seat'["White"] = x /\ seat'["Black"] = None
      BY <1>3, <2>1, <2>3 DEF Colors
    <3>2. QED BY <1>1, <1>2, <2>1, <2>2, <3>1 DEF SeatsReserved
  <2>4. CASE seat["White"] # None
    <3>1. seat'["White"] # None /\ room.seatsTaken >= 2
      BY <1>3, <2>1, <2>4 DEF Colors
    <3>2. \A y \in Conns : stage'[y] # "seating"
      BY <1>2, <2>1, <2>4
    <3>3. QED BY <1>1, <2>2, <3>1, <3>2 DEF SeatsReserved
  <2>5. QED BY <2>3, <2>4
<1>6. AbsentAreGone'
  <2>1. Absent' = Absent /\ Absent \subseteq Colors
    BY <1>1 DEF Absent, Course, CourseTypes
  <2>2. ASSUME NEW c \in Absent PROVE seat'[c] # None /\ stage'[seat'[c]] \in Gone
    BY <1>1, <1>2, <1>3, <2>1, <2>2 DEF Seating, AbsentAreGone
  <2>3. ASSUME NEW y \in Conns, stage'[y] = "returning" PROVE ColorsOf(y)' \cap Absent = {}
    BY <1>1, <1>2, <1>3, <2>1, <2>3 DEF Seating, AbsentAreGone, ColorsOf
  <2>4. QED BY <2>1, <2>2, <2>3 DEF AbsentAreGone
<1>7. \A y \in Conns : user'[y] = None <=> stage'[y] = "away"
  BY <1>1, <1>2 DEF Seating
<1>8. \A c \in Colors : seat'[c] # None => stage'[seat'[c]] \notin {"away", "seating"}
  BY <1>2, <1>3 DEF Seating
<1>9. QED
  BY <1>1, <1>2, <1>4, <1>5, <1>6, <1>7, <1>8 DEF Seating

\* DisconnectWatch::cancel: nobody is absent once a claim is granted.
LEMMA SeatingClaim ==
    ASSUME Course, Seating, NEW x \in Conns, Claim(x) PROVE Seating'
<1> USE MatchAssumption
<1>1. UNCHANGED <<user, seat, expired>>
  BY DEF Claim, audience, thread
<1>2. CASE Step(x, "claiming", "left") /\ UNCHANGED watch /\ room' = [room EXCEPT !.connected = @ - 1]
  <2>1. room \in RoomRecord /\ room.connected - 1 \in Int
    BY DEF Seating, RoomRecord
  <2>2. room' \in RoomRecord /\ room'.seatsTaken = room.seatsTaken
    BY <1>2, <2>1 DEF RoomRecord
  <2>3. QED BY <1>1, <1>2, <2>2, SeatingStage DEF Stages, Gone
<1>3. CASE /\ Step(x, "claiming", "returning") /\ watch' = Cancelled /\ UNCHANGED room
           /\ watch.watching \in ColorsOf(x)
  <2>1. Absent' = {}
    <3>1. watch'.pending = None /\ watch'.watching = None
      BY <1>3 DEF Cancelled, Course, CourseTypes
    <3>2. expired = None
      BY <1>3 DEF ColorsOf, Colors, Winners, Course, ExpiryPending
    <3>3. QED BY <1>1, <3>1, <3>2 DEF Absent
  <2>2. /\ stage' \in [Conns -> Stages] /\ stage[x] = "claiming" /\ stage'[x] = "returning"
        /\ \A y \in Conns : y # x => stage'[y] = stage[y]
    BY <1>3 DEF Step, Seating, Stages
  <2>3. OneLivePerAccount'
    BY <1>1, <2>2 DEF Seating, OneLivePerAccount
  <2>4. SeatsReserved'
    BY <1>1, <1>3, <2>2 DEF Seating, SeatsReserved
  <2>5. \A c \in Colors : seat[c] # None => seat[c] \in Conns
    BY DEF Course, CourseTypes
  <2>6. AbsentAreGone'
    BY <2>1 DEF AbsentAreGone
  <2>7. QED BY <1>1, <1>3, <2>2, <2>3, <2>4, <2>5, <2>6 DEF Seating
<1>4. QED BY <1>2, <1>3 DEF Claim

\* MatchAudience::reseat: the account's seats go to its new connection.
LEMMA SeatingReseat ==
    ASSUME Course, Seating, NEW x \in Conns, Reseat(x) PROVE Seating'
<1> USE MatchAssumption
<1>1. /\ stage[x] = "returning" /\ stage' = [stage EXCEPT ![x] = "resuming"]
      /\ seat' = [c \in Colors |-> IF c \in ColorsOf(x) THEN x ELSE seat[c]]
      /\ UNCHANGED <<user, room, watch, expired>>
  BY DEF Reseat, Step, thread
<1>2. /\ stage' \in [Conns -> Stages] /\ stage'[x] = "resuming"
      /\ \A y \in Conns : y # x => stage'[y] = stage[y]
  BY <1>1 DEF Seating, Stages
<1>3. \A c \in Colors : /\ seat[c] # None => seat[c] \in Conns /\ user[seat[c]] # None
                        /\ seat'[c] = None <=> seat[c] = None
                        /\ seat[c] # None => user[seat'[c]] = user[seat[c]]
  BY <1>1 DEF Seating, Course, CourseTypes, ColorsOf
<1>4. OneLivePerAccount'
  BY <1>1, <1>2 DEF Seating, OneLivePerAccount
<1>5. SeatsReserved'
  <2>1. (seat'["White"] = None <=> seat["White"] = None) /\ (seat'["Black"] = None <=> seat["Black"] = None)
    BY <1>3 DEF Colors
  <2>2. \A y \in Conns : stage'[y] = "seating" <=> stage[y] = "seating"
    BY <1>1, <1>2
  <2>3. QED BY <1>1, <2>1, <2>2 DEF Seating, SeatsReserved
<1>6. AbsentAreGone'
  <2>1. Absent' = Absent /\ Absent \subseteq Colors /\ ColorsOf(x) \cap Absent = {}
    BY <1>1 DEF Absent, Course, CourseTypes, Seating, AbsentAreGone
  <2>2. ASSUME NEW c \in Absent PROVE seat'[c] # None /\ stage'[seat'[c]] \in Gone
    <3>1. seat'[c] = seat[c] /\ seat[c] # None /\ stage[seat[c]] \in Gone
      BY <1>1, <2>1, <2>2 DEF Seating, AbsentAreGone
    <3>2. seat[c] \in Conns /\ seat[c] # x
      BY <1>1, <1>3, <2>1, <3>1 DEF Gone
    <3>3. QED BY <1>2, <3>1, <3>2
  <2>3. \A y \in Conns : ColorsOf(y)' = ColorsOf(y)
    BY <1>1, <1>3 DEF ColorsOf
  <2>4. \A y \in Conns : stage'[y] = "returning" => stage[y] = "returning"
    BY <1>1, <1>2
  <2>5. QED BY <2>1, <2>2, <2>3, <2>4 DEF Seating, AbsentAreGone
<1>7. \A y \in Conns : user'[y] = None <=> stage'[y] = "away"
  BY <1>1, <1>2 DEF Seating
<1>8. \A c \in Colors : seat'[c] # None => stage'[seat'[c]] \notin {"away", "seating"}
  <2>1. \A c \in Colors : seat[c] # None =>
            seat[c] \in Conns /\ stage'[seat[c]] \notin {"away", "seating"}
    BY <1>1, <1>2, <1>3 DEF Seating
  <2>2. QED BY <1>1, <1>2, <2>1
<1>9. QED
  BY <1>1, <1>2, <1>4, <1>5, <1>6, <1>7, <1>8 DEF Seating

\* A drop is reported by the connection that holds the seat, on its way out.
LEMMA SeatingDisconnect ==
    ASSUME Course, Seating, NEW x \in Conns, Disconnect(x) PROVE Seating'
<1> USE MatchAssumption
<1>1. /\ stage[x] = "in" /\ stage' = [stage EXCEPT ![x] = "leaving"]
      /\ UNCHANGED <<user, room, seat, expired>>
  BY DEF Disconnect, Step, thread
<1>2. /\ stage' \in [Conns -> Stages] /\ stage'[x] = "leaving"
      /\ \A y \in Conns : y # x => stage'[y] = stage[y]
  BY <1>1 DEF Seating, Stages
<1>3. CASE UNCHANGED watch
  BY <1>1, <1>3, SeatingStage DEF Disconnect, Stages, Gone, Seating
<1>4. ASSUME NEW c \in Colors, seat[c] = x, watch' = ReportDisconnect(c) PROVE Seating'
  <2>1. Absent' \subseteq Absent \cup {c} /\ Absent \subseteq Colors
    BY <1>1, <1>4 DEF Absent, ReportDisconnect, Course, CourseTypes
  <2>2. OneLivePerAccount' /\ SeatsReserved'
    BY <1>1, <1>2 DEF Seating, OneLivePerAccount, SeatsReserved
  <2>3. \A d \in Colors : seat[d] # None => seat[d] \in Conns
    BY DEF Course, CourseTypes
  <2>4. ASSUME NEW d \in Absent' PROVE seat[d] # None /\ stage'[seat[d]] \in Gone
    <3>1. CASE d = c
      BY <1>2, <1>4, <3>1 DEF Gone
    <3>2. CASE d \in Absent
      BY <1>1, <1>2, <2>1, <2>3, <3>2 DEF Seating, AbsentAreGone, Gone
    <3>3. QED BY <2>1, <2>4, <3>1, <3>2
  <2>5. ASSUME NEW y \in Conns, stage'[y] = "returning" PROVE ColorsOf(y) \cap Absent' = {}
    <3>1. y # x /\ stage[y] = "returning" /\ user[x] # None
      BY <1>1, <1>2, <2>5 DEF Seating
    <3>2. user[x] # user[y]
      BY <1>1, <3>1 DEF Seating, OneLivePerAccount
    <3>3. c \notin ColorsOf(y)
      BY <1>4, <3>2 DEF ColorsOf
    <3>4. ColorsOf(y) \cap Absent = {}
      BY <3>1 DEF Seating, AbsentAreGone
    <3>5. QED BY <2>1, <3>3, <3>4
  <2>6. \A y \in Conns : ColorsOf(y)' = ColorsOf(y)
    BY <1>1 DEF ColorsOf
  <2>7. AbsentAreGone'
    BY <1>1, <2>4, <2>5, <2>6 DEF AbsentAreGone
  <2>8. \A d \in Colors : seat[d] # None => stage'[seat[d]] \notin {"away", "seating"}
    BY <1>2, <2>3 DEF Seating
  <2>9. \A y \in Conns : user[y] = None <=> stage'[y] = "away"
    BY <1>1, <1>2 DEF Seating
  <2>10. QED BY <1>1, <1>2, <2>2, <2>7, <2>8, <2>9 DEF Seating
<1>5. QED BY <1>3, <1>4 DEF Disconnect

\* The steps of a connection's thread.
LEMMA SeatingConnection ==
    ASSUME Course, Seating, NEW x \in Conns, Connection(x) PROVE Seating'
<1> USE DEF Stages, Gone
<1>0. room \in RoomRecord /\ room.connected - 1 \in Int
  BY DEF Seating, RoomRecord
<1>1. ASSUME NEW name \in Users, Enter(x, name) PROVE Seating'
  BY <1>1, SeatingEnter
<1>2. CASE Seat(x)
  BY <1>2, SeatingSeat
<1>3. CASE Greet(x)
  <2>1. /\ \E to \in {"starting", "in"} : Step(x, "greeting", to)
        /\ UNCHANGED <<user, room, seat, watch, expired>>
    BY <1>3 DEF Greet, audience, thread
  <2>2. QED BY <1>0, <2>1, SeatingStage
<1>4. CASE StartMatch(x)
  BY <1>0, <1>4, SeatingStage DEF StartMatch, audience, thread
<1>5. CASE Peek(x)
  BY <1>0, <1>5, SeatingStage DEF Peek, audience, thread
<1>6. CASE Attach(x)
  <2>1. /\ \E to \in {"left", "viewing"} : Step(x, "attaching", to)
        /\ room' \in {room, [room EXCEPT !.connected = @ - 1]}
        /\ UNCHANGED <<user, seat, watch, expired>>
    BY <1>6 DEF Attach, thread
  <2>2. room' \in RoomRecord /\ room'.seatsTaken = room.seatsTaken
    BY <1>0, <2>1 DEF RoomRecord
  <2>3. QED BY <2>1, <2>2, SeatingStage
<1>7. CASE View(x)
  BY <1>0, <1>7, SeatingStage DEF View, audience, thread
<1>8. CASE Claim(x)
  BY <1>8, SeatingClaim
<1>9. CASE Reseat(x)
  BY <1>9, SeatingReseat
<1>10. CASE Resume(x)
  BY <1>0, <1>10, SeatingStage DEF Resume, audience, thread
<1>11. CASE TellReconnected(x)
  BY <1>0, <1>11, SeatingStage DEF TellReconnected, audience, thread
<1>12. ASSUME NEW resign \in BOOLEAN, Enqueue(x, resign) PROVE Seating'
  BY <1>12, SeatingUnchanged DEF Enqueue, seating, audience, thread
<1>13. CASE Disconnect(x)
  BY <1>13, SeatingDisconnect
<1>14. CASE CountOut(x)
  <2>1. /\ Step(x, "leaving", "left") /\ UNCHANGED <<user, seat, watch, expired>>
        /\ room' = [room EXCEPT !.connected = @ - 1, !.live = room.connected > 1]
    BY <1>14 DEF CountOut, audience, thread
  <2>2. /\ room' = [live |-> room.connected > 1, seatsTaken |-> room.seatsTaken,
                    connected |-> room.connected - 1]
        /\ room.seatsTaken \in 0 .. 2
    BY <1>0, <2>1 DEF RoomRecord
  <2>3. room' \in RoomRecord /\ room'.seatsTaken = room.seatsTaken
    BY <1>0, <2>2 DEF RoomRecord
  <2>4. QED BY <2>1, <2>3, SeatingStage
<1>15. QED
  BY <1>1, <1>2, <1>3, <1>4, <1>5, <1>6, <1>7, <1>8, <1>9, <1>10, <1>11, <1>12, <1>13, <1>14
     DEF Connection

\* A tick makes nobody absent whose drop was not reported.
LEMMA SeatingTick ==
    ASSUME Course, Seating, Tick PROVE Seating'
<1>1. UNCHANGED <<stage, user, room, seat>>
  BY DEF Tick, TickBegins, Apply, Wait, BroadcastUpdate, AnnounceCapture, AnnounceResignation,
         AdvanceWatch, BroadcastCountdown, Forfeit, ReleaseParticipants, audience
<1>2. Absent' \subseteq Absent
  <2>1. CASE TickBegins
    BY <2>1 DEF TickBegins, Absent, Course, CourseTypes
  <2>2. CASE AdvanceWatch
    <3>1. /\ Opened.pending = None /\ Opened.watching \in {watch.pending, watch.watching}
          /\ Quiet.pending = None /\ Quiet.watching = None
      BY DEF Opened, Quiet, Course, CourseTypes
    <3>2. \/ watch' \in {Quiet, Opened} /\ UNCHANGED expired
          \/ watch' = Quiet /\ expired' = Opened.watching
      BY <2>2 DEF AdvanceWatch
    <3>3. QED BY <3>1, <3>2 DEF Absent
  <2>3. CASE Forfeit
    BY <2>3 DEF Forfeit, Absent
  <2>4. CASE Tick /\ ~TickBegins /\ ~AdvanceWatch /\ ~Forfeit
    BY <2>4 DEF Tick, Apply, Wait, BroadcastUpdate, AnnounceCapture, AnnounceResignation,
                BroadcastCountdown, ReleaseParticipants, Absent
  <2>5. QED BY <2>1, <2>2, <2>3, <2>4
<1>3. QED BY <1>1, <1>2, SeatingFewerAbsent

LEMMA SeatingStep == Course /\ Seating /\ [Next]_vars => Seating'
<1> SUFFICES ASSUME Course, Seating, [Next]_vars PROVE Seating'
  OBVIOUS
<1>1. CASE Next
  BY <1>1, SeatingTick, SeatingConnection DEF Next
<1>2. CASE UNCHANGED vars
  BY <1>2, SeatingUnchanged DEF vars, seating, audience, thread
<1>3. QED BY <1>1, <1>2

LEMMA SeatingAlways == Spec => []Seating
BY CourseAlways, SeatingInit, SeatingStep, PTL DEF Spec

\* The two who race for a seat at the end of a grace exclude each other: when a
\* forfeit is told, no connection holds the seat of the player it names.
THEOREM PresentPlayersAreSafe == Spec => PresentNeverForfeits
<1> DEFINE Forfeits == Len(results') > Len(results) /\ expired # None
                         => stage[seat[expired]] \in {"leaving", "left"}
<1>1. Seating => [Forfeits]_vars
  BY DEF Seating, AbsentAreGone, Absent, Gone
<1>2. QED
  BY <1>1, SeatingAlways, PTL DEF PresentNeverForfeits

\* A seat reserved under rooms_mutex_ and taken outside it is nobody else's, and
\* one that is reclaimed was the claimant's.
THEOREM SeatsKeepTheirAccount == Spec => SeatStaysWithAccount
<1> DEFINE Kept == \A c \in Colors : seat[c] # None => user'[seat'[c]] = user[seat[c]]
<1>1. Course /\ Seating /\ [Next]_vars => [Kept]_vars
  <2> SUFFICES ASSUME Course, Seating, Next, NEW c \in Colors, seat[c] # None
               PROVE  user'[seat'[c]] = user[seat[c]]
    OBVIOUS
  <2> USE MatchAssumption
  <2>1. seat[c] \in Conns
    BY DEF Course, CourseTypes
  <2>2. CASE Tick
    BY <2>2 DEF Tick, TickBegins, Apply, Wait, BroadcastUpdate, AnnounceCapture,
                AnnounceResignation, AdvanceWatch, BroadcastCountdown, Forfeit,
                ReleaseParticipants, audience
  <2>3. ASSUME NEW x \in Conns, NEW name \in Users, Enter(x, name)
        PROVE  user'[seat'[c]] = user[seat[c]]
    <3>1. stage[x] = "away" /\ user' = [user EXCEPT ![x] = name] /\ UNCHANGED seat
      BY <2>3 DEF Enter, MayEnter, audience
    <3>2. seat[c] # x
      BY <3>1 DEF Seating
    <3>3. QED BY <2>1, <3>1, <3>2 DEF Seating
  <2>4. ASSUME NEW x \in Conns, Seat(x) PROVE user'[seat'[c]] = user[seat[c]]
    <3>1. /\ stage[x] = "seating" /\ UNCHANGED user
          /\ seat' = [seat EXCEPT ![IF seat["White"] = None THEN "White" ELSE "Black"] = x]
      BY <2>4 DEF Seat, Step
    <3>2. seat["Black"] = None
      BY <3>1 DEF Seating, SeatsReserved
    <3>3. seat'[c] = seat[c]
      BY <3>1, <3>2 DEF Colors, Course, CourseTypes
    <3>4. QED BY <3>1, <3>3
  <2>5. ASSUME NEW x \in Conns, Reseat(x) PROVE user'[seat'[c]] = user[seat[c]]
    <3>1. /\ seat' = [d \in Colors |-> IF d \in ColorsOf(x) THEN x ELSE seat[d]]
          /\ UNCHANGED user
      BY <2>5 DEF Reseat
    <3>2. QED BY <3>1 DEF ColorsOf
  <2>6. ASSUME NEW x \in Conns, Connection(x), ~Seat(x), ~Reseat(x),
               \A name \in Users : ~Enter(x, name)
        PROVE  user'[seat'[c]] = user[seat[c]]
    BY <2>6 DEF Connection, Greet, StartMatch, Peek, Attach, View, Claim, Resume,
                TellReconnected, Enqueue, Disconnect, CountOut, audience
  <2>7. QED BY <2>2, <2>3, <2>4, <2>5, <2>6 DEF Next
<1>2. QED
  BY <1>1, CourseAlways, SeatingAlways, PTL DEF Spec, SeatStaysWithAccount
-----------------------------------------------------------------------------
\* Who hears the broadcasts.

\* Whoever has a seat of their own, or a place among the watchers, to be welcomed to.
Placed == {"greeting", "starting", "viewing", "resuming", "reporting", "in"}

\* Those whose client has had its Welcome.
Welcomed == {"starting", "reporting", "in"}

Inbox == [welcome : {None} \cup Nat, updates : SUBSET Nat, started : BOOLEAN, banner : BOOLEAN]

Hearing ==
    /\ revision \in Nat
    /\ inbox \in [Conns -> Inbox]
    /\ \A x \in Conns : stage[x] \in Placed => x \in Roster
    /\ \A x \in Conns : stage[x] = "returning" => ColorsOf(x) # {}
    /\ \A x \in Conns : inbox[x].welcome # None => stage[x] \in Welcomed
    /\ NoUpdateLost

LEMMA HearingInit == Init => Hearing
BY MatchAssumption DEF Init, Hearing, Unopened, NoUpdateLost, Placed, Welcomed, Inbox

\* What a broadcast leaves in an inbox.
LEMMA TellTells ==
    ASSUME NEW receivers, NEW letter, Tell(receivers, letter), NEW x \in Conns
    PROVE  inbox'[x] = IF x \in receivers /\ stage[x] \notin {"leaving", "left"}
                       THEN letter[x] ELSE inbox[x]
BY DEF Tell

\* A banner or a MatchStart changes neither the board nor the updates.
LEMMA HearingNews ==
    ASSUME Hearing, NEW receivers, NEW letter \in {MatchStart, Banner(TRUE), Banner(FALSE)},
           Tell(receivers, letter)
    PROVE  /\ inbox' \in [Conns -> Inbox]
           /\ \A x \in Conns : /\ inbox'[x].welcome = inbox[x].welcome
                                /\ inbox'[x].updates = inbox[x].updates
<1>1. ASSUME NEW x \in Conns
      PROVE  /\ inbox'[x] \in Inbox
             /\ inbox'[x].welcome = inbox[x].welcome
             /\ inbox'[x].updates = inbox[x].updates
  <2>1. inbox'[x] \in {inbox[x], letter[x]}
    BY TellTells
  <2>2. inbox[x] \in Inbox
    BY DEF Hearing
  <2>3. letter[x] \in {[inbox[x] EXCEPT !.started = TRUE], [inbox[x] EXCEPT !.banner = TRUE],
                       [inbox[x] EXCEPT !.banner = FALSE]}
    BY DEF MatchStart, Banner
  <2>4. QED BY <2>1, <2>2, <2>3 DEF Inbox
<1>2. QED BY <1>1 DEF Tell

\* A step that neither publishes nor welcomes, and leaves everyone's place.
LEMMA HearingKept ==
    ASSUME Hearing, UNCHANGED revision,
           inbox' \in [Conns -> Inbox],
           \A x \in Conns : /\ inbox'[x].welcome \in {None, inbox[x].welcome}
                            /\ inbox'[x].welcome # None => inbox'[x].updates = inbox[x].updates,
           \A x \in Conns : inbox'[x].welcome # None => stage'[x] \in Welcomed,
           \A x \in Conns : stage'[x] \in Placed => x \in Roster',
           \A x \in Conns : stage'[x] = "returning" => ColorsOf(x)' # {},
           pc = "updating" <=> pc' = "updating"
    PROVE  Hearing'
<1>1. NoUpdateLost'
  BY DEF Hearing, NoUpdateLost
<1>2. QED BY <1>1 DEF Hearing

\* A thread that goes on with its place, and hears at most news.
LEMMA HearingStage ==
    ASSUME Course, Seating, Hearing, NEW x \in Conns, NEW from \in Stages, NEW to \in Stages,
           Step(x, from, to), UNCHANGED <<user, seat, revision, pc>>, watchers \subseteq watchers',
           from \in Welcomed => to \in Welcomed,
           to \in Placed => from \in Placed \/ x \in Roster',
           to = "returning" => ColorsOf(x) # {},
           inbox' \in [Conns -> Inbox],
           \A y \in Conns : /\ inbox'[y].welcome = inbox[y].welcome
                            /\ inbox'[y].updates = inbox[y].updates
    PROVE  Hearing'
<1>1. /\ stage[x] = from /\ stage'[x] = to
      /\ \A y \in Conns : y # x => stage'[y] = stage[y]
  BY DEF Step, Seating
<1>2. Roster \subseteq Roster' /\ \A y \in Conns : ColorsOf(y)' = ColorsOf(y)
  BY DEF Roster, ColorsOf
<1>3. QED
  BY <1>1, <1>2, HearingKept DEF Hearing

\* A Welcome's snapshot holds every update published so far.
LEMMA HearingWelcome ==
    ASSUME Course, Seating, Hearing, NEW x \in Conns,
           NEW from \in {"greeting", "viewing", "resuming"}, NEW to \in Welcomed,
           Step(x, from, to), NEW started \in BOOLEAN, Welcome(x, started),
           UNCHANGED <<user, seat, watchers, revision, pc>>
    PROVE  Hearing'
<1> DEFINE opened == [inbox EXCEPT ![x].welcome = revision, ![x].started = @ \/ started]
<1>1. /\ stage[x] = from /\ stage'[x] = to
      /\ \A y \in Conns : y # x => stage'[y] = stage[y]
  BY DEF Step, Seating
<1>2. /\ opened \in [Conns -> Inbox] /\ opened[x].welcome = revision
  BY DEF Hearing, Inbox
<1>3. /\ inbox'[x] = opened[x] /\ \A y \in Conns : y # x => inbox'[y] = inbox[y]
      /\ inbox' \in [Conns -> Inbox]
  <2>1. Tell({x}, opened)
    BY DEF Welcome
  <2>2. \A y \in Conns : inbox'[y] = IF y \in {x} /\ stage[y] \notin {"leaving", "left"}
                                     THEN opened[y] ELSE inbox[y]
    BY <2>1, TellTells
  <2>3. inbox' = [y \in Conns |-> inbox'[y]]
    BY <2>1 DEF Tell
  <2>4. \A y \in Conns : inbox'[y] \in Inbox
    BY <1>2, <2>2 DEF Hearing
  <2>5. QED BY <1>1, <2>2, <2>3, <2>4
<1>4. NoUpdateLost'
  <2> DEFINE sent == IF pc = "updating" THEN revision - 1 ELSE revision
  <2>1. revision \in Nat /\ (revision + 1) .. sent = {}
    BY DEF Hearing
  <2>2. ASSUME NEW y \in Conns, inbox'[y].welcome # None
        PROVE  (inbox'[y].welcome + 1) .. sent \subseteq inbox'[y].updates
    <3>1. CASE y = x
      BY <1>2, <1>3, <2>1, <3>1
    <3>2. CASE y # x
      BY <1>3, <2>2, <3>2 DEF Hearing, NoUpdateLost
    <3>3. QED BY <3>1, <3>2
  <2>3. sent' = sent
    OBVIOUS
  <2>4. QED BY <2>2, <2>3 DEF NoUpdateLost
<1>5. Roster' = Roster /\ \A y \in Conns : ColorsOf(y)' = ColorsOf(y)
  BY DEF Roster, ColorsOf
<1>6. x \in Roster
  BY <1>1 DEF Hearing, Placed
<1>7. QED
  BY <1>1, <1>3, <1>4, <1>5, <1>6 DEF Hearing, Welcomed

\* The steps of a connection's thread.
LEMMA HearingConnection ==
    ASSUME Course, Seating, Hearing, NEW x \in Conns, Connection(x) PROVE Hearing'
<1> USE DEF Stages, Placed, Welcomed
<1>0. /\ inbox \in [Conns -> Inbox]
      /\ \A c \in Colors : seat[c] # None => seat[c] \in Conns /\ seat[c] # None
  BY DEF Hearing, Course, CourseTypes
<1>1. ASSUME NEW name \in Users, Enter(x, name) PROVE Hearing'
  <2>1. /\ stage[x] = "away" /\ user' = [user EXCEPT ![x] = name]
        /\ \E to \in {"left", "claiming", "peeking", "seating"} :
               stage' = [stage EXCEPT ![x] = to]
        /\ UNCHANGED <<seat, watchers, inbox, revision, pc>>
    BY <1>1 DEF Enter, MayEnter, audience, thread
  <2>2. /\ stage'[x] \in {"left", "claiming", "peeking", "seating"}
        /\ \A y \in Conns : y # x => stage'[y] = stage[y] /\ user'[y] = user[y]
    BY <2>1 DEF Seating
  <2>3. \A c \in Colors : seat[c] # None => seat[c] # x
    BY <2>1 DEF Seating
  <2>4. Roster' = Roster /\ \A y \in Conns : y # x => ColorsOf(y)' = ColorsOf(y)
    BY <1>0, <2>1, <2>2, <2>3 DEF Roster, ColorsOf
  <2>5. QED
    BY <2>1, <2>2, <2>4, HearingKept DEF Hearing
<1>2. CASE Seat(x)
  <2> DEFINE target == IF seat["White"] = None THEN "White" ELSE "Black"
  <2>1. /\ stage[x] = "seating" /\ stage' = [stage EXCEPT ![x] = "greeting"]
        /\ seat' = [seat EXCEPT ![target] = x]
        /\ UNCHANGED <<user, watchers, inbox, revision, pc>>
    BY <1>2 DEF Seat, Step, thread
  <2>2. /\ stage'[x] = "greeting" /\ \A y \in Conns : y # x => stage'[y] = stage[y]
    BY <2>1 DEF Seating
  <2>3. /\ target \in Colors /\ seat[target] = None /\ seat'[target] = x
        /\ \A c \in Colors : c # target => seat'[c] = seat[c]
    BY <2>1 DEF Seating, SeatsReserved, Colors, Course, CourseTypes
  <2>4. Roster' = Roster \cup {x} /\ \A y \in Conns : ColorsOf(y) \subseteq ColorsOf(y)'
    <3>1. x # None
      BY MatchAssumption
    <3>2. {seat'[c] : c \in Colors} \ {None} = ({seat[c] : c \in Colors} \ {None}) \cup {x}
      BY <2>3, <3>1
    <3>3. \A y \in Conns : ColorsOf(y) \subseteq ColorsOf(y)'
      BY <2>1, <2>3 DEF ColorsOf
    <3>4. QED BY <2>1, <3>1, <3>2, <3>3 DEF Roster
  <2>5. QED BY <2>1, <2>2, <2>4, HearingKept DEF Hearing
<1>3. CASE Greet(x)
  <2>1. /\ \E to \in {"starting", "in"} : Step(x, "greeting", to)
        /\ Welcome(x, FALSE) /\ UNCHANGED <<user, seat, watchers, revision, pc>>
    BY <1>3 DEF Greet, audience, thread
  <2>2. QED BY <2>1, HearingWelcome
<1>4. CASE StartMatch(x)
  BY <1>4, HearingStage, HearingNews DEF StartMatch, audience, thread
<1>5. CASE Peek(x)
  BY <1>0, <1>5, HearingStage DEF Peek, audience, thread
<1>6. CASE Attach(x)
  <2>1. /\ \/ Step(x, "attaching", "left") /\ UNCHANGED watchers
           \/ Step(x, "attaching", "viewing") /\ watchers' = watchers \cup {x}
        /\ UNCHANGED <<user, seat, inbox, revision, pc>>
    BY <1>6 DEF Attach, thread
  <2>2. CASE Step(x, "attaching", "left") /\ UNCHANGED watchers
    BY <1>0, <2>1, <2>2, HearingStage
  <2>3. CASE Step(x, "attaching", "viewing") /\ watchers' = watchers \cup {x}
    <3>1. x \in Roster'
      BY <2>3, MatchAssumption DEF Roster
    <3>2. QED BY <1>0, <2>1, <2>3, <3>1, HearingStage
  <2>4. QED BY <2>1, <2>2, <2>3
<1>7. CASE View(x)
  <2>1. /\ Step(x, "viewing", "in") /\ Welcome(x, x \notin early)
        /\ UNCHANGED <<user, seat, watchers, revision, pc>>
    BY <1>7 DEF View, audience, thread
  <2>2. (x \notin early) \in BOOLEAN
    OBVIOUS
  <2>3. QED BY <2>1, <2>2, HearingWelcome
<1>8. CASE Claim(x)
  <2>1. /\ \/ Step(x, "claiming", "left")
           \/ Step(x, "claiming", "returning") /\ ColorsOf(x) # {}
        /\ UNCHANGED <<user, seat, watchers, inbox, revision, pc>>
    BY <1>8 DEF Claim, audience, thread
  <2>2. QED BY <1>0, <2>1, HearingStage
<1>9. CASE Reseat(x)
  <2>1. /\ stage[x] = "returning" /\ stage' = [stage EXCEPT ![x] = "resuming"]
        /\ seat' = [c \in Colors |-> IF c \in ColorsOf(x) THEN x ELSE seat[c]]
        /\ UNCHANGED <<user, watchers, inbox, revision, pc>>
    BY <1>9 DEF Reseat, Step, thread
  <2>2. /\ stage'[x] = "resuming" /\ \A y \in Conns : y # x => stage'[y] = stage[y]
    BY <2>1 DEF Seating
  <2>3. x # None
    BY MatchAssumption
  <2>4. ASSUME NEW y \in Conns, stage'[y] \in Placed PROVE y \in Roster'
    <3>1. CASE y = x
      <4>1. PICK c \in Colors : c \in ColorsOf(x)
        BY <2>1 DEF Hearing, ColorsOf
      <4>2. QED BY <2>1, <2>3, <3>1, <4>1 DEF Roster
    <3>2. CASE y # x
      <4>1. stage[y] \in Placed /\ y \in Roster
        BY <2>2, <2>4, <3>2 DEF Hearing
      <4>2. user[y] # user[x]
        BY <2>1, <3>2, <4>1 DEF Seating, OneLivePerAccount
      <4>3. CASE y \in watchers
        BY <2>1, <4>3, MatchAssumption DEF Roster
      <4>4. ASSUME NEW c \in Colors, seat[c] = y PROVE y \in Roster'
        <5>1. c \notin ColorsOf(x)
          BY <4>2, <4>4 DEF ColorsOf
        <5>2. seat'[c] = y
          BY <2>1, <4>4, <5>1
        <5>3. QED BY <5>2, MatchAssumption DEF Roster
      <4>5. QED BY <4>1, <4>3, <4>4 DEF Roster
    <3>3. QED BY <3>1, <3>2
  <2>5. \A y \in Conns : ColorsOf(y)' = ColorsOf(y)
    BY <2>1, <2>3 DEF ColorsOf
  <2>6. QED BY <2>1, <2>2, <2>4, <2>5, HearingKept DEF Hearing
<1>10. CASE Resume(x)
  <2>1. /\ Step(x, "resuming", "reporting") /\ Welcome(x, TRUE)
        /\ UNCHANGED <<user, seat, watchers, revision, pc>>
    BY <1>10 DEF Resume, audience, thread
  <2>2. QED BY <2>1, HearingWelcome
<1>11. CASE TellReconnected(x)
  BY <1>11, HearingStage, HearingNews DEF TellReconnected, audience, thread
<1>12. ASSUME NEW resign \in BOOLEAN, Enqueue(x, resign) PROVE Hearing'
  <2>1. UNCHANGED <<stage, user, seat, watchers, inbox, revision, pc>>
    BY <1>12 DEF Enqueue, audience, thread
  <2>2. QED BY <2>1 DEF Hearing, NoUpdateLost, Roster, ColorsOf
<1>13. CASE Disconnect(x)
  <2>1. /\ stage' = [stage EXCEPT ![x] = "leaving"]
        /\ inbox' = [inbox EXCEPT ![x] = Unopened]
        /\ watchers' \in {watchers, watchers \ {x}}
        /\ UNCHANGED <<user, seat, revision, pc>>
    BY <1>13 DEF Disconnect, Step, thread
  <2>2. /\ stage'[x] = "leaving" /\ \A y \in Conns : y # x => stage'[y] = stage[y]
    BY <2>1 DEF Seating
  <2>3. /\ inbox'[x] = Unopened /\ \A y \in Conns : y # x => inbox'[y] = inbox[y]
        /\ Unopened \in Inbox /\ Unopened.welcome = None /\ inbox' \in [Conns -> Inbox]
    BY <1>0, <2>1 DEF Unopened, Inbox
  <2>4. /\ \A y \in Conns : y # x /\ y \in Roster => y \in Roster'
        /\ \A y \in Conns : ColorsOf(y)' = ColorsOf(y)
    BY <2>1 DEF Roster, ColorsOf
  <2>5. QED BY <2>1, <2>2, <2>3, <2>4, HearingKept DEF Hearing
<1>14. CASE CountOut(x)
  BY <1>0, <1>14, HearingStage DEF CountOut, audience, thread
<1>15. QED
  BY <1>1, <1>2, <1>3, <1>4, <1>5, <1>6, <1>7, <1>8, <1>9, <1>10, <1>11, <1>12, <1>13, <1>14
     DEF Connection

\* The steps of a tick, which is the only publisher.
LEMMA HearingTick ==
    ASSUME Course, Seating, Hearing, Tick PROVE Hearing'
<1> DEFINE sent == IF pc = "updating" THEN revision - 1 ELSE revision
<1>1. UNCHANGED <<stage, user, seat, watchers>>
  BY DEF Tick, TickBegins, Apply, Wait, BroadcastUpdate, AnnounceCapture, AnnounceResignation,
         AdvanceWatch, BroadcastCountdown, Forfeit, ReleaseParticipants, audience
<1>2. Roster' = Roster /\ \A y \in Conns : ColorsOf(y)' = ColorsOf(y)
  BY <1>1 DEF Roster, ColorsOf
<1>3. CASE Wait
  <2>1. UNCHANGED inbox /\ pc = "applying"
    BY <1>3 DEF Wait
  <2>2. \/ revision' = revision + 1 /\ pc' = "updating"
        \/ revision' = revision /\ pc' = "resigning"
    BY <1>3 DEF Wait
  <2>3. sent' = sent /\ revision' \in Nat
    BY <2>1, <2>2 DEF Hearing
  <2>4. NoUpdateLost'
    BY <2>1, <2>3 DEF Hearing, NoUpdateLost
  <2>5. QED BY <1>1, <1>2, <2>1, <2>3, <2>4 DEF Hearing
<1>4. CASE BroadcastUpdate
  <2>1. pc = "updating" /\ pc' # "updating" /\ UNCHANGED revision /\ Tell(Roster, BoardUpdate)
    BY <1>4 DEF BroadcastUpdate, At
  <2>2. ASSUME NEW y \in Conns
        PROVE  /\ inbox'[y] \in Inbox /\ inbox'[y].welcome = inbox[y].welcome
               /\ y \in Roster /\ stage[y] \notin {"leaving", "left"}
                    => inbox'[y].updates = inbox[y].updates \cup {revision}
    <3>1. inbox'[y] = IF y \in Roster /\ stage[y] \notin {"leaving", "left"}
                      THEN [inbox[y] EXCEPT !.updates = @ \cup {revision}] ELSE inbox[y]
      <4>1. inbox'[y] = IF y \in Roster /\ stage[y] \notin {"leaving", "left"}
                        THEN BoardUpdate[y] ELSE inbox[y]
        BY <2>1, TellTells
      <4>2. QED BY <4>1 DEF BoardUpdate
    <3>2. inbox[y] \in Inbox /\ inbox[y].updates \cup {revision} \in SUBSET Nat
      BY DEF Hearing, Inbox
    <3>3. inbox'[y] \in Inbox /\ inbox'[y].welcome = inbox[y].welcome
      BY <3>1, <3>2 DEF Inbox
    <3>4. QED BY <3>1, <3>2, <3>3 DEF Inbox
  <2>3. inbox' \in [Conns -> Inbox]
    BY <2>1, <2>2 DEF Tell
  <2>4. ASSUME NEW y \in Conns, inbox'[y].welcome # None
        PROVE  (inbox'[y].welcome + 1) .. revision \subseteq inbox'[y].updates
    <3>1. y \in Roster /\ stage[y] \notin {"leaving", "left"}
      BY <2>2, <2>4 DEF Hearing, Welcomed, Placed
    <3>2. inbox'[y].updates = inbox[y].updates \cup {revision}
      BY <2>2, <3>1
    <3>3. (inbox[y].welcome + 1) .. (revision - 1) \subseteq inbox[y].updates
      BY <2>1, <2>2, <2>4 DEF Hearing, NoUpdateLost
    <3>4. inbox[y].welcome \in Nat /\ revision \in Nat
      BY <2>2, <2>4 DEF Hearing, Inbox
    <3>5. (inbox[y].welcome + 1) .. revision
            \subseteq ((inbox[y].welcome + 1) .. (revision - 1)) \cup {revision}
      BY <3>4
    <3>6. QED BY <2>2, <3>2, <3>3, <3>5
  <2>5. NoUpdateLost'
    BY <2>1, <2>4 DEF NoUpdateLost
  <2>6. QED BY <1>1, <1>2, <2>1, <2>2, <2>3, <2>5 DEF Hearing
<1>5. CASE Tick /\ ~Wait /\ ~BroadcastUpdate
  <2>1. UNCHANGED revision /\ pc # "updating" /\ pc' # "updating"
    BY <1>5 DEF Tick, TickBegins, Apply, AnnounceCapture, AnnounceResignation, AdvanceWatch,
                BroadcastCountdown, Forfeit, ReleaseParticipants, At
  <2>2. \/ UNCHANGED inbox
        \/ Tell(Roster, Banner(FALSE))
        \/ Tell(Roster, Banner(TRUE))
    BY <1>5 DEF Tick, TickBegins, Apply, AnnounceCapture, AnnounceResignation, AdvanceWatch,
                BroadcastCountdown, Forfeit, ReleaseParticipants, Announce
  <2>3. /\ inbox' \in [Conns -> Inbox]
        /\ \A y \in Conns : /\ inbox'[y].welcome = inbox[y].welcome
                             /\ inbox'[y].updates = inbox[y].updates
    BY <2>2, HearingNews DEF Hearing
  <2>4. QED BY <1>1, <1>2, <2>1, <2>3, HearingKept DEF Hearing
<1>6. QED BY <1>3, <1>4, <1>5

LEMMA HearingStep == Course /\ Seating /\ Hearing /\ [Next]_vars => Hearing'
<1> SUFFICES ASSUME Course, Seating, Hearing, [Next]_vars PROVE Hearing'
  OBVIOUS
<1>1. CASE Next
  BY <1>1, HearingTick, HearingConnection DEF Next
<1>2. CASE UNCHANGED vars
  BY <1>2 DEF vars, audience, thread, Hearing, NoUpdateLost, Roster, ColorsOf
<1>3. QED BY <1>1, <1>2

\* Registering before the snapshot is enough: whoever was welcomed, to a seat, back
\* to one or to watch, hears every update their snapshot does not hold.
THEOREM NothingIsMissed == Spec => []NoUpdateLost
<1>1. Hearing => NoUpdateLost
  BY DEF Hearing
<1>2. QED
  BY <1>1, CourseAlways, SeatingAlways, HearingInit, HearingStep, PTL DEF Spec
-----------------------------------------------------------------------------
\* Who is in the room, and who faces whom.

\* The connections the room counts.
Inside == {x \in Conns : stage[x] \notin {"away", "left"}}

Entering == {"seating", "peeking", "attaching", "viewing", "claiming", "returning"}

\* Room::connected is a count of threads.
RoomCounted == IsFiniteSet(Inside) /\ room.connected = Cardinality(Inside)

\* While one seat is taken only its player is in the room, and the room goes with
\* that player.
OneSeatOnePlayer ==
    /\ room.seatsTaken = 0 \/ ~room.live => Inside = {}
    /\ room.seatsTaken = 1 /\ room.live =>
           \E x \in Conns : Inside = {x} /\ (stage[x] = "seating" \/ seat["White"] = x)

Occupancy ==
    /\ RoomCounted
    /\ OneSeatOnePlayer
    /\ \A c \in Colors : seat[c] # None => stage[seat[c]] \notin Entering
    /\ \A x \in Conns, c \in Colors :
           stage[x] = "seating" /\ seat[c] # None => user[seat[c]] # user[x]
    /\ NobodyPlaysBothSides

LEMMA OccupancyInit == Init => Occupancy
<1> SUFFICES ASSUME Init PROVE Occupancy
  OBVIOUS
<1>1. Inside = {}
  BY DEF Init, Inside
<1>2. QED
  BY <1>1, FS_EmptySet
     DEF Init, Occupancy, RoomCounted, OneSeatOnePlayer, NobodyPlaysBothSides, BothSeatsTaken,
         Colors

LEMMA OccupancyUnchanged ==
    Occupancy /\ UNCHANGED <<stage, user, room, seat>> => Occupancy'
BY DEF Occupancy, RoomCounted, OneSeatOnePlayer, NobodyPlaysBothSides, BothSeatsTaken, Inside

\* A thread that goes on within the room.
LEMMA OccupancyStage ==
    ASSUME Course, Seating, Occupancy, NEW x \in Conns, NEW from \in Stages \ {"away", "left", "seating"},
           NEW to \in Stages \ {"away", "left", "seating"}, Step(x, from, to),
           to \in Entering => from \in Entering,
           UNCHANGED <<user, room, seat>>
    PROVE  Occupancy'
<1>1. /\ stage[x] = from /\ stage'[x] = to
      /\ \A y \in Conns : y # x => stage'[y] = stage[y]
  BY DEF Step, Seating
<1>2. Inside' = Inside
  BY <1>1 DEF Inside
<1>3. \A y \in Conns : stage'[y] = "seating" <=> stage[y] = "seating"
  BY <1>1
<1>4. \A c \in Colors : seat[c] # None => seat[c] \in Conns
  BY DEF Course, CourseTypes
<1>5. RoomCounted' /\ OneSeatOnePlayer'
  BY <1>2, <1>3 DEF Occupancy, RoomCounted, OneSeatOnePlayer
<1>6. NobodyPlaysBothSides'
  BY DEF Occupancy, NobodyPlaysBothSides, BothSeatsTaken
<1>7. QED
  BY <1>1, <1>3, <1>4, <1>5, <1>6 DEF Occupancy

\* A thread that leaves the room, the last one with the room's end unless both
\* seats were reserved.
LEMMA OccupancyLeaves ==
    ASSUME Course, Seating, Occupancy, NEW x \in Conns,
           NEW from \in {"attaching", "claiming", "leaving"}, Step(x, from, "left"),
           UNCHANGED <<user, seat>>,
           room'.connected = room.connected - 1, room'.seatsTaken = room.seatsTaken,
           room'.live \in BOOLEAN, from # "leaving" => room'.live = room.live,
           from = "leaving" => (room'.live <=> room.connected > 1)
    PROVE  Occupancy'
<1>1. /\ stage[x] = from /\ stage'[x] = "left"
      /\ \A y \in Conns : y # x => stage'[y] = stage[y]
  BY DEF Step, Seating, Stages
<1>2. Inside' = Inside \ {x} /\ x \in Inside
  BY <1>1 DEF Inside
<1>3. RoomCounted'
  BY <1>2, FS_RemoveElement DEF Occupancy, RoomCounted
<1>4. OneSeatOnePlayer'
  <2>0. room.live
    BY <1>2 DEF Occupancy, OneSeatOnePlayer
  <2>1. ASSUME room.seatsTaken = 1, room'.live PROVE FALSE
    <3>1. PICK p \in Conns : Inside = {p} /\ (stage[p] = "seating" \/ seat["White"] = p)
      BY <2>0, <2>1 DEF Occupancy, OneSeatOnePlayer
    <3>2. p = x /\ seat["White"] = x /\ x # None
      BY <1>1, <1>2, <3>1, MatchAssumption
    <3>3. from = "leaving"
      BY <1>1, <3>2 DEF Occupancy, Entering, Colors
    <3>4. room.connected = 1
      BY <3>1, FS_Singleton DEF Occupancy, RoomCounted
    <3>5. ~(room.connected > 1)
      BY <3>4
    <3>6. QED BY <2>1, <3>3, <3>5
  <2>2. ASSUME ~room'.live PROVE Inside' = {}
    <3>1. from = "leaving" /\ ~(room.connected > 1)
      BY <2>0, <2>2
    <3>2. Cardinality(Inside') \in Nat /\ Cardinality(Inside') = room.connected - 1
      BY <1>3, FS_CardinalityType DEF RoomCounted
    <3>3. room.connected \in Int
      BY DEF Seating, RoomRecord
    <3>4. Cardinality(Inside') = 0
      BY <3>1, <3>2, <3>3
    <3>5. QED BY <1>3, <3>4, FS_EmptySet DEF RoomCounted
  <2>3. QED BY <1>2, <2>1, <2>2 DEF Occupancy, OneSeatOnePlayer
<1>5. \A c \in Colors : seat[c] # None => seat[c] \in Conns
  BY DEF Course, CourseTypes
<1>6. NobodyPlaysBothSides'
  BY DEF Occupancy, NobodyPlaysBothSides, BothSeatsTaken
<1>7. QED
  BY <1>1, <1>3, <1>4, <1>5, <1>6 DEF Occupancy, Entering

\* An account that enters has no other connection, so where a seat is free it is
\* not the account that has the other one.
LEMMA OccupancyEnter ==
    ASSUME Course, Seating, Occupancy, NEW x \in Conns, NEW name \in Users, Enter(x, name)
    PROVE  Occupancy'
<1> USE MatchAssumption
<1>1. /\ stage[x] = "away" /\ user' = [user EXCEPT ![x] = name] /\ name # None /\ room.live
      /\ \A y \in Conns : user[y] = name => stage[y] = "left"
      /\ UNCHANGED seat
  BY DEF Enter, MayEnter, audience
<1>2. /\ user'[x] = name /\ x \notin Inside
      /\ \A y \in Conns : y # x => user'[y] = user[y]
  BY <1>1 DEF Seating, Inside
<1>3. \A c \in Colors : seat[c] # None => seat[c] \in Conns /\ seat[c] # x
  BY <1>1 DEF Seating, Course, CourseTypes
<1>4. NobodyPlaysBothSides'
  BY <1>1, <1>2, <1>3 DEF Occupancy, NobodyPlaysBothSides, BothSeatsTaken, Colors
<1>5. CASE stage' = [stage EXCEPT ![x] = "left"] /\ UNCHANGED room
  <2>1. stage'[x] = "left" /\ \A y \in Conns : y # x => stage'[y] = stage[y]
    BY <1>5 DEF Seating, Stages
  <2>2. Inside' = Inside
    BY <1>1, <2>1 DEF Inside
  <2>3. RoomCounted' /\ OneSeatOnePlayer'
    BY <1>1, <1>2, <1>5, <2>1, <2>2 DEF Occupancy, RoomCounted, OneSeatOnePlayer, Inside
  <2>4. QED BY <1>1, <1>2, <1>3, <1>4, <2>1, <2>3 DEF Occupancy
<1>6. room \in RoomRecord /\ room.seatsTaken \in 0 .. 2 /\ room.connected \in Int
  BY DEF Seating, RoomRecord
<1>7. ASSUME NEW to \in {"claiming", "peeking", "seating"},
             stage' = [stage EXCEPT ![x] = to]
      PROVE  /\ stage'[x] = to /\ \A y \in Conns : y # x => stage'[y] = stage[y]
             /\ Inside' = Inside \cup {x}
             /\ room'.connected = room.connected + 1 => RoomCounted'
  <2>1. stage'[x] = to /\ \A y \in Conns : y # x => stage'[y] = stage[y]
    BY <1>7 DEF Seating, Stages
  <2>2. Inside' = Inside \cup {x}
    BY <2>1 DEF Inside
  <2>3. IsFiniteSet(Inside') /\ Cardinality(Inside') = Cardinality(Inside) + 1
    BY <1>2, <2>2, FS_AddElement DEF Occupancy, RoomCounted
  <2>4. QED BY <2>1, <2>2, <2>3 DEF Occupancy, RoomCounted
<1>8. ASSUME NEW to \in {"claiming", "peeking"}, stage' = [stage EXCEPT ![x] = to],
             room'.connected = room.connected + 1, room'.seatsTaken = room.seatsTaken,
             room'.live, room.seatsTaken = 2
      PROVE  Occupancy'
  <2>1. OneSeatOnePlayer'
    BY <1>8 DEF OneSeatOnePlayer
  <2>2. /\ stage'[x] = to /\ \A y \in Conns : y # x => stage'[y] = stage[y]
        /\ RoomCounted'
    BY <1>7, <1>8
  <2>3. \A y \in Conns : stage'[y] = "seating" => y # x /\ stage[y] = "seating"
    BY <1>8, <2>2
  <2>4. \A c \in Colors : seat'[c] # None => stage'[seat'[c]] \notin Entering
    BY <1>1, <1>3, <2>2 DEF Occupancy
  <2>5. QED
    BY <1>1, <1>2, <1>3, <1>4, <2>1, <2>2, <2>3, <2>4 DEF Occupancy
<1>9. ASSUME stage' = [stage EXCEPT ![x] = "seating"],
             room'.connected = room.connected + 1, room'.seatsTaken = room.seatsTaken + 1,
             room'.live, room.seatsTaken < 2
      PROVE  Occupancy'
  <2>1. /\ stage'[x] = "seating" /\ \A y \in Conns : y # x => stage'[y] = stage[y]
        /\ Inside' = Inside \cup {x} /\ RoomCounted'
    BY <1>7, <1>9
  <2>2. OneSeatOnePlayer'
    BY <1>6, <1>9, <2>1 DEF Occupancy, OneSeatOnePlayer
  <2>3. ASSUME NEW c \in Colors, seat[c] # None PROVE user[seat[c]] # name
    <3>1. c = "White" /\ room.seatsTaken = 1
      BY <1>6, <1>9, <2>3 DEF Seating, SeatsReserved, Colors
    <3>2. PICK p \in Conns : Inside = {p} /\ (stage[p] = "seating" \/ seat["White"] = p)
      BY <1>1, <3>1 DEF Occupancy, OneSeatOnePlayer
    <3>3. stage[p] # "seating"
      BY <2>3, <3>1 DEF Seating, SeatsReserved
    <3>4. seat[c] = p /\ stage[p] # "left"
      BY <3>1, <3>2, <3>3 DEF Inside
    <3>5. QED BY <1>1, <3>4
  <2>4. \A y \in Conns, c \in Colors :
            stage'[y] = "seating" /\ seat'[c] # None => user'[seat'[c]] # user'[y]
    BY <1>1, <1>2, <1>3, <2>1, <2>3 DEF Occupancy
  <2>5. \A c \in Colors : seat'[c] # None => stage'[seat'[c]] \notin Entering
    BY <1>1, <1>3, <2>1 DEF Occupancy
  <2>6. QED BY <1>4, <2>1, <2>2, <2>4, <2>5 DEF Occupancy
<1>10. \/ stage' = [stage EXCEPT ![x] = "left"] /\ UNCHANGED room
       \/ /\ \E to \in {"claiming", "peeking"} : stage' = [stage EXCEPT ![x] = to]
          /\ room' = [room EXCEPT !.seatsTaken = @ + 0, !.connected = @ + 1]
          /\ room.seatsTaken = 2
       \/ /\ stage' = [stage EXCEPT ![x] = "seating"] /\ room.seatsTaken < 2
          /\ room' = [room EXCEPT !.seatsTaken = @ + 1, !.connected = @ + 1]
  <2> DEFINE mine == {c \in Colors : seat[c] # None /\ user[seat[c]] = name}
             enter(to, seats) ==
                 /\ stage' = [stage EXCEPT ![x] = to]
                 /\ room' = [room EXCEPT !.seatsTaken = @ + seats, !.connected = @ + 1]
  <2>1. IF gameOver THEN stage' = [stage EXCEPT ![x] = "left"] /\ UNCHANGED room
        ELSE IF watch.watching \in mine THEN enter("claiming", 0)
        ELSE IF room.seatsTaken >= 2 THEN enter("peeking", 0)
        ELSE enter("seating", 1)
    BY DEF Enter
  <2>2. ASSUME NEW c \in mine PROVE room.seatsTaken = 2
    <3>1. SUFFICES ASSUME room.seatsTaken # 2 PROVE FALSE
      OBVIOUS
    <3>2. seat["Black"] = None /\ seat["White"] # None /\ room.seatsTaken = 1
      BY <1>6, <2>2, <3>1 DEF Seating, SeatsReserved, Colors
    <3>3. PICK p \in Conns : Inside = {p} /\ (stage[p] = "seating" \/ seat["White"] = p)
      BY <1>1, <3>2 DEF Occupancy, OneSeatOnePlayer
    <3>4. stage[p] # "seating"
      BY <3>2 DEF Seating, SeatsReserved
    <3>5. seat[c] = p /\ stage[p] # "left"
      BY <2>2, <3>2, <3>3, <3>4 DEF Inside, Colors
    <3>6. QED BY <1>1, <2>2, <3>5
  <2> HIDE DEF mine
  <2>3. QED BY <1>6, <2>1, <2>2
<1>11. QED
  <2>1. \A k \in {0, 1} : LET r == [room EXCEPT !.seatsTaken = @ + k, !.connected = @ + 1]
                          IN  /\ r.connected = room.connected + 1
                              /\ r.seatsTaken = room.seatsTaken + k
                              /\ r.live
    BY <1>1, <1>6 DEF RoomRecord
  <2>2. room.seatsTaken + 0 = room.seatsTaken
    BY <1>6
  <2>3. QED BY <1>5, <1>8, <1>9, <1>10, <2>1, <2>2

\* Match::join gives the other seat to another account.
LEMMA OccupancySeat ==
    ASSUME Course, Seating, Occupancy, NEW x \in Conns, Seat(x) PROVE Occupancy'
<1> USE MatchAssumption
<1> DEFINE target == IF seat["White"] = None THEN "White" ELSE "Black"
<1>1. /\ stage[x] = "seating" /\ stage' = [stage EXCEPT ![x] = "greeting"]
      /\ seat' = [seat EXCEPT ![target] = x]
      /\ UNCHANGED <<user, room>>
  BY DEF Seat, Step
<1>2. /\ stage'[x] = "greeting" /\ \A y \in Conns : y # x => stage'[y] = stage[y]
  BY <1>1 DEF Seating, Stages
<1>3. /\ target \in Colors /\ seat[target] = None /\ seat'[target] = x
      /\ \A c \in Colors : c # target => seat'[c] = seat[c]
      /\ \A c \in Colors : seat[c] # None => seat[c] \in Conns /\ seat[c] # x
  <2>1. target \in Colors /\ seat[target] = None
    BY <1>1 DEF Seating, SeatsReserved, Colors
  <2>2. seat'[target] = x /\ \A c \in Colors : c # target => seat'[c] = seat[c]
    BY <1>1, <2>1 DEF Course, CourseTypes
  <2>3. \A c \in Colors : seat[c] # None => seat[c] \in Conns /\ seat[c] # x
    BY <1>1 DEF Seating, Course, CourseTypes
  <2>4. QED BY <2>1, <2>2, <2>3
<1> HIDE DEF target
<1>4. Inside' = Inside /\ x \in Inside
  BY <1>1, <1>2 DEF Inside
<1>5. RoomCounted'
  BY <1>1, <1>4 DEF Occupancy, RoomCounted
<1>6. OneSeatOnePlayer'
  <2>1. ASSUME room.seatsTaken = 1, room.live PROVE Inside = {x} /\ seat'["White"] = x
    <3>1. PICK p \in Conns : Inside = {p}
      BY <2>1 DEF Occupancy, OneSeatOnePlayer
    <3>2. Inside = {x}
      BY <1>4, <3>1
    <3>3. seat["White"] = None
      BY <1>1, <2>1 DEF Seating, SeatsReserved
    <3>4. QED BY <1>3, <3>2, <3>3 DEF target
  <2>2. QED BY <1>1, <1>4, <2>1 DEF Occupancy, OneSeatOnePlayer
<1>7. \A c \in Colors : seat[c] # None => user[seat[c]] # user[x]
  BY <1>1 DEF Occupancy
<1>8. NobodyPlaysBothSides'
  <2>1. \A c, d \in Colors : c # d /\ seat'[c] # None /\ seat'[d] # None
            => user[seat'[c]] # user[seat'[d]]
    BY <1>3, <1>7, MatchAssumption DEF Occupancy, NobodyPlaysBothSides, BothSeatsTaken, Colors
  <2>2. QED BY <1>1, <2>1 DEF NobodyPlaysBothSides, BothSeatsTaken, Colors
<1>9. ASSUME NEW y \in Conns, NEW c \in Colors, stage'[y] = "seating", seat'[c] # None
      PROVE  user[seat'[c]] # user[y]
  <2>1. y # x /\ stage[y] = "seating"
    BY <1>2, <1>9
  <2>2. CASE c = target
    <3>1. user[x] # user[y]
      BY <1>1, <2>1 DEF Seating, OneLivePerAccount
    <3>2. QED BY <1>3, <2>2, <3>1
  <2>3. CASE c # target
    BY <1>3, <1>9, <2>1, <2>3 DEF Occupancy
  <2>4. QED BY <2>2, <2>3
<1>10. \A c \in Colors : seat'[c] # None => stage'[seat'[c]] \notin Entering
  <2>1. "greeting" \notin Entering
    BY DEF Entering
  <2>2. QED BY <1>2, <1>3, <2>1 DEF Occupancy
<1>11. QED
  BY <1>1, <1>5, <1>6, <1>8, <1>9, <1>10 DEF Occupancy

\* A seat goes back to a connection of the same account.
LEMMA OccupancyReseat ==
    ASSUME Course, Seating, Occupancy, NEW x \in Conns, Reseat(x) PROVE Occupancy'
<1> USE MatchAssumption
<1>1. /\ stage[x] = "returning" /\ stage' = [stage EXCEPT ![x] = "resuming"]
      /\ seat' = [c \in Colors |-> IF c \in ColorsOf(x) THEN x ELSE seat[c]]
      /\ UNCHANGED <<user, room>>
  BY DEF Reseat, Step
<1>2. /\ stage'[x] = "resuming" /\ \A y \in Conns : y # x => stage'[y] = stage[y]
  BY <1>1 DEF Seating, Stages
<1>3. \A c \in Colors : /\ seat'[c] \in {seat[c], x} /\ (seat[c] # None => seat[c] \in Conns)
                        /\ seat'[c] = None <=> seat[c] = None
                        /\ seat[c] # None => user[seat'[c]] = user[seat[c]]
  BY <1>1 DEF Course, CourseTypes, ColorsOf
<1>4. Inside' = Inside /\ x \in Inside
  BY <1>1, <1>2 DEF Inside
<1>5. RoomCounted'
  BY <1>1, <1>4 DEF Occupancy, RoomCounted
<1>6. OneSeatOnePlayer'
  <2>1. \A p \in Conns : stage[p] = "seating" => stage'[p] = "seating"
    BY <1>1, <1>2
  <2>2. \A p \in Conns : Inside = {p} /\ seat["White"] = p => seat'["White"] = p
    BY <1>3, <1>4 DEF Colors
  <2>3. QED BY <1>1, <1>4, <2>1, <2>2 DEF Occupancy, OneSeatOnePlayer
<1>7. NobodyPlaysBothSides'
  BY <1>1, <1>3 DEF Occupancy, NobodyPlaysBothSides, BothSeatsTaken, Colors
<1>8. \A y \in Conns : stage'[y] = "seating" => stage[y] = "seating"
  BY <1>1, <1>2
<1>9. \A c \in Colors : seat'[c] # None => stage'[seat'[c]] \notin Entering
  <2>1. "resuming" \notin Entering
    BY DEF Entering
  <2>2. QED BY <1>2, <1>3, <2>1 DEF Occupancy
<1>10. QED
  BY <1>1, <1>3, <1>5, <1>7, <1>6, <1>8, <1>9 DEF Occupancy

\* The steps of a connection's thread.
LEMMA OccupancyConnection ==
    ASSUME Course, Seating, Occupancy, NEW x \in Conns, Connection(x) PROVE Occupancy'
<1> USE DEF Stages, Entering
<1>0. room \in RoomRecord /\ room.connected \in Int
  BY DEF Seating, RoomRecord
<1>1. ASSUME NEW name \in Users, Enter(x, name) PROVE Occupancy'
  BY <1>1, OccupancyEnter
<1>2. CASE Seat(x)
  BY <1>2, OccupancySeat
<1>3. CASE Greet(x)
  <2>1. /\ \E to \in {"starting", "in"} : Step(x, "greeting", to)
        /\ UNCHANGED <<user, room, seat>>
    BY <1>3 DEF Greet, audience
  <2>2. QED BY <2>1, OccupancyStage
<1>4. CASE StartMatch(x)
  BY <1>4, OccupancyStage DEF StartMatch, audience
<1>5. CASE Peek(x)
  BY <1>5, OccupancyStage DEF Peek, audience
<1>6. CASE Attach(x)
  <2>1. CASE Step(x, "attaching", "left") /\ room' = [room EXCEPT !.connected = @ - 1]
    <3>1. UNCHANGED <<user, seat>>
      BY <1>6 DEF Attach
    <3>2. /\ room'.connected = room.connected - 1 /\ room'.seatsTaken = room.seatsTaken
          /\ room'.live = room.live /\ room.live \in BOOLEAN
      BY <1>0, <2>1 DEF RoomRecord
    <3>3. QED BY <2>1, <3>1, <3>2, OccupancyLeaves
  <2>2. CASE Step(x, "attaching", "viewing") /\ UNCHANGED room
    BY <1>6, <2>2, OccupancyStage DEF Attach
  <2>3. QED BY <1>6, <2>1, <2>2 DEF Attach
<1>7. CASE View(x)
  BY <1>7, OccupancyStage DEF View, audience
<1>8. CASE Claim(x)
  <2>1. CASE Step(x, "claiming", "left") /\ room' = [room EXCEPT !.connected = @ - 1]
    <3>1. UNCHANGED <<user, seat>>
      BY <1>8 DEF Claim, audience
    <3>2. /\ room'.connected = room.connected - 1 /\ room'.seatsTaken = room.seatsTaken
          /\ room'.live = room.live /\ room.live \in BOOLEAN
      BY <1>0, <2>1 DEF RoomRecord
    <3>3. QED BY <2>1, <3>1, <3>2, OccupancyLeaves
  <2>2. CASE Step(x, "claiming", "returning") /\ UNCHANGED room
    BY <1>8, <2>2, OccupancyStage DEF Claim, audience
  <2>3. QED BY <1>8, <2>1, <2>2 DEF Claim
<1>9. CASE Reseat(x)
  BY <1>9, OccupancyReseat
<1>10. CASE Resume(x)
  BY <1>10, OccupancyStage DEF Resume, audience
<1>11. CASE TellReconnected(x)
  BY <1>11, OccupancyStage DEF TellReconnected, audience
<1>12. ASSUME NEW resign \in BOOLEAN, Enqueue(x, resign) PROVE Occupancy'
  BY <1>12, OccupancyUnchanged DEF Enqueue, audience
<1>13. CASE Disconnect(x)
  BY <1>13, OccupancyStage DEF Disconnect
<1>14. CASE CountOut(x)
  <2>1. /\ Step(x, "leaving", "left") /\ UNCHANGED <<user, seat>>
        /\ room' = [room EXCEPT !.connected = @ - 1, !.live = room.connected > 1]
    BY <1>14 DEF CountOut, audience
  <2>2. /\ room'.connected = room.connected - 1 /\ room'.seatsTaken = room.seatsTaken
        /\ room'.live = (room.connected > 1)
    BY <1>0, <2>1 DEF RoomRecord
  <2>3. (room.connected > 1) \in BOOLEAN
    BY <1>0
  <2>4. QED BY <2>1, <2>2, <2>3, OccupancyLeaves
<1>15. QED
  BY <1>1, <1>2, <1>3, <1>4, <1>5, <1>6, <1>7, <1>8, <1>9, <1>10, <1>11, <1>12, <1>13, <1>14
     DEF Connection

\* A tick neither lets anyone in nor out.
LEMMA OccupancyStep == Course /\ Seating /\ Occupancy /\ [Next]_vars => Occupancy'
<1> SUFFICES ASSUME Course, Seating, Occupancy, [Next]_vars PROVE Occupancy'
  OBVIOUS
<1>1. CASE Tick
  <2>1. UNCHANGED <<stage, user, room, seat>>
    BY <1>1 DEF Tick, TickBegins, Apply, Wait, BroadcastUpdate, AnnounceCapture,
                AnnounceResignation, AdvanceWatch, BroadcastCountdown, Forfeit,
                ReleaseParticipants, audience
  <2>2. QED BY <2>1, OccupancyUnchanged
<1>2. CASE \E x \in Conns : Connection(x)
  BY <1>2, OccupancyConnection
<1>3. CASE UNCHANGED vars
  BY <1>3, OccupancyUnchanged DEF vars, audience
<1>4. QED BY <1>1, <1>2, <1>3 DEF Next

LEMMA OccupancyAlways == Spec => []Occupancy
BY CourseAlways, SeatingAlways, OccupancyInit, OccupancyStep, PTL DEF Spec

\* One connection per account and a room that ends with its only player keep the
\* second seat from whoever has the first.
THEOREM NobodyFacesThemselves == Spec => []NobodyPlaysBothSides
<1>1. Occupancy => NobodyPlaysBothSides
  BY DEF Occupancy
<1>2. QED BY <1>1, OccupancyAlways, PTL
-----------------------------------------------------------------------------
\* Types.

Bounds ==
    /\ watchers \subseteq Conns /\ early \subseteq Conns
    /\ inbox \in [Conns -> Letters]
    /\ Len(queue) <= QueueCap /\ Len(batch) <= QueueCap
    /\ engine \in [moving : SUBSET Colors, over : BOOLEAN]
    /\ revision \in 0 .. MaxRevision
    /\ pc = "updating" => revision \in 1 .. MaxRevision
    /\ release \in [in : {None} \cup (0 .. ReleaseDelay), done : BOOLEAN]

LEMMA BoundsInit == Init => Bounds
<1> SUFFICES ASSUME Init PROVE Bounds
  OBVIOUS
<1>1. Unopened \in Letters
  BY DEF Unopened, Letters
<1>2. Len(queue) = 0 /\ Len(batch) = 0 /\ 0 <= QueueCap /\ 0 \in 0 .. MaxRevision
  BY MatchAssumption DEF Init
<1>3. QED BY <1>1, <1>2 DEF Init, Bounds

\* What a broadcast may put into an inbox.
LEMMA TellLetters ==
    ASSUME Bounds, NEW receivers, NEW letter, Tell(receivers, letter),
           \A x \in Conns : letter[x] \in Letters
    PROVE  inbox' \in [Conns -> Letters]
BY DEF Tell, Bounds

LEMMA NewsLetters ==
    ASSUME Bounds
    PROVE  /\ \A x \in Conns : MatchStart[x] \in Letters
           /\ \A x \in Conns, up \in BOOLEAN : Banner(up)[x] \in Letters
           /\ pc = "updating" => \A x \in Conns : BoardUpdate[x] \in Letters
<1> SUFFICES ASSUME NEW x \in Conns
             PROVE  /\ MatchStart[x] \in Letters
                    /\ \A up \in BOOLEAN : Banner(up)[x] \in Letters
                    /\ pc = "updating" => BoardUpdate[x] \in Letters
  OBVIOUS
<1>1. inbox[x] \in Letters
  BY DEF Bounds
<1>2. MatchStart[x] \in Letters
  BY <1>1 DEF MatchStart, Letters
<1>3. \A up \in BOOLEAN : Banner(up)[x] \in Letters
  BY <1>1 DEF Banner, Letters
<1>4. ASSUME pc = "updating" PROVE BoardUpdate[x] \in Letters
  <2>1. inbox[x].updates \cup {revision} \in SUBSET (1 .. MaxRevision)
    BY <1>1, <1>4 DEF Bounds, Letters
  <2>2. BoardUpdate[x] = [inbox[x] EXCEPT !.updates = @ \cup {revision}]
    BY DEF BoardUpdate
  <2>3. QED BY <1>1, <2>1, <2>2 DEF Letters
<1>5. QED BY <1>2, <1>3, <1>4

LEMMA WelcomeLetters ==
    ASSUME Bounds, NEW x \in Conns, NEW started \in BOOLEAN, Welcome(x, started)
    PROVE  inbox' \in [Conns -> Letters]
<1> DEFINE opened == [inbox EXCEPT ![x].welcome = revision, ![x].started = @ \/ started]
<1>1. ASSUME NEW y \in Conns PROVE opened[y] \in Letters
  BY DEF Bounds, Letters
<1>2. Tell({x}, opened)
  BY DEF Welcome
<1> HIDE DEF opened
<1>3. QED BY <1>1, <1>2, TellLetters

\* A step of a connection's thread that only queues, seats, watches or hears.
LEMMA BoundsConnection ==
    ASSUME Course, Seating, Bounds, NEW x \in Conns, Connection(x) PROVE Bounds'
<1>1. UNCHANGED <<engine, revision, pc, batch, release>>
  BY DEF Connection, Enter, Seat, Greet, StartMatch, Peek, Attach, View, Claim, Reseat, Resume,
         TellReconnected, Enqueue, Disconnect, CountOut, thread, ending
<1>2. watchers' \subseteq Conns /\ early' \subseteq Conns
  BY DEF Connection, Enter, Seat, Greet, StartMatch, Peek, Attach, View, Claim, Reseat, Resume,
         TellReconnected, Enqueue, Disconnect, CountOut, audience, Bounds
<1>3. Len(queue') <= QueueCap
  <2>1. CASE UNCHANGED queue
    BY <2>1 DEF Bounds
  <2>2. ASSUME NEW resign \in BOOLEAN, Enqueue(x, resign) PROVE Len(queue') <= QueueCap
    <3>1. PICK c \in Colors : queue' = Append(queue, [from |-> c, resign |-> resign])
      BY <2>2 DEF Enqueue
    <3>2. queue \in Seq(Command) /\ [from |-> c, resign |-> resign] \in Command
      BY DEF Course, CourseTypes, Command
    <3>3. Len(queue') = Len(queue) + 1 /\ Len(queue) \in Nat
      BY <3>1, <3>2
    <3>4. QED BY <2>2, <3>3, MatchAssumption DEF Enqueue, QueueHasRoom
  <2>3. QED
    BY <2>1, <2>2 DEF Connection, Enter, Seat, Greet, StartMatch, Peek, Attach, View, Claim,
                      Reseat, Resume, TellReconnected, Disconnect, CountOut
<1>4. inbox' \in [Conns -> Letters]
  <2>1. CASE UNCHANGED inbox
    BY <2>1 DEF Bounds
  <2>2. CASE Greet(x) \/ View(x) \/ Resume(x)
    <3>1. (x \notin early) \in BOOLEAN
      OBVIOUS
    <3>2. \E started \in BOOLEAN : Welcome(x, started)
      BY <2>2, <3>1 DEF Greet, View, Resume
    <3>3. QED BY <3>2, WelcomeLetters
  <2>3. CASE StartMatch(x) \/ TellReconnected(x)
    BY <2>3, NewsLetters, TellLetters DEF StartMatch, TellReconnected
  <2>4. CASE Disconnect(x)
    <3>1. Unopened \in Letters
      BY DEF Unopened, Letters
    <3>2. QED BY <2>4, <3>1 DEF Disconnect, Bounds
  <2>5. QED
    BY <2>1, <2>2, <2>3, <2>4 DEF Connection, Enter, Seat, Peek, Attach, Claim, Reseat, Enqueue,
                                  CountOut
<1>5. QED BY <1>1, <1>2, <1>3, <1>4 DEF Bounds

\* The steps of a tick.
LEMMA BoundsTick ==
    ASSUME Course, Seating, Bounds, Tick PROVE Bounds'
<1> USE MatchAssumption
<1>1. UNCHANGED <<watchers, early>>
  BY DEF Tick, TickBegins, Apply, Wait, BroadcastUpdate, AnnounceCapture, AnnounceResignation,
         AdvanceWatch, BroadcastCountdown, Forfeit, ReleaseParticipants, audience
<1>2. CASE TickBegins
  <2>1. /\ batch' = queue /\ queue' = <<>> /\ pc' = "applying" /\ UNCHANGED <<inbox, engine, revision>>
        /\ release' = [release EXCEPT !.in = IF @ \in {None, 0} THEN @ ELSE @ - 1]
    BY <1>2 DEF TickBegins, At
  <2>2. (IF release.in \in {None, 0} THEN release.in ELSE release.in - 1)
            \in {None} \cup (0 .. ReleaseDelay)
    <3>1. CASE release.in \in 1 .. ReleaseDelay
      BY <3>1
    <3>2. CASE release.in \in {None, 0}
      BY <3>2
    <3>3. release.in \in {None, 0} \/ release.in \in 1 .. ReleaseDelay
      BY DEF Bounds
    <3>4. QED BY <3>1, <3>2, <3>3
  <2>3. release' \in [in : {None} \cup (0 .. ReleaseDelay), done : BOOLEAN]
    BY <2>1, <2>2 DEF Bounds
  <2>4. Len(queue') = 0 /\ 0 <= QueueCap
    BY <2>1
  <2>5. QED BY <1>1, <2>1, <2>3, <2>4 DEF Bounds
<1>3. CASE Apply
  <2>1. /\ batch # <<>> /\ batch' = Tail(batch) /\ pc = "applying"
        /\ UNCHANGED <<queue, inbox, revision, pc, release>>
    BY <1>3 DEF Apply
  <2>2. Len(batch') <= QueueCap /\ Head(batch).from \in Colors
    <3>1. batch \in Seq(Command)
      BY DEF Course, CourseTypes
    <3>2. Len(batch') = Len(batch) - 1 /\ Len(batch) \in Nat /\ Head(batch) \in Command
      BY <2>1, <3>1
    <3>3. QED BY <3>2 DEF Bounds, Command
  <2>3. engine' \in [moving : SUBSET Colors, over : BOOLEAN]
    BY <1>3, <2>2 DEF Apply, Bounds
  <2>4. QED BY <1>1, <2>1, <2>2, <2>3 DEF Bounds
<1>4. CASE Wait
  <2>1. UNCHANGED <<queue, batch, inbox, release>> /\ pc = "applying"
    BY <1>4 DEF Wait, ending
  <2>2. CASE pc' = "resigning" /\ UNCHANGED <<engine, revision>>
    BY <1>1, <2>1, <2>2 DEF Bounds
  <2>3. ASSUME NEW arrived \in SUBSET engine.moving, NEW still \in SUBSET engine.moving,
               NEW taking \in SUBSET engine.moving,
               arrived # {} => revision < MaxRevision,
               engine' = [moving |-> still, over |-> taking # {}],
               revision' = IF arrived = {} THEN revision ELSE revision + 1,
               pc' = IF arrived = {} THEN "resigning" ELSE "updating"
        PROVE  Bounds'
    <3>1. engine' \in [moving : SUBSET Colors, over : BOOLEAN]
      BY <2>3 DEF Bounds
    <3>2. revision' \in 0 .. MaxRevision /\ (pc' = "updating" => revision' \in 1 .. MaxRevision)
      BY <2>3 DEF Bounds
    <3>3. QED BY <1>1, <2>1, <3>1, <3>2 DEF Bounds
  <2>4. QED BY <1>4, <2>2, <2>3 DEF Wait
<1>5. CASE BroadcastUpdate
  <2>1. /\ pc = "updating" /\ pc' # "updating" /\ Tell(Roster, BoardUpdate)
        /\ UNCHANGED <<queue, batch, engine, revision, release>>
    BY <1>5 DEF BroadcastUpdate, At, ending
  <2>2. inbox' \in [Conns -> Letters]
    BY <2>1, NewsLetters, TellLetters
  <2>3. QED BY <1>1, <2>1, <2>2 DEF Bounds
<1>6. CASE AnnounceCapture \/ AnnounceResignation \/ AdvanceWatch \/ BroadcastCountdown \/ Forfeit
  <2>1. /\ pc' # "updating" /\ UNCHANGED <<queue, batch, engine, revision, release>>
        /\ UNCHANGED inbox \/ \E up \in BOOLEAN : Tell(Roster, Banner(up))
    BY <1>6 DEF AnnounceCapture, AnnounceResignation, AdvanceWatch, BroadcastCountdown, Forfeit,
                Announce, At, ending
  <2>2. inbox' \in [Conns -> Letters]
    BY <2>1, NewsLetters, TellLetters DEF Bounds
  <2>3. QED BY <1>1, <2>1, <2>2 DEF Bounds
<1>7. CASE ReleaseParticipants
  <2>1. /\ pc' # "updating" /\ UNCHANGED <<queue, batch, engine, revision, inbox>>
        /\ release' = [in |-> ReleaseIn, done |-> release.done \/ ReleaseIn = 0]
    BY <1>7 DEF ReleaseParticipants, At
  <2>2. ReleaseIn \in {None} \cup (0 .. ReleaseDelay)
    BY DEF ReleaseIn, Bounds
  <2>3. QED BY <1>1, <2>1, <2>2 DEF Bounds
<1>8. QED BY <1>2, <1>3, <1>4, <1>5, <1>6, <1>7 DEF Tick

LEMMA BoundsStep == Course /\ Seating /\ Bounds /\ [Next]_vars => Bounds'
<1> SUFFICES ASSUME Course, Seating, Bounds, [Next]_vars PROVE Bounds'
  OBVIOUS
<1>1. CASE Next
  BY <1>1, BoundsTick, BoundsConnection DEF Next
<1>2. CASE UNCHANGED vars
  BY <1>2 DEF vars, audience, thread, ending, Bounds
<1>3. QED BY <1>1, <1>2

\* The types of the state, for any number of connections.
THEOREM TypesHold == Spec => []TypeOK
<1>1. Course /\ Seating /\ Occupancy /\ Bounds => TypeOK
  <2> SUFFICES ASSUME Course, Seating, Occupancy, Bounds PROVE TypeOK
    OBVIOUS
  <2>1. room.connected \in Nat
    BY FS_CardinalityType DEF Occupancy, RoomCounted
  <2>2. room.live \in BOOLEAN /\ room.seatsTaken \in 0 .. 2
    BY DEF Seating, RoomRecord
  <2>3. release.in \in {None} \cup (0 .. ReleaseDelay)
    BY DEF Bounds
  <2>4. QED
    BY <2>1, <2>2, <2>3 DEF TypeOK, Course, CourseTypes, Seating, Bounds
<1>2. Spec => []Bounds
  BY CourseAlways, SeatingAlways, BoundsInit, BoundsStep, PTL DEF Spec
<1>3. QED BY <1>1, <1>2, CourseAlways, SeatingAlways, OccupancyAlways, PTL
=============================================================================
