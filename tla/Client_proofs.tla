---------------------------- MODULE Client_proofs ----------------------------
(***************************************************************************)
(* Which connection the client's screen shows, and what its window's mouse *)
(* callback writes to, and that a verdict stays on screen, for any frame   *)
(* counts and queues.                                                      *)
(***************************************************************************)
EXTENDS Client, TLAPS

\* The link is there exactly while the client waits for a game or plays it over
\* the network, and it is the one dialled for the button pressed last.
Linked ==
    /\ link \in Link \cup {None}
    /\ link # None => networked /\ link.action = asked /\ pc \in {"welcome", "redial", "game", "drawn"}
    /\ pc \in {"welcome", "redial"} => link # None
    /\ networked /\ InGame => link # None

\* Which object each screen leaves the callback on.
Aimed ==
    /\ pc \in Places
    /\ pc \in {"home", "room"} => target = "home"
    /\ pc \in {"login", "welcome", "redial", "refused", "exit"} => target = None
    /\ InGame => target \in {None, "board", "menu"}
    /\ ~networked => pc \in {"game", "drawn", "exit"}

Inv == Linked /\ Aimed
-----------------------------------------------------------------------------
LEMMA InvInit == Init => Inv
BY DEF Init, Inv, Linked, Aimed, Places, InGame

\* Dialogs lead to a screen without a link.
LEMMA Home ==
  ASSUME Inv, UNCHANGED <<networked, asked>>, link' = None,
         \/ pc' = "home" /\ target' = "home" /\ networked
         \/ pc' = "exit" /\ target' = None
         \/ pc' = "refused" /\ target' = None /\ networked
  PROVE  Inv'
BY DEF Inv, Linked, Aimed, Places, InGame

LEMMA DialogsInv ==
  ASSUME Inv, AskLogin \/ LeaveHome \/ MessageSeen
  PROVE  Inv'
<1>1. pc \in {"login", "home", "refused", "gaveup"} /\ link = None /\ networked
  BY DEF AskLogin, LeaveHome, MessageSeen, Inv, Linked, Aimed
<1>2. /\ UNCHANGED <<networked, asked>> /\ link' = None
      /\ \/ pc' = "home" /\ target' = "home"
         \/ pc' = "exit" /\ target' = None
  BY <1>1 DEF AskLogin, LeaveHome, MessageSeen, GoHome, Exit
<1>3. QED BY <1>1, <1>2, Home

\* No link is left when a game is asked for, so a new one is dialled.
LEMMA ConnectInv ==
  ASSUME Inv, pc \in {"home", "room"}, NEW action \in Actions, Connect(action)
  PROVE  Inv'
<1>1. link = None /\ networked
  BY DEF Inv, Linked, Aimed
<1>2. /\ link' = NewLink(action) /\ pc' = "welcome" /\ target' = None /\ asked' = action
      /\ networked' = networked
  BY <1>1 DEF Connect, Detached
<1>3. link' \in Link /\ link'.action = action
  <2>1. NewLink(action) \in Link
    BY DEF NewLink, Link, Answers
  <2>2. QED BY <1>2, <2>1 DEF NewLink
<1>4. QED BY <1>1, <1>2, <1>3, NoneAssumption DEF Inv, Linked, Aimed, Places, InGame

LEMMA RoomInv ==
  ASSUME Inv, HomeButton \/ AskRoom
  PROVE  Inv'
<1>1. pc \in {"home", "room"} /\ link = None /\ networked /\ target = "home"
  BY DEF HomeButton, AskRoom, Inv, Linked, Aimed
<1>2. CASE \E action \in Actions : Connect(action)
  BY <1>1, <1>2, ConnectInv
<1>3. CASE pc' \in {"home", "room"} /\ UNCHANGED <<networked, target, asked, link>>
  BY <1>1, <1>3 DEF Inv, Linked, Aimed, Places, InGame
<1>4. (\E action \in Actions : Connect(action))
      \/ (pc' \in {"home", "room"} /\ UNCHANGED <<networked, target, asked, link>>)
  BY DEF HomeButton, AskRoom, Actions
<1>5. QED BY <1>2, <1>3, <1>4
-----------------------------------------------------------------------------
\* The socket thread changes what it brought, never whose link it is.
LEMMA SocketInv ==
  ASSUME Inv, \/ SocketOpens \/ SocketCloses
              \/ \E kind \in Answers : Answer(kind)
              \/ \E message \in Messages : Receive(message)
  PROVE  Inv'
<1>1. UNCHANGED <<networked, pc, target, asked>> /\ link \in Link /\ link # None
  BY DEF SocketOpens, SocketCloses, Answer, Receive, LinkChanges, Inv, Linked
<1>2. link' \in Link /\ link'.action = link.action
  <2>1. CASE SocketOpens \/ SocketCloses
    BY <1>1, <2>1 DEF SocketOpens, SocketCloses, Link
  <2>2. ASSUME NEW kind \in Answers, Answer(kind)
        PROVE  link' \in Link /\ link'.action = link.action
    <3>1. PICK slot : slot = {kind} \cup (IF kind \in Welcomes THEN link.slot \ Welcomes ELSE link.slot)
      OBVIOUS
    <3>2. slot \in SUBSET Answers
      BY <1>1, <3>1 DEF Link
    <3>3. link' = [link EXCEPT !.answer = kind, !.slot = slot]
      BY <2>2, <3>1 DEF Answer
    <3>4. QED BY <1>1, <3>2, <3>3 DEF Link
  <2>3. ASSUME NEW message \in Messages, Receive(message)
        PROVE  link' \in Link /\ link'.action = link.action
    <3>1. PICK queue : queue = Append(link.queue, message)
      OBVIOUS
    <3>2. queue \in Seq(Messages)
      BY <1>1, <3>1 DEF Link
    <3>3. link' = [link EXCEPT !.queue = queue]
      BY <2>3, <3>1 DEF Receive
    <3>4. QED BY <1>1, <3>2, <3>3 DEF Link
  <2>4. QED BY <2>1, <2>2, <2>3
<1>3. QED BY <1>1, <1>2, NoneAssumption DEF Inv, Linked, Aimed, Places, InGame

LEMMA WelcomeInv ==
  ASSUME Inv, WaitForWelcome
  PROVE  Inv'
<1>1. pc \in {"welcome", "redial"} /\ link \in Link /\ link # None /\ networked /\ target = None
  BY DEF WaitForWelcome, TakeRedirect, Redial, TakeFailure, TakeWelcome, NobodyAnswers,
         Inv, Linked, Aimed
<1>2. CASE Refused
  BY <1>1, <1>2, Home DEF Refused
<1>3. CASE ~Refused
  <2>1. /\ link' \in Link /\ link'.action = link.action
        /\ pc' \in {"welcome", "redial", "game"} /\ UNCHANGED <<networked, asked>>
        /\ IF pc' = "game" THEN target' \in {None, "board"} ELSE target' = None
    <3>1. CASE TakeRedirect
      <4>1. PICK slot : slot = link.slot \ {"redirect"}
        OBVIOUS
      <4>2. slot \in SUBSET Answers
        BY <1>1, <4>1 DEF Link
      <4>3. link' = [link EXCEPT !.slot = slot]
        BY <1>3, <3>1, <4>1 DEF TakeRedirect
      <4>4. link' \in Link /\ link'.action = link.action
        BY <1>1, <4>2, <4>3 DEF Link
      <4>5. QED BY <1>1, <1>3, <3>1, <4>4 DEF TakeRedirect
    <3>2. CASE Redial
      BY <1>1, <3>2 DEF Redial, Link
    <3>3. CASE TakeWelcome
      <4>0. ("watch" \in link.slot) \in BOOLEAN
        OBVIOUS
      <4>1. PICK watching \in BOOLEAN : watching = ("watch" \in link.slot)
        BY ONLY <4>0, Zenon
      <4>2. link' = [link EXCEPT !.slot = {}, !.spectator = watching]
        BY <3>3, <4>1 DEF TakeWelcome
      <4>3. link' \in Link /\ link'.action = link.action
        BY <1>1, <4>2 DEF Link
      <4>4. /\ pc' = "game" /\ UNCHANGED <<networked, asked>>
            /\ target' = IF watching THEN None ELSE "board"
        BY <3>3, <4>1 DEF TakeWelcome, StartGame, Detached
      <4>5. QED BY <4>3, <4>4
    <3>4. QED BY <1>3, <3>1, <3>2, <3>3 DEF WaitForWelcome, TakeFailure, NobodyAnswers
  <2>2. QED BY <1>1, <2>1, NoneAssumption DEF Inv, Linked, Aimed, Places, InGame
<1>4. QED BY <1>2, <1>3
-----------------------------------------------------------------------------
\* Frames.
LEMMA NetworkedFrameInv ==
  ASSUME Inv, NetworkedFrame
  PROVE  Inv'
<1>1. pc = "game" /\ networked /\ link \in Link /\ link # None /\ target \in {None, "board", "menu"}
      /\ UNCHANGED <<networked, asked>>
  BY DEF NetworkedFrame, Inv, Linked, Aimed, InGame
<1>2. CASE pc' = "gaveup" /\ link' = None
  BY <1>1, <1>2 DEF Inv, Linked, Aimed, Places, InGame
<1>3. CASE pc' = "drawn" /\ link' = Drained(link) /\ target' \in {"menu", target}
  <2>1. Drained(link) \in Link /\ Drained(link).action = link.action
    <3>1. PICK begun \in BOOLEAN : begun = (link.started \/ Contains(link.queue, "start"))
      BY <1>1 DEF Link
    <3>2. Drained(link) = [link EXCEPT !.queue = <<>>, !.started = begun]
      BY <3>1 DEF Drained
    <3>3. <<>> \in Seq(Messages)
      OBVIOUS
    <3>4. [link EXCEPT !.queue = <<>>, !.started = begun] \in Link
      BY <1>1, <3>3 DEF Link
    <3>5. [link EXCEPT !.queue = <<>>, !.started = begun].action = link.action
      BY <1>1 DEF Link
    <3>6. QED BY <3>2, <3>4, <3>5
  <2>2. QED BY <1>1, <1>3, <2>1, NoneAssumption DEF Inv, Linked, Aimed, Places, InGame
<1>4. QED BY <1>2, <1>3 DEF NetworkedFrame, HungUp

LEMMA FramesInv ==
  ASSUME Inv, LocalFrame \/ LeaveGame \/ FrameEnds
  PROVE  Inv'
<1>1. UNCHANGED <<networked, asked>>
  BY DEF LocalFrame, LeaveGame, FrameEnds
<1>2. CASE LocalFrame
  BY <1>2 DEF LocalFrame, Inv, Linked, Aimed, Places, InGame
<1>3. CASE LeaveGame
  BY <1>1, <1>3, Home DEF LeaveGame, Exit
<1>4. CASE FrameEnds
  <2>1. CASE networked /\ GoHome /\ link' = None
    BY <1>1, <2>1, Home DEF GoHome
  <2>2. CASE pc = "drawn" /\ pc' = "game" /\ UNCHANGED <<target, link>>
    BY <1>1, <2>2 DEF Inv, Linked, Aimed, Places, InGame
  <2>3. QED BY <1>4, <2>1, <2>2 DEF FrameEnds, HungUp, MenuShown
<1>5. QED BY <1>2, <1>3, <1>4

\* Nothing but the box of a failed search has a freed view under the mouse.
LEMMA MouseInv ==
  ASSUME Inv, (\E button \in Buttons : RecordClick(button)) \/ ClickOnFreedView \/ Over
              \/ UNCHANGED vars
  PROVE  Inv'
<1>1. CASE ClickOnFreedView
  <2>1. pc \notin {"welcome", "redial", "game", "drawn"}
    BY <1>1 DEF ClickOnFreedView, Pumping, Alive, Inv, Linked, Aimed, InGame
  <2>2. QED BY <1>1, <2>1, Home DEF ClickOnFreedView, Inv, Linked
<1>2. CASE ~ClickOnFreedView
  <2>1. UNCHANGED <<networked, pc, target, asked, link>>
    BY <1>2 DEF RecordClick, Over, vars
  <2>2. QED BY <2>1 DEF Inv, Linked, Aimed, Places, InGame
<1>3. QED BY <1>1, <1>2

LEMMA InvNext == Inv /\ [Next]_vars => Inv'
BY DialogsInv, RoomInv, SocketInv, WelcomeInv, NetworkedFrameInv, FramesInv, MouseInv DEF Next
-----------------------------------------------------------------------------
\* The inductive invariant of the client: one link per game asked for, and a
\* callback that each screen aims anew.
THEOREM ClientInvariant == Spec => []Inv
BY InvInit, InvNext, PTL DEF Spec

\* GameSession::connect finds no link left over from the game before, so the
\* game on screen is always the one asked for last.
THEOREM AskedForGame == Spec => []GameIsTheOneAskedFor
<1>1. Inv => GameIsTheOneAskedFor
  BY DEF Inv, Linked, GameIsTheOneAskedFor
<1>2. QED BY <1>1, ClientInvariant, PTL

\* Whatever runs the window's callbacks runs them on an object that still
\* exists, the box of a failed search apart.
THEOREM ClicksLive == Spec => []ClicksHitLiveObjects
<1>1. Inv => ClicksHitLiveObjects
  BY NoneAssumption DEF Inv, Linked, Aimed, ClicksHitLiveObjects, Pumping, Alive, InGame
<1>2. QED BY <1>1, ClientInvariant, PTL
-----------------------------------------------------------------------------
\* The overlay, and the fold of the messages of a frame over it.

Overlay == [started : BOOLEAN, ended : BOOLEAN, countdown : BOOLEAN, age : 0 .. IntroFrames]
Ended == {o \in Overlay : o.ended}

Largest(s) == CHOOSE x \in s : \A y \in s : x >= y
Hearing(message, o) == Heard(o, message)
Hear == INSTANCE FoldTheorems WITH Op <- Hearing, Pick <- Largest

LEMMA FoldsByIndex ==
    /\ Hear!PicksMax
    /\ \A o, s : FoldLeft(Heard, o, s) = Hear!FoldSequence(o, s)
<1>1. Hear!PicksMax
  BY DEF Hear!PicksMax, Largest
<1>2. ASSUME NEW o, NEW s PROVE FoldLeft(Heard, o, s) = Hear!FoldSequence(o, s)
  BY DEF FoldLeft, MapThenFoldSet, Max, Hear!FoldSequence, Hear!Fold, Hear!MapThenFoldSet,
         Hearing, Largest
<1>3. QED BY <1>1, <1>2

\* No message takes an ending back.
LEMMA HeardKeeps ==
  ASSUME NEW o \in Overlay, NEW message \in Messages
  PROVE  Heard(o, message) \in Overlay /\ (o.ended => Heard(o, message) \in Ended)
<1>1. 0 \in 0 .. IntroFrames
  BY BoundsAssumption
<1>2. CASE message = "start"
  BY <1>1, <1>2 DEF Heard, Overlay, Ended
<1>3. CASE message = "over"
  BY <1>3 DEF Heard, Overlay, Ended
<1>4. CASE message = "countdown"
  BY <1>4 DEF Heard, Overlay, Ended
<1>5. CASE message = "returned"
  BY <1>5 DEF Heard, Overlay, Ended
<1>6. QED BY <1>2, <1>3, <1>4, <1>5 DEF Messages

LEMMA OlderKeeps ==
  ASSUME NEW o \in Overlay
  PROVE  Older(o) \in Overlay /\ (o.ended => Older(o) \in Ended)
<1>1. CASE o.started /\ o.age < IntroFrames
  <2>1. o.age + 1 \in 0 .. IntroFrames
    BY <1>1, BoundsAssumption DEF Overlay
  <2>2. QED BY <1>1, <2>1 DEF Older, Overlay, Ended
<1>2. CASE ~(o.started /\ o.age < IntroFrames)
  BY <1>2 DEF Older, Ended
<1>3. QED BY <1>1, <1>2

\* Nor does a frame, whatever is in its queue.
LEMMA UpdatedKeeps ==
  ASSUME NEW o \in Overlay, NEW l \in Link
  PROVE  Updated(o, l) \in Overlay /\ (o.ended => Updated(o, l) \in Ended)
<1>1. l.queue \in Seq(Messages) /\ \A i \in DOMAIN l.queue : l.queue[i] \in Messages
  BY DEF Link
<1>2. Updated(o, l) = Hear!FoldSequence(Older(o), l.queue)
  BY FoldsByIndex DEF Updated
<1>3. Updated(o, l) \in Overlay
  <2>1. \A b \in Overlay, i \in DOMAIN l.queue : Hearing(l.queue[i], b) \in Overlay
    BY <1>1, HeardKeeps DEF Hearing
  <2>2. QED BY <1>1, <1>2, <2>1, OlderKeeps, FoldsByIndex, Hear!FoldStays
<1>4. o.ended => Updated(o, l) \in Ended
  <2>1. \A b \in Ended, i \in DOMAIN l.queue : Hearing(l.queue[i], b) \in Ended
    BY <1>1, HeardKeeps DEF Hearing, Ended
  <2>2. QED BY <1>1, <1>2, <2>1, OlderKeeps, FoldsByIndex, Hear!FoldStays
<1>5. QED BY <1>3, <1>4

-----------------------------------------------------------------------------
\* The verdict on screen.

\* Every step of a game is a frame, the end of one, or leaves the overlay alone.
LEMMA OverlaySteps ==
  ASSUME Inv, [Next]_vars
  PROVE  \/ NetworkedFrame \/ LocalFrame
         \/ overlay' = NewOverlay /\ ~InGame
         \/ overlay' = overlay
<1>1. CASE AskLogin \/ LeaveHome \/ MessageSeen
  BY <1>1 DEF AskLogin, LeaveHome, MessageSeen
<1>2. CASE HomeButton \/ AskRoom
  <2>1. pc \in {"home", "room"}
    BY <1>2 DEF HomeButton, AskRoom
  <2>2. (\E action \in Actions : Connect(action)) \/ UNCHANGED overlay
    BY <1>2 DEF HomeButton, AskRoom, Actions
  <2>3. QED BY <2>1, <2>2 DEF Connect, StartGame, InGame
<1>3. CASE \/ SocketOpens \/ SocketCloses \/ \E kind \in Answers : Answer(kind)
           \/ \E message \in Messages : Receive(message)
  BY <1>3 DEF SocketOpens, SocketCloses, Answer, Receive, LinkChanges
<1>4. CASE WaitForWelcome
  BY <1>4 DEF WaitForWelcome, TakeRedirect, Redial, TakeFailure, TakeWelcome, NobodyAnswers,
              Refused, StartGame, InGame
<1>5. CASE LeaveGame \/ FrameEnds \/ (\E button \in Buttons : RecordClick(button))
           \/ ClickOnFreedView \/ Over \/ UNCHANGED vars
  BY <1>5 DEF LeaveGame, FrameEnds, RecordClick, ClickOnFreedView, Over, vars
<1>6. QED BY <1>1, <1>2, <1>3, <1>4, <1>5 DEF Next

OverlayTyped == overlay \in Overlay

LEMMA OverlayInit == Init => OverlayTyped
<1>1. 0 \in 0 .. IntroFrames
  BY BoundsAssumption
<1>2. QED BY <1>1 DEF Init, NewOverlay, Overlay, OverlayTyped

LEMMA OverlayStep == Inv /\ OverlayTyped /\ [Next]_vars => OverlayTyped'
<1> SUFFICES ASSUME Inv, overlay \in Overlay, [Next]_vars PROVE overlay' \in Overlay
  BY DEF OverlayTyped
<1>1. 0 \in 0 .. IntroFrames
  BY BoundsAssumption
<1>2. CASE NetworkedFrame
  <2>1. link \in Link /\ overlay' = Updated(overlay, link)
    BY <1>2 DEF NetworkedFrame, Inv, Linked, InGame
  <2>2. QED BY <2>1, UpdatedKeeps
<1>3. CASE LocalFrame
  BY <1>3, OlderKeeps, HeardKeeps DEF LocalFrame, Messages
<1>4. CASE overlay' = NewOverlay
  BY <1>1, <1>4 DEF NewOverlay, Overlay
<1>5. QED BY <1>2, <1>3, <1>4, OverlaySteps

\* What is shown while a match has an ending to show.
LEMMA MenuMeans == MenuShown <=> networked /\ link.started /\ overlay.ended
BY DEF MenuShown, Banner, Searching

\* During a game the link keeps what it knows of the start.
LEMMA StartIsKept ==
  ASSUME Inv, [Next]_vars, networked, InGame, InGame', link.started
  PROVE  link'.started /\ networked'
<1>1. link \in Link /\ pc \in {"game", "drawn"} /\ pc' \in {"game", "drawn"}
  BY DEF Inv, Linked, InGame
<1>2. CASE AskLogin \/ LeaveHome \/ MessageSeen
           \/ HomeButton \/ AskRoom \/ WaitForWelcome
  BY <1>1, <1>2 DEF AskLogin, LeaveHome, MessageSeen,
     HomeButton, AskRoom, WaitForWelcome, TakeRedirect, Redial, TakeFailure,
     TakeWelcome, NobodyAnswers
<1>3. CASE \/ SocketOpens \/ SocketCloses \/ \E kind \in Answers : Answer(kind)
           \/ \E message \in Messages : Receive(message)
  BY <1>1, <1>3 DEF SocketOpens, SocketCloses, Answer, Receive, LinkChanges, Link
<1>4. CASE NetworkedFrame
  <2>1. link' = Drained(link) /\ networked' = networked
    BY <1>1, <1>4 DEF NetworkedFrame
  <2>2. Drained(link).started
    BY <1>1 DEF Drained, Link
  <2>3. QED BY <2>1, <2>2
<1>5. CASE LocalFrame \/ LeaveGame \/ FrameEnds \/ (\E button \in Buttons : RecordClick(button))
           \/ ClickOnFreedView \/ Over \/ UNCHANGED vars
  BY <1>1, <1>5 DEF LocalFrame, LeaveGame, Exit, FrameEnds, GoHome, RecordClick,
                    ClickOnFreedView, Over, vars
<1>6. QED BY <1>2, <1>3, <1>4, <1>5 DEF Next

LEMMA VerdictStep ==
  ASSUME Inv, overlay \in Overlay, [Next]_vars, InGame, InGame', MenuShown
  PROVE  MenuShown'
<1>1. networked /\ link.started /\ overlay.ended
  BY MenuMeans
<1>2. networked' /\ link'.started
  BY <1>1, StartIsKept
<1>3. overlay'.ended
  <2>1. CASE NetworkedFrame
    <3>1. link \in Link /\ overlay' = Updated(overlay, link)
      BY <2>1 DEF NetworkedFrame, Inv, Linked, InGame
    <3>2. QED BY <1>1, <3>1, UpdatedKeeps DEF Ended
  <2>2. ~LocalFrame
    BY <1>1 DEF LocalFrame
  <2>3. QED BY <1>1, <2>1, <2>2, OverlaySteps
<1>4. QED BY <1>2, <1>3 DEF MenuShown, Banner, Searching

\* GameOver outranks a countdown: no message and no frame takes the verdict and
\* its MENU button off the screen of the game it ended (match_overlay.cpp:35).
THEOREM VerdictIsKept == Spec => VerdictStays
<1> DEFINE Stays == InGame /\ InGame' /\ MenuShown => MenuShown'
<1>1. Inv /\ OverlayTyped /\ [Next]_vars => [Stays]_vars
  BY VerdictStep DEF OverlayTyped
<1>2. QED
  BY <1>1, OverlayInit, OverlayStep, ClientInvariant, PTL DEF Spec, VerdictStays
=============================================================================
