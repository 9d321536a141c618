------------------------------- MODULE Client -------------------------------
(***************************************************************************)
(* One kfc_gui_app process: its main thread (login dialog, home screen,    *)
(* room dialog, connect, frame loop, message boxes), the socket thread of  *)
(* its ServerLink, the overlay fed by the link's events, and the mouse     *)
(* callback of the window.  User, network and server are the environment.  *)
(*                                                                         *)
(* pc names where the main thread is; a modal dialog is a place of its own.*)
(* "drawn" is the part of a frame in which waitKey runs callbacks.  What a *)
(* click and an update do to the mirrored board is in Mirror.              *)
(***************************************************************************)
EXTENDS Naturals, Sequences, SequencesExt

CONSTANTS
    None,
    SearchFrames,  \* frames in kSearchTimeoutMs
    IntroFrames,   \* frames in intro_duration_ms_
    QueueBound     \* bound: messages between two frames

ASSUME BoundsAssumption ==
    {SearchFrames, IntroFrames, QueueBound} \subseteq Nat \ {0}

VARIABLES
    networked,  \* --server was given
    pc,         \* where the main thread is
    target,     \* what the window's mouse callback writes to
    click,      \* HomeClick or MenuClick: the button recorded, or None
    asked,      \* the seating action chosen last on the home screen
    link,       \* GameSession::server_link_, or None
    overlay,    \* MatchOverlay
    frames      \* frames since the game began, up to SearchFrames + 1

vars == <<networked, pc, target, click, asked, link, overlay, frames>>

Places == {"login", "home", "room", "welcome", "redial", "refused", "game",
           "drawn", "gaveup", "exit"}
Actions == {"Play", "Create", "Join"}
Welcomes == {"seat", "watch"}       \* Welcome to a player, to a spectator
Answers == Welcomes \cup {"failure", "redirect"}
Messages == {"start", "over", "countdown", "returned"}
Buttons == {"play", "room", "menu", "elsewhere"}

\* Where the main thread runs the window's callbacks.
Pumping == {"login", "home", "room", "drawn", "refused", "gaveup"}
InGame == pc \in {"game", "drawn"}

NewOverlay == [started |-> FALSE, ended |-> FALSE, countdown |-> FALSE, age |-> 0]

\* up: the socket is open and Login and the seating action were sent on it.
\* answer: what the server answered on it.  slot: pending_welcome_,
\* join_failure_ and pending_redirect_url_.  queue: incoming_queue_.
NewLink(action) ==
    [action |-> action, attempt |-> 0, up |-> FALSE, answer |-> None, slot |-> {},
     queue |-> <<>>, spectator |-> FALSE, started |-> FALSE]

Link == [action : Actions, attempt : {0, 1}, up : BOOLEAN, answer : Answers \cup {None},
         slot : SUBSET Answers, queue : Seq(Messages), spectator : BOOLEAN,
         started : BOOLEAN]

ASSUME NoneAssumption == None \notin Link \cup {"home", "board", "menu"}

Init ==
    /\ networked \in BOOLEAN
    /\ pc = IF networked THEN "login" ELSE "game"
    /\ target = IF networked THEN None ELSE "board"
    /\ click = None /\ asked = None /\ link = None
    /\ overlay = NewOverlay /\ frames = 0
-----------------------------------------------------------------------------
\* Dialogs.

Exit == pc' = "exit" /\ target' = None /\ click' = None /\ link' = None

\* run_home_screen installs its own callback over whatever was there.
GoHome == pc' = "home" /\ target' = "home" /\ click' = None

\* Login or Cancel.  What was typed, on either back end, is sent like anything
\* else, an empty name included.
AskLogin ==
    /\ pc = "login"
    /\ GoHome \/ Exit
    /\ UNCHANGED <<networked, asked, link, overlay, frames>>

Mutant_Detached == "home"
\* finish() of run_home_screen takes the callback off its local.
Detached == None

StartGame(spectator) ==
    /\ pc' = "game"
    /\ target' = IF spectator THEN Detached ELSE "board"
    /\ click' = None
    /\ overlay' = NewOverlay
    /\ frames' = 0

\* GameSession::connect dials out only when no link is left.
Connect(action) ==
    /\ asked' = action
    /\ IF link # None
       THEN StartGame(link.spectator) /\ UNCHANGED link
       ELSE /\ link' = NewLink(action)
            /\ pc' = "welcome"
            /\ target' = Detached
            /\ click' = None
            /\ UNCHANGED <<overlay, frames>>
    /\ UNCHANGED networked

\* Esc, or the window was closed.
LeaveHome ==
    /\ pc = "home"
    /\ Exit
    /\ UNCHANGED <<networked, asked, overlay, frames>>

\* The click recorded last, during an earlier room dialog too.
HomeButton ==
    /\ pc = "home" /\ click # None
    /\ \/ click = "play" /\ Connect("Play")
       \/ /\ click # "play"
          /\ pc' = IF click = "room" THEN "room" ELSE "home"
          /\ click' = None
          /\ UNCHANGED <<networked, target, asked, link, overlay, frames>>

\* Create, Join with an id, or anything else (Cancel, Esc, no id, the window
\* closed), which stays on the home screen.
AskRoom ==
    /\ pc = "room"
    /\ \/ Connect("Create")
       \/ Connect("Join")
       \/ /\ pc' = "home"
          /\ UNCHANGED <<networked, target, click, asked, link, overlay, frames>>

\* show_message ends with any key or with its window closed.
MessageSeen ==
    /\ pc \in {"refused", "gaveup"}
    /\ GoHome
    /\ UNCHANGED <<networked, asked, link, overlay, frames>>
-----------------------------------------------------------------------------
\* The socket thread and the server.

LinkChanges ==
    UNCHANGED <<networked, pc, target, click, asked, overlay, frames>>

\* Open, the first time or by IXWebSocket's automatic reconnection: Login and
\* the seating action are sent (again).
SocketOpens ==
    /\ link # None /\ ~link.up
    /\ link' = [link EXCEPT !.up = TRUE, !.answer = None]
    /\ LinkChanges

SocketCloses ==
    /\ link # None /\ link.up
    /\ link' = [link EXCEPT !.up = FALSE]
    /\ LinkChanges

\* on_message, for what goes into the slot.  Only Join can redirect or make a
\* spectator.
Answer(kind) ==
    /\ link # None /\ link.up /\ link.answer = None
    /\ kind \in {"watch", "redirect"} => link.action = "Join"
    /\ link' = [link EXCEPT !.answer = kind,
                    !.slot = {kind} \cup (IF kind \in Welcomes THEN @ \ Welcomes ELSE @)]
    /\ LinkChanges

\* on_message, for what waits for the next frame.
Receive(message) ==
    /\ link # None /\ link.up /\ link.answer \in Welcomes
    /\ Len(link.queue) < QueueBound
    /\ link' = [link EXCEPT !.queue = Append(@, message)]
    /\ LinkChanges
-----------------------------------------------------------------------------
\* ServerLink::wait_for_welcome, on the main thread.

\* The link is dropped with the failed attempt.
Refused ==
    /\ pc' = "refused" /\ link' = None
    /\ UNCHANGED <<networked, target, click, asked, overlay, frames>>

\* The slot is taken under the lock; the socket is stopped after unlocking.
TakeRedirect ==
    /\ pc = "welcome" /\ "redirect" \in link.slot
    /\ \/ link.attempt = 1 /\ Refused
       \/ /\ link.attempt = 0
          /\ pc' = "redial"
          /\ link' = [link EXCEPT !.slot = @ \ {"redirect"}]
          /\ UNCHANGED <<networked, target, click, asked, overlay, frames>>

Redial ==
    /\ pc = "redial"
    /\ pc' = "welcome"
    /\ link' = [link EXCEPT !.attempt = 1, !.up = FALSE, !.answer = None]
    /\ UNCHANGED <<networked, target, click, asked, overlay, frames>>

TakeFailure ==
    /\ pc = "welcome" /\ link.slot \cap {"failure", "redirect"} = {"failure"}
    /\ Refused

TakeWelcome ==
    /\ pc = "welcome" /\ link.slot # {} /\ link.slot \subseteq Welcomes
    /\ link' = [link EXCEPT !.slot = {}, !.spectator = "watch" \in link.slot]
    /\ StartGame("watch" \in link.slot)
    /\ UNCHANGED <<networked, asked>>

NobodyAnswers == pc = "welcome" /\ link.slot = {} /\ Refused

WaitForWelcome == TakeRedirect \/ Redial \/ TakeFailure \/ TakeWelcome \/ NobodyAnswers
-----------------------------------------------------------------------------
\* The frame loop.

\* MatchOverlay's subscriptions.
Heard(o, message) ==
    CASE message = "start" -> [o EXCEPT !.started = TRUE, !.age = 0]
      [] message = "over" -> [o EXCEPT !.ended = TRUE, !.countdown = FALSE]
      [] message = "countdown" -> [o EXCEPT !.countdown = TRUE]
      [] message = "returned" -> [o EXCEPT !.countdown = FALSE]

Mutant_Banner(searching, o) ==
    IF searching THEN "Searching"
    ELSE IF o.countdown THEN "Countdown"
    ELSE IF o.ended THEN "GameOver"
    ELSE IF o.started /\ o.age < IntroFrames THEN "Intro"
    ELSE "None"

\* MatchOverlay::current.
Banner(searching, o) ==
    IF searching THEN "Searching"
    ELSE IF o.ended THEN "GameOver"
    ELSE IF o.countdown THEN "Countdown"
    ELSE IF o.started /\ o.age < IntroFrames THEN "Intro"
    ELSE "None"

Searching(l) == networked /\ ~l.started

Mutant_GivesUp(l) == Searching(l) /\ frames > SearchFrames + 1
GivesUp(l) == Searching(l) /\ frames > SearchFrames

\* wait() swaps the queue out and publishes its messages in order.
Drained(l) ==
    [l EXCEPT !.queue = <<>>, !.started = @ \/ Contains(l.queue, "start")]
Older(o) == IF o.started /\ o.age < IntroFrames THEN [o EXCEPT !.age = @ + 1] ELSE o
Updated(o, l) == FoldLeft(Heard, Older(o), l.queue)

Mutant_HungUp(l) == l
\* GameSession::disconnect joins the socket thread and closes the connection.
HungUp(l) == None

\* One frame up to imshow: wait, the search timeout, the overlay, MENU.
NetworkedFrame ==
    /\ pc = "game" /\ networked
    /\ frames' = IF link.started \/ frames > SearchFrames THEN frames ELSE frames + 1
    /\ overlay' = Updated(overlay, link)
    /\ IF GivesUp(Drained(link))
       THEN pc' = "gaveup" /\ link' = HungUp(link) /\ UNCHANGED <<target, click>>
       ELSE /\ pc' = "drawn"
            /\ link' = Drained(link)
            /\ target' = IF Banner(Searching(link'), overlay') = "GameOver"
                         THEN "menu" ELSE target
            /\ UNCHANGED click
    /\ UNCHANGED <<networked, asked>>

\* Play on one machine: Game::wait tells of the start once and of the end when
\* it comes; no search, no MENU.
LocalFrame ==
    LET begun == IF overlay.started THEN Older(overlay) ELSE Heard(overlay, "start")
    IN  /\ pc = "game" /\ ~networked
        /\ pc' = "drawn"
        /\ overlay' \in {begun, Heard(begun, "over")}
        /\ UNCHANGED <<networked, target, click, asked, link, frames>>

\* The window is closed or a key is pressed: the process ends.
LeaveGame ==
    /\ pc = "drawn"
    /\ Exit
    /\ UNCHANGED <<networked, asked, overlay, frames>>

MenuShown == networked /\ Banner(Searching(link), overlay) = "GameOver"

\* The click recorded for MENU is looked at last.
FrameEnds ==
    /\ pc = "drawn"
    /\ IF MenuShown /\ click = "menu"
       THEN GoHome /\ link' = HungUp(link)
       ELSE /\ pc' = "game"
            /\ click' = IF MenuShown THEN None ELSE click
            /\ UNCHANGED <<target, link>>
    /\ UNCHANGED <<networked, asked, overlay, frames>>
-----------------------------------------------------------------------------
\* The mouse.

Alive(object) ==
    CASE object = None -> TRUE
      [] object = "home" -> pc \in {"home", "room"}
      [] object = "menu" -> InGame
      [] object = "board" -> InGame /\ (networked => link # None)

RecordClick(button) ==
    /\ pc \in Pumping /\ target \in {"home", "menu"}
    /\ click' = button
    /\ UNCHANGED <<networked, pc, target, asked, link, overlay, frames>>

\* MouseInputAdapter calls a view that is gone: it may do nothing or crash.
ClickOnFreedView ==
    /\ pc \in Pumping /\ target = "board" /\ ~Alive(target)
    /\ pc' = "exit" /\ target' = None
    /\ UNCHANGED <<networked, click, asked, link, overlay, frames>>

Over == pc = "exit" /\ UNCHANGED vars

Next ==
    \/ AskLogin \/ LeaveHome \/ HomeButton \/ AskRoom \/ MessageSeen
    \/ SocketOpens \/ SocketCloses
    \/ \E kind \in Answers : Answer(kind)
    \/ \E message \in Messages : Receive(message)
    \/ WaitForWelcome
    \/ NetworkedFrame \/ LocalFrame \/ LeaveGame \/ FrameEnds
    \/ \E button \in Buttons : RecordClick(button)
    \/ ClickOnFreedView
    \/ Over

\* wait_for returns after its timeout, and the frame loop never blocks.
Fairness ==
    /\ WF_vars(WaitForWelcome)
    /\ WF_vars(NetworkedFrame)
    /\ WF_vars(FrameEnds)

Spec == Init /\ [][Next]_vars
FairSpec == Spec /\ Fairness
-----------------------------------------------------------------------------
\* Properties.

\* Types of the state.
TypeOK ==
    /\ networked \in BOOLEAN
    /\ pc \in Places
    /\ target \in {None, "home", "board", "menu"}
    /\ click \in Buttons \cup {None}
    /\ asked \in Actions \cup {None}
    /\ link \in Link \cup {None}
    /\ overlay \in [started : BOOLEAN, ended : BOOLEAN, countdown : BOOLEAN,
                    age : 0 .. IntroFrames]
    /\ frames \in 0 .. SearchFrames + 1

\* "Detaches the callback from `click` (a local) before returning"
\* (home_screen.cpp:51): whenever callbacks can run, the window's points at an
\* object that exists, on every path out of every screen, except in the box that
\* tells of a failed search, where disconnect() has already freed the view
\* (main.cpp:333).
ClicksHitLiveObjects == pc \in Pumping /\ pc # "gaveup" => Alive(target)

\* "gives the seat back so the next connect() actually dials out" (main.cpp:328):
\* the game on screen is the one asked for last, on a connection of its own,
\* and between two games the server holds nothing of this client.
GameIsTheOneAskedFor ==
    /\ networked /\ InGame => link # None /\ link.action = asked
    /\ link # None => pc \in {"welcome", "redial", "game", "drawn"}

\* GameOver outranks a countdown and is not taken back by a message that comes
\* late: the button that leads back to the menu does not go away again.
VerdictStays ==
    [][InGame /\ InGame' /\ MenuShown => MenuShown']_vars

Waiting == pc \in {"welcome", "redial"} \/ (InGame /\ networked /\ ~link.started)

\* A client that waits for the server or for an opponent gets an answer or stops
\* waiting, whatever the network and the server do or leave undone.
WaitingEnds == Waiting ~> ~Waiting
=============================================================================
