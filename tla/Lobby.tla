------------------------------- MODULE Lobby -------------------------------
(***************************************************************************)
(* The server's way in and out of a game: a connection's session, the      *)
(* registry of accounts that are logged in, the rooms with their waiting   *)
(* list and names, the directory shared with other servers, and the        *)
(* scheduler whose workers tick the matches.                               *)
(*                                                                         *)
(* A connection has a thread of its own, which handles one message after   *)
(* another; each action is a stretch of it under one mutex, or between two *)
(* of them.  A match is seen as the lobby sees it: seats, the countdown of *)
(* a dropped player, spectators, and whether it is over.  Match models its *)
(* inside.                                                                 *)
(***************************************************************************)
EXTENDS Integers, FiniteSets

CONSTANTS
    Conns,          \* connections; one that has closed does not come back
    Users, Rating,  \* accounts, and what authenticate says of each
    Names,          \* ids generate_room_id draws from
    Workers,        \* the scheduler's workers, in order
    RatingGap,      \* kMatchmakingRatingGap
    MaxSpectators,  \* MatchAudience::kMaxSpectators
    MaxRooms,       \* bound of the model: rooms ever opened
    None            \* std::nullopt

Colors == {"White", "Black"}
RoomIds == 1 .. MaxRooms

ASSUME LobbyAssumption ==
    /\ Rating \in [Users -> Nat] /\ RatingGap \in Nat /\ MaxSpectators \in Nat
    /\ MaxRooms \in Nat /\ IsFiniteSet(Conns)
    /\ Workers \subseteq Nat /\ Workers # {}
    /\ None \notin Users \cup Names /\ None \notin Workers
    /\ None \notin Colors \cup {"viewer"}

VARIABLES
    at,         \* how far each connection's thread has come
    user,       \* pending_, and with it username_lease_
    hold,       \* seat_, or what the thread carries towards it: [room, as, name]
    registry,   \* SessionRegistry::live_
    rooms,      \* rooms_: [seatsTaken, connected, rating, name], or None
    named,      \* named_rooms_
    waiting,    \* waiting_by_rating_: pairs [rating, room]
    nextRoom,   \* next_room_id_
    match,      \* each room's Match: [seats, pending, watching, watchers, over]
    directory,  \* the names the shared directory has for this server
    owner,      \* MatchScheduler::owners_
    running     \* scheduler_ is there, and its running_ is set

session == <<at, user, hold>>
routing == <<rooms, named, waiting, nextRoom>>
scheduler == <<owner, running>>
vars == <<session, registry, routing, match, directory, scheduler>>

Stages == {"idle", "gone", "creating", "joining", "registering", "watching", "returning",
           "refused", "counting", "unscheduling", "forgetting", "releasing"}
\* From the reservation in a room to the count-out, a connection is counted in it.
Routed == {"creating", "joining", "registering", "watching", "returning", "refused",
           "counting"}
Holding == [room : {0} \cup RoomIds, as : Colors \cup {"viewer", None},
            name : Names \cup {None}]
Nowhere == [room |-> 0, as |-> None, name |-> None]
Room == [seatsTaken : 0 .. 2, connected : Nat, rating : Nat, name : Names \cup {None}]
MatchView == [seats : [Colors -> Users \cup {None}], pending : Colors \cup {None},
              watching : Colors \cup {None}, watchers : 0 .. MaxSpectators, over : BOOLEAN]
ASSUME NoneAssumption == None \notin Room
NewMatch == [seats |-> [c \in Colors |-> None], pending |-> None, watching |-> None,
             watchers |-> 0, over |-> FALSE]

Init ==
    /\ at = [x \in Conns |-> "idle"] /\ user = [x \in Conns |-> None]
    /\ hold = [x \in Conns |-> Nowhere]
    /\ registry = {}
    /\ rooms = [r \in RoomIds |-> None] /\ named = [n \in Names |-> 0]
    /\ waiting = {} /\ nextRoom = 1
    /\ match = [r \in RoomIds |-> NewMatch]
    /\ directory = {}
    /\ owner = [r \in RoomIds |-> None] /\ running = TRUE
-----------------------------------------------------------------------------
Live(r) == rooms[r] # None
Goes(x, from, to) == at[x] = from /\ at' = [at EXCEPT ![x] = to]
Holds(x, r, as, name) ==
    hold' = [hold EXCEPT ![x] = [room |-> r, as |-> as, name |-> name]]
MatchBecomes(r, m) == match' = [match EXCEPT ![r] = m]

\* A session is bound to one account from its login on.
LoggedIn(x) == at[x] = "idle" /\ user[x] # None
Unseated(x) == LoggedIn(x) /\ hold[x] = Nowhere
-----------------------------------------------------------------------------
\* SessionRegistry and the login, of a connection that is open.

\* Every refusal (password, rate, an account already in) changes nothing here:
\* the connection is told and closed, which Close brings about.
Mutant_Free(u) == TRUE
Free(u) == u \notin registry

Login(x, u) ==
    /\ at[x] = "idle" /\ user[x] = None
    /\ Free(u)
    /\ registry' = registry \cup {u}
    /\ user' = [user EXCEPT ![x] = u]
    /\ UNCHANGED <<at, hold, routing, match, directory, scheduler>>
-----------------------------------------------------------------------------
\* The scheduler.  Its operations hold scheduler_mutex_, and do nothing once
\* stop_all has taken the scheduler away.

\* A worker's matches are those it owns, and its load is their number.
Matches(w) == {r \in RoomIds : owner[r] = w}
Load(w) == Cardinality(Matches(w))

LeastLoaded ==
    CHOOSE w \in Workers : \A v \in Workers \ {w} :
        Load(w) < Load(v) \/ (Load(w) = Load(v) /\ w < v)

Add(r) == owner' = [owner EXCEPT ![r] = IF running THEN LeastLoaded ELSE None]

Mutant_Remove(r) == owner' = owner
Remove(r) == owner' = [owner EXCEPT ![r] = IF running THEN None ELSE @]
-----------------------------------------------------------------------------
\* Rooms and the waiting list, under rooms_mutex_.

OpenRoom(r, name, rating) ==
    /\ nextRoom \in RoomIds /\ r = nextRoom
    /\ nextRoom' = nextRoom + 1
    /\ rooms' = [rooms EXCEPT ![r] =
                   [seatsTaken |-> 1, connected |-> 1, rating |-> rating, name |-> name]]
    /\ Add(r)

Gap(entry, rating) ==
    IF entry.rating >= rating THEN entry.rating - rating ELSE rating - entry.rating

\* The neighbours of lower_bound: the nearest entry from the rating upwards,
\* and the nearest below it.
NotBelow(rating) == {e \in waiting : e.rating >= rating}
Mutant_Neighbours(rating) ==
    {e \in NotBelow(rating) : \A f \in NotBelow(rating) : e.rating <= f.rating}
Neighbours(rating) ==
    {e \in NotBelow(rating) : \A f \in NotBelow(rating) : e.rating <= f.rating}
    \cup {e \in waiting \ NotBelow(rating) :
            \A f \in waiting \ NotBelow(rating) : f.rating <= e.rating}

Mutant_InReach(rating) == Neighbours(rating)
InReach(rating) == {e \in Neighbours(rating) : Gap(e, rating) <= RatingGap}

\* Of two neighbours as far away, the one from the rating upwards.
ClosestWaitingRoom(rating) ==
    {e \in InReach(rating) : \A f \in InReach(rating) \ {e} :
        \/ Gap(e, rating) < Gap(f, rating)
        \/ Gap(e, rating) = Gap(f, rating) /\ e.rating >= rating}

Entry(r) == [rating |-> rooms[r].rating, room |-> r]
-----------------------------------------------------------------------------
\* Seating.  What the lock decides, then what the match says outside it.

\* One more connection of the room, on a seat reserved for it or on none.
CountedIn(m, seats) ==
    [m EXCEPT !.seatsTaken = m.seatsTaken + seats, !.connected = m.connected + 1]
Counted(r, seats) == rooms' = [rooms EXCEPT ![r] = CountedIn(rooms[r], seats)]
Reserve(r) == Counted(r, 1)

Mutant_PairUp(e) == Reserve(e.room) /\ UNCHANGED waiting
PairUp(e) == Reserve(e.room) /\ waiting' = waiting \ {Entry(e.room)}

\* join_any
Play(x) ==
    /\ Unseated(x)
    /\ LET rating == Rating[user[x]] IN
         \/ \E e \in ClosestWaitingRoom(rating) :
              /\ PairUp(e)
              /\ Holds(x, e.room, None, None)
              /\ UNCHANGED <<nextRoom, owner>>
         \/ \E r \in RoomIds :
              /\ ClosestWaitingRoom(rating) = {}
              /\ OpenRoom(r, None, rating)
              /\ waiting' = waiting \cup {[rating |-> rating, room |-> r]}
              /\ Holds(x, r, None, None)
    /\ Goes(x, "idle", "joining")
    /\ UNCHANGED <<user, registry, named, match, directory, running>>

CreateRoom(x, n) ==
    /\ Unseated(x)
    /\ named[n] = 0
    /\ \E r \in RoomIds :
         /\ OpenRoom(r, n, 0)
         /\ named' = [named EXCEPT ![n] = r]
         /\ Holds(x, r, None, n)
    /\ Goes(x, "idle", "creating")
    /\ UNCHANGED <<user, registry, waiting, match, directory, running>>

\* reclaimable_seat_for: the seat of this account, while its grace counts down.
Reclaimable(r, u) ==
    {c \in Colors : match[r].watching = c /\ ~match[r].over /\ match[r].seats[c] = u}

Mutant_ReserveLate(r) == UNCHANGED rooms
Admit(r) == Reserve(r)

\* join_room, while it holds rooms_mutex_.  A name this server has not is looked
\* up in the directory, and a match that is over is refused; the client is sent
\* elsewhere or away, and nothing changes here.
JoinRoom(x, n) ==
    /\ Unseated(x)
    /\ named[n] # 0
    /\ LET r == named[n] IN
       /\ ~match[r].over
       /\ \/ \E c \in Reclaimable(r, user[x]) :
               /\ Holds(x, r, c, n) /\ Goes(x, "idle", "returning")
               /\ Counted(r, 0)
          \/ /\ Reclaimable(r, user[x]) = {} /\ rooms[r].seatsTaken >= 2
             /\ Holds(x, r, "viewer", n) /\ Goes(x, "idle", "watching")
             /\ Counted(r, 0)
          \/ /\ Reclaimable(r, user[x]) = {} /\ rooms[r].seatsTaken < 2
             /\ Holds(x, r, None, n) /\ Goes(x, "idle", "joining")
             /\ Admit(r)
    /\ UNCHANGED <<user, registry, named, waiting, nextRoom, match, directory, scheduler>>

FreeSeatsOf(m) == {c \in Colors : m.seats[c] = None}
FirstFree(r) == IF match[r].seats["White"] = None THEN "White" ELSE "Black"

\* Match::join.  A refusal, which SeatsAreReserved excludes, would have join_any
\* give the reservation back and reap the room.
Join(x, from, to) ==
    LET r == hold[x].room IN
    /\ Goes(x, from, to)
    /\ FreeSeatsOf(match[r]) # {}
    /\ Holds(x, r, FirstFree(r), hold[x].name)
    /\ MatchBecomes(r, [match[r] EXCEPT !.seats[FirstFree(r)] = user[x]])
    /\ UNCHANGED <<user, registry, routing, directory, scheduler>>

\* The creator has been welcomed; other servers learn of the room.
Register(x) ==
    /\ Goes(x, "registering", "idle")
    /\ directory' = directory \cup {hold[x].name}
    /\ UNCHANGED <<user, hold, registry, routing, match, scheduler>>

\* Match::reconnect: the return cancels the countdown, and any drop reported
\* since (DisconnectWatch::cancel).
Return(x) ==
    LET r == hold[x].room IN
    /\ at[x] = "returning"
    /\ IF ~match[r].over /\ match[r].watching = hold[x].as
       THEN /\ Goes(x, "returning", "idle")
            /\ MatchBecomes(r, [match[r] EXCEPT !.watching = None, !.pending = None])
       ELSE Goes(x, "returning", "refused") /\ UNCHANGED match
    /\ UNCHANGED <<user, hold, registry, routing, directory, scheduler>>

RoomToWatch(m) == m.watchers < MaxSpectators

\* Match::join_spectator
Watch(x) ==
    LET r == hold[x].room IN
    /\ at[x] = "watching"
    /\ IF RoomToWatch(match[r])
       THEN Goes(x, "watching", "idle") /\ MatchBecomes(r, [match[r] EXCEPT !.watchers = @ + 1])
       ELSE Goes(x, "watching", "refused") /\ UNCHANGED match
    /\ UNCHANGED <<user, hold, registry, routing, directory, scheduler>>

\* A refused return or spectator gives the connection back, and reaps nothing.
GiveBack(x) ==
    /\ Goes(x, "refused", "idle") /\ Holds(x, 0, None, None)
    /\ rooms' = [rooms EXCEPT ![hold[x].room].connected = @ - 1]
    /\ UNCHANGED <<user, registry, named, waiting, nextRoom, match, directory, scheduler>>
-----------------------------------------------------------------------------
\* Leaving.

\* The connection of an account closes, for whatever reason.  The match of a seated session
\* is told first: on_disconnect's lookup and Match::on_disconnect, or
\* leave_spectator.
Mutant_CloseTo(x) == "releasing"
CloseTo(x) == IF hold[x] = Nowhere THEN "releasing" ELSE "counting"

Told(m, as) ==
    IF as = "viewer" THEN [m EXCEPT !.watchers = @ - 1] ELSE [m EXCEPT !.pending = as]

Close(x) ==
    /\ Goes(x, "idle", CloseTo(x)) /\ user[x] # None
    /\ IF hold[x] = Nowhere THEN UNCHANGED match
       ELSE MatchBecomes(hold[x].room, Told(match[hold[x].room], hold[x].as))
    /\ UNCHANGED <<user, hold, registry, routing, directory, scheduler>>

Mutant_LastOne(r) == rooms[r].connected < 1
LastOne(r) == rooms[r].connected <= 1

Mutant_Reaped(r) ==
    /\ named' = named
    /\ waiting' = waiting \ {Entry(r)}
    /\ rooms' = [rooms EXCEPT ![r] = None]
    /\ MatchBecomes(r, NewMatch)
Reaped(r) ==
    /\ named' = [n \in Names |-> IF n = rooms[r].name THEN 0 ELSE named[n]]
    /\ waiting' = waiting \ {Entry(r)}
    /\ rooms' = [rooms EXCEPT ![r] = None]
    /\ MatchBecomes(r, NewMatch)

\* The room is reaped with its last connection; its match is not followed further.
CountOut(x) ==
    LET r == hold[x].room IN
    /\ at[x] = "counting"
    /\ IF LastOne(r)
       THEN /\ Reaped(r) /\ Goes(x, "counting", "unscheduling")
            /\ Holds(x, r, None, rooms[r].name)
       ELSE /\ rooms' = [rooms EXCEPT ![r].connected = @ - 1]
            /\ Goes(x, "counting", "releasing") /\ Holds(x, 0, None, None)
            /\ UNCHANGED <<named, waiting, match>>
    /\ UNCHANGED <<user, registry, nextRoom, directory, scheduler>>

Unschedule(x) ==
    /\ Goes(x, "unscheduling", IF hold[x].name = None THEN "releasing" ELSE "forgetting")
    /\ Remove(hold[x].room)
    /\ Holds(x, 0, None, hold[x].name)
    /\ UNCHANGED <<user, registry, routing, match, directory, running>>

\* The directory forgets the name, whoever has it by now.
Forget(x) ==
    /\ Goes(x, "forgetting", "releasing") /\ Holds(x, 0, None, None)
    /\ directory' = directory \ {hold[x].name}
    /\ UNCHANGED <<user, registry, routing, match, scheduler>>

\* username_lease_.reset(), the end of on_close.
Release(x) ==
    /\ Goes(x, "releasing", "gone")
    /\ registry' = registry \ {user[x]}
    /\ user' = [user EXCEPT ![x] = None] /\ hold' = [hold EXCEPT ![x] = Nowhere]
    /\ UNCHANGED <<routing, match, directory, scheduler>>
-----------------------------------------------------------------------------
\* What a tick may do to the seats: a drop reported opens a countdown if none
\* runs, and the match may end, by a forfeit, a king taken or a resignation.
AfterTick(m) ==
    IF m.over THEN {[m EXCEPT !.watching = None, !.pending = None]}
    ELSE LET opened == [m EXCEPT !.watching = IF @ = None THEN m.pending ELSE @,
                                 !.pending = None]
         IN {opened} \cup
            (IF FreeSeatsOf(m) = {} \/ opened.watching # None
             THEN {[opened EXCEPT !.watching = None, !.over = TRUE]} ELSE {})

\* A worker ticks a copy of its list, which may hold a match taken off since;
\* the tick of a match whose room is gone is nobody's concern here.
TickMatch(w, r) ==
    /\ r \in Matches(w) /\ Live(r)
    /\ \E m \in AfterTick(match[r]) : MatchBecomes(r, m)
    /\ UNCHANGED <<session, registry, routing, directory, scheduler>>

\* The scheduler goes first; connections close, and may come, after it.
StopAll ==
    /\ running /\ running' = FALSE
    /\ owner' = [r \in RoomIds |-> None]
    /\ UNCHANGED <<session, registry, routing, match, directory>>

\* Outside this server: an entry's time to live runs out.
EntryExpires(n) ==
    /\ n \in directory /\ directory' = directory \ {n}
    /\ UNCHANGED <<session, registry, routing, match, scheduler>>

\* The three messages that seat a session.
SeatFor(x) == Play(x) \/ \E n \in Names : CreateRoom(x, n) \/ JoinRoom(x, n)

Next ==
    \/ \E x \in Conns :
         \/ \E u \in Users : Login(x, u)
         \/ SeatFor(x)
         \/ Join(x, "joining", "idle") \/ Join(x, "creating", "registering")
         \/ Register(x) \/ Return(x) \/ Watch(x) \/ GiveBack(x)
         \/ Close(x) \/ CountOut(x) \/ Unschedule(x) \/ Forget(x) \/ Release(x)
    \/ \E w \in Workers, r \in RoomIds : TickMatch(w, r)
    \/ StopAll
    \/ \E n \in Names : EntryExpires(n)

Spec == Init /\ [][Next]_vars
-----------------------------------------------------------------------------
TypeOK ==
    /\ at \in [Conns -> Stages] /\ user \in [Conns -> Users \cup {None}]
    /\ hold \in [Conns -> Holding] /\ registry \subseteq Users
    /\ rooms \in [RoomIds -> Room \cup {None}] /\ named \in [Names -> {0} \cup RoomIds]
    /\ waiting \subseteq [rating : Nat, room : RoomIds] /\ nextRoom \in 1 .. MaxRooms + 1
    /\ match \in [RoomIds -> MatchView]
    /\ directory \subseteq Names
    /\ owner \in [RoomIds -> Workers \cup {None}]
    /\ running \in BOOLEAN

\* The waiting list holds exactly the live matchmade rooms with one seat taken,
\* under the rating of the one who waits.
WaitingListIsExact ==
    waiting = {Entry(r) : r \in {q \in RoomIds : Live(q) /\ rooms[q].name = None
                                                 /\ rooms[q].seatsTaken = 1}}

\* Two players who could have been paired are never both left waiting.
WaitingAreFarApart ==
    \A e, f \in waiting : e # f => Gap(e, f.rating) > RatingGap

\* The two neighbours of lower_bound are enough to find the closest opponent.
ClosestIsClosest ==
    \A u \in Users : LET near == {e \in waiting : Gap(e, Rating[u]) <= RatingGap} IN
        /\ (near = {}) = (ClosestWaitingRoom(Rating[u]) = {})
        /\ \A e \in ClosestWaitingRoom(Rating[u]), f \in near :
              Gap(e, Rating[u]) <= Gap(f, Rating[u])

Taken(r) == {c \in Colors : match[r].seats[c] # None}
Joining(r) == {x \in Conns : at[x] \in {"creating", "joining"} /\ hold[x].room = r}
\* A seat reserved under the lock is there when the connection takes it, so
\* join never answers that both are taken.
SeatsAreReserved ==
    \A r \in RoomIds : Live(r) =>
        /\ rooms[r].seatsTaken <= 2
        /\ rooms[r].seatsTaken = Cardinality(Taken(r)) + Cardinality(Joining(r))

Inside(r) == {x \in Conns : hold[x].room = r
                            /\ (at[x] \in Routed \/ (at[x] = "idle" /\ hold[x].as # None))}

\* A room counts exactly the connections routed to it, so it is not reaped
\* under one of them.
RoomsCountTheirConnections ==
    \A r \in RoomIds : IF Live(r) THEN rooms[r].connected = Cardinality(Inside(r))
                       ELSE Inside(r) = {}

\* A room is left standing without a connection only when a return or a spectator
\* was refused after everybody else had gone.  It is then a room by name with both
\* seats taken: matchmaking and join_room never seat somebody where nobody is.
OnlyFullRoomsStandEmpty ==
    \A r \in RoomIds : Live(r) /\ rooms[r].connected = 0 =>
        rooms[r].name # None /\ rooms[r].seatsTaken = 2

\* A seat belongs to one connection at a time, of the account that took it, even
\* while the connection that dropped is still on its way out.
OneConnectionPerSeat ==
    \A x \in Conns : hold[x].as \in Colors =>
        /\ match[hold[x].room].seats[hold[x].as] = user[x]
        /\ \A y \in Conns \ {x} : hold[y].as = hold[x].as => hold[y].room # hold[x].room

\* A name leads to the live room that bears it, and only this server's own
\* names are on its account in the directory, or about to be taken off.
NamesLeadToRooms ==
    /\ \A n \in Names : named[n] # 0 => Live(named[n]) /\ rooms[named[n]].name = n
    /\ \A r \in RoomIds : Live(r) /\ rooms[r].name # None => named[rooms[r].name] = r
    /\ \A n \in directory :
         \/ named[n] # 0
         \/ \E x \in Conns : at[x] \in {"unscheduling", "forgetting"} /\ hold[x].name = n

\* While the scheduler runs, a match has a worker from the opening of its room
\* until the thread that reaped it has taken it off.
ScheduledWhileLive ==
    running => \A r \in RoomIds :
        (owner[r] # None) = (Live(r) \/ (\E x \in Conns : at[x] = "unscheduling" /\ hold[x].room = r))
=============================================================================
