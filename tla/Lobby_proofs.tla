---------------------------- MODULE Lobby_proofs ----------------------------
(***************************************************************************)
(* Seats, counts and accounts of the lobby, for any number of connections, *)
(* accounts, rooms, names and workers.                                     *)
(***************************************************************************)
EXTENDS Lobby, FiniteSetTheorems, WellFoundedInduction, TLAPS

-----------------------------------------------------------------------------
\* Small facts.

\* Two sets that differ in at most one element.
LEMMA OneDiffers ==
  ASSUME NEW S, NEW T, NEW x, IsFiniteSet(S), S \ {x} = T \ {x}
  PROVE  /\ IsFiniteSet(T)
         /\ Cardinality(S) \in Nat /\ Cardinality(T) \in Nat
         /\ x \in S => Cardinality(S) > 0
         /\ Cardinality(T) = Cardinality(S) + (IF x \in T THEN 1 ELSE 0)
                                            - (IF x \in S THEN 1 ELSE 0)
<1> DEFINE R == S \ {x}
<1>1. IsFiniteSet(R) /\ Cardinality(R) = IF x \in S THEN Cardinality(S) - 1 ELSE Cardinality(S)
  BY FS_RemoveElement
<1>2. IsFiniteSet(R \cup {x}) /\ Cardinality(R \cup {x}) = Cardinality(R) + 1
  BY <1>1, FS_AddElement
<1>3. T = IF x \in T THEN R \cup {x} ELSE R
  OBVIOUS
<1>4. IsFiniteSet(T)
  BY <1>1, <1>2, <1>3
<1>5. Cardinality(S) \in Nat /\ Cardinality(T) \in Nat /\ Cardinality(R) \in Nat
  BY <1>1, <1>4, FS_CardinalityType
<1>6. x \in S => Cardinality(S) > 0
  BY <1>1, <1>5
<1>7. Cardinality(T) = IF x \in T THEN Cardinality(R) + 1 ELSE Cardinality(R)
  BY <1>2, <1>3
<1>8. QED
  BY <1>1, <1>4, <1>5, <1>6, <1>7

\* A set of naturals that is not empty has a least element.
LEMMA LeastNatural ==
  ASSUME NEW T, T \subseteq Nat, T # {}
  PROVE  \E n \in T : \A m \in T : n <= m
<1> DEFINE Prefixes == {1 .. n : n \in T}
<1>1. PICK P \in Prefixes : \A Q \in Prefixes : <<Q, P>> \notin StrictSubsetOrdering(Nat)
  <2>1. IsWellFoundedOn(StrictSubsetOrdering(Nat), FiniteSubsetsOf(Nat))
    BY FS_StrictSubsetOrderingWellFounded
  <2>2. \A n \in T : 1 .. n \in FiniteSubsetsOf(Nat)
    BY FS_Interval DEF FiniteSubsetsOf
  <2>3. Prefixes \subseteq FiniteSubsetsOf(Nat) /\ Prefixes # {}
    BY <2>2
  <2> HIDE DEF Prefixes
  <2>4. QED BY <2>1, <2>3, WFMin
<1>2. PICK n \in T : P = 1 .. n
  OBVIOUS
<1>3. \A m \in T : n <= m
  <2> SUFFICES ASSUME NEW m \in T, m < n PROVE FALSE
    BY SMT
  <2>1. 1 .. m \in Prefixes /\ n \in Nat /\ m \in Nat
    OBVIOUS
  <2>2. 1 .. m \subseteq 1 .. n /\ n \in 1 .. n /\ n \notin 1 .. m
    BY <2>1
  <2>3. (1 .. m) \subseteq Nat /\ (1 .. n) \subseteq Nat
    BY <2>1
  <2>4. <<1 .. m, 1 .. n>> \in StrictSubsetOrdering(Nat)
    BY <2>2, <2>3 DEF StrictSubsetOrdering
  <2>5. QED BY <1>1, <1>2, <2>1, <2>4
<1>4. QED
  BY <1>3

Watching(r) == {x \in Conns : at[x] = "idle" /\ hold[x].room = r /\ hold[x].as = "viewer"}

\* When one thread moves, the sets it may enter or leave change by it alone.
LEMMA OneMoves ==
  ASSUME NEW x \in Conns, NEW r,
         \A y \in Conns \ {x} : at'[y] = at[y] /\ hold'[y] = hold[y]
  PROVE  /\ Cardinality(Inside(r)) \in Nat
         /\ x \in Inside(r) => Cardinality(Inside(r)) > 0
         /\ Cardinality(Inside(r)') = Cardinality(Inside(r))
              + (IF x \in Inside(r)' THEN 1 ELSE 0) - (IF x \in Inside(r) THEN 1 ELSE 0)
         /\ Cardinality(Watching(r)) \in Nat
         /\ x \in Watching(r) => Cardinality(Watching(r)) > 0
         /\ Cardinality(Watching(r)') = Cardinality(Watching(r))
              + (IF x \in Watching(r)' THEN 1 ELSE 0) - (IF x \in Watching(r) THEN 1 ELSE 0)
         /\ Cardinality(Joining(r)) \in Nat
         /\ x \in Joining(r) => Cardinality(Joining(r)) > 0
         /\ Cardinality(Joining(r)') = Cardinality(Joining(r))
              + (IF x \in Joining(r)' THEN 1 ELSE 0) - (IF x \in Joining(r) THEN 1 ELSE 0)
<1>1. /\ Inside(r) \ {x} = Inside(r)' \ {x}
      /\ Watching(r) \ {x} = Watching(r)' \ {x}
      /\ Joining(r) \ {x} = Joining(r)' \ {x}
  BY DEF Inside, Watching, Joining
<1>2. IsFiniteSet(Inside(r)) /\ IsFiniteSet(Watching(r)) /\ IsFiniteSet(Joining(r))
  <2>1. Inside(r) \subseteq Conns /\ Watching(r) \subseteq Conns /\ Joining(r) \subseteq Conns
    BY DEF Inside, Watching, Joining
  <2>2. QED BY <2>1, LobbyAssumption, FS_Subset
<1>3. QED
  BY <1>1, <1>2, OneDiffers

LEMMA LeastLoadedIsWorker == LeastLoaded \in Workers
<1>1. \A w \in Workers : Load(w) \in Nat
  <2>1. IsFiniteSet(RoomIds)
    BY FS_Interval, LobbyAssumption DEF RoomIds
  <2>2. \A w \in Workers : Matches(w) \subseteq RoomIds
    BY DEF Matches
  <2>3. QED BY <2>1, <2>2, FS_Subset, FS_CardinalityType DEF Load
<1> DEFINE Loads == {Load(w) : w \in Workers}
<1>2. PICK least \in Loads : \A l \in Loads : least <= l
  <2>1. Loads \subseteq Nat /\ Loads # {}
    BY <1>1, LobbyAssumption
  <2>2. QED BY <2>1, LeastNatural
<1> DEFINE Candidates == {w \in Workers : Load(w) = least}
<1>3. PICK w \in Candidates : \A v \in Candidates : w <= v
  <2>1. Candidates \subseteq Nat /\ Candidates # {}
    BY LobbyAssumption
  <2>2. QED BY <2>1, LeastNatural
<1>4. \A v \in Workers \ {w} : Load(w) < Load(v) \/ (Load(w) = Load(v) /\ w < v)
  <2> TAKE v \in Workers \ {w}
  <2>1. Load(w) = least /\ Load(v) \in Loads /\ Load(v) \in Nat /\ w \in Nat /\ v \in Nat
    BY <1>1, LobbyAssumption
  <2>2. CASE Load(v) = least
    BY <2>1, <2>2, <1>3
  <2>3. CASE Load(v) # least
    BY <2>1, <2>3, <1>1, <1>2
  <2>4. QED BY <2>2, <2>3
<1>5. QED
  BY <1>4 DEF LeastLoaded
-----------------------------------------------------------------------------
\* The inductive invariant.

\* An account is live in the registry for as long as one connection, and only
\* one, is bound to it.
Sessions ==
    /\ \A x \in Conns : user[x] # None => user[x] \in registry
    /\ \A x, y \in Conns : x # y /\ user[x] # None => user[x] # user[y]
    /\ \A x \in Conns : hold[x] # Nowhere \/ at[x] \notin {"idle", "gone"} => user[x] # None

\* What a thread carries at each stage.
Carried ==
    \A x \in Conns :
        /\ at[x] \in {"idle", "refused"} =>
               hold[x] = Nowhere \/ (hold[x].room \in RoomIds /\ hold[x].as # None)
        /\ at[x] \in Routed \/ at[x] = "unscheduling" => hold[x].room \in RoomIds
        /\ at[x] \in {"creating", "joining", "unscheduling", "forgetting"} => hold[x].as = None
        /\ at[x] \in {"creating", "registering", "forgetting"} => hold[x].name \in Names
        /\ at[x] \in {"registering", "returning"} => hold[x].as \in Colors
        /\ at[x] = "watching" => hold[x].as = "viewer"
        /\ at[x] \in {"refused", "counting"} => hold[x].as # None
        /\ at[x] = "forgetting" => hold[x].room = 0
        /\ at[x] \in {"releasing", "gone"} => hold[x] = Nowhere

\* Rooms yet to be opened are untouched.
Unopened ==
    /\ \A r \in RoomIds : r >= nextRoom =>
           rooms[r] = None /\ owner[r] = None /\ match[r] = NewMatch
    /\ \A x \in Conns : hold[x].room < nextRoom

\* A seat taken stays with its account until the room goes.
SeatsKept ==
    \A x \in Conns : hold[x].as \in Colors =>
        match[hold[x].room].seats[hold[x].as] = user[x]

WatchersCounted ==
    \A r \in RoomIds : Live(r) => match[r].watchers = Cardinality(Watching(r))

\* The thread that reaped a room is the only one left to know its number.
ReapedOnce ==
    \A x \in Conns : at[x] = "unscheduling" =>
        /\ ~Live(hold[x].room)
        /\ \A y \in Conns \ {x} : at[y] = "unscheduling" => hold[y].room # hold[x].room

\* A creator knows the name of its room.
CreatorsKnowTheName ==
    \A x \in Conns : at[x] \in {"creating", "registering"} =>
        rooms[hold[x].room].name = hold[x].name

Inv ==
    /\ TypeOK
    /\ Sessions
    /\ Carried
    /\ Unopened
    /\ RoomsCountTheirConnections
    /\ SeatsKept
    /\ SeatsAreReserved
    /\ WatchersCounted
    /\ ReapedOnce
    /\ CreatorsKnowTheName
    /\ NamesLeadToRooms
    /\ WaitingListIsExact
    /\ WaitingAreFarApart
    /\ ScheduledWhileLive
-----------------------------------------------------------------------------
\* Initially.
LEMMA InvInit == Init => Inv
<1> SUFFICES ASSUME Init PROVE Inv
  OBVIOUS
<1>0. 0 \notin RoomIds /\ 1 \in 1 .. MaxRooms + 1
  BY LobbyAssumption DEF RoomIds
<1>1. TypeOK
  <2>1. Nowhere \in Holding /\ NewMatch \in MatchView /\ "idle" \in Stages
    BY LobbyAssumption DEF Nowhere, Holding, NewMatch, MatchView, Stages
  <2>2. QED BY <1>0, <2>1 DEF Init, TypeOK
<1>2. Sessions /\ SeatsKept
  BY LobbyAssumption DEF Init, Sessions, SeatsKept, Nowhere
<1>3. Carried /\ ReapedOnce /\ CreatorsKnowTheName /\ WatchersCounted /\ SeatsAreReserved
  BY DEF Init, Carried, ReapedOnce, CreatorsKnowTheName, WatchersCounted, SeatsAreReserved,
         Live, Routed
<1>4. Unopened
  BY DEF Init, Unopened, Nowhere
<1>5. RoomsCountTheirConnections
  BY <1>0 DEF Init, RoomsCountTheirConnections, Inside, Live, Nowhere
<1>6. NamesLeadToRooms /\ ScheduledWhileLive
  BY DEF Init, NamesLeadToRooms, ScheduledWhileLive, Live
<1>7. WaitingListIsExact /\ WaitingAreFarApart
  BY DEF Init, WaitingListIsExact, WaitingAreFarApart, Live
<1>8. QED
  BY <1>1, <1>2, <1>3, <1>4, <1>5, <1>6, <1>7 DEF Inv
-----------------------------------------------------------------------------
\* Steps that leave most of the lobby alone.

LEMMA LoginKeeps ==
  ASSUME Inv, NEW x \in Conns, NEW u \in Users, Login(x, u)
  PROVE  Inv'
<1> USE DEF Inv
<1>0. /\ at[x] = "idle" /\ user[x] = None /\ u \notin registry /\ u # None
      /\ registry' = registry \cup {u} /\ user' = [user EXCEPT ![x] = u]
      /\ UNCHANGED <<at, hold, routing, match, directory, scheduler>>
  BY LobbyAssumption DEF Login, Free
<1>1. TypeOK'
  BY <1>0 DEF TypeOK, routing, scheduler
<1>2. Sessions'
  BY <1>0 DEF Sessions, TypeOK
<1>3. SeatsKept'
  <2>1. hold[x].as \notin Colors
    BY <1>0, LobbyAssumption DEF Sessions, Nowhere
  <2>2. QED BY <1>0, <2>1 DEF SeatsKept, TypeOK
<1>4. (Carried /\ ReapedOnce /\ CreatorsKnowTheName /\ Unopened)'
  BY <1>0 DEF Carried, ReapedOnce, CreatorsKnowTheName, Unopened, Live, routing, scheduler
<1>5. (WatchersCounted /\ SeatsAreReserved /\ RoomsCountTheirConnections)'
  BY ZenonT(30), <1>0 DEF WatchersCounted, SeatsAreReserved, RoomsCountTheirConnections, Watching, Inside, Taken, Joining, Live, routing
<1>6. (NamesLeadToRooms /\ ScheduledWhileLive /\ WaitingListIsExact /\ WaitingAreFarApart)'
  BY <1>0 DEF NamesLeadToRooms, ScheduledWhileLive, WaitingListIsExact, WaitingAreFarApart,
         Entry, Live, routing, scheduler
<1>7. QED
  BY <1>1, <1>2, <1>3, <1>4, <1>5, <1>6

LEMMA RegisterKeeps ==
  ASSUME Inv, NEW x \in Conns, Register(x)
  PROVE  Inv'
<1> USE DEF Inv
<1> DEFINE n == hold[x].name
<1>0. /\ at[x] = "registering" /\ at' = [at EXCEPT ![x] = "idle"]
      /\ directory' = directory \cup {n}
      /\ UNCHANGED <<user, hold, registry, routing, match, scheduler>>
  BY DEF Register, Goes
<1>a. /\ n \in Names /\ hold[x].room \in RoomIds /\ hold[x].as \in Colors
      /\ hold[x].as # None /\ hold[x].as # "viewer"
  BY <1>0, LobbyAssumption DEF Carried, Routed, Colors
<1>b. at'[x] = "idle" /\ \A y \in Conns \ {x} : at'[y] = at[y]
  BY <1>0 DEF TypeOK
<1>1. TypeOK'
  BY <1>0, <1>a DEF TypeOK, Stages, routing, scheduler
<1>2. Sessions' /\ SeatsKept'
  BY <1>0, <1>b DEF Sessions, SeatsKept
<1>3. Carried'
  BY <1>0, <1>a, <1>b DEF Carried, Routed
<1>4. (ReapedOnce /\ CreatorsKnowTheName /\ Unopened)'
  BY <1>0, <1>b DEF ReapedOnce, CreatorsKnowTheName, Unopened, Live, routing, scheduler
<1>5. RoomsCountTheirConnections'
  <2>1. \A r \in RoomIds : Inside(r)' = Inside(r)
    BY <1>0, <1>a, <1>b DEF Inside, Routed
  <2>2. QED BY <1>0, <2>1 DEF RoomsCountTheirConnections, Live, routing
<1>6. (WatchersCounted /\ SeatsAreReserved)'
  <2>1. \A r \in RoomIds : Watching(r)' = Watching(r)
    BY <1>0, <1>a, <1>b DEF Watching
  <2>2. \A r \in RoomIds : Joining(r)' = Joining(r) /\ Taken(r)' = Taken(r)
    BY <1>0, <1>b DEF Joining, Taken
  <2>3. QED BY <1>0, <2>1, <2>2 DEF WatchersCounted, SeatsAreReserved, Live, routing
<1>7. NamesLeadToRooms'
  <2>1. Live(hold[x].room) /\ rooms[hold[x].room].name = n
    <3>1. x \in Inside(hold[x].room)
      BY <1>0 DEF Inside, Routed
    <3>2. QED BY <1>0, <1>a, <3>1 DEF RoomsCountTheirConnections, CreatorsKnowTheName
  <2>2. named[n] # 0
    BY <1>a, <2>1, LobbyAssumption DEF NamesLeadToRooms, RoomIds
  <2>3. QED BY <1>0, <1>b, <2>2 DEF NamesLeadToRooms, Live, routing
<1>8. (ScheduledWhileLive /\ WaitingListIsExact /\ WaitingAreFarApart)'
  BY <1>0, <1>b DEF ScheduledWhileLive, WaitingListIsExact, WaitingAreFarApart,
         Entry, Live, routing, scheduler
<1>9. QED
  BY <1>1, <1>2, <1>3, <1>4, <1>5, <1>6, <1>7, <1>8

LEMMA ReleaseKeeps ==
  ASSUME Inv, NEW x \in Conns, Release(x)
  PROVE  Inv'
<1> USE DEF Inv
<1>0. /\ at[x] = "releasing" /\ at' = [at EXCEPT ![x] = "gone"]
      /\ registry' = registry \ {user[x]}
      /\ user' = [user EXCEPT ![x] = None] /\ hold' = [hold EXCEPT ![x] = Nowhere]
      /\ UNCHANGED <<routing, match, directory, scheduler>>
  BY DEF Release, Goes
<1>a. hold[x] = Nowhere
  BY <1>0 DEF Carried
<1>b. hold' = hold
  BY <1>0, <1>a DEF TypeOK
<1>c. at'[x] = "gone" /\ \A y \in Conns \ {x} : at'[y] = at[y] /\ user'[y] = user[y]
  BY <1>0 DEF TypeOK
<1>d. user'[x] = None
  BY <1>0 DEF TypeOK
<1>1. TypeOK'
  BY <1>0, <1>b DEF TypeOK, Stages, routing, scheduler
<1>2. Sessions'
  BY <1>0, <1>a, <1>b, <1>c, <1>d DEF Sessions
<1>3. SeatsKept'
  BY <1>0, <1>a, <1>b, <1>c, LobbyAssumption DEF SeatsKept, Nowhere
<1>4. (Carried /\ ReapedOnce /\ CreatorsKnowTheName /\ Unopened)'
  BY <1>0, <1>a, <1>b, <1>c DEF Carried, ReapedOnce, CreatorsKnowTheName, Unopened, Routed, Live,
         routing, scheduler
<1>5. RoomsCountTheirConnections'
  <2>1. \A r \in RoomIds : Inside(r)' = Inside(r)
    BY <1>0, <1>a, <1>b, <1>c DEF Inside, Routed
  <2>2. QED BY <1>0, <2>1 DEF RoomsCountTheirConnections, Live, routing
<1>6. (WatchersCounted /\ SeatsAreReserved)'
  <2>1. \A r \in RoomIds : Watching(r)' = Watching(r)
    BY <1>0, <1>b, <1>c DEF Watching
  <2>2. \A r \in RoomIds : Joining(r)' = Joining(r) /\ Taken(r)' = Taken(r)
    BY <1>0, <1>b, <1>c DEF Joining, Taken
  <2>3. QED BY <1>0, <2>1, <2>2 DEF WatchersCounted, SeatsAreReserved, Live, routing
<1>7. NamesLeadToRooms' /\ ScheduledWhileLive'
  BY <1>0, <1>b, <1>c DEF NamesLeadToRooms, ScheduledWhileLive, Live, routing, scheduler
<1>8. (WaitingListIsExact /\ WaitingAreFarApart)'
  BY <1>0 DEF WaitingListIsExact, WaitingAreFarApart, Entry, Live, routing
<1>9. QED
  BY <1>1, <1>2, <1>3, <1>4, <1>5, <1>6, <1>7, <1>8

LEMMA ForgetKeeps ==
  ASSUME Inv, NEW x \in Conns, Forget(x)
  PROVE  Inv'
<1> USE DEF Inv
<1> DEFINE n == hold[x].name
<1>0. /\ at[x] = "forgetting" /\ at' = [at EXCEPT ![x] = "releasing"]
      /\ hold' = [hold EXCEPT ![x] = Nowhere]
      /\ directory' = directory \ {n}
      /\ UNCHANGED <<user, registry, routing, match, scheduler>>
  BY DEF Forget, Goes, Holds, Nowhere
<1>a. n \in Names /\ hold[x].room = 0 /\ hold[x].as = None /\ Nowhere \in Holding
  BY <1>0, LobbyAssumption DEF Carried, Nowhere, Holding
<1>b. /\ at'[x] = "releasing" /\ hold'[x] = Nowhere
      /\ \A y \in Conns \ {x} : at'[y] = at[y] /\ hold'[y] = hold[y]
  BY <1>0 DEF TypeOK
<1>c. 0 \notin RoomIds /\ Nowhere.room = 0 /\ Nowhere.as = None /\ None \notin Colors \cup {"viewer"}
  BY LobbyAssumption DEF RoomIds, Nowhere
<1>1. TypeOK'
  BY <1>0, <1>a DEF TypeOK, Stages, routing, scheduler
<1>2. Sessions' /\ SeatsKept'
  BY <1>0, <1>b, <1>c DEF Sessions, SeatsKept
<1>3. (Carried /\ ReapedOnce /\ CreatorsKnowTheName)'
  BY <1>0, <1>b, <1>c DEF Carried, ReapedOnce, CreatorsKnowTheName, Routed, Live, routing
<1>4. Unopened'
  BY <1>0, <1>b, <1>c DEF Unopened, TypeOK, routing, scheduler
<1>5. RoomsCountTheirConnections'
  <2>1. \A r \in RoomIds : Inside(r)' = Inside(r)
    BY <1>0, <1>a, <1>b, <1>c DEF Inside, Routed
  <2>2. QED BY <1>0, <2>1 DEF RoomsCountTheirConnections, Live, routing
<1>6. (WatchersCounted /\ SeatsAreReserved)'
  <2>1. \A r \in RoomIds : Watching(r)' = Watching(r)
    BY <1>0, <1>b DEF Watching
  <2>2. \A r \in RoomIds : Joining(r)' = Joining(r) /\ Taken(r)' = Taken(r)
    BY <1>0, <1>b DEF Joining, Taken
  <2>3. QED BY <1>0, <2>1, <2>2 DEF WatchersCounted, SeatsAreReserved, Live, routing
<1>7. NamesLeadToRooms'
  BY <1>0, <1>b DEF NamesLeadToRooms, Live, routing
<1>8. ScheduledWhileLive'
  BY <1>0, <1>b DEF ScheduledWhileLive, Live, routing, scheduler
<1>9. (WaitingListIsExact /\ WaitingAreFarApart)'
  BY <1>0 DEF WaitingListIsExact, WaitingAreFarApart, Entry, Live, routing
<1>10. QED
  BY <1>1, <1>2, <1>3, <1>4, <1>5, <1>6, <1>7, <1>8, <1>9

LEMMA StopAllKeeps ==
  ASSUME Inv, StopAll
  PROVE  Inv'
<1> USE DEF Inv
<1>0. /\ running' = FALSE /\ owner' = [r \in RoomIds |-> None]
      /\ UNCHANGED <<session, registry, routing, match, directory>>
  BY DEF StopAll
<1>1. TypeOK'
  BY <1>0 DEF TypeOK, session, routing
<1>2. (Sessions /\ SeatsKept /\ Carried /\ ReapedOnce /\ CreatorsKnowTheName /\ Unopened)'
  BY <1>0 DEF Sessions, SeatsKept, Carried, ReapedOnce, CreatorsKnowTheName, Unopened, Live,
         session, routing
<1>3. (WatchersCounted /\ SeatsAreReserved /\ RoomsCountTheirConnections)'
  BY <1>0 DEF WatchersCounted, SeatsAreReserved, RoomsCountTheirConnections, Watching, Inside, Taken, Joining, Live,
         session, routing
<1>4. (NamesLeadToRooms /\ WaitingListIsExact /\ WaitingAreFarApart)'
  BY <1>0 DEF NamesLeadToRooms, WaitingListIsExact, WaitingAreFarApart, Entry, Live,
         session, routing
<1>5. ScheduledWhileLive'
  BY <1>0 DEF ScheduledWhileLive
<1>6. QED
  BY <1>1, <1>2, <1>3, <1>4, <1>5

LEMMA EntryExpiresKeeps ==
  ASSUME Inv, NEW n \in Names, EntryExpires(n)
  PROVE  Inv'
<1> USE DEF Inv
<1>0. /\ directory' = directory \ {n}
      /\ UNCHANGED <<session, registry, routing, match, scheduler>>
  BY DEF EntryExpires
<1>1. TypeOK'
  BY <1>0 DEF TypeOK, session, routing, scheduler
<1>2. (Sessions /\ SeatsKept /\ Carried /\ ReapedOnce /\ CreatorsKnowTheName /\ Unopened)'
  BY <1>0 DEF Sessions, SeatsKept, Carried, ReapedOnce, CreatorsKnowTheName, Unopened, Live,
         session, routing, scheduler
<1>3. (WatchersCounted /\ SeatsAreReserved /\ RoomsCountTheirConnections)'
  BY <1>0 DEF WatchersCounted, SeatsAreReserved, RoomsCountTheirConnections, Watching, Inside, Taken, Joining, Live,
         session, routing
<1>4. (NamesLeadToRooms /\ WaitingListIsExact /\ WaitingAreFarApart /\ ScheduledWhileLive)'
  BY <1>0 DEF NamesLeadToRooms, WaitingListIsExact, WaitingAreFarApart, ScheduledWhileLive,
         Entry, Live, session, routing, scheduler
<1>5. QED
  BY <1>1, <1>2, <1>3, <1>4

\* A tick changes neither seats nor watchers.
LEMMA AfterTickShape ==
  ASSUME NEW m \in MatchView, NEW n \in AfterTick(m)
  PROVE  n \in MatchView /\ n.seats = m.seats /\ n.watchers = m.watchers
BY DEF AfterTick, MatchView, FreeSeatsOf

LEMMA TickKeeps ==
  ASSUME Inv, NEW w \in Workers, NEW r \in RoomIds, TickMatch(w, r)
  PROVE  Inv'
<1> USE DEF Inv
<1>0. /\ Live(r)
      /\ UNCHANGED <<session, registry, routing, directory, scheduler>>
  BY DEF TickMatch
<1>a. PICK m \in AfterTick(match[r]) : match' = [match EXCEPT ![r] = m]
  BY DEF TickMatch, MatchBecomes
<1>b. /\ m \in MatchView /\ match' \in [RoomIds -> MatchView]
      /\ \A q \in RoomIds : match'[q].seats = match[q].seats /\ match'[q].watchers = match[q].watchers
      /\ \A q \in RoomIds \ {r} : match'[q] = match[q]
  <2>1. match[r] \in MatchView
    BY DEF TypeOK
  <2>2. m \in MatchView /\ m.seats = match[r].seats /\ m.watchers = match[r].watchers
    BY <2>1, AfterTickShape
  <2>3. QED BY <1>a, <2>2 DEF TypeOK
<1>1. TypeOK'
  BY <1>0, <1>b DEF TypeOK, session, routing, scheduler
<1>2. SeatsKept'
  <2>1. \A x \in Conns : hold[x].as \in Colors => hold[x].room \in RoomIds
    BY LobbyAssumption DEF Carried, Routed, TypeOK, Stages, Nowhere
  <2>2. QED BY <1>0, <1>b, <2>1 DEF SeatsKept, session
<1>3. (Sessions /\ Carried /\ ReapedOnce /\ CreatorsKnowTheName)'
  BY <1>0 DEF Sessions, Carried, ReapedOnce, CreatorsKnowTheName, Live, session, routing
<1>4. Unopened'
  BY <1>0, <1>b DEF Unopened, Live, session, routing, scheduler
<1>5. (WatchersCounted /\ RoomsCountTheirConnections)'
  <2>1. \A q \in RoomIds : Watching(q)' = Watching(q) /\ Inside(q)' = Inside(q)
    BY <1>0 DEF Watching, Inside, session
  <2>2. QED BY <1>0, <1>b, <2>1 DEF WatchersCounted, RoomsCountTheirConnections, Live, routing
<1>6. SeatsAreReserved'
  <2>1. \A q \in RoomIds : Taken(q)' = Taken(q) /\ Joining(q)' = Joining(q)
    BY <1>0, <1>b DEF Taken, Joining, session
  <2>2. QED BY <1>0, <2>1 DEF SeatsAreReserved, Live, session, routing
<1>7. (NamesLeadToRooms /\ WaitingListIsExact /\ WaitingAreFarApart /\ ScheduledWhileLive)'
  BY <1>0 DEF NamesLeadToRooms, WaitingListIsExact, WaitingAreFarApart, ScheduledWhileLive,
         Entry, Live, session, routing, scheduler
<1>8. QED
  BY <1>1, <1>2, <1>3, <1>4, <1>5, <1>6, <1>7

-----------------------------------------------------------------------------
\* Steps of a connection within its room.

\* Who is inside a room finds it there.
LEMMA InsideIsLive ==
  ASSUME Inv, NEW x \in Conns, at[x] \in Routed \/ (at[x] = "idle" /\ hold[x].as # None)
  PROVE  /\ hold[x].room \in RoomIds /\ Live(hold[x].room) /\ rooms[hold[x].room] \in Room
         /\ x \in Inside(hold[x].room)
<1>1. hold[x].room \in RoomIds
  BY DEF Inv, Carried, Nowhere
<1>2. x \in Inside(hold[x].room)
  BY DEF Inside
<1>3. QED
  BY <1>1, <1>2 DEF Inv, RoomsCountTheirConnections, TypeOK, Live

LEMMA GiveBackKeeps ==
  ASSUME Inv, NEW x \in Conns, GiveBack(x)
  PROVE  Inv'
<1> USE DEF Inv
<1>r. PICK r : r = hold[x].room
  OBVIOUS
<1>0. /\ at[x] = "refused" /\ at' = [at EXCEPT ![x] = "idle"]
      /\ hold' = [hold EXCEPT ![x] = Nowhere]
      /\ rooms' = [rooms EXCEPT ![r].connected = @ - 1]
      /\ UNCHANGED <<user, registry, named, waiting, nextRoom, match, directory, scheduler>>
  BY <1>r DEF GiveBack, Goes, Holds, Nowhere
<1>a. r \in RoomIds /\ rooms[r] \in Room /\ x \in Inside(r) /\ Live(r) /\ Nowhere \in Holding
  BY <1>0, <1>r, InsideIsLive DEF Routed, Nowhere, Holding
<1>b. /\ at'[x] = "idle" /\ hold'[x] = Nowhere
      /\ \A y \in Conns \ {x} : at'[y] = at[y] /\ hold'[y] = hold[y]
  BY <1>0 DEF TypeOK
<1>c. 0 \notin RoomIds /\ Nowhere.room = 0 /\ Nowhere.as = None /\ None \notin Colors \cup {"viewer"}
  BY LobbyAssumption DEF RoomIds, Nowhere
<1>d. rooms[r].connected \in Nat \ {0} /\ rooms[r].connected = Cardinality(Inside(r))
  BY <1>a, <1>b, OneMoves DEF RoomsCountTheirConnections
<1>e. /\ rooms'[r] = [rooms[r] EXCEPT !.connected = @ - 1] /\ rooms'[r] \in Room
      /\ rooms' \in [RoomIds -> Room \cup {None}]
      /\ \A q \in RoomIds \ {r} : rooms'[q] = rooms[q]
  <2>1. [rooms[r] EXCEPT !.connected = @ - 1] \in Room
    BY <1>a, <1>d DEF Room
  <2>2. QED BY <1>0, <1>a, <2>1 DEF TypeOK
<1>f. \A q \in RoomIds : Live(q)' = Live(q) /\ Entry(q)' = Entry(q)
                         /\ rooms'[q].name = rooms[q].name /\ rooms'[q].seatsTaken = rooms[q].seatsTaken
  BY <1>a, <1>e, NoneAssumption DEF Live, Entry, Room
<1>1. TypeOK'
  BY <1>0, <1>a, <1>e DEF TypeOK, Stages, scheduler
<1>2. Sessions' /\ SeatsKept'
  BY <1>0, <1>b, <1>c DEF Sessions, SeatsKept
<1>3. (Carried /\ ReapedOnce)'
  BY <1>0, <1>b, <1>c, <1>f DEF Carried, ReapedOnce, Routed
<1>4. CreatorsKnowTheName' /\ Unopened'
  <2>1. \A y \in Conns : at'[y] \in {"creating", "registering"} => hold[y].room \in RoomIds
    BY <1>b DEF Carried, Routed
  <2>2. CreatorsKnowTheName'
    BY <1>0, <1>b, <1>f, <2>1 DEF CreatorsKnowTheName
  <2>3. Unopened'
    BY <1>0, <1>b, <1>c, <1>f DEF Unopened, TypeOK, scheduler, Live
  <2>4. QED BY <2>2, <2>3
<1>5. RoomsCountTheirConnections'
  <2>1. \A q \in RoomIds : (x \in Inside(q)) = (q = r) /\ x \notin Inside(q)'
    BY <1>0, <1>r, <1>a, <1>b, <1>c DEF Inside, Routed
  <2>2. \A q \in RoomIds : q # r => Inside(q)' = Inside(q)
    BY <1>b, <2>1 DEF Inside
  <2>3. Cardinality(Inside(r)') = Cardinality(Inside(r)) - 1
    BY <1>a, <1>b, <2>1, OneMoves
  <2>4. rooms'[r].connected = Cardinality(Inside(r)')
    BY <1>a, <1>d, <1>e, <2>3 DEF Room
  <2>5. QED BY <1>a, <1>e, <1>f, <2>2, <2>4 DEF RoomsCountTheirConnections
<1>6. (WatchersCounted /\ SeatsAreReserved)'
  <2>1. \A q \in RoomIds : Watching(q)' = Watching(q)
    BY <1>0, <1>b, <1>c DEF Watching
  <2>2. \A q \in RoomIds : Joining(q)' = Joining(q) /\ Taken(q)' = Taken(q)
    BY <1>0, <1>b, <1>c DEF Joining, Taken
  <2>3. QED BY <1>0, <1>f, <2>1, <2>2 DEF WatchersCounted, SeatsAreReserved
<1>7. NamesLeadToRooms'
  BY <1>0, <1>b, <1>f DEF NamesLeadToRooms, TypeOK
<1>8. ScheduledWhileLive'
  BY <1>0, <1>b, <1>f DEF ScheduledWhileLive, scheduler
<1>9. (WaitingListIsExact /\ WaitingAreFarApart)'
  BY <1>0, <1>f DEF WaitingListIsExact, WaitingAreFarApart, Gap
<1>10. QED
  BY <1>1, <1>2, <1>3, <1>4, <1>5, <1>6, <1>7, <1>8, <1>9

LEMMA UnscheduleKeeps ==
  ASSUME Inv, NEW x \in Conns, Unschedule(x)
  PROVE  Inv'
<1> USE DEF Inv
<1>r. PICK r, n : r = hold[x].room /\ n = hold[x].name
  OBVIOUS
<1>0. /\ at[x] = "unscheduling"
      /\ at' = [at EXCEPT ![x] = IF n = None THEN "releasing" ELSE "forgetting"]
      /\ hold' = [hold EXCEPT ![x] = [room |-> 0, as |-> None, name |-> n]]
      /\ owner' = [owner EXCEPT ![r] = IF running THEN None ELSE @]
      /\ UNCHANGED <<user, registry, routing, match, directory, running>>
  BY <1>r DEF Unschedule, Goes, Holds, Remove
<1>a. /\ r \in RoomIds /\ ~Live(r) /\ n \in Names \cup {None} /\ hold[x].as = None
      /\ \A y \in Conns \ {x} : at[y] = "unscheduling" => hold[y].room # r
  BY <1>0, <1>r DEF Carried, ReapedOnce, TypeOK, Holding
<1>b. /\ at'[x] = IF n = None THEN "releasing" ELSE "forgetting"
      /\ hold'[x] = [room |-> 0, as |-> None, name |-> n]
      /\ \A y \in Conns \ {x} : at'[y] = at[y] /\ hold'[y] = hold[y]
  BY <1>0 DEF TypeOK
<1>c. 0 \notin RoomIds /\ None \notin Colors \cup {"viewer"} /\ None \notin Names
  BY LobbyAssumption DEF RoomIds
<1>d. /\ owner' \in [RoomIds -> Workers \cup {None}]
      /\ \A q \in RoomIds \ {r} : owner'[q] = owner[q]
      /\ owner'[r] = IF running THEN None ELSE owner[r]
  BY <1>0, <1>a DEF TypeOK
<1>1. TypeOK'
  <2>1. [room |-> 0, as |-> None, name |-> n] \in Holding
    BY <1>a DEF Holding
  <2>2. QED BY <1>0, <1>d, <2>1 DEF TypeOK, Stages, routing
<1>2. Sessions' /\ SeatsKept'
  BY <1>0, <1>b, <1>c DEF Sessions, SeatsKept, Nowhere
<1>3. Carried'
  BY <1>0, <1>a, <1>b, <1>c DEF Carried, Routed, Nowhere
<1>4. (ReapedOnce /\ CreatorsKnowTheName)'
  BY <1>0, <1>b, <1>c DEF ReapedOnce, CreatorsKnowTheName, Live, routing
<1>5. Unopened'
  BY <1>0, <1>a, <1>b, <1>c, <1>d DEF Unopened, TypeOK, routing
<1>6. RoomsCountTheirConnections'
  <2>1. \A q \in RoomIds : Inside(q)' = Inside(q)
    BY <1>0, <1>a, <1>b, <1>c DEF Inside, Routed
  <2>2. QED BY <1>0, <2>1 DEF RoomsCountTheirConnections, Live, routing
<1>7. (WatchersCounted /\ SeatsAreReserved)'
  <2>1. \A q \in RoomIds : Watching(q)' = Watching(q)
    BY <1>0, <1>b, <1>c DEF Watching
  <2>2. \A q \in RoomIds : Joining(q)' = Joining(q) /\ Taken(q)' = Taken(q)
    BY <1>0, <1>b, <1>c DEF Joining, Taken
  <2>3. QED BY <1>0, <2>1, <2>2 DEF WatchersCounted, SeatsAreReserved, Live, routing
<1>8. NamesLeadToRooms'
  <2>1. ASSUME NEW m \in directory, named[m] = 0
        PROVE  \E y \in Conns : at'[y] \in {"unscheduling", "forgetting"} /\ hold'[y].name = m
    <3>1. PICK y \in Conns : at[y] \in {"unscheduling", "forgetting"} /\ hold[y].name = m
      BY <2>1 DEF NamesLeadToRooms
    <3>2. m \in Names
      BY DEF TypeOK
    <3>3. CASE y = x
      <4>1. n = m /\ n # None
        BY <1>r, <1>c, <3>1, <3>2, <3>3
      <4>2. at'[x] = "forgetting" /\ hold'[x].name = m
        BY <1>b, <4>1
      <4>3. QED BY <4>2
    <3>4. CASE y # x
      BY <1>b, <3>1, <3>4
    <3>5. QED BY <3>3, <3>4
  <2>2. QED BY <1>0, <2>1 DEF NamesLeadToRooms, Live, routing
<1>9. ScheduledWhileLive'
  BY <1>0, <1>a, <1>b, <1>c, <1>d, <1>r DEF ScheduledWhileLive, Live, routing
<1>10. (WaitingListIsExact /\ WaitingAreFarApart)'
  BY <1>0 DEF WaitingListIsExact, WaitingAreFarApart, Entry, Live, routing
<1>11. QED
  BY <1>1, <1>2, <1>3, <1>4, <1>5, <1>6, <1>7, <1>8, <1>9, <1>10

LEMMA ReturnKeeps ==
  ASSUME Inv, NEW x \in Conns, Return(x)
  PROVE  Inv'
<1> USE DEF Inv
<1>r. PICK r, c : r = hold[x].room /\ c = hold[x].as
  OBVIOUS
<1>0. /\ at[x] = "returning"
      /\ UNCHANGED <<user, hold, registry, routing, directory, scheduler>>
  BY DEF Return
<1>p. PICK to, m : /\ to \in {"idle", "refused"} /\ at' = [at EXCEPT ![x] = to]
                   /\ match' = [match EXCEPT ![r] = m]
                   /\ m = match[r] \/ m = [match[r] EXCEPT !.watching = None, !.pending = None]
  <2>1. CASE ~match[r].over /\ match[r].watching = c
    BY <2>1, <1>r DEF Return, Goes, MatchBecomes
  <2>2. CASE ~(~match[r].over /\ match[r].watching = c)
    <3>1. match' = [match EXCEPT ![r] = match[r]] /\ at' = [at EXCEPT ![x] = "refused"]
      BY <2>2, <1>r DEF Return, Goes, TypeOK
    <3>2. QED BY <3>1
  <2>3. QED BY <2>1, <2>2
<1>a. r \in RoomIds /\ Live(r) /\ c \in Colors /\ c # None /\ c # "viewer"
  BY <1>0, <1>r, LobbyAssumption, InsideIsLive DEF Carried, Routed, Colors
<1>b. /\ at'[x] = to /\ \A y \in Conns \ {x} : at'[y] = at[y]
      /\ m \in MatchView /\ m.seats = match[r].seats /\ m.watchers = match[r].watchers
  <2>1. match[r] \in MatchView
    BY <1>a DEF TypeOK
  <2>2. QED BY <1>p, <2>1 DEF TypeOK, MatchView
<1>d. /\ match' \in [RoomIds -> MatchView]
      /\ \A q \in RoomIds : match'[q].seats = match[q].seats /\ match'[q].watchers = match[q].watchers
      /\ \A q \in RoomIds \ {r} : match'[q] = match[q]
  BY <1>a, <1>b, <1>p DEF TypeOK
<1>1. TypeOK'
  BY <1>0, <1>p, <1>d DEF TypeOK, Stages, routing, scheduler
<1>2. Sessions'
  BY <1>0, <1>b DEF Sessions
<1>3. SeatsKept'
  <2>1. \A y \in Conns : hold[y].as \in Colors => hold[y].room \in RoomIds
    BY LobbyAssumption DEF Carried, Routed, TypeOK, Stages, Nowhere
  <2>2. QED BY <1>0, <1>d, <2>1 DEF SeatsKept
<1>4. (Carried /\ ReapedOnce /\ CreatorsKnowTheName)'
  BY <1>0, <1>r, <1>p, <1>a, <1>b DEF Carried, ReapedOnce, CreatorsKnowTheName, Routed, Live, routing
<1>5. Unopened'
  BY <1>0, <1>a, <1>d DEF Unopened, Live, routing, scheduler
<1>6. RoomsCountTheirConnections'
  <2>1. \A q \in RoomIds : Inside(q)' = Inside(q)
    BY <1>0, <1>r, <1>p, <1>a, <1>b DEF Inside, Routed
  <2>2. QED BY <1>0, <2>1 DEF RoomsCountTheirConnections, Live, routing
<1>7. (WatchersCounted /\ SeatsAreReserved)'
  <2>1. \A q \in RoomIds : Watching(q)' = Watching(q)
    BY <1>0, <1>r, <1>p, <1>a, <1>b DEF Watching
  <2>2. \A q \in RoomIds : Joining(q)' = Joining(q) /\ Taken(q)' = Taken(q)
    BY <1>0, <1>p, <1>b, <1>d DEF Joining, Taken
  <2>3. QED BY <1>0, <1>d, <2>1, <2>2 DEF WatchersCounted, SeatsAreReserved, Live, routing
<1>8. (NamesLeadToRooms /\ ScheduledWhileLive)'
  BY <1>0, <1>p, <1>b DEF NamesLeadToRooms, ScheduledWhileLive, Live, routing, scheduler
<1>9. (WaitingListIsExact /\ WaitingAreFarApart)'
  BY <1>0 DEF WaitingListIsExact, WaitingAreFarApart, Entry, Live, routing
<1>10. QED
  BY <1>1, <1>2, <1>3, <1>4, <1>5, <1>6, <1>7, <1>8, <1>9

LEMMA WatchKeeps ==
  ASSUME Inv, NEW x \in Conns, Watch(x)
  PROVE  Inv'
<1> USE DEF Inv
<1>r. PICK r : r = hold[x].room
  OBVIOUS
<1>0. /\ at[x] = "watching"
      /\ UNCHANGED <<user, hold, registry, routing, directory, scheduler>>
  BY DEF Watch
<1>a. /\ r \in RoomIds /\ hold[x].as = "viewer" /\ "viewer" # None /\ "viewer" \notin Colors
      /\ Live(r) /\ match[r] \in MatchView
  BY <1>0, <1>r, LobbyAssumption, InsideIsLive DEF Carried, Routed, Colors, TypeOK
<1>p. PICK to, n : /\ at' = [at EXCEPT ![x] = to]
                   /\ match' = [match EXCEPT ![r] = [match[r] EXCEPT !.watchers = n]]
                   /\ \/ to = "idle" /\ n = match[r].watchers + 1 /\ n <= MaxSpectators
                      \/ to = "refused" /\ n = match[r].watchers
  <2>1. CASE RoomToWatch(match[r])
    <3>1. match[r].watchers + 1 <= MaxSpectators
      BY <2>1, <1>a, LobbyAssumption DEF RoomToWatch, MatchView
    <3>2. QED BY <2>1, <1>r, <3>1 DEF Watch, Goes, MatchBecomes
  <2>2. CASE ~RoomToWatch(match[r])
    <3>1. match' = match /\ at' = [at EXCEPT ![x] = "refused"]
      BY <2>2, <1>r DEF Watch, Goes
    <3>2. match' = [match EXCEPT ![r] = [match[r] EXCEPT !.watchers = match[r].watchers]]
      BY <3>1, <1>a DEF TypeOK, MatchView
    <3>3. QED BY <3>1, <3>2
  <2>3. QED BY <2>1, <2>2
<1>b. at'[x] = to /\ \A y \in Conns \ {x} : at'[y] = at[y] /\ hold'[y] = hold[y]
  BY <1>0, <1>p DEF TypeOK
<1>d. /\ match' \in [RoomIds -> MatchView]
      /\ \A q \in RoomIds : match'[q].seats = match[q].seats
      /\ \A q \in RoomIds \ {r} : match'[q] = match[q]
      /\ match'[r].watchers = n
  <2>1. n \in 0 .. MaxSpectators
    BY <1>p, <1>a, LobbyAssumption DEF MatchView
  <2>2. [match[r] EXCEPT !.watchers = n] \in MatchView
    BY <1>a, <2>1 DEF MatchView
  <2>3. [match[r] EXCEPT !.watchers = n].seats = match[r].seats
        /\ [match[r] EXCEPT !.watchers = n].watchers = n
    BY <1>a DEF MatchView
  <2>4. QED BY <1>a, <1>p, <2>2, <2>3 DEF TypeOK
<1>1. TypeOK'
  BY <1>0, <1>p, <1>d DEF TypeOK, Stages, routing, scheduler
<1>2. Sessions'
  BY <1>0, <1>b DEF Sessions
<1>3. SeatsKept'
  <2>1. \A y \in Conns : hold[y].as \in Colors => hold[y].room \in RoomIds
    BY LobbyAssumption DEF Carried, Routed, TypeOK, Stages, Nowhere
  <2>2. QED BY <1>0, <1>d, <2>1 DEF SeatsKept
<1>4. (Carried /\ ReapedOnce /\ CreatorsKnowTheName)'
  BY <1>0, <1>r, <1>p, <1>a, <1>b DEF Carried, ReapedOnce, CreatorsKnowTheName, Routed, Live, routing
<1>5. Unopened'
  BY <1>0, <1>a, <1>d DEF Unopened, Live, routing, scheduler
<1>6. RoomsCountTheirConnections'
  <2>1. \A q \in RoomIds : Inside(q)' = Inside(q)
    BY <1>0, <1>r, <1>p, <1>a, <1>b DEF Inside, Routed
  <2>2. QED BY <1>0, <2>1 DEF RoomsCountTheirConnections, Live, routing
<1>7. WatchersCounted'
  <2>1. x \notin Watching(r) /\ (x \in Watching(r)') = (to = "idle")
    BY <1>0, <1>r, <1>p, <1>a, <1>b DEF Watching
  <2>2. Cardinality(Watching(r)') = Cardinality(Watching(r)) + IF to = "idle" THEN 1 ELSE 0
    BY <1>b, <2>1, OneMoves
  <2>3. n = Cardinality(Watching(r)')
    BY <1>a, <1>p, <2>2 DEF WatchersCounted, MatchView
  <2>4. \A q \in RoomIds \ {r} : Watching(q)' = Watching(q)
    BY <1>0, <1>r, <1>b DEF Watching
  <2>5. QED BY <1>0, <1>a, <1>d, <2>3, <2>4 DEF WatchersCounted, Live, routing
<1>8. SeatsAreReserved'
  <2>1. \A q \in RoomIds : Joining(q)' = Joining(q) /\ Taken(q)' = Taken(q)
    BY <1>0, <1>p, <1>b, <1>d DEF Joining, Taken
  <2>2. QED BY <1>0, <2>1 DEF SeatsAreReserved, Live, routing
<1>9. (NamesLeadToRooms /\ ScheduledWhileLive)'
  BY <1>0, <1>p, <1>b DEF NamesLeadToRooms, ScheduledWhileLive, Live, routing, scheduler
<1>10. (WaitingListIsExact /\ WaitingAreFarApart)'
  BY <1>0 DEF WaitingListIsExact, WaitingAreFarApart, Entry, Live, routing
<1>11. QED
  BY <1>1, <1>2, <1>3, <1>4, <1>5, <1>6, <1>7, <1>8, <1>9, <1>10

LEMMA CloseKeeps ==
  ASSUME Inv, NEW x \in Conns, Close(x)
  PROVE  Inv'
<1> USE DEF Inv
<1>r. PICK r, c : r = hold[x].room /\ c = hold[x].as
  OBVIOUS
<1>0. /\ at[x] = "idle" /\ user[x] # None
      /\ UNCHANGED <<user, hold, registry, routing, directory, scheduler>>
  BY DEF Close, Goes
<1>c. /\ 0 \notin RoomIds /\ None \notin Colors /\ "viewer" # None /\ "viewer" \notin Colors
      /\ Nowhere.as = None /\ Nowhere.room = 0
  BY LobbyAssumption DEF RoomIds, Colors, Nowhere
<1>1. CASE hold[x] = Nowhere
  <2>1. at' = [at EXCEPT ![x] = "releasing"] /\ match' = match
    BY <1>1 DEF Close, Goes, CloseTo
  <2>b. at'[x] = "releasing" /\ \A y \in Conns \ {x} : at'[y] = at[y]
    BY <2>1 DEF TypeOK
  <2>2. TypeOK'
    BY <1>0, <2>1 DEF TypeOK, Stages, routing, scheduler
  <2>3. (Sessions /\ SeatsKept)'
    BY <1>0, <2>1, <2>b DEF Sessions, SeatsKept
  <2>4. (Carried /\ ReapedOnce /\ CreatorsKnowTheName /\ Unopened)'
    BY <1>0, <1>1, <2>1, <2>b DEF Carried, ReapedOnce, CreatorsKnowTheName, Unopened, Routed, Live,
           routing, scheduler
  <2>5. \A q \in RoomIds : /\ Inside(q)' = Inside(q) /\ Watching(q)' = Watching(q)
                           /\ Joining(q)' = Joining(q) /\ Taken(q)' = Taken(q)
    BY <1>0, <1>1, <1>c, <2>1, <2>b DEF Inside, Watching, Joining, Taken, Routed
  <2>6. (RoomsCountTheirConnections /\ WatchersCounted /\ SeatsAreReserved)'
    BY <1>0, <2>1, <2>5 DEF RoomsCountTheirConnections, WatchersCounted, SeatsAreReserved, Live, routing
  <2>7. (NamesLeadToRooms /\ ScheduledWhileLive)'
    BY <1>0, <2>b DEF NamesLeadToRooms, ScheduledWhileLive, Live, routing, scheduler
  <2>8. (WaitingListIsExact /\ WaitingAreFarApart)'
    BY <1>0 DEF WaitingListIsExact, WaitingAreFarApart, Entry, Live, routing
  <2>9. QED
    BY <2>2, <2>3, <2>4, <2>6, <2>7, <2>8
<1>2. CASE hold[x] # Nowhere
  <2>a. r \in RoomIds /\ c # None /\ Live(r) /\ match[r] \in MatchView /\ c \in Colors \cup {"viewer"}
    <3>1. r \in RoomIds /\ c # None
      BY <1>0, <1>r, <1>2 DEF Carried
    <3>2. QED BY <1>0, <1>r, <3>1, InsideIsLive DEF TypeOK, Holding
  <2>1. at' = [at EXCEPT ![x] = "counting"] /\ match' = [match EXCEPT ![r] = Told(match[r], c)]
    BY <1>2, <1>r DEF Close, Goes, CloseTo, MatchBecomes
  <2>b. at'[x] = "counting" /\ \A y \in Conns \ {x} : at'[y] = at[y] /\ hold'[y] = hold[y]
    BY <1>0, <2>1 DEF TypeOK
  <2>d. /\ match[r].watchers = Cardinality(Watching(r))
        /\ c = "viewer" => match[r].watchers > 0
    <3>1. c = "viewer" => x \in Watching(r)
      BY <1>0, <1>r DEF Watching
    <3>2. QED BY <2>a, <2>b, <3>1, OneMoves DEF WatchersCounted
  <2>e. /\ Told(match[r], c) \in MatchView /\ Told(match[r], c).seats = match[r].seats
        /\ Told(match[r], c).watchers = IF c = "viewer" THEN match[r].watchers - 1 ELSE match[r].watchers
    <3>1. CASE c = "viewer"
      <4>1. match[r].watchers - 1 \in 0 .. MaxSpectators
        BY <2>a, <2>d, <3>1, LobbyAssumption DEF MatchView
      <4>2. QED BY <2>a, <3>1, <4>1 DEF Told, MatchView
    <3>2. CASE c # "viewer"
      BY <2>a, <3>2 DEF Told, MatchView
    <3>3. QED BY <3>1, <3>2
  <2>f. /\ match' \in [RoomIds -> MatchView]
        /\ \A q \in RoomIds : match'[q].seats = match[q].seats
        /\ \A q \in RoomIds \ {r} : match'[q] = match[q]
        /\ match'[r] = Told(match[r], c)
    BY <2>1, <2>a, <2>e DEF TypeOK
  <2>2. TypeOK'
    BY <1>0, <2>1, <2>f DEF TypeOK, Stages, routing, scheduler
  <2>3. Sessions'
    BY <1>0, <2>b DEF Sessions
  <2>4. SeatsKept'
    <3>1. \A y \in Conns : hold[y].as \in Colors => hold[y].room \in RoomIds
      BY <1>c DEF Carried, Routed, TypeOK, Stages, Nowhere
    <3>2. QED BY <1>0, <2>f, <3>1 DEF SeatsKept
  <2>5. (Carried /\ ReapedOnce /\ CreatorsKnowTheName)'
    BY <1>0, <1>r, <2>a, <2>b DEF Carried, ReapedOnce, CreatorsKnowTheName, Routed, Live, routing
  <2>6. Unopened'
    BY <1>0, <2>a, <2>f DEF Unopened, Live, routing, scheduler
  <2>7. \A q \in RoomIds : /\ Inside(q)' = Inside(q)
                           /\ Joining(q)' = Joining(q) /\ Taken(q)' = Taken(q)
    BY <1>0, <1>r, <2>a, <2>b, <2>f DEF Inside, Joining, Taken, Routed
  <2>8. (RoomsCountTheirConnections /\ SeatsAreReserved)'
    BY <1>0, <2>7 DEF RoomsCountTheirConnections, SeatsAreReserved, Live, routing
  <2>9. WatchersCounted'
    <3>1. (x \in Watching(r)) = (c = "viewer") /\ x \notin Watching(r)'
      BY <1>0, <1>r, <2>b DEF Watching
    <3>2. Cardinality(Watching(r)') = Cardinality(Watching(r)) - IF c = "viewer" THEN 1 ELSE 0
      BY <2>b, <3>1, OneMoves
    <3>3. Cardinality(Watching(r)) \in Nat
      BY <2>b, OneMoves
    <3>4. match'[r].watchers = Cardinality(Watching(r)')
      BY <2>d, <2>e, <2>f, <3>2, <3>3
    <3>5. \A q \in RoomIds \ {r} : Watching(q)' = Watching(q)
      BY <1>0, <1>r, <2>b DEF Watching
    <3>6. QED BY <1>0, <2>a, <2>f, <3>4, <3>5 DEF WatchersCounted, Live, routing
  <2>10. (NamesLeadToRooms /\ ScheduledWhileLive)'
    BY <1>0, <2>b DEF NamesLeadToRooms, ScheduledWhileLive, Live, routing, scheduler
  <2>11. (WaitingListIsExact /\ WaitingAreFarApart)'
    BY <1>0 DEF WaitingListIsExact, WaitingAreFarApart, Entry, Live, routing
  <2>12. QED
    BY <2>2, <2>3, <2>4, <2>5, <2>6, <2>8, <2>9, <2>10, <2>11
<1>3. QED
  BY <1>1, <1>2

LEMMA CountOutKeeps ==
  ASSUME Inv, NEW x \in Conns, CountOut(x)
  PROVE  Inv'
<1> USE DEF Inv
<1>r. PICK r : r = hold[x].room
  OBVIOUS
<1>n. PICK n : n = rooms[r].name
  OBVIOUS
<1>0. /\ at[x] = "counting"
      /\ UNCHANGED <<user, registry, nextRoom, directory, scheduler>>
  BY DEF CountOut
<1>a. /\ r \in RoomIds /\ Live(r) /\ rooms[r] \in Room /\ x \in Inside(r) /\ hold[x].as # None
      /\ n \in Names \cup {None} /\ rooms[r].connected = Cardinality(Inside(r))
  <2>1. r \in RoomIds /\ Live(r) /\ rooms[r] \in Room /\ x \in Inside(r) /\ hold[x].as # None
    BY <1>0, <1>r, InsideIsLive DEF Carried, Routed
  <2>2. QED BY <2>1, <1>n DEF RoomsCountTheirConnections, Room
<1>c. /\ 0 \notin RoomIds /\ None \notin Colors \cup {"viewer"} /\ None \notin Names
      /\ Nowhere.as = None /\ Nowhere.room = 0
  BY LobbyAssumption DEF RoomIds, Nowhere
<1>f. Cardinality(Inside(r)) \in Nat \ {0}
  BY <1>a, OneMoves, LobbyAssumption, FS_Subset, FS_CardinalityType, FS_EmptySet DEF Inside
<1>1. CASE LastOne(r)
  <2>0. /\ at' = [at EXCEPT ![x] = "unscheduling"]
        /\ hold' = [hold EXCEPT ![x] = [room |-> r, as |-> None, name |-> n]]
        /\ named' = [m \in Names |-> IF m = n THEN 0 ELSE named[m]]
        /\ waiting' = waiting \ {Entry(r)}
        /\ rooms' = [rooms EXCEPT ![r] = None]
        /\ match' = [match EXCEPT ![r] = NewMatch]
    BY <1>1, <1>r, <1>n DEF CountOut, Reaped, Goes, Holds, MatchBecomes
  <2>a. Inside(r) = {x}
    <3>1. rooms[r].connected = 1
      BY <1>1, <1>a, <1>f DEF LastOne
    <3>2. IsFiniteSet(Inside(r))
      BY LobbyAssumption, FS_Subset DEF Inside
    <3>3. PICK y : Inside(r) = {y}
      BY <1>a, <3>1, <3>2, FS_Singleton
    <3>4. QED BY <1>a, <3>3
  <2>b. /\ at'[x] = "unscheduling" /\ hold'[x] = [room |-> r, as |-> None, name |-> n]
        /\ \A y \in Conns \ {x} : at'[y] = at[y] /\ hold'[y] = hold[y]
    BY <2>0 DEF TypeOK
  <2>d. /\ rooms'[r] = None /\ \A q \in RoomIds \ {r} : rooms'[q] = rooms[q] /\ match'[q] = match[q]
        /\ rooms' \in [RoomIds -> Room \cup {None}]
        /\ NewMatch \in MatchView /\ match' \in [RoomIds -> MatchView] /\ match'[r] = NewMatch
    <3>1. NewMatch \in MatchView
      BY LobbyAssumption DEF NewMatch, MatchView
    <3>2. QED BY <1>a, <2>0, <3>1 DEF TypeOK
  <2>e. \A q \in RoomIds : Live(q)' = (Live(q) /\ q # r)
    BY <2>d DEF Live
  <2>1. TypeOK'
    <3>1. [room |-> r, as |-> None, name |-> n] \in Holding
      BY <1>a DEF Holding
    <3>2. named' \in [Names -> {0} \cup RoomIds] /\ waiting' \subseteq [rating : Nat, room : RoomIds]
      BY <2>0 DEF TypeOK
    <3>3. QED BY <1>0, <2>0, <2>d, <3>1, <3>2 DEF TypeOK, Stages, scheduler
  <2>2. Sessions'
    BY <1>0, <1>a, <1>c, <1>r, <2>b DEF Sessions
  <2>3. Carried'
    BY <1>a, <1>c, <2>b DEF Carried, Routed
  <2>4. Unopened'
    BY <1>0, <1>a, <1>r, <2>b, <2>d DEF Unopened, scheduler
  <2>5. \A y \in Conns \ {x} : hold[y].room = r => at[y] \notin Routed /\ (at[y] = "idle" => hold[y].as = None)
    BY <2>a DEF Inside
  <2>6. SeatsKept'
    <3>1. \A y \in Conns \ {x} : hold[y].as \in Colors => hold[y].room \in RoomIds \ {r}
      BY <1>c, <2>5 DEF Carried, Routed, TypeOK, Stages, Nowhere
    <3>2. QED BY <1>0, <1>c, <2>b, <2>d, <3>1 DEF SeatsKept
  <2>7. ReapedOnce'
    <3>1. \A y \in Conns \ {x} : at[y] = "unscheduling" => hold[y].room \in RoomIds \ {r}
      BY <1>a DEF ReapedOnce, Carried
    <3>2. \A y \in Conns : at'[y] = "unscheduling" => rooms'[hold'[y].room] = None
      <4> TAKE y \in Conns
      <4>1. CASE y = x
        BY <2>b, <2>d, <4>1
      <4>2. CASE y # x
        BY <2>b, <2>d, <3>1, <4>2 DEF ReapedOnce, Live
      <4>3. QED BY <4>1, <4>2
    <3>3. \A y \in Conns : at'[y] = "unscheduling" =>
             \A z \in Conns \ {y} : at'[z] = "unscheduling" => hold'[z].room # hold'[y].room
      <4> TAKE y \in Conns
      <4>1. CASE y = x
        BY <2>b, <3>1, <4>1
      <4>2. CASE y # x
        BY <2>b, <3>1, <4>2 DEF ReapedOnce
      <4>3. QED BY <4>1, <4>2
    <3>4. QED BY <3>2, <3>3 DEF ReapedOnce, Live
  <2>8. CreatorsKnowTheName'
    <3>1. \A y \in Conns \ {x} : at[y] \in {"creating", "registering"} => hold[y].room \in RoomIds \ {r}
      BY <2>5 DEF Carried, Routed
    <3>2. QED BY <2>b, <2>d, <3>1 DEF CreatorsKnowTheName
  <2>9. \A q \in RoomIds \ {r} : /\ Inside(q)' = Inside(q) /\ Watching(q)' = Watching(q)
                                 /\ Joining(q)' = Joining(q) /\ Taken(q)' = Taken(q)
    BY <1>0, <1>r, <2>b, <2>d DEF Inside, Watching, Joining, Taken
  <2>10. RoomsCountTheirConnections'
    <3>1. Inside(r)' = {}
      BY <2>b, <2>5 DEF Inside, Routed
    <3>2. QED BY <2>d, <2>e, <2>9, <3>1 DEF RoomsCountTheirConnections
  <2>11. (WatchersCounted /\ SeatsAreReserved)'
    BY <2>d, <2>e, <2>9 DEF WatchersCounted, SeatsAreReserved
  <2>12. NamesLeadToRooms'
    <3>1. \A m \in Names : named'[m] = IF m = n THEN 0 ELSE named[m]
      BY <2>0
    <3>2. ASSUME NEW m \in Names, named'[m] # 0
          PROVE  rooms'[named'[m]] # None /\ rooms'[named'[m]].name = m
      <4>1. m # n /\ named'[m] = named[m] /\ Live(named[m]) /\ rooms[named[m]].name = m
        BY <3>1, <3>2 DEF NamesLeadToRooms
      <4>2. named[m] \in RoomIds /\ named[m] # r
        BY <4>1, <1>n, <3>2 DEF TypeOK
      <4>3. QED BY <2>d, <4>1, <4>2 DEF Live
    <3>3. ASSUME NEW q \in RoomIds, Live(q)', rooms'[q].name # None
          PROVE  named'[rooms'[q].name] = q
      <4>1. q # r /\ Live(q) /\ rooms'[q] = rooms[q] /\ named[rooms[q].name] = q
        BY <2>d, <2>e, <3>3 DEF NamesLeadToRooms
      <4>2. rooms[q].name \in Names
        BY <3>3, <4>1 DEF TypeOK, Live, Room
      <4>3. rooms[q].name # n
        BY <1>a, <1>n, <4>1, <4>2, <1>c DEF NamesLeadToRooms
      <4>4. QED BY <3>1, <4>1, <4>2, <4>3
    <3>4. ASSUME NEW m \in directory, named'[m] = 0
          PROVE  \E y \in Conns : at'[y] \in {"unscheduling", "forgetting"} /\ hold'[y].name = m
      <4>1. m \in Names
        BY DEF TypeOK
      <4>2. CASE m = n
        BY <2>b, <4>2
      <4>3. CASE m # n
        <5>1. PICK y \in Conns : at[y] \in {"unscheduling", "forgetting"} /\ hold[y].name = m
          BY <3>1, <3>4, <4>1, <4>3 DEF NamesLeadToRooms
        <5>2. y # x
          BY <1>0, <5>1
        <5>3. QED BY <2>b, <5>1, <5>2
      <4>4. QED BY <4>2, <4>3
    <3>5. \A m \in directory : named'[m] # 0
             \/ \E y \in Conns : at'[y] \in {"unscheduling", "forgetting"} /\ hold'[y].name = m
      BY <3>4
    <3>6. QED BY <1>0, <3>2, <3>3, <3>5 DEF NamesLeadToRooms, Live
  <2>13. ScheduledWhileLive'
    <3>1. \A q \in RoomIds : (\E y \in Conns : at'[y] = "unscheduling" /\ hold'[y].room = q)
             = (q = r \/ (\E y \in Conns : at[y] = "unscheduling" /\ hold[y].room = q))
      <4> TAKE q \in RoomIds
      <4>1. q = r => (\E y \in Conns : at'[y] = "unscheduling" /\ hold'[y].room = q)
        BY <2>b
      <4>2. ASSUME q # r
            PROVE  \A y \in Conns : (at'[y] = "unscheduling" /\ hold'[y].room = q)
                                    = (at[y] = "unscheduling" /\ hold[y].room = q)
        BY <1>0, <2>b, <4>2
      <4>3. \A y \in Conns : at[y] = "unscheduling" => hold[y].room # r
        BY <1>a DEF ReapedOnce
      <4>4. QED BY <4>1, <4>2, <4>3
    <3>2. QED BY <1>0, <1>a, <2>e, <3>1 DEF ScheduledWhileLive, scheduler
  <2>14. WaitingListIsExact'
    <3>1. \A q \in RoomIds \ {r} : Entry(q)' = Entry(q)
      BY <2>d DEF Entry
    <3>2. \A q \in RoomIds : Entry(q) = Entry(r) => q = r
      BY DEF Entry
    <3>3. DEFINE Alone(q) == Live(q) /\ rooms[q].name = None /\ rooms[q].seatsTaken = 1
    <3>4. \A q \in RoomIds : Alone(q)' = (Alone(q) /\ q # r)
      BY <2>d, <2>e
    <3>5. waiting = {Entry(q) : q \in {p \in RoomIds : Alone(p)}}
      BY DEF WaitingListIsExact
    <3> HIDE DEF Alone
    <3>6. waiting' = {Entry(q)' : q \in {p \in RoomIds : Alone(p)'}}
      BY <2>0, <3>1, <3>2, <3>4, <3>5
    <3> USE DEF Alone
    <3>7. QED BY <3>6 DEF WaitingListIsExact
  <2>15. WaitingAreFarApart'
    BY <2>0 DEF WaitingAreFarApart
  <2>16. QED
    BY <2>1, <2>2, <2>3, <2>4, <2>6, <2>7, <2>8, <2>10, <2>11, <2>12, <2>13, <2>14, <2>15
<1>2. CASE ~LastOne(r)
  <2>0. /\ at' = [at EXCEPT ![x] = "releasing"] /\ hold' = [hold EXCEPT ![x] = Nowhere]
        /\ rooms' = [rooms EXCEPT ![r].connected = @ - 1]
        /\ UNCHANGED <<named, waiting, match>>
    BY <1>2, <1>r DEF CountOut, Goes, Holds, Nowhere
  <2>b. /\ at'[x] = "releasing" /\ hold'[x] = Nowhere
        /\ \A y \in Conns \ {x} : at'[y] = at[y] /\ hold'[y] = hold[y]
    BY <2>0 DEF TypeOK
  <2>d. /\ rooms'[r] = [rooms[r] EXCEPT !.connected = @ - 1] /\ rooms'[r] \in Room
        /\ rooms' \in [RoomIds -> Room \cup {None}]
        /\ \A q \in RoomIds \ {r} : rooms'[q] = rooms[q]
    <3>1. [rooms[r] EXCEPT !.connected = @ - 1] \in Room
      BY <1>a, <1>f DEF Room
    <3>2. QED BY <1>a, <2>0, <3>1 DEF TypeOK
  <2>e. \A q \in RoomIds : Live(q)' = Live(q) /\ Entry(q)' = Entry(q)
                           /\ rooms'[q].name = rooms[q].name /\ rooms'[q].seatsTaken = rooms[q].seatsTaken
    BY <1>a, <2>d, NoneAssumption DEF Live, Entry, Room
  <2>1. TypeOK'
    <3>1. Nowhere \in Holding
      BY DEF Nowhere, Holding
    <3>2. QED BY <1>0, <2>0, <2>d, <3>1 DEF TypeOK, Stages, scheduler
  <2>2. Sessions' /\ SeatsKept'
    BY <1>0, <1>c, <2>0, <2>b DEF Sessions, SeatsKept
  <2>3. (Carried /\ ReapedOnce)'
    BY <1>0, <1>c, <2>b, <2>e DEF Carried, ReapedOnce, Routed
  <2>4. CreatorsKnowTheName' /\ Unopened'
    <3>1. \A y \in Conns : at'[y] \in {"creating", "registering"} => hold[y].room \in RoomIds
      BY <2>b DEF Carried, Routed
    <3>2. CreatorsKnowTheName'
      BY <2>b, <2>e, <3>1 DEF CreatorsKnowTheName
    <3>3. Unopened'
      BY <1>0, <1>c, <2>0, <2>b, <2>e DEF Unopened, TypeOK, scheduler, Live
    <3>4. QED BY <3>2, <3>3
  <2>5. RoomsCountTheirConnections'
    <3>1. \A q \in RoomIds : (x \in Inside(q)) = (q = r) /\ x \notin Inside(q)'
      BY <1>0, <1>r, <1>a, <2>b DEF Inside, Routed
    <3>2. \A q \in RoomIds : q # r => Inside(q)' = Inside(q)
      BY <2>b, <3>1 DEF Inside
    <3>3. Cardinality(Inside(r)') = Cardinality(Inside(r)) - 1
      BY <1>a, <2>b, <3>1, OneMoves
    <3>4. rooms'[r].connected = Cardinality(Inside(r)')
      BY <1>a, <2>d, <3>3 DEF Room
    <3>5. QED BY ZenonT(30), <1>a, <2>d, <2>e, <3>2, <3>4 DEF RoomsCountTheirConnections
  <2>6. (WatchersCounted /\ SeatsAreReserved)'
    <3>1. \A q \in RoomIds : Watching(q)' = Watching(q)
      BY <1>0, <2>b DEF Watching
    <3>2. \A q \in RoomIds : Joining(q)' = Joining(q) /\ Taken(q)' = Taken(q)
      BY <1>0, <2>0, <2>b DEF Joining, Taken
    <3>3. QED BY <2>0, <2>e, <3>1, <3>2 DEF WatchersCounted, SeatsAreReserved
  <2>7. NamesLeadToRooms'
    BY <1>0, <2>0, <2>b, <2>e DEF NamesLeadToRooms, TypeOK
  <2>8. ScheduledWhileLive'
    BY <1>0, <2>b, <2>e DEF ScheduledWhileLive, scheduler
  <2>9. (WaitingListIsExact /\ WaitingAreFarApart)'
    BY <2>0, <2>e DEF WaitingListIsExact, WaitingAreFarApart, Gap
  <2>10. QED
    BY <2>1, <2>2, <2>3, <2>4, <2>5, <2>6, <2>7, <2>8, <2>9
<1>3. QED
  BY <1>1, <1>2

LEMMA JoinKeeps ==
  ASSUME Inv, NEW x \in Conns, NEW from, NEW to,
         \/ from = "joining" /\ to = "idle"
         \/ from = "creating" /\ to = "registering",
         Join(x, from, to)
  PROVE  Inv'
<1> USE DEF Inv
<1>r. PICK r, n, c : r = hold[x].room /\ n = hold[x].name /\ c = FirstFree(r)
  OBVIOUS
<1>u. PICK u : u = user[x]
  OBVIOUS
<1>0. /\ at[x] = from /\ at' = [at EXCEPT ![x] = to]
      /\ hold' = [hold EXCEPT ![x] = [room |-> r, as |-> c, name |-> n]]
      /\ match' = [match EXCEPT ![r] = [match[r] EXCEPT !.seats[c] = u]]
      /\ FreeSeatsOf(match[r]) # {}
      /\ UNCHANGED <<user, registry, routing, directory, scheduler>>
  BY <1>r, <1>u DEF Join, Goes, Holds, MatchBecomes
<1>a. /\ r \in RoomIds /\ Live(r) /\ hold[x].as = None /\ match[r] \in MatchView
      /\ n \in Names \cup {None} /\ (from = "creating" => n \in Names)
      /\ u \in Users /\ u # None
  BY <1>0, <1>r, <1>u, InsideIsLive, LobbyAssumption DEF Carried, Routed, TypeOK, Holding, Sessions
<1>c. /\ 0 \notin RoomIds /\ None \notin Colors /\ "viewer" \notin Colors
      /\ c \in Colors /\ c # None /\ c # "viewer" /\ match[r].seats[c] = None
  <2>1. 0 \notin RoomIds /\ None \notin Colors /\ "viewer" \notin Colors
    BY LobbyAssumption DEF RoomIds, Colors
  <2>2. c \in Colors /\ match[r].seats[c] = None
    BY <1>0, <1>r DEF FirstFree, FreeSeatsOf, Colors
  <2>3. QED BY <2>1, <2>2
<1>b. /\ at'[x] = to /\ hold'[x] = [room |-> r, as |-> c, name |-> n]
      /\ \A y \in Conns \ {x} : at'[y] = at[y] /\ hold'[y] = hold[y]
  BY <1>0 DEF TypeOK
<1>d. /\ match' \in [RoomIds -> MatchView]
      /\ match'[r].seats = [match[r].seats EXCEPT ![c] = u]
      /\ \A q \in RoomIds : match'[q].watchers = match[q].watchers
      /\ \A q \in RoomIds \ {r} : match'[q] = match[q]
  <2>1. match[r].seats \in [Colors -> Users \cup {None}]
    BY <1>a DEF MatchView
  <2>2. [match[r].seats EXCEPT ![c] = u] \in [Colors -> Users \cup {None}]
    BY <2>1, <1>a
  <2>3. /\ [match[r] EXCEPT !.seats[c] = u] \in MatchView
        /\ [match[r] EXCEPT !.seats[c] = u].seats = [match[r].seats EXCEPT ![c] = u]
        /\ [match[r] EXCEPT !.seats[c] = u].watchers = match[r].watchers
    BY <1>a, <2>2 DEF MatchView
  <2>4. QED BY <1>0, <1>a, <2>3 DEF TypeOK
<1>1. TypeOK'
  <2>1. [room |-> r, as |-> c, name |-> n] \in Holding
    BY <1>a, <1>c DEF Holding
  <2>2. to \in Stages
    BY DEF Stages
  <2>3. at' \in [Conns -> Stages] /\ hold' \in [Conns -> Holding]
    BY <1>0, <2>1, <2>2 DEF TypeOK
  <2>4. QED BY <1>0, <1>d, <2>3 DEF TypeOK, routing, scheduler
<1>2. Sessions'
  BY <1>0, <1>a, <1>b, <1>u DEF Sessions
<1>3. SeatsKept'
  <2>1. \A y \in Conns : hold[y].as \in Colors => hold[y].room \in RoomIds
    BY <1>c, LobbyAssumption DEF Carried, Routed, TypeOK, Stages, Nowhere
  <2>2. \A y \in Conns \ {x} : hold[y].as \in Colors /\ hold[y].room = r => hold[y].as # c
    <3> SUFFICES ASSUME NEW y \in Conns \ {x}, hold[y].as = c, hold[y].room = r PROVE FALSE
      BY <1>c
    <3>1. match[r].seats[c] = user[y]
      BY <1>c DEF SeatsKept
    <3>2. user[y] # None
      BY <1>c, LobbyAssumption DEF Sessions, Nowhere
    <3>3. QED BY <1>c, <3>1, <3>2
  <2>3. match[r].seats \in [Colors -> Users \cup {None}]
    BY <1>a DEF MatchView
  <2>4. match'[r].seats[c] = u /\ \A d \in Colors \ {c} : match'[r].seats[d] = match[r].seats[d]
    BY <1>c, <1>d, <2>3
  <2>5. \A y \in Conns \ {x} : hold'[y].as \in Colors => match'[hold'[y].room].seats[hold'[y].as] = user'[y]
    <3> SUFFICES ASSUME NEW y \in Conns \ {x}, hold[y].as \in Colors
                 PROVE  match'[hold[y].room].seats[hold[y].as] = user[y]
      BY <1>0, <1>b
    <3>1. CASE hold[y].room = r
      BY <2>2, <2>4, <3>1 DEF SeatsKept
    <3>2. CASE hold[y].room # r
      BY <1>d, <2>1, <3>2 DEF SeatsKept
    <3>3. QED BY <3>1, <3>2
  <2>6. match'[hold'[x].room].seats[hold'[x].as] = user'[x]
    BY <1>0, <1>b, <1>u, <2>4
  <2>7. QED BY <2>5, <2>6 DEF SeatsKept
<1>4. (Carried /\ ReapedOnce)'
  <2>1. CASE from = "joining" /\ to = "idle"
    BY <1>0, <1>a, <1>b, <1>c, <2>1 DEF Carried, ReapedOnce, Routed, Live, routing
  <2>2. CASE from = "creating" /\ to = "registering"
    BY <1>0, <1>a, <1>b, <1>c, <2>2 DEF Carried, ReapedOnce, Routed, Live, routing
  <2>3. QED BY <2>1, <2>2
<1>5. CreatorsKnowTheName'
  <2>1. to = "registering" => rooms[r].name = n
    BY <1>0, <1>r DEF CreatorsKnowTheName
  <2>2. QED BY <1>0, <1>b, <2>1 DEF CreatorsKnowTheName, routing
<1>6. Unopened'
  BY <1>0, <1>a, <1>b, <1>d, <1>r DEF Unopened, Live, routing, scheduler
<1>7. RoomsCountTheirConnections'
  <2>1. \A q \in RoomIds : Inside(q)' = Inside(q)
    BY <1>0, <1>r, <1>a, <1>b, <1>c DEF Inside, Routed
  <2>2. QED BY <1>0, <2>1 DEF RoomsCountTheirConnections, Live, routing
<1>8. WatchersCounted'
  <2>1. \A q \in RoomIds : Watching(q)' = Watching(q)
    BY <1>0, <1>a, <1>b, <1>c DEF Watching
  <2>2. QED BY <1>0, <1>d, <2>1 DEF WatchersCounted, Live, routing
<1>9. SeatsAreReserved'
  <2>1. \A q \in RoomIds \ {r} : Taken(q)' = Taken(q) /\ Joining(q)' = Joining(q)
    BY <1>0, <1>r, <1>b, <1>d DEF Taken, Joining
  <2>2. x \in Joining(r) /\ x \notin Joining(r)'
    BY <1>0, <1>r, <1>b DEF Joining
  <2>3. Cardinality(Joining(r)') = Cardinality(Joining(r)) - 1 /\ Cardinality(Joining(r)) \in Nat
    BY <1>b, <2>2, OneMoves
  <2>4. match[r].seats \in [Colors -> Users \cup {None}]
    BY <1>a DEF MatchView
  <2>5. Taken(r) \ {c} = Taken(r)' \ {c} /\ c \notin Taken(r) /\ c \in Taken(r)'
    BY <1>a, <1>c, <1>d, <2>4 DEF Taken
  <2>6. IsFiniteSet(Taken(r))
    <3>1. IsFiniteSet({"White"}) /\ Colors = {"White"} \cup {"Black"}
      BY FS_Singleton DEF Colors
    <3>2. IsFiniteSet(Colors)
      BY <3>1, FS_AddElement
    <3>3. QED BY <3>2, FS_Subset DEF Taken
  <2>7. Cardinality(Taken(r)') = Cardinality(Taken(r)) + 1 /\ Cardinality(Taken(r)) \in Nat
    BY <2>5, <2>6, OneDiffers
  <2>8. Cardinality(Taken(r)') + Cardinality(Joining(r)') = Cardinality(Taken(r)) + Cardinality(Joining(r))
    BY <2>3, <2>7
  <2>9. QED BY <1>0, <2>1, <2>8 DEF SeatsAreReserved, Live, routing
<1>10. (NamesLeadToRooms /\ ScheduledWhileLive)'
  BY <1>0, <1>b DEF NamesLeadToRooms, ScheduledWhileLive, Live, routing, scheduler
<1>11. (WaitingListIsExact /\ WaitingAreFarApart)'
  BY <1>0 DEF WaitingListIsExact, WaitingAreFarApart, Entry, Live, routing
<1>12. QED
  BY <1>1, <1>2, <1>3, <1>4, <1>5, <1>6, <1>7, <1>8, <1>9, <1>10, <1>11

\* A connection without a seat is counted into a room that is there.
LEMMA EnterKeeps ==
  ASSUME Inv, NEW x \in Conns, NEW r \in RoomIds, NEW n \in Names \cup {None},
         NEW c, NEW to, NEW k \in {0, 1},
         Unseated(x), Live(r),
         at' = [at EXCEPT ![x] = to],
         hold' = [hold EXCEPT ![x] = [room |-> r, as |-> c, name |-> n]],
         Counted(r, k),
         waiting' \subseteq waiting,
         UNCHANGED <<user, registry, named, nextRoom, match, directory, owner, running>>,
         \/ to = "returning" /\ k = 0 /\ c \in Colors /\ match[r].seats[c] = user[x]
         \/ to = "watching" /\ k = 0 /\ c = "viewer"
         \/ to = "joining" /\ k = 1 /\ c = None /\ rooms[r].seatsTaken < 2
  PROVE  /\ TypeOK' /\ Sessions' /\ Carried' /\ Unopened'
         /\ RoomsCountTheirConnections' /\ SeatsKept' /\ SeatsAreReserved' /\ WatchersCounted'
         /\ ReapedOnce' /\ CreatorsKnowTheName' /\ NamesLeadToRooms' /\ ScheduledWhileLive'
         /\ rooms'[r].name = rooms[r].name /\ rooms'[r].rating = rooms[r].rating
         /\ rooms'[r].seatsTaken = rooms[r].seatsTaken + k /\ rooms'[r] # None
         /\ \A q \in RoomIds \ {r} : rooms'[q] = rooms[q]
<1> USE DEF Inv
<1>0. at[x] = "idle" /\ user[x] # None /\ hold[x] = Nowhere
  BY DEF Unseated, LoggedIn
<1>a. /\ rooms[r] \in Room /\ rooms[r].seatsTaken + k \in 0 .. 2
      /\ rooms[r].connected = Cardinality(Inside(r)) /\ rooms[r].connected \in Nat
      /\ match[r].seats \in [Colors -> Users \cup {None}]
  BY DEF TypeOK, Live, Room, MatchView, RoomsCountTheirConnections
<1>b. /\ at'[x] = to /\ hold'[x] = [room |-> r, as |-> c, name |-> n]
      /\ \A y \in Conns \ {x} : at'[y] = at[y] /\ hold'[y] = hold[y]
  BY DEF TypeOK
<1>c. /\ 0 \notin RoomIds /\ None \notin Colors \cup {"viewer"} /\ "viewer" \notin Colors
      /\ Nowhere.as = None /\ Nowhere.room = 0
  BY LobbyAssumption DEF RoomIds, Nowhere, Colors
<1>d. /\ rooms'[r] = CountedIn(rooms[r], k)
      /\ rooms'[r] \in Room /\ rooms'[r] # None
      /\ rooms' \in [RoomIds -> Room \cup {None}]
      /\ \A q \in RoomIds \ {r} : rooms'[q] = rooms[q]
  <2>1. CountedIn(rooms[r], k) \in Room
    <3>1. PICK m \in Room : m = rooms[r]
      BY <1>a
    <3>2. m.seatsTaken + k \in 0 .. 2 /\ m.connected + 1 \in Nat
      BY <1>a, <3>1
    <3>3. [m EXCEPT !.seatsTaken = m.seatsTaken + k, !.connected = m.connected + 1] \in Room
      BY <3>2 DEF Room
    <3>4. QED BY <3>1, <3>3 DEF CountedIn
  <2>2. QED BY <1>a, <2>1, NoneAssumption DEF TypeOK, Counted
<1>f. /\ rooms'[r].name = rooms[r].name /\ rooms'[r].rating = rooms[r].rating
      /\ rooms'[r].seatsTaken = rooms[r].seatsTaken + k
      /\ rooms'[r].connected = rooms[r].connected + 1
  BY <1>a, <1>d DEF Room, CountedIn
<1>g. \A q \in RoomIds : Live(q)' = Live(q) /\ rooms'[q].name = rooms[q].name
  BY <1>a, <1>d, <1>f DEF Live
<1>1. TypeOK'
  <2>1. c \in Colors \cup {"viewer", None} /\ to \in Stages
    BY DEF Stages
  <2>2. [room |-> r, as |-> c, name |-> n] \in Holding
    BY <2>1 DEF Holding
  <2>3. at' \in [Conns -> Stages] /\ hold' \in [Conns -> Holding]
    BY <2>1, <2>2 DEF TypeOK
  <2>4. QED BY <1>d, <2>3 DEF TypeOK
<1>2. Sessions'
  BY <1>0, <1>b DEF Sessions
<1>3. SeatsKept'
  BY <1>b, <1>c DEF SeatsKept
<1>4. Carried'
  BY <1>b, <1>c DEF Carried, Routed
<1>5. ReapedOnce'
  <2>1. \A y \in Conns : at'[y] = "unscheduling" => y # x
    BY <1>b
  <2>2. \A y \in Conns : at'[y] = "unscheduling" => rooms'[hold'[y].room] = None
    <3> TAKE y \in Conns
    <3> HAVE at'[y] = "unscheduling"
    <3>1. y # x /\ at[y] = "unscheduling" /\ hold'[y].room = hold[y].room
      BY <1>b, <2>1
    <3>2. hold[y].room \in RoomIds /\ rooms[hold[y].room] = None
      BY <3>1 DEF ReapedOnce, Live, Carried
    <3>3. QED BY <1>d, <3>1, <3>2 DEF Live
  <2>3. \A y \in Conns : at'[y] = "unscheduling" =>
           \A z \in Conns \ {y} : at'[z] = "unscheduling" => hold'[z].room # hold'[y].room
    BY <1>b, <2>1 DEF ReapedOnce
  <2>4. QED BY <2>2, <2>3 DEF ReapedOnce, Live
<1>6. CreatorsKnowTheName'
  <2>1. \A y \in Conns : at'[y] \in {"creating", "registering"} => y # x /\ hold[y].room \in RoomIds
    BY <1>b DEF Carried, Routed
  <2>2. \A y \in Conns : at'[y] \in {"creating", "registering"} =>
           rooms'[hold[y].room].name = hold[y].name
    BY <1>b, <1>g, <2>1 DEF CreatorsKnowTheName
  <2>3. QED BY <1>b, <2>1, <2>2 DEF CreatorsKnowTheName
<1>7. Unopened'
  <2>1. r < nextRoom
    BY DEF Unopened, Live, TypeOK, RoomIds
  <2>2. QED BY <1>b, <1>d, <2>1 DEF Unopened, TypeOK, RoomIds
<1>8. RoomsCountTheirConnections'
  <2>1. x \notin Inside(r) /\ x \in Inside(r)'
    BY <1>0, <1>b, <1>c DEF Inside, Routed
  <2>2. \A q \in RoomIds : q # r => Inside(q)' = Inside(q)
    BY <1>0, <1>b, <1>c DEF Inside
  <2>3. Cardinality(Inside(r)') = Cardinality(Inside(r)) + 1
    BY <1>a, <1>b, <2>1, OneMoves
  <2>4. QED BY <1>a, <1>d, <1>f, <1>g, <2>2, <2>3 DEF RoomsCountTheirConnections
<1>9. WatchersCounted'
  <2>1. \A q \in RoomIds : Watching(q)' = Watching(q)
    BY <1>0, <1>b, <1>c DEF Watching
  <2>2. QED BY <1>g, <2>1 DEF WatchersCounted
<1>10. SeatsAreReserved'
  <2>1. \A q \in RoomIds : Taken(q)' = Taken(q)
    BY DEF Taken
  <2>2. \A q \in RoomIds : q # r => Joining(q)' = Joining(q)
    BY <1>0, <1>b, <1>c DEF Joining
  <2>3. x \notin Joining(r) /\ (x \in Joining(r)') = (k = 1)
    BY <1>0, <1>b DEF Joining
  <2>4. Cardinality(Joining(r)') = Cardinality(Joining(r)) + k /\ Cardinality(Joining(r)) \in Nat
    BY <1>b, <2>3, OneMoves
  <2>5. Cardinality(Taken(r)) \in Nat
    <3>1. IsFiniteSet({"White"}) /\ Colors = {"White"} \cup {"Black"}
      BY FS_Singleton DEF Colors
    <3>2. IsFiniteSet(Colors)
      BY <3>1, FS_AddElement
    <3>3. QED BY <3>2, FS_Subset, FS_CardinalityType DEF Taken
  <2>6. rooms'[r].seatsTaken = Cardinality(Taken(r)') + Cardinality(Joining(r)')
    BY <1>f, <2>1, <2>4, <2>5 DEF SeatsAreReserved
  <2>7. rooms'[r].seatsTaken <= 2
    BY <1>a, <1>f
  <2>8. QED BY <1>d, <1>g, <2>1, <2>2, <2>6, <2>7 DEF SeatsAreReserved
<1>11. NamesLeadToRooms'
  BY <1>0, <1>b, <1>g DEF NamesLeadToRooms, TypeOK
<1>12. ScheduledWhileLive'
  BY <1>0, <1>b, <1>g DEF ScheduledWhileLive
<1>13. QED
  BY <1>1, <1>2, <1>3, <1>4, <1>5, <1>6, <1>7, <1>8, <1>9, <1>10, <1>11, <1>12, <1>d, <1>f

LEMMA JoinRoomKeeps ==
  ASSUME Inv, NEW x \in Conns, NEW n \in Names, JoinRoom(x, n)
  PROVE  Inv'
<1> USE DEF Inv
<1>r. PICK r : r = named[n]
  OBVIOUS
<1>0. /\ Unseated(x) /\ r # 0
      /\ UNCHANGED <<user, registry, named, waiting, nextRoom, match, directory, owner, running>>
  BY <1>r DEF JoinRoom, scheduler
<1>a. r \in RoomIds /\ Live(r) /\ rooms[r] \in Room /\ rooms[r].name = n /\ n # None
  BY <1>0, <1>r, LobbyAssumption DEF NamesLeadToRooms, TypeOK, Live
<1>p. PICK c, to, k : k \in {0, 1}
        /\ at' = [at EXCEPT ![x] = to]
        /\ hold' = [hold EXCEPT ![x] = [room |-> r, as |-> c, name |-> n]]
        /\ Counted(r, k)
        /\ \/ to = "returning" /\ k = 0 /\ c \in Colors /\ match[r].seats[c] = user[x]
           \/ to = "watching" /\ k = 0 /\ c = "viewer"
           \/ to = "joining" /\ k = 1 /\ c = None /\ rooms[r].seatsTaken < 2
  <2>2. CASE \E c \in Reclaimable(r, user[x]) :
               /\ Holds(x, r, c, n) /\ Goes(x, "idle", "returning")
               /\ Counted(r, 0)
    BY <2>2 DEF Holds, Goes, Reclaimable
  <2>3. CASE /\ Holds(x, r, "viewer", n) /\ Goes(x, "idle", "watching")
             /\ Counted(r, 0)
    BY <2>3 DEF Holds, Goes
  <2>4. CASE /\ rooms[r].seatsTaken < 2
             /\ Holds(x, r, None, n) /\ Goes(x, "idle", "joining")
             /\ Admit(r)
    BY <2>4 DEF Holds, Goes, Admit, Reserve
  <2>5. QED BY <1>r, <2>2, <2>3, <2>4 DEF JoinRoom
<1>1. /\ TypeOK' /\ Sessions' /\ Carried' /\ Unopened'
      /\ RoomsCountTheirConnections' /\ SeatsKept' /\ SeatsAreReserved' /\ WatchersCounted'
      /\ ReapedOnce' /\ CreatorsKnowTheName' /\ NamesLeadToRooms' /\ ScheduledWhileLive'
      /\ rooms'[r].name = rooms[r].name /\ rooms'[r].rating = rooms[r].rating
      /\ rooms'[r].seatsTaken = rooms[r].seatsTaken + k /\ rooms'[r] # None
      /\ \A q \in RoomIds \ {r} : rooms'[q] = rooms[q]
  <2>1. waiting' \subseteq waiting
    BY <1>0
  <2>2. QED BY <1>0, <1>a, <1>p, <2>1, EnterKeeps
<1>2. WaitingListIsExact'
  <2>1. DEFINE Alone(q) == Live(q) /\ rooms[q].name = None /\ rooms[q].seatsTaken = 1
  <2>2. \A q \in RoomIds : Alone(q)' = Alone(q) /\ Entry(q)' = Entry(q)
    BY <1>a, <1>1 DEF Live, Entry
  <2>3. waiting = {Entry(q) : q \in {p \in RoomIds : Alone(p)}}
    BY DEF WaitingListIsExact
  <2> HIDE DEF Alone
  <2>4. waiting' = {Entry(q)' : q \in {p \in RoomIds : Alone(p)'}}
    BY <1>0, <2>2, <2>3
  <2> USE DEF Alone
  <2>5. QED BY <2>4 DEF WaitingListIsExact
<1>3. WaitingAreFarApart'
  BY <1>0 DEF WaitingAreFarApart, Gap
<1>4. QED
  BY <1>1, <1>2, <1>3

\* A connection without a seat opens a room, which is new to everyone.
LEMMA OpenKeeps ==
  ASSUME Inv, NEW x \in Conns, NEW r \in RoomIds, NEW n \in Names \cup {None},
         NEW rating \in Nat, NEW to,
         Unseated(x), OpenRoom(r, n, rating),
         at' = [at EXCEPT ![x] = to],
         hold' = [hold EXCEPT ![x] = [room |-> r, as |-> None, name |-> n]],
         waiting' \subseteq waiting \cup {[rating |-> rating, room |-> r]},
         UNCHANGED <<user, registry, match, directory, running>>,
         \/ to = "joining" /\ n = None /\ named' = named
         \/ to = "creating" /\ n \in Names /\ named[n] = 0 /\ named' = [named EXCEPT ![n] = r]
  PROVE  /\ TypeOK' /\ Sessions' /\ Carried' /\ Unopened'
         /\ RoomsCountTheirConnections' /\ SeatsKept' /\ SeatsAreReserved' /\ WatchersCounted'
         /\ ReapedOnce' /\ CreatorsKnowTheName' /\ NamesLeadToRooms' /\ ScheduledWhileLive'
         /\ rooms'[r] = [seatsTaken |-> 1, connected |-> 1, rating |-> rating, name |-> n]
         /\ rooms'[r] # None /\ ~Live(r)
         /\ \A q \in RoomIds \ {r} : rooms'[q] = rooms[q]
<1> USE DEF Inv
<1> DEFINE new == [seatsTaken |-> 1, connected |-> 1, rating |-> rating, name |-> n]
<1>0. /\ at[x] = "idle" /\ user[x] # None /\ hold[x] = Nowhere
      /\ r = nextRoom /\ nextRoom' = r + 1
      /\ rooms' = [rooms EXCEPT ![r] = new] /\ Add(r)
  BY DEF Unseated, LoggedIn, OpenRoom
<1>a. /\ rooms[r] = None /\ owner[r] = None /\ match[r] = NewMatch
      /\ \A y \in Conns : hold[y].room \in Int /\ hold[y].room < r
  <2>1. \A y \in Conns : hold[y].room \in Int
    BY DEF TypeOK, Holding, RoomIds
  <2>2. r >= nextRoom
    BY <1>0, LobbyAssumption DEF RoomIds
  <2>3. QED BY <1>0, <2>1, <2>2 DEF Unopened
<1>b. /\ at'[x] = to /\ hold'[x] = [room |-> r, as |-> None, name |-> n]
      /\ \A y \in Conns \ {x} : at'[y] = at[y] /\ hold'[y] = hold[y] /\ hold[y].room # r
  BY <1>a, LobbyAssumption DEF TypeOK, RoomIds
<1>c. /\ 0 \notin RoomIds /\ None \notin Colors \cup {"viewer"} /\ None \notin Names
      /\ Nowhere.as = None /\ Nowhere.room = 0
  BY LobbyAssumption DEF RoomIds, Nowhere
<1>d. /\ rooms'[r] = new /\ new \in Room /\ new # None
      /\ rooms' \in [RoomIds -> Room \cup {None}]
      /\ \A q \in RoomIds \ {r} : rooms'[q] = rooms[q]
  <2>1. new \in Room
    BY DEF Room
  <2> HIDE DEF new
  <2>2. QED BY <1>0, <2>1, NoneAssumption DEF TypeOK
<1>g. \A q \in RoomIds : Live(q)' = (Live(q) \/ q = r)
  BY <1>d DEF Live
<1>o. /\ owner' \in [RoomIds -> Workers \cup {None}]
      /\ \A q \in RoomIds \ {r} : owner'[q] = owner[q]
      /\ running => owner'[r] # None
  <2>1. owner' = [owner EXCEPT ![r] = IF running THEN LeastLoaded ELSE None]
    BY <1>0 DEF Add
  <2>2. LeastLoaded \in Workers /\ LeastLoaded # None
    BY LeastLoadedIsWorker, LobbyAssumption
  <2>3. QED BY <2>1, <2>2 DEF TypeOK
<1>1. TypeOK'
  <2>1. [room |-> r, as |-> None, name |-> n] \in Holding /\ to \in Stages
    BY DEF Holding, Stages
  <2>2. at' \in [Conns -> Stages] /\ hold' \in [Conns -> Holding]
    BY <2>1 DEF TypeOK
  <2>3. nextRoom' \in 1 .. MaxRooms + 1
    BY <1>0, LobbyAssumption DEF RoomIds
  <2>4. waiting' \subseteq [rating : Nat, room : RoomIds]
    BY DEF TypeOK
  <2>5. named' \in [Names -> {0} \cup RoomIds]
    BY DEF TypeOK
  <2>6. QED BY <1>d, <1>o, <2>2, <2>3, <2>4, <2>5 DEF TypeOK
<1>2. Sessions'
  BY <1>0, <1>b DEF Sessions
<1>3. SeatsKept'
  BY <1>b, <1>c DEF SeatsKept
<1>4. Carried'
  BY <1>b, <1>c DEF Carried, Routed
<1>5. ReapedOnce'
  <2>1. \A y \in Conns : at'[y] = "unscheduling" => y # x
    BY <1>b
  <2>2. \A y \in Conns : at'[y] = "unscheduling" => rooms'[hold'[y].room] = None
    <3> TAKE y \in Conns
    <3> HAVE at'[y] = "unscheduling"
    <3>1. y # x /\ at[y] = "unscheduling" /\ hold'[y].room = hold[y].room
      BY <1>b, <2>1
    <3>2. hold[y].room \in RoomIds \ {r} /\ rooms[hold[y].room] = None
      BY <1>b, <3>1 DEF ReapedOnce, Live, Carried
    <3>3. QED BY <1>d, <3>1, <3>2 DEF Live
  <2>3. \A y \in Conns : at'[y] = "unscheduling" =>
           \A z \in Conns \ {y} : at'[z] = "unscheduling" => hold'[z].room # hold'[y].room
    BY <1>b, <2>1 DEF ReapedOnce
  <2>4. QED BY <2>2, <2>3 DEF ReapedOnce, Live
<1>6. CreatorsKnowTheName'
  <2>1. ASSUME NEW y \in Conns, at'[y] \in {"creating", "registering"}
        PROVE  rooms'[hold'[y].room].name = hold'[y].name
    <3>1. CASE y = x
      BY <1>b, <1>d, <3>1
    <3>2. CASE y # x
      <4>1. hold[y].room \in RoomIds \ {r} /\ rooms[hold[y].room].name = hold[y].name
        BY <1>b, <2>1, <3>2 DEF Carried, Routed, CreatorsKnowTheName
      <4>2. QED BY <1>b, <1>d, <3>2, <4>1
    <3>3. QED BY <3>1, <3>2
  <2>2. QED BY <2>1 DEF CreatorsKnowTheName
<1>7. Unopened'
  <2>1. \A q \in RoomIds : q >= nextRoom' => q # r /\ q >= nextRoom
    BY <1>0 DEF RoomIds
  <2>2. \A q \in RoomIds : q >= nextRoom' => rooms'[q] = None /\ owner'[q] = None /\ match'[q] = NewMatch
    BY <1>d, <1>o, <2>1 DEF Unopened
  <2>3. r \in Int /\ \A y \in Conns : hold'[y].room < nextRoom'
    <3>1. r \in Int /\ r < r + 1
      BY DEF RoomIds
    <3>2. hold'[x].room = r
      BY <1>b
    <3>3. \A y \in Conns \ {x} : hold'[y].room < r + 1
      BY <1>a, <1>b, <3>1
    <3>4. QED BY <1>0, <3>1, <3>2, <3>3
  <2>4. QED BY <2>2, <2>3 DEF Unopened
<1>8. RoomsCountTheirConnections'
  <2>1. Inside(r)' = {x}
    BY <1>a, <1>b, <1>c DEF Inside, Routed
  <2>2. \A q \in RoomIds \ {r} : Inside(q)' = Inside(q)
    BY <1>0, <1>b, <1>c DEF Inside
  <2>3. rooms'[r].connected = Cardinality(Inside(r)')
    <3>0. Cardinality({x}) = 1
      BY FS_Singleton
    <3>1. Cardinality({x}) = 1 /\ rooms'[r].connected = 1
      BY <1>d, <3>0
    <3>2. Cardinality(Inside(r)') = Cardinality({x})
      BY <2>1
    <3>3. QED BY <3>1, <3>2
  <2>4. \A q \in RoomIds \ {r} : IF Live(q)' THEN rooms'[q].connected = Cardinality(Inside(q)')
                                 ELSE Inside(q)' = {}
    BY <1>d, <1>g, <2>2 DEF RoomsCountTheirConnections
  <2>5. QED BY <1>g, <2>3, <2>4 DEF RoomsCountTheirConnections
<1>9. WatchersCounted'
  <2>1. \A q \in RoomIds \ {r} : Watching(q)' = Watching(q)
    BY <1>0, <1>b, <1>c DEF Watching
  <2>2. Watching(r)' = {}
    BY <1>b, <1>c DEF Watching
  <2>3. match'[r].watchers = Cardinality(Watching(r)')
    BY <1>a, <2>2, FS_EmptySet DEF NewMatch
  <2>4. QED BY <1>g, <2>1, <2>3 DEF WatchersCounted
<1>10. SeatsAreReserved'
  <2>1. \A q \in RoomIds : Taken(q)' = Taken(q)
    BY DEF Taken
  <2>2. \A q \in RoomIds \ {r} : Joining(q)' = Joining(q)
    BY <1>0, <1>b, <1>c DEF Joining
  <2>3. Joining(r)' = {x}
    BY <1>b DEF Joining
  <2>4. Taken(r)' = {}
    BY <1>a, <2>1 DEF Taken, NewMatch
  <2>5. rooms'[r].seatsTaken = Cardinality(Taken(r)') + Cardinality(Joining(r)')
    <3>0. Cardinality({x}) = 1 /\ Cardinality({}) = 0
      BY FS_EmptySet, FS_Singleton
    <3>1. Cardinality({x}) = 1 /\ Cardinality({}) = 0 /\ rooms'[r].seatsTaken = 1
      BY <1>d, <3>0
    <3>2. Cardinality(Taken(r)') = 0
      BY <2>4, <3>1
    <3>3. Cardinality(Joining(r)') = 1
      BY <2>3, <3>1
    <3>4. QED BY <3>1, <3>2, <3>3
  <2>6. rooms'[r].seatsTaken <= 2
    BY <1>d
  <2>7. ASSUME NEW q \in RoomIds \ {r}, Live(q)'
        PROVE  /\ rooms'[q].seatsTaken <= 2
               /\ rooms'[q].seatsTaken = Cardinality(Taken(q)') + Cardinality(Joining(q)')
    <3>1. rooms'[q] = rooms[q] /\ Live(q)
      BY <1>d, <1>g, <2>7
    <3>2. /\ rooms[q].seatsTaken <= 2
          /\ rooms[q].seatsTaken = Cardinality(Taken(q)) + Cardinality(Joining(q))
      BY <3>1 DEF SeatsAreReserved
    <3>3. QED BY <2>1, <2>2, <3>1, <3>2
  <2>8. QED BY <2>5, <2>6, <2>7 DEF SeatsAreReserved
<1>11. NamesLeadToRooms'
  <2>n. \A m \in Names : named'[m] = IF m = n THEN r ELSE named[m]
    BY <1>c DEF TypeOK
  <2>m. n \in Names => named[n] = 0
    BY <1>c
  <2>1. ASSUME NEW m \in Names, named'[m] # 0
        PROVE  rooms'[named'[m]] # None /\ rooms'[named'[m]].name = m
    <3>1. CASE m = n
      BY <1>d, <2>n, <3>1
    <3>2. CASE m # n
      <4>1. named'[m] = named[m] /\ Live(named[m]) /\ rooms[named[m]].name = m /\ named[m] \in RoomIds
        BY <2>n, <2>1, <3>2 DEF NamesLeadToRooms, TypeOK
      <4>2. named[m] # r
        BY <1>a, <4>1 DEF Live
      <4>3. QED BY <1>d, <4>1, <4>2 DEF Live
    <3>3. QED BY <3>1, <3>2
  <2>2. ASSUME NEW q \in RoomIds, Live(q)', rooms'[q].name # None
        PROVE  named'[rooms'[q].name] = q
    <3>1. CASE q = r
      BY <1>d, <2>n, <2>2, <3>1
    <3>2. CASE q # r
      <4>1. Live(q) /\ rooms'[q] = rooms[q] /\ named[rooms[q].name] = q /\ rooms[q].name \in Names
        BY <1>d, <1>g, <2>2, <3>2 DEF NamesLeadToRooms, TypeOK, Live, Room
      <4>2. rooms[q].name # n
        BY <1>c, <2>m, <4>1
      <4>3. QED BY <2>n, <4>1, <4>2
    <3>3. QED BY <3>1, <3>2
  <2>3. ASSUME NEW m \in directory, named'[m] = 0
        PROVE  \E y \in Conns : at'[y] \in {"unscheduling", "forgetting"} /\ hold'[y].name = m
    <3>1. m \in Names /\ named[m] = 0
      BY <1>c, <2>n, <2>3 DEF TypeOK
    <3>2. PICK y \in Conns : at[y] \in {"unscheduling", "forgetting"} /\ hold[y].name = m
      BY <3>1 DEF NamesLeadToRooms
    <3>3. y # x
      BY <1>0, <3>2
    <3>4. QED BY <1>b, <3>2, <3>3
  <2>4. \A m \in directory : named'[m] # 0
           \/ \E y \in Conns : at'[y] \in {"unscheduling", "forgetting"} /\ hold'[y].name = m
    BY <2>3
  <2>5. QED BY <2>1, <2>2, <2>4 DEF NamesLeadToRooms, Live
<1>12. ScheduledWhileLive'
  <2>1. \A q \in RoomIds \ {r} : (\E y \in Conns : at'[y] = "unscheduling" /\ hold'[y].room = q)
           = (\E y \in Conns : at[y] = "unscheduling" /\ hold[y].room = q)
    BY <1>0, <1>b
  <2>2. QED BY <1>o, <1>g, <2>1 DEF ScheduledWhileLive
<1>13. ~Live(r)
  BY <1>a DEF Live
<1>14. QED
  BY <1>1, <1>2, <1>3, <1>4, <1>5, <1>6, <1>7, <1>8, <1>9, <1>10, <1>11, <1>12, <1>13, <1>d

-----------------------------------------------------------------------------
\* The waiting list.

LEMMA GapType ==
  ASSUME TypeOK, NEW rating \in Nat, NEW e \in waiting
  PROVE  e.rating \in Nat /\ e.room \in RoomIds /\ Gap(e, rating) \in Nat
BY DEF TypeOK, Gap

\* When someone within reach waits, the nearest of all is found.
LEMMA NearestIsFound ==
  ASSUME TypeOK, WaitingAreFarApart, NEW rating \in Nat,
         NEW e \in waiting, Gap(e, rating) <= RatingGap
  PROVE  \E h \in ClosestWaitingRoom(rating) :
            \A f \in waiting : Gap(h, rating) <= Gap(f, rating)
<1>t. \A f \in waiting : f.rating \in Nat /\ Gap(f, rating) \in Nat
  BY GapType
<1>g. RatingGap \in Nat
  BY LobbyAssumption
<1> DEFINE Gaps == {Gap(f, rating) : f \in waiting}
<1>1. PICK g \in Gaps : \A d \in Gaps : g <= d
  <2>1. Gaps \subseteq Nat /\ Gaps # {}
    BY <1>t
  <2> HIDE DEF Gaps
  <2>2. QED BY <2>1, LeastNatural
<1>2. PICK h \in waiting :
         /\ Gap(h, rating) = g
         /\ h.rating >= rating \/ \A f \in waiting : Gap(f, rating) = g => ~(f.rating >= rating)
  <2>1. PICK f \in waiting : Gap(f, rating) = g
    OBVIOUS
  <2>2. CASE \E k \in waiting : Gap(k, rating) = g /\ k.rating >= rating
    BY <2>2
  <2>3. CASE \A k \in waiting : Gap(k, rating) = g => ~(k.rating >= rating)
    BY <2>1, <2>3
  <2>4. QED BY <2>2, <2>3
<1>3. \A f \in waiting : Gap(h, rating) <= Gap(f, rating)
  BY <1>1, <1>2
<1>4. Gap(h, rating) <= RatingGap
  BY <1>3, <1>t, <1>g
<1>5. h \in Neighbours(rating)
  <2>1. CASE h.rating >= rating
    <3>1. \A f \in waiting : f.rating >= rating => h.rating <= f.rating
      BY <1>3, <1>t, <2>1 DEF Gap
    <3>2. QED BY <2>1, <3>1 DEF Neighbours, NotBelow
  <2>2. CASE ~(h.rating >= rating)
    <3>1. \A f \in waiting : ~(f.rating >= rating) => f.rating <= h.rating
      BY <1>3, <1>t, <2>2 DEF Gap
    <3>2. QED BY <2>2, <3>1 DEF Neighbours, NotBelow
  <2>3. QED BY <2>1, <2>2
<1>6. h \in InReach(rating)
  BY <1>4, <1>5 DEF InReach
<1>7. ASSUME NEW f \in InReach(rating) \ {h}
      PROVE  \/ Gap(h, rating) < Gap(f, rating)
             \/ Gap(h, rating) = Gap(f, rating) /\ h.rating >= rating
  <2>1. f \in waiting /\ f # h
    BY <1>7 DEF InReach, Neighbours, NotBelow
  <2>2. Gap(h, f.rating) > RatingGap
    BY <2>1 DEF WaitingAreFarApart
  <2>3. CASE Gap(h, rating) = Gap(f, rating) /\ ~(h.rating >= rating)
    <3>1. ~(f.rating >= rating)
      BY <1>2, <2>1, <2>3
    <3>2. h.rating = f.rating
      BY <1>t, <2>1, <2>3, <3>1 DEF Gap
    <3>3. Gap(h, f.rating) = 0
      BY <1>t, <3>2 DEF Gap
    <3>4. QED BY <1>g, <2>2, <3>3
  <2>4. QED BY <1>3, <1>t, <2>1, <2>3
<1>8. h \in ClosestWaitingRoom(rating)
  BY <1>6, <1>7 DEF ClosestWaitingRoom
<1>9. QED
  BY <1>3, <1>8

LEMMA CreateRoomKeeps ==
  ASSUME Inv, NEW x \in Conns, NEW n \in Names, CreateRoom(x, n)
  PROVE  Inv'
<1> USE DEF Inv
<1>0. PICK r \in RoomIds :
        /\ Unseated(x) /\ OpenRoom(r, n, 0) /\ named[n] = 0
        /\ named' = [named EXCEPT ![n] = r]
        /\ hold' = [hold EXCEPT ![x] = [room |-> r, as |-> None, name |-> n]]
        /\ at' = [at EXCEPT ![x] = "creating"]
        /\ UNCHANGED <<user, registry, waiting, match, directory, running>>
  BY DEF CreateRoom, Holds, Goes
<1>1. /\ TypeOK' /\ Sessions' /\ Carried' /\ Unopened'
      /\ RoomsCountTheirConnections' /\ SeatsKept' /\ SeatsAreReserved' /\ WatchersCounted'
      /\ ReapedOnce' /\ CreatorsKnowTheName' /\ NamesLeadToRooms' /\ ScheduledWhileLive'
      /\ rooms'[r] = [seatsTaken |-> 1, connected |-> 1, rating |-> 0, name |-> n]
      /\ rooms'[r] # None /\ ~Live(r)
      /\ \A q \in RoomIds \ {r} : rooms'[q] = rooms[q]
  <2>1. waiting' \subseteq waiting \cup {[rating |-> 0, room |-> r]} /\ 0 \in Nat /\ n \in Names \cup {None}
    BY <1>0
  <2>2. QED BY <1>0, <2>1, OpenKeeps
<1>2. WaitingListIsExact'
  <2>1. DEFINE Alone(q) == Live(q) /\ rooms[q].name = None /\ rooms[q].seatsTaken = 1
  <2>2. \A q \in RoomIds : Alone(q)' = Alone(q) /\ (Alone(q) => q # r)
    BY <1>1, LobbyAssumption DEF Live
  <2>3. \A q \in RoomIds \ {r} : Entry(q)' = Entry(q)
    BY <1>1 DEF Entry
  <2>4. waiting = {Entry(q) : q \in {p \in RoomIds : Alone(p)}}
    BY DEF WaitingListIsExact
  <2> HIDE DEF Alone
  <2>5. waiting' = {Entry(q)' : q \in {p \in RoomIds : Alone(p)'}}
    BY <1>0, <2>2, <2>3, <2>4
  <2> USE DEF Alone
  <2>6. QED BY <2>5 DEF WaitingListIsExact
<1>3. WaitingAreFarApart'
  BY <1>0 DEF WaitingAreFarApart, Gap
<1>4. QED
  BY <1>1, <1>2, <1>3

LEMMA PlayKeeps ==
  ASSUME Inv, NEW x \in Conns, Play(x)
  PROVE  Inv'
<1> USE DEF Inv
<1>r. PICK rating : rating = Rating[user[x]]
  OBVIOUS
<1>0. /\ Unseated(x) /\ at' = [at EXCEPT ![x] = "joining"]
      /\ UNCHANGED <<user, registry, named, match, directory, running>>
  BY DEF Play, Goes
<1>t. rating \in Nat /\ RatingGap \in Nat
  BY <1>0, <1>r, LobbyAssumption DEF Unseated, LoggedIn, TypeOK
<1> DEFINE Alone(q) == Live(q) /\ rooms[q].name = None /\ rooms[q].seatsTaken = 1
<1>w. waiting = {Entry(q) : q \in {p \in RoomIds : Alone(p)}}
  BY DEF WaitingListIsExact
<1>i. \A q, p \in RoomIds : Entry(q) = Entry(p) => q = p
  BY DEF Entry
<1>1. ASSUME NEW e \in ClosestWaitingRoom(rating),
             PairUp(e), Holds(x, e.room, None, None), UNCHANGED <<nextRoom, owner>>
      PROVE  Inv'
  <2>1. e \in waiting
    BY DEF ClosestWaitingRoom, InReach, Neighbours, NotBelow
  <2>2. PICK r \in RoomIds : e = Entry(r) /\ Alone(r) /\ e.room = r
    BY <1>w, <2>1 DEF Entry
  <2>3. /\ hold' = [hold EXCEPT ![x] = [room |-> r, as |-> None, name |-> None]]
        /\ Counted(r, 1) /\ waiting' = waiting \ {Entry(r)}
    BY <1>1, <2>2 DEF PairUp, Reserve, Holds
  <2>4. /\ TypeOK' /\ Sessions' /\ Carried' /\ Unopened'
        /\ RoomsCountTheirConnections' /\ SeatsKept' /\ SeatsAreReserved' /\ WatchersCounted'
        /\ ReapedOnce' /\ CreatorsKnowTheName' /\ NamesLeadToRooms' /\ ScheduledWhileLive'
        /\ rooms'[r].name = rooms[r].name /\ rooms'[r].rating = rooms[r].rating
        /\ rooms'[r].seatsTaken = rooms[r].seatsTaken + 1 /\ rooms'[r] # None
        /\ \A q \in RoomIds \ {r} : rooms'[q] = rooms[q]
    <3>1. rooms[r].seatsTaken < 2 /\ Live(r)
      BY <2>2
    <3>2. waiting' \subseteq waiting
      BY <2>3
    <3>3. 1 \in {0, 1} /\ None \in Names \cup {None}
      OBVIOUS
    <3>4. QED BY <1>0, <1>1, <2>3, <3>1, <3>2, <3>3, EnterKeeps
  <2>5. WaitingListIsExact'
    <3>1. \A q \in RoomIds : Alone(q)' = (Alone(q) /\ q # r)
      BY <2>2, <2>4 DEF Live
    <3>2. \A q \in RoomIds \ {r} : Entry(q)' = Entry(q)
      BY <2>4 DEF Entry
    <3> HIDE DEF Alone
    <3>3. waiting' = {Entry(q)' : q \in {p \in RoomIds : Alone(p)'}}
      BY ZenonT(30), <1>w, <1>i, <2>3, <3>1, <3>2
    <3> USE DEF Alone
    <3>4. QED BY <3>3 DEF WaitingListIsExact
  <2>6. WaitingAreFarApart'
    BY <2>3 DEF WaitingAreFarApart, Gap
  <2>7. QED BY <2>4, <2>5, <2>6
<1>2. ASSUME NEW r \in RoomIds, ClosestWaitingRoom(rating) = {}, OpenRoom(r, None, rating),
             waiting' = waiting \cup {[rating |-> rating, room |-> r]},
             Holds(x, r, None, None)
      PROVE  Inv'
  <2>1. /\ TypeOK' /\ Sessions' /\ Carried' /\ Unopened'
        /\ RoomsCountTheirConnections' /\ SeatsKept' /\ SeatsAreReserved' /\ WatchersCounted'
        /\ ReapedOnce' /\ CreatorsKnowTheName' /\ NamesLeadToRooms' /\ ScheduledWhileLive'
        /\ rooms'[r] = [seatsTaken |-> 1, connected |-> 1, rating |-> rating, name |-> None]
        /\ rooms'[r] # None /\ ~Live(r)
        /\ \A q \in RoomIds \ {r} : rooms'[q] = rooms[q]
    <3>1. waiting' \subseteq waiting \cup {[rating |-> rating, room |-> r]} /\ None \in Names \cup {None}
      BY <1>2
    <3>2. hold' = [hold EXCEPT ![x] = [room |-> r, as |-> None, name |-> None]]
      BY <1>2 DEF Holds
    <3>3. QED BY <1>0, <1>t, <1>2, <3>1, <3>2, OpenKeeps
  <2>2. WaitingListIsExact'
    <3>1. \A q \in RoomIds : Alone(q)' = (Alone(q) \/ q = r) /\ (Alone(q) => q # r)
      BY <2>1 DEF Live
    <3>2. \A q \in RoomIds \ {r} : Entry(q)' = Entry(q)
      BY <2>1 DEF Entry
    <3>3. Entry(r)' = [rating |-> rating, room |-> r]
      BY <2>1 DEF Entry
    <3> HIDE DEF Alone
    <3>4. waiting' = {Entry(q)' : q \in {p \in RoomIds : Alone(p)'}}
      BY <1>w, <1>2, <3>1, <3>2, <3>3
    <3> USE DEF Alone
    <3>5. QED BY <3>4 DEF WaitingListIsExact
  <2>3. \A e \in waiting : Gap(e, rating) > RatingGap
    <3>1. \A e \in waiting : Gap(e, rating) \in Nat
      BY <1>t, GapType
    <3>2. \A e \in waiting : ~(Gap(e, rating) <= RatingGap)
      BY <1>t, <1>2, NearestIsFound
    <3>3. QED BY <1>t, <3>1, <3>2
  <2>4. ASSUME NEW e \in waiting', NEW f \in waiting', e # f
        PROVE  Gap(e, f.rating) > RatingGap
    <3> DEFINE new == [rating |-> rating, room |-> r]
    <3>1. CASE e = new
      <4>1. f \in waiting /\ Gap(f, rating) > RatingGap /\ f.rating \in Nat
        BY <1>2, <1>t, <2>3, <2>4, <3>1, GapType
      <4>2. e.rating = rating
        BY <3>1
      <4>3. Gap(e, f.rating) = Gap(f, rating)
        BY <1>t, <4>1, <4>2 DEF Gap
      <4>4. QED BY <4>1, <4>3
    <3>2. CASE f = new
      <4>1. e \in waiting /\ f.rating = rating
        BY <1>2, <2>4, <3>2
      <4>2. QED BY <2>3, <4>1
    <3>3. CASE e # new /\ f # new
      BY <1>2, <2>4, <3>3 DEF WaitingAreFarApart
    <3>4. QED BY <3>1, <3>2, <3>3
  <2>5. WaitingAreFarApart'
    BY <2>4 DEF WaitingAreFarApart, Gap
  <2>6. QED BY <2>1, <2>2, <2>5
<1>3. QED
  BY <1>r, <1>1, <1>2 DEF Play

-----------------------------------------------------------------------------
\* Every step keeps the invariant.
LEMMA InvNext == Inv /\ [Next]_vars => Inv'
<1> SUFFICES ASSUME Inv, [Next]_vars PROVE Inv'
  OBVIOUS
<1>1. CASE UNCHANGED vars
  <2>1. UNCHANGED <<at, user, hold, registry, rooms, named, waiting, nextRoom, match, directory,
                    owner, running>>
    BY <1>1 DEF vars, session, routing, scheduler
  <2>2. (TypeOK /\ Sessions /\ Carried /\ Unopened /\ SeatsKept /\ ReapedOnce /\ CreatorsKnowTheName)'
    BY <2>1 DEF Inv, TypeOK, Sessions, Carried, Unopened, SeatsKept, ReapedOnce, CreatorsKnowTheName, Live
  <2>3. (RoomsCountTheirConnections /\ SeatsAreReserved /\ WatchersCounted)'
    BY <2>1 DEF Inv, RoomsCountTheirConnections, SeatsAreReserved, WatchersCounted,
                Inside, Taken, Joining, Watching, Live
  <2>4. (NamesLeadToRooms /\ WaitingListIsExact /\ WaitingAreFarApart /\ ScheduledWhileLive)'
    BY <2>1 DEF Inv, NamesLeadToRooms, WaitingListIsExact, WaitingAreFarApart, ScheduledWhileLive,
                Entry, Gap, Live
  <2>5. QED BY <2>2, <2>3, <2>4 DEF Inv
<1>2. ASSUME NEW x \in Conns, SeatFor(x) PROVE Inv'
  <2>1. CASE Play(x)
    BY <2>1, PlayKeeps
  <2>2. ASSUME NEW n \in Names, CreateRoom(x, n) PROVE Inv'
    BY <2>2, CreateRoomKeeps
  <2>3. ASSUME NEW n \in Names, JoinRoom(x, n) PROVE Inv'
    BY <2>3, JoinRoomKeeps
  <2>4. QED BY <1>2, <2>1, <2>2, <2>3 DEF SeatFor
<1>3. ASSUME NEW x \in Conns, NEW u \in Users, Login(x, u) PROVE Inv'
  BY <1>3, LoginKeeps
<1>4. ASSUME NEW x \in Conns, Join(x, "joining", "idle") \/ Join(x, "creating", "registering")
      PROVE  Inv'
  BY <1>4, JoinKeeps
<1>5. ASSUME NEW x \in Conns, Register(x) \/ Return(x) \/ Watch(x) \/ GiveBack(x) PROVE Inv'
  BY <1>5, RegisterKeeps, ReturnKeeps, WatchKeeps, GiveBackKeeps
<1>6. ASSUME NEW x \in Conns, Close(x) \/ CountOut(x) \/ Unschedule(x) \/ Forget(x) \/ Release(x)
      PROVE  Inv'
  BY <1>6, CloseKeeps, CountOutKeeps, UnscheduleKeeps, ForgetKeeps, ReleaseKeeps
<1>7. ASSUME NEW w \in Workers, NEW r \in RoomIds, TickMatch(w, r) PROVE Inv'
  BY <1>7, TickKeeps
<1>8. CASE StopAll
  BY <1>8, StopAllKeeps
<1>9. ASSUME NEW n \in Names, EntryExpires(n) PROVE Inv'
  BY <1>9, EntryExpiresKeeps
<1>10. QED
  BY <1>1, <1>2, <1>3, <1>4, <1>5, <1>6, <1>7, <1>8, <1>9 DEF Next

\* Inv holds in every state the server reaches.
THEOREM LobbyInvariant == Spec => []Inv
<1>1. QED
  BY InvInit, InvNext, PTL DEF Spec

\* Every variable keeps its type.
THEOREM LobbyTypes == Spec => []TypeOK
<1>1. Inv => TypeOK
  BY DEF Inv
<1>2. QED BY <1>1, LobbyInvariant, PTL

\* A room counts exactly the connections routed to it (RoomManager's
\* connected), so it is never reaped under one of them.
THEOREM RoomsCount == Spec => []RoomsCountTheirConnections
<1>1. Inv => RoomsCountTheirConnections
  BY DEF Inv
<1>2. QED BY <1>1, LobbyInvariant, PTL

\* A seat reserved under rooms_mutex_ is there when match->join takes it outside
\* the lock, so join never finds both taken.
THEOREM SeatsReserved == Spec => []SeatsAreReserved
<1>1. Inv => SeatsAreReserved
  BY DEF Inv
<1>2. QED BY <1>1, LobbyInvariant, PTL

\* A seat belongs to one connection at a time, of the account that took it.
THEOREM OneConnection == Spec => []OneConnectionPerSeat
<1>1. Inv => OneConnectionPerSeat
  <2> SUFFICES ASSUME Inv, NEW x \in Conns, hold[x].as \in Colors
               PROVE  /\ match[hold[x].room].seats[hold[x].as] = user[x]
                      /\ \A y \in Conns \ {x} : hold[y].as = hold[x].as => hold[y].room # hold[x].room
    BY DEF OneConnectionPerSeat
  <2>1. match[hold[x].room].seats[hold[x].as] = user[x]
    BY DEF Inv, SeatsKept
  <2>2. ASSUME NEW y \in Conns \ {x}, hold[y].as = hold[x].as, hold[y].room = hold[x].room
        PROVE  FALSE
    <3>1. user[y] = user[x]
      BY <2>1, <2>2 DEF Inv, SeatsKept
    <3>2. user[x] # None
      BY LobbyAssumption DEF Inv, Sessions, Nowhere
    <3>3. QED BY <2>2, <3>1, <3>2 DEF Inv, Sessions
  <2>3. QED BY <2>1, <2>2
<1>2. QED BY <1>1, LobbyInvariant, PTL

\* A name leads to the live room that bears it, and a name in the directory is
\* this server's own or about to be taken off.
THEOREM NamesLead == Spec => []NamesLeadToRooms
<1>1. Inv => NamesLeadToRooms
  BY DEF Inv
<1>2. QED BY <1>1, LobbyInvariant, PTL

\* The waiting list is exactly the live matchmade rooms with one seat taken.
THEOREM WaitingExact == Spec => []WaitingListIsExact
<1>1. Inv => WaitingListIsExact
  BY DEF Inv
<1>2. QED BY <1>1, LobbyInvariant, PTL

\* Two players within kMatchmakingRatingGap of each other are never both left
\* waiting.
THEOREM WaitingFarApart == Spec => []WaitingAreFarApart
<1>1. Inv => WaitingAreFarApart
  BY DEF Inv
<1>2. QED BY <1>1, LobbyInvariant, PTL

\* The two neighbours of lower_bound are enough: whenever anybody within reach
\* waits, the search finds the nearest of them.
THEOREM ClosestFound == Spec => []ClosestIsClosest
<1>1. Inv => ClosestIsClosest
  <2> SUFFICES ASSUME Inv, NEW u \in Users
      PROVE LET near == {e \in waiting : Gap(e, Rating[u]) <= RatingGap} IN
        /\ (near = {}) = (ClosestWaitingRoom(Rating[u]) = {})
        /\ \A e \in ClosestWaitingRoom(Rating[u]), f \in near :
              Gap(e, Rating[u]) <= Gap(f, Rating[u])
    BY DEF ClosestIsClosest
  <2>t. PICK rating \in Nat : rating = Rating[u]
    BY LobbyAssumption
  <2> DEFINE near == {e \in waiting : Gap(e, rating) <= RatingGap}
  <2>i. TypeOK /\ WaitingAreFarApart
    BY DEF Inv
  <2>1. \A e \in ClosestWaitingRoom(rating) : e \in InReach(rating) /\ e \in near
    BY DEF ClosestWaitingRoom, InReach, Neighbours, NotBelow
  <2>2. near # {} => ClosestWaitingRoom(rating) # {}
    BY <2>i, NearestIsFound
  <2>3. ASSUME NEW e \in ClosestWaitingRoom(rating), NEW f \in near
        PROVE  Gap(e, rating) <= Gap(f, rating)
    <3>1. PICK h \in ClosestWaitingRoom(rating) : \A k \in waiting : Gap(h, rating) <= Gap(k, rating)
      BY <2>i, NearestIsFound
    <3>2. h \in InReach(rating) /\ h \in waiting /\ e \in waiting
      BY <2>1
    <3>3. Gap(e, rating) \in Nat /\ Gap(h, rating) \in Nat /\ Gap(f, rating) \in Nat
      BY <2>i, <3>2, GapType
    <3>4. e = h \/ Gap(e, rating) <= Gap(h, rating)
      BY <3>2, <3>3 DEF ClosestWaitingRoom
    <3>5. QED BY <3>1, <3>3, <3>4
  <2> HIDE DEF near
  <2>4. /\ (near = {}) = (ClosestWaitingRoom(rating) = {})
        /\ \A e \in ClosestWaitingRoom(rating), f \in near : Gap(e, rating) <= Gap(f, rating)
    BY <2>1, <2>2, <2>3
  <2>5. QED BY <2>t, <2>4 DEF near
<1>2. QED BY <1>1, LobbyInvariant, PTL

\* While the scheduler runs, a match has a worker from the opening of its room
\* until the thread that reaped it has taken it off.
THEOREM Scheduled == Spec => []ScheduledWhileLive
<1>1. Inv => ScheduledWhileLive
  BY DEF Inv
<1>2. QED BY <1>1, LobbyInvariant, PTL

-----------------------------------------------------------------------------
\* Rooms without a connection.

\* Whoever watches, returns or was refused came to a room by its name, and found
\* both seats taken.
Late(x) == at[x] \in {"watching", "returning", "refused"} \/ hold[x].as = "viewer"
Full(r) == rooms[r].name # None /\ rooms[r].seatsTaken = 2
LateFindFull == \A x \in Conns : Late(x) => Full(hold[x].room)

\* What a step may do to a room that stands, and how one loses its last connection.
Standing(r) == Live(r) /\ Live(r)' => /\ rooms'[r].name = rooms[r].name
                                      /\ rooms'[r].seatsTaken >= rooms[r].seatsTaken
Emptied(r) == Live(r)' /\ rooms'[r].connected = 0 =>
                  Live(r) /\ (rooms[r].connected = 0 \/ \E x \in Conns : at[x] = "refused" /\ hold[x].room = r)

LEMMA RoomsMove ==
  ASSUME Inv, Next, NEW r \in RoomIds
  PROVE  Standing(r) /\ Emptied(r)
<1>r. rooms \in [RoomIds -> Room \cup {None}] /\ (Live(r) => rooms[r] \in Room)
  BY DEF Inv, TypeOK, Live
<1>1. CASE rooms'[r] = rooms[r]
  BY <1>1, <1>r DEF Standing, Emptied, Live, Room
<1>2. ASSUME NEW q \in RoomIds, NEW k \in {0, 1}, Counted(q, k), Live(q)
      PROVE  Standing(r) /\ Emptied(r)
  <2>1. CASE q # r
    BY <1>1, <1>2, <2>1, <1>r DEF Counted
  <2>2. CASE q = r
    <3>1. rooms'[r] = CountedIn(rooms[r], k) /\ rooms[r] \in Room
      BY <1>2, <2>2, <1>r DEF Counted
    <3>2. /\ rooms'[r].name = rooms[r].name /\ rooms'[r].seatsTaken = rooms[r].seatsTaken + k
          /\ rooms'[r].connected = rooms[r].connected + 1
          /\ rooms[r].seatsTaken \in Nat /\ rooms[r].connected \in Nat
      BY <3>1 DEF CountedIn, Room
    <3>3. QED BY <3>2 DEF Standing, Emptied
  <2>3. QED BY <2>1, <2>2
<1>3. ASSUME NEW q \in RoomIds, NEW n, NEW rating, OpenRoom(q, n, rating)
      PROVE  Standing(r) /\ Emptied(r)
  <2>1. rooms[q] = None
    BY <1>3, LobbyAssumption DEF Inv, Unopened, OpenRoom, RoomIds
  <2>2. CASE q # r
    BY <1>1, <1>3, <2>2, <1>r DEF OpenRoom
  <2>3. CASE q = r
    <3>1. rooms'[r] = [seatsTaken |-> 1, connected |-> 1, rating |-> rating, name |-> n]
      BY <1>3, <2>3, <1>r DEF OpenRoom
    <3>2. ~Live(r) /\ rooms'[r].connected = 1
      BY <2>1, <2>3, <3>1 DEF Live
    <3>3. QED BY <3>2 DEF Standing, Emptied
  <2>4. QED BY <2>2, <2>3
<1>4. ASSUME NEW x \in Conns, Play(x) PROVE Standing(r) /\ Emptied(r)
  <2>1. CASE \E q \in RoomIds : OpenRoom(q, None, Rating[user[x]])
    BY <1>3, <2>1
  <2>2. ASSUME NEW e \in ClosestWaitingRoom(Rating[user[x]]), PairUp(e)
        PROVE  Standing(r) /\ Emptied(r)
    <3>1. e \in waiting
      BY DEF ClosestWaitingRoom, InReach, Neighbours, NotBelow
    <3>2. PICK q \in RoomIds : Live(q) /\ e = Entry(q)
      BY <3>1 DEF Inv, WaitingListIsExact
    <3>3. e.room = q
      BY <3>2 DEF Entry
    <3>4. Counted(q, 1)
      BY <2>2, <3>3 DEF PairUp, Reserve
    <3>5. QED BY <1>2, <3>2, <3>4
  <2>3. QED BY <1>4, <2>1, <2>2 DEF Play
<1>5. ASSUME NEW x \in Conns, NEW n \in Names, CreateRoom(x, n) PROVE Standing(r) /\ Emptied(r)
  BY <1>3, <1>5 DEF CreateRoom
<1>6. ASSUME NEW x \in Conns, NEW n \in Names, JoinRoom(x, n) PROVE Standing(r) /\ Emptied(r)
  <2>1. named[n] \in RoomIds /\ Live(named[n])
    BY <1>6 DEF JoinRoom, Inv, NamesLeadToRooms, TypeOK
  <2>2. Counted(named[n], 0) \/ Counted(named[n], 1)
    BY <1>6 DEF JoinRoom, Admit, Reserve
  <2>3. QED BY <1>2, <2>1, <2>2
<1>7. ASSUME NEW x \in Conns, CountOut(x) PROVE Standing(r) /\ Emptied(r)
  <2>1. PICK q : q = hold[x].room
    OBVIOUS
  <2>2. CASE LastOne(q)
    <3>1. rooms' = [rooms EXCEPT ![q] = None]
      BY <1>7, <2>1, <2>2 DEF CountOut, Reaped
    <3>2. rooms'[r] = rooms[r] \/ rooms'[r] = None
      BY <3>1, <1>r
    <3>3. QED BY <1>1, <3>2 DEF Standing, Emptied, Live
  <2>3. CASE ~LastOne(q)
    <3>1. rooms' = [rooms EXCEPT ![q].connected = @ - 1]
      BY <1>7, <2>1, <2>3 DEF CountOut
    <3>2. q \in RoomIds /\ Live(q)
      BY <1>7, <2>1, InsideIsLive DEF CountOut, Routed
    <3>3. CASE q # r
      BY <1>1, <1>r, <3>1, <3>3
    <3>4. CASE q = r
      <4>1. rooms[r] \in Room /\ rooms'[r] = [rooms[r] EXCEPT !.connected = @ - 1]
        BY <1>r, <3>1, <3>2, <3>4
      <4>2. /\ rooms'[r].name = rooms[r].name /\ rooms'[r].seatsTaken = rooms[r].seatsTaken
            /\ rooms'[r].connected = rooms[r].connected - 1
            /\ rooms[r].seatsTaken \in Nat /\ rooms[r].connected \in Nat
        BY <4>1 DEF Room
      <4>3. rooms[r].connected > 1
        BY <2>3, <3>4, <4>2 DEF LastOne
      <4>4. QED BY <4>2, <4>3 DEF Standing, Emptied
    <3>5. QED BY <3>3, <3>4
  <2>4. QED BY <2>2, <2>3
<1>8. ASSUME NEW x \in Conns, GiveBack(x) PROVE Standing(r) /\ Emptied(r)
  <2>1. PICK q : q = hold[x].room
    OBVIOUS
  <2>2. rooms' = [rooms EXCEPT ![q].connected = @ - 1] /\ at[x] = "refused"
    BY <1>8, <2>1 DEF GiveBack, Goes
  <2>3. q \in RoomIds /\ Live(q)
    BY <2>1, <2>2, InsideIsLive DEF Routed
  <2>4. CASE q # r
    BY <1>1, <1>r, <2>2, <2>4
  <2>5. CASE q = r
    <3>1. rooms[r] \in Room /\ rooms'[r] = [rooms[r] EXCEPT !.connected = @ - 1]
      BY <1>r, <2>2, <2>3, <2>5
    <3>2. /\ rooms'[r].name = rooms[r].name /\ rooms'[r].seatsTaken = rooms[r].seatsTaken
          /\ rooms[r].seatsTaken \in Nat
      BY <3>1 DEF Room
    <3>3. \E y \in Conns : at[y] = "refused" /\ hold[y].room = r
      BY <2>1, <2>2, <2>5
    <3>4. rooms'[r].seatsTaken >= rooms[r].seatsTaken
      BY <3>2
    <3>5. QED BY <2>3, <2>5, <3>2, <3>3, <3>4 DEF Standing, Emptied
  <2>6. QED BY <2>4, <2>5
<1>9. CASE UNCHANGED rooms
  BY <1>1, <1>9
<1>10. \/ UNCHANGED rooms
       \/ \E x \in Conns : SeatFor(x) \/ CountOut(x) \/ GiveBack(x)
  BY DEF Next, Login, Join, Register, Return, Watch, Close, Unschedule, Forget, Release,
         TickMatch, StopAll, EntryExpires, routing
<1>11. QED
  BY <1>4, <1>5, <1>6, <1>7, <1>8, <1>9, <1>10 DEF SeatFor

\* A seat can be reclaimed only where both are taken: as long as one is, the one
\* connection inside is the account's own, and its name is not free for another.
LEMMA ReclaimedIsFull ==
  ASSUME Inv, LateFindFull, OnlyFullRoomsStandEmpty, NEW x \in Conns, Unseated(x),
         NEW r \in RoomIds, Live(r), rooms[r].name # None, NEW c \in Reclaimable(r, user[x])
  PROVE  Full(r)
<1>1. /\ rooms[r] \in Room /\ rooms[r].seatsTaken \in 0 .. 2 /\ rooms[r].connected \in Nat
      /\ match[r].seats[c] = user[x] /\ user[x] # None /\ c \in Taken(r)
  BY DEF Inv, TypeOK, Live, Room, Reclaimable, Unseated, LoggedIn, Taken
<1> SUFFICES ASSUME rooms[r].seatsTaken < 2 PROVE FALSE
  BY <1>1 DEF Full
<1>2. /\ IsFiniteSet(Taken(r)) /\ IsFiniteSet(Joining(r))
      /\ Cardinality(Taken(r)) \in Nat /\ Cardinality(Joining(r)) \in Nat
  <2>1. IsFiniteSet({} \cup {"White"}) /\ IsFiniteSet(({} \cup {"White"}) \cup {"Black"})
    BY FS_EmptySet, FS_AddElement
  <2>2. Taken(r) \subseteq ({} \cup {"White"}) \cup {"Black"} /\ Joining(r) \subseteq Conns
    BY DEF Taken, Joining, Colors
  <2>3. QED BY <2>1, <2>2, LobbyAssumption, FS_Subset, FS_CardinalityType
<1>3. rooms[r].seatsTaken = Cardinality(Taken(r)) + Cardinality(Joining(r))
  BY DEF Inv, SeatsAreReserved
<1>4. Cardinality(Taken(r) \ {c}) = Cardinality(Taken(r)) - 1 /\ IsFiniteSet(Taken(r) \ {c})
  BY <1>1, <1>2, FS_RemoveElement
<1>5. Cardinality(Taken(r) \ {c}) \in Nat
  BY <1>4, FS_CardinalityType
<1>6. Cardinality(Taken(r) \ {c}) = 0 /\ Cardinality(Joining(r)) = 0
  BY <1>1, <1>2, <1>3, <1>4, <1>5
<1>7. Taken(r) = {c} /\ Joining(r) = {}
  BY <1>1, <1>2, <1>4, <1>6, FS_EmptySet
<1>8. PICK y \in Conns : y \in Inside(r)
  <2>1. rooms[r].connected # 0
    BY DEF OnlyFullRoomsStandEmpty
  <2>2. Cardinality(Inside(r)) # 0
    BY <2>1 DEF Inv, RoomsCountTheirConnections
  <2>3. Inside(r) # {}
    BY <2>2, FS_EmptySet
  <2>4. QED BY <2>3 DEF Inside
<1>9. hold[y].room = r /\ ~Late(y)
  BY <1>1, <1>8 DEF Inside, LateFindFull, Full
<1>10. hold[y].as \in Colors
  BY <1>7, <1>8, <1>9 DEF Inside, Joining, Late, Routed, Inv, Carried, TypeOK, Holding
<1>11. match[r].seats[hold[y].as] = user[y]
  BY <1>9, <1>10 DEF Inv, SeatsKept
<1>12. y # x /\ user[y] # None
  BY <1>10, LobbyAssumption DEF Unseated, LoggedIn, Nowhere, Inv, Sessions
<1>13. hold[y].as \in Taken(r)
  BY <1>10, <1>11, <1>12 DEF Taken
<1>14. user[y] = user[x]
  BY <1>1, <1>7, <1>11, <1>13
<1>15. QED
  BY <1>12, <1>14 DEF Inv, Sessions

\* Who is late after a step either was before, in the same room, or has just come.
LEMMA LateComes ==
  ASSUME Inv, Next, NEW x \in Conns, Late(x)'
  PROVE  \/ Late(x) /\ hold'[x].room = hold[x].room
         \/ \E n \in Names : JoinRoom(x, n)
<1>t. at \in [Conns -> Stages] /\ hold \in [Conns -> Holding] /\ TypeOK
  BY DEF Inv, TypeOK
<1>n. None # "viewer" /\ "viewer" \notin Colors
  BY LobbyAssumption DEF Colors
<1>1. ASSUME at'[x] = at[x], hold'[x] = hold[x]
      PROVE  Late(x) /\ hold'[x].room = hold[x].room
  BY <1>1 DEF Late
<1>2. ASSUME NEW y \in Conns \ {x}, NEW from, NEW to, Goes(y, from, to) PROVE at'[x] = at[x]
  BY <1>t, <1>2 DEF Goes
<1>3. ASSUME NEW y \in Conns \ {x}, NEW r, NEW as, NEW n, Holds(y, r, as, n) PROVE hold'[x] = hold[x]
  BY <1>t, <1>3 DEF Holds
<1>4. ASSUME NEW y \in Conns, SeatFor(y)
      PROVE  (Late(x) /\ hold'[x].room = hold[x].room) \/ \E n \in Names : JoinRoom(x, n)
  <2>1. CASE y # x
    <3>1. (\E to : Goes(y, "idle", to)) /\ (\E r, as, n : Holds(y, r, as, n))
      BY <1>4 DEF SeatFor, Play, CreateRoom, JoinRoom
    <3>2. QED BY <1>1, <1>2, <1>3, <2>1, <3>1
  <2>2. CASE y = x
    <3>1. CASE \E n \in Names : JoinRoom(x, n)
      BY <3>1
    <3>2. CASE Play(x) \/ \E n \in Names : CreateRoom(x, n)
      <4>1. \E to \in {"joining", "creating"} : Goes(x, "idle", to)
        BY <3>2 DEF Play, CreateRoom
      <4>2. \E r, n : Holds(x, r, None, n)
        BY <3>2 DEF Play, CreateRoom
      <4>3. at'[x] \in {"joining", "creating"} /\ hold'[x].as = None
        BY <1>t, <4>1, <4>2 DEF Goes, Holds
      <4>4. QED BY <1>n, <4>3 DEF Late
    <3>3. QED BY <1>4, <2>2, <3>1, <3>2 DEF SeatFor
  <2>3. QED BY <2>1, <2>2
<1>5. ASSUME NEW y \in Conns,
             Join(y, "joining", "idle") \/ Join(y, "creating", "registering")
      PROVE  Late(x) /\ hold'[x].room = hold[x].room
  <2>1. CASE y # x
    <3>1. (\E from, to : Goes(y, from, to)) /\ (\E r, as, n : Holds(y, r, as, n))
      BY <1>5 DEF Join
    <3>2. QED BY <1>1, <1>2, <1>3, <2>1, <3>1
  <2>2. CASE y = x
    <3>1. \E to \in {"idle", "registering"} : \E from : Goes(x, from, to)
      BY <1>5, <2>2 DEF Join
    <3>2. \E r, n : Holds(x, r, FirstFree(hold[x].room), n)
      BY <1>5, <2>2 DEF Join
    <3>3. at'[x] \in {"idle", "registering"} /\ hold'[x].as = FirstFree(hold[x].room)
      BY <1>t, <3>1, <3>2 DEF Goes, Holds
    <3>4. hold'[x].as # "viewer"
      BY <3>3 DEF FirstFree
    <3>5. QED BY <3>3, <3>4 DEF Late
  <2>3. QED BY <2>1, <2>2
<1>6. ASSUME NEW y \in Conns, Register(y) \/ Return(y) \/ Watch(y) \/ Close(y)
      PROVE  Late(x) /\ hold'[x].room = hold[x].room
  <2>1. hold' = hold
    BY <1>6 DEF Register, Return, Watch, Close
  <2>2. CASE y # x
    <3>1. \E from, to : Goes(y, from, to)
      BY <1>6 DEF Register, Return, Watch, Close, Goes
    <3>2. QED BY <1>1, <1>2, <2>1, <2>2, <3>1
  <2>3. CASE y = x
    <3>1. at'[x] \in {"watching", "returning", "refused"} =>
              at[x] \in {"watching", "returning"}
      BY <1>t, <1>6, <2>3 DEF Register, Return, Watch, Close, CloseTo, Goes
    <3>2. QED BY <2>1, <3>1 DEF Late
  <2>4. QED BY <2>2, <2>3
<1>7. ASSUME NEW y \in Conns, GiveBack(y) \/ CountOut(y) \/ Unschedule(y) \/ Forget(y) \/ Release(y)
      PROVE  Late(x) /\ hold'[x].room = hold[x].room
  <2>1. CASE y # x
    <3>1. at'[x] = at[x]
      BY <1>t, <1>7, <2>1 DEF GiveBack, CountOut, Unschedule, Forget, Release, Goes
    <3>2. hold'[x] = hold[x]
      BY <1>t, <1>7, <2>1 DEF GiveBack, CountOut, Unschedule, Forget, Release, Holds
    <3>3. QED BY <1>1, <3>1, <3>2
  <2>2. CASE y = x
    <3>1. at'[x] \notin {"watching", "returning", "refused"}
      BY <1>t, <1>7, <2>2 DEF GiveBack, CountOut, Unschedule, Forget, Release, Goes
    <3>2. hold'[x].as = None
      BY <1>t, <1>7, <2>2 DEF GiveBack, CountOut, Unschedule, Forget, Release, Holds, Nowhere
    <3>3. QED BY <1>n, <3>1, <3>2 DEF Late
  <2>3. QED BY <2>1, <2>2
<1>8. CASE UNCHANGED <<at, hold>>
  BY <1>1, <1>8
<1>9. QED
  BY <1>4, <1>5, <1>6, <1>7, <1>8
     DEF Next, Login, TickMatch, StopAll, EntryExpires, session

LEMMA LateNext ==
  ASSUME Inv, Inv', Next, LateFindFull, OnlyFullRoomsStandEmpty
  PROVE  LateFindFull' /\ OnlyFullRoomsStandEmpty'
<1>1. ASSUME NEW x \in Conns, Late(x)'
      PROVE  (Full(hold[x].room))'
  <2>r. PICK r : r = hold'[x].room
    OBVIOUS
  <2>i. at'[x] \in Routed \/ (at'[x] = "idle" /\ hold'[x].as # None)
    BY <1>1, LobbyAssumption DEF Inv, Carried, Late, Routed, TypeOK, Stages, Nowhere, Colors
  <2>1. r \in RoomIds /\ rooms'[r] # None /\ rooms'[r] \in Room
    <3>1. r \in RoomIds
      BY <2>r, <2>i DEF Inv, Carried, Nowhere
    <3>2. (x \in Inside(r))'
      BY <2>r, <2>i DEF Inside
    <3>3. QED BY <3>1, <3>2 DEF Inv, RoomsCountTheirConnections, TypeOK, Live
  <2>2. Live(r) /\ Full(r)
    <3>1. CASE Late(x) /\ hold'[x].room = hold[x].room
      <4>1. at[x] \in Routed \/ (at[x] = "idle" /\ hold[x].as # None)
        BY <3>1, LobbyAssumption DEF Inv, Carried, Late, Routed, TypeOK, Stages, Nowhere, Colors
      <4>2. QED BY <2>r, <3>1, <4>1, InsideIsLive DEF LateFindFull
    <3>2. ASSUME NEW n \in Names, JoinRoom(x, n) PROVE Live(r) /\ Full(r)
      <4>h. hold \in [Conns -> Holding] /\ at \in [Conns -> Stages]
        BY DEF Inv, TypeOK
      <4>1. r = named[n]
        BY <2>r, <3>2, <4>h DEF JoinRoom, Holds
      <4>2. Unseated(x) /\ Live(r) /\ rooms[r].name # None /\ rooms[r] \in Room
        BY <2>1, <3>2, <4>1, LobbyAssumption DEF JoinRoom, Inv, NamesLeadToRooms, TypeOK, Live
      <4>3. CASE Reclaimable(r, user[x]) # {}
        BY <2>1, <4>2, <4>3, ReclaimedIsFull
      <4>4. CASE rooms[r].seatsTaken >= 2
        BY <4>2, <4>4 DEF Full, Room
      <4>5. CASE Holds(x, r, None, n) /\ Goes(x, "idle", "joining")
        <5>1. at'[x] = "joining" /\ hold'[x].as = None
          BY <4>h, <4>5 DEF Holds, Goes
        <5>2. QED BY <1>1, <5>1, LobbyAssumption DEF Late
      <4>6. QED BY <3>2, <4>1, <4>3, <4>4, <4>5 DEF JoinRoom
    <3>3. QED BY <1>1, <3>1, <3>2, LateComes
  <2>3. rooms[r] \in Room
    BY <2>1, <2>2 DEF Inv, TypeOK, Live
  <2>4. rooms'[r].name = rooms[r].name /\ rooms'[r].seatsTaken >= rooms[r].seatsTaken
    BY <2>1, <2>2, RoomsMove DEF Standing, Live
  <2>5. rooms'[r].seatsTaken \in 0 .. 2 /\ rooms[r].seatsTaken = 2 /\ rooms[r].name # None
    BY <2>1, <2>2 DEF Room, Full
  <2>6. rooms'[r].seatsTaken = 2 /\ rooms'[r].name # None
    BY <2>4, <2>5
  <2>7. QED BY <2>r, <2>6 DEF Full
<1>2. ASSUME NEW r \in RoomIds, Live(r)', rooms'[r].connected = 0
      PROVE  rooms'[r].name # None /\ rooms'[r].seatsTaken = 2
  <2>1. Live(r) /\ (rooms[r].connected = 0 \/ \E x \in Conns : at[x] = "refused" /\ hold[x].room = r)
    BY <1>2, RoomsMove DEF Emptied
  <2>2. Full(r)
    BY <2>1 DEF OnlyFullRoomsStandEmpty, LateFindFull, Late, Full
  <2>3. rooms'[r].name = rooms[r].name /\ rooms'[r].seatsTaken >= rooms[r].seatsTaken
    BY <1>2, <2>1, RoomsMove DEF Standing
  <2>4. rooms'[r].seatsTaken \in 0 .. 2 /\ rooms[r].seatsTaken = 2 /\ rooms[r].name # None
    BY <1>2, <2>2 DEF Inv, TypeOK, Live, Room, Full
  <2>5. QED BY <2>3, <2>4
<1>3. QED
  BY <1>1, <1>2 DEF LateFindFull, OnlyFullRoomsStandEmpty

\* A room left standing without a connection (give_back_connection does not reap)
\* is a named room with both seats taken: nobody is ever paired with, or seated
\* in, an empty room.
THEOREM EmptyRoomsAreFull == Spec => []OnlyFullRoomsStandEmpty
<1>1. Init => LateFindFull /\ OnlyFullRoomsStandEmpty
  BY LobbyAssumption DEF Init, LateFindFull, OnlyFullRoomsStandEmpty, Late, Live, Nowhere
<1>2. Inv /\ Inv' /\ LateFindFull /\ OnlyFullRoomsStandEmpty /\ [Next]_vars
        => LateFindFull' /\ OnlyFullRoomsStandEmpty'
  <2>1. CASE UNCHANGED vars
    BY <2>1 DEF vars, session, routing, LateFindFull, OnlyFullRoomsStandEmpty, Late, Full, Live
  <2>2. CASE Next
    BY <2>2, LateNext
  <2>3. QED BY <2>1, <2>2
<1>3. QED BY <1>1, <1>2, LobbyInvariant, PTL DEF Spec
=============================================================================
