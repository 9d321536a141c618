SPECIFICATION Spec
CONSTANTS
    None = None
    alice = alice
    bob = bob
    carol = carol
    Conns = {x1, x2, x3, x4}
    Users <- ThreeUsers
    Rating <- ThreeRatings
    Names = {n1}
    Workers = {1, 2}
    RatingGap = 3
    MaxSpectators = 1
    MaxRooms = 2
SYMMETRY Interchangeable
INVARIANTS
    WaitingListIsExact
    WaitingAreFarApart
    ClosestIsClosest
    SeatsAreReserved
    RoomsCountTheirConnections
    OneConnectionPerSeat
    NamesLeadToRooms
    ScheduledWhileLive
    OnlyFullRoomsStandEmpty
CHECK_DEADLOCK FALSE
