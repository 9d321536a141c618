SPECIFICATION Spec
CONSTANTS
    None = None
    Users = {alice, bob}
    BadNames = {}
    Words = {w1, w2}
    WeakWords = {w2}
    Requests = {h1, h2, h3}
    Tokens = {t1, t2}
    Ips = {i1}
    Games = {g1}
    StartingRating = 10
    Penalty = 2
    K = 3
    Spread = 4
    Expected <- Curve
    MaxAttempts = 1
    Window = 2
    SweepEvery = 2
    Lifetime = 1
    MaxTime = 4
    MaxStarts = 2
SYMMETRY Interchangeable
INVARIANTS
    NameIsTakenOnce
    HistoryIsPrivate
    BudgetHolds
    PointsAreAccountedFor
CHECK_DEADLOCK FALSE
