SPECIFICATION Spec
CONSTANTS
    None = None
    Conns = {x1, x2, x3}
    Users = {alice, bob, carol}
    Grace = 1
    ReleaseDelay = 1
    QueueCap = 1
    MaxSpectators = 1
    MaxRevision = 1
SYMMETRY Interchangeable
INVARIANTS
    NoStaleBanner
CHECK_DEADLOCK FALSE
