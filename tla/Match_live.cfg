SPECIFICATION Spec
CONSTANTS
    None = None
    Conns = {x1, x2, x3}
    Users = {alice, bob}
    Grace = 1
    ReleaseDelay = 1
    QueueCap = 1
    MaxSpectators = 0
    MaxRevision = 0
PROPERTIES
    DropIsSettled
    EveryoneIsReleased
CHECK_DEADLOCK FALSE
