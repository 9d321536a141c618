SPECIFICATION Spec
CONSTANTS
    None = None
    wk = wk
    wr = wr
    bk = bk
    br = br
    Ids = {wk, wr, bk, br}
    Width = 4
    Height = 1
    ColorOf <- RowColors
    StartBoard <- RowBoard
    TimePerCell <- Travel
    JumpDuration = 7
    MoveCooldown = 25
    JumpCooldown = 8
    TickSizes = {1, 2}
INVARIANTS
    TypeOK
    OnePlacePerPiece
    MoverAtSource
    StateMatchesMotion
    CapturedStaysOff
    VerdictMatchesCaptures
PROPERTIES
    AirborneIsSafe
