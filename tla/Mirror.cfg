SPECIFICATION MirrorSpec
CONSTANTS
    None = None
    wr = wr
    br = br
    ws = ws
    Ids = {wr, ws, br}
    Width = 3
    Height = 1
    ColorOf <- RowColors
    StartBoard <- RowBoard
    TimePerCell <- Travel
    JumpDuration = 6
    MoveCooldown = 6
    JumpCooldown = 1
    TickSizes = {3}
    OwnColor = "White"
    PieceValue <- Values
    CellSize = 2
    Pixels <- SomePixels
    MaxRevision = 2
    MaxRequests = 1
    MaxWire = 3
INVARIANTS
    MirrorAgrees
    EachArrivalCountsOnce
    PredictionsAreTrue
