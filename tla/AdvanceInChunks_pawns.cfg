SPECIFICATION SpecChunks
CONSTANTS
    None = None
    wk = wk
    wp = wp
    bk = bk
    bp = bp
    Ids = {wk, wp, bk, bp}
    Width = 2
    Height = 2
    ColorOf <- PawnColors
    StartBoard <- PawnBoard
    TimePerCell <- Travel
    JumpDuration = 3
    MoveCooldown = 3
    JumpCooldown = 1
    TickSizes = {2}
    Chunks = {1, 2}
INVARIANTS
    ChunkingIsInvisible
PROPERTIES
    StepsMakeOneWait
