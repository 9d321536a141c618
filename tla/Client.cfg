SPECIFICATION FairSpec
CONSTANTS
    None = None
    SearchFrames = 1
    IntroFrames = 1
    QueueBound = 2
INVARIANTS
    ClicksHitLiveObjects
    GameIsTheOneAskedFor
PROPERTIES
    VerdictStays
    WaitingEnds
