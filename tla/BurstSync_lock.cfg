SPECIFICATION FairSpec
CONSTANTS
    Lossy = TRUE
    TS = 6
    BufSize = 15
    SyncOffs = 2
    NormOffs = 4
    SyncLen = 2
    NormLen = 1
    Blind = 1
    Lens = {1, 3, 5}
    MaxNoSync = 3
INVARIANTS FrameStartKept LockedLosesNothing GridIsTrue
PROPERTIES LocksForGood GivesAllBursts
