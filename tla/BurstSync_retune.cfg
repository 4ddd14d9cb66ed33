SPECIFICATION FairSlippingSpec
CONSTANTS
    Lossy = FALSE
    TS = 10
    BufSize = 25
    SyncOffs = 4
    NormOffs = 7
    SyncLen = 2
    NormLen = 1
    Blind = 1
    Lens = {3}
    MaxNoSync = 2
PROPERTY LocksForGood
