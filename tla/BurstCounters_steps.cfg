SPECIFICATION BoundedSpec
CONSTANTS
    Lossy = TRUE
    TS = 6
    BufSize = 15
    SyncOffs = 2
    NormOffs = 4
    SyncLen = 2
    NormLen = 1
    Blind = 1
    Lens = {2, 5}
    MaxNoSync = 3
    Wrap = 64
PROPERTY StepsRefine
\* A call that BoundedSpec leaves out ends the run.
CHECK_DEADLOCK FALSE
