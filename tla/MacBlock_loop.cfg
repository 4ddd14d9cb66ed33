CONSTANTS
    Slots = {1}
    N203 = 6
    MsgbSize = 8192
    BlockTypes = {"NDB", "SCH_F"}
    Addrs = {2, 6}
    Allocs <- MCAllocs
    SduBits = {0, 21}
    MessageBits = {140, 300}
    Bands = {4}
    Duplexes = {0}
SPECIFICATION FairBlockSpec
INVARIANTS LoopIsAligned MessageIsWhole NothingIsHidden
PROPERTY LoopEnds
