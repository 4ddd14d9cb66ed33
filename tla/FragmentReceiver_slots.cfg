SPECIFICATION FairSpec
CONSTANTS
    Slots = {1, 2}
    Frames = {17, 18}
    N203 = 2
    MsgbSize = 3
    MaxMsgs <- MCMaxMsgs
    MaxFrags = 3
    Hdr = 1
    Body = 1
INVARIANTS UnusedIsBlank CountsMatchBuffer KeyHeld MessagesNotMixed
PROPERTY SlotsAreFreed
