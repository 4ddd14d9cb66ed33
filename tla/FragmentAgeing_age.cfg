SPECIFICATION AgeingSpec
CONSTANTS
    Slots = {1, 2, 3, 4}
    Frames = {17, 18}
    N203 = 6
    MsgbSize = 8
    MaxMsgs <- MCMaxMsgs
    MaxFrags = 3
    Hdr = 1
    Body = 1
PROPERTY DroppedOnlyWhenOld
