CONSTANTS
    Slots = {1}
    N203 = 6
    MsgbSize = 8192
    BlockTypes = {"SB2"}
    Addrs = {2}
    Allocs = {}
    SduBits = {}
    MessageBits = {}
    Bands = {3, 4}
    Duplexes = {0, 1, 3, 6}
SPECIFICATION BlockSpec
INVARIANT ReservedHasNoUplink
