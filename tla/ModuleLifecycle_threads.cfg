CONSTANTS
    Window = 2
    Expire = 3
    MaxSockets = 2
SPECIFICATION FairSpec
INVARIANTS OneReader ChainMatchesMode ConfigIsState SendingStops LightIsRecent
PROPERTIES InterfaceReturns
