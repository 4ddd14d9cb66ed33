SPECIFICATION Spec
CONSTANTS
    Cells <- MCCells
    Nets <- MCNets
    Keys <- MCKeys
    Hyperframes <- MCHyperframes
    OtherPdus <- MCOtherPdus
    Slots = {1, 2}
INVARIANTS CachedKeyIsCurrent KeyOfMessageNetwork KeystreamOfLastReceived
PROPERTY ParametersStayKnown
