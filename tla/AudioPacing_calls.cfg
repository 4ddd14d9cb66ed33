CONSTANTS
    Lens = {340}
    BitsPerSlot = 510
    Speech = 480
    MaxFn = 18
    RingSize = 480
    CallSlots = {1, 4}
    MaxLosses = 1
    MaxCalls = 2
SPECIFICATION FairSpec
INVARIANTS LagIsBounded SpeechIsUnbroken
PROPERTIES PaceIsKept SilenceComes
