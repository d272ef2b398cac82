CONSTANTS
    Devices = {dev1}
    Data = {opener, continuation}
    Framings = {seq1, seq3}
    Window = 1
    MaxAttempts = 2
    MaxBackoff = 1
    MaxRows = 2
    MaxLate = 1
    MaxAborts = 1
SPECIFICATION Spec
INVARIANTS
    TypeOK
    NoRepeatWithinWindow
    StatusIsEarned
    OnlyRetriesRepeat
PROPERTIES
    EveryChunkSettles
CHECK_DEADLOCK FALSE
