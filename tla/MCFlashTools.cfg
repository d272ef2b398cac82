SPECIFICATION Spec
CONSTANTS
    ChunkWords = 2
    BlockWords = 1
    WriteChunk = 4
    MaxFaults = 1
    MaxPlugs = 2
    MaxClicks = 3
    Shelf <- MCShelf
    Factory <- MCFactory
INVARIANTS
    TypeOK
    CompleteMeansFlashed
    FailureIsExplained
PROPERTIES
    OnlyWhatItMay
