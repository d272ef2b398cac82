SPECIFICATION Spec
CONSTANTS
    Sensors = {a, b}
    Backlog = 1
    MaxUplinks = 2
    MaxChoices = 3
    MaxOutages = 1
    Devices = {a, b}
    MaxCalls = 2
    MaxMoves = 5
    MaxFailures = 1
    PageLimit = 2
    MaxTable = 2
    IdMemory = 2
    MaxMessages = 3
    MaxActs = 2
    MaxCutoffs = 1
    Boards = {a, b}
    MaxQueue = 1
    MaxBatch = 1
    MaxLines = 2
    MaxSessions = 2
    MaxLosses = 1
INVARIANTS
    TypeOK
    ChartIsTrue
    FeedIsTrue
    BleLogIsTrue
PROPERTIES
    PanelCatchesUp
CHECK_DEADLOCK FALSE
