CONSTANTS
    Publishers = {mqtt, request}
    Viewers = {page1}
    Devices = {dev1, dev2}
    NoDevice = NoDevice
    Backlog = 2
    QueueSize = 1
    MaxEvents = 3
    MaxRestarts = 1
    MaxCuts = 2
SPECIFICATION Spec
INVARIANTS
    TypeOK
    NothingLostUnexcused
    RepeatedOnlyAfterRestart
    InOrderUnlessPassed
PROPERTIES
    EventsSurface
CHECK_DEADLOCK FALSE
