CONSTANTS
    t1 = t1
    t2 = t2
    r1 = r1
    r2 = r2
    Topics = {t1, t2}
    Configured = {}
    InitialTables <- Tables
    Main = Main
    Requests = {r1, r2}
    None = None
    MaxListeners = 2
    MaxCreates = 2
    MaxFaults = 1
SPECIFICATION Spec
INVARIANTS
    TypeOK
    NothingForgotten
    RecordIsTrue
PROPERTY
    TopicsSettle
CHECK_DEADLOCK FALSE
