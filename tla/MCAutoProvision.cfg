CONSTANTS
    Customers = {alice}
    Admins = {root}
    Keys = {board1, board2}
    Tokens = {t1, t2}
    Wids = {w1, w2}
    Requests = {r1, r2}
    Environments = {"all"}
    MaxLookups = 0
    MaxFaults = None
    None = None
SYMMETRY Symmetry
SPECIFICATION Spec
INVARIANTS
    TypeOK
    OneAtATime
    NoStrayAwsDevice
    LinkIsOwnDevice
    NoCallForLinkedBoard
    OkMeansComplete
PROPERTIES
    ReservationIsKept
    OwnershipNotTransferred
    ImplementsSetup
