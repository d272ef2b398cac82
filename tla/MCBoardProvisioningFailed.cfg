CONSTANTS
    f1 = f1
    f2 = f2
    b1 = b1
    b2 = b2
    d1 = d1
    d2 = d2
    Flows = {f1, f2}
    Boards = {b1, b2}
    Provisioned = {b2}
    Devices = {d1, d2}
    FirstDevice = d2
    Unfiled = {d1}
    DeviceOf <- OwnDevice
    Vias = {"ble", "serial"}
    NumValues = 2
    Blank = Blank
    Foreign = Foreign
    Nameless = Nameless
    None = None
    MaxStarts = 3
    MaxFaults = 1
SYMMETRY SlotSymmetry
SPECIFICATION Spec
INVARIANT
    FailedMeansUnprovisioned
CHECK_DEADLOCK FALSE
