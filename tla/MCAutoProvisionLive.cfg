CONSTANTS
    Customers = {alice}
    Admins = {root}
    Keys = {board1}
    Tokens = {t1}
    Wids = {w1}
    Requests = {r1, r2}
    Environments = {"none", "memfault", "all"}
    MaxLookups = 1
    None = None
    MaxFaults = 3
SPECIFICATION LiveSpec
PROPERTIES
    SetupCompletes
