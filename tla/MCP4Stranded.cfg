SPECIFICATION Spec
CHECK_DEADLOCK FALSE
CONSTANTS
    Tasks = {t1}
    Runs = {t1}
    Users <- MCUsers
    NoUser <- MCNoUser
    Workers = {w1}
    Conns <- MCConnsBreaks
    Loops <- MCLoopsBreaks
    None = None
    StageCounts = {1}
    PendingCap = 1
    AvailCap = 3
    EventsCap = 1
    RPCTasks = {t1}
    MaxLoad = 4
    Fragile = {1, 2}
    Fleets = {{w1}}
INVARIANTS
    StreamHasReader
