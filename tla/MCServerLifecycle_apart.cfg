CONSTANTS
    t1 = t1
    t2 = t2
    t3 = t3
    Tasks = {t1, t2, t3}
    Body <- MCBody
    Prefetch = 3
    MaxRetries = 2
    Faults = 2
    PrefixOf <- MCPrefixOf
    Tables <- MCTables
    Refusals <- Reported
SPECIFICATION Spec
INVARIANTS
    TypeOK
    ReadyMeansComplete
    AckedCreateSettles
    OneServerPerInstance
    BuildsOnItsOwnRow
    DeleteAndResizeLand
CHECK_DEADLOCK FALSE
