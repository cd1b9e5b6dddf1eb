CONSTANTS
    t1 = t1
    t2 = t2
    t3 = t3
    Tasks = {t1}
    Body <- LoneBody
    Prefetch = 1
    MaxRetries = 2
    Faults = 1
    PrefixOf <- MCPrefixOf
    Tables <- JustEmpty
    Refusals <- InsertRefused
SPECIFICATION Spec
INVARIANTS
    AckedCreateSettles
CHECK_DEADLOCK FALSE
