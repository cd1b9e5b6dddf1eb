CONSTANTS
    t1 = t1
    t2 = t2
    t3 = t3
    t4 = t4
    t5 = t5
    t6 = t6
    Tasks = {t1, t2, t3, t4, t5, t6}
    Body <- MCBody
    Prefetch = 2
    MaxRetries = 1
    Faults = 1
    PrefixOf <- MCPrefixOf
    Tables <- MCTables
    LookupErrors = FALSE
    Refusals <- MCRefusals
SPECIFICATION ApartSpec
INVARIANTS
    EffectStands
    PortOnItsCard
    OneOfEachType
CHECK_DEADLOCK FALSE
