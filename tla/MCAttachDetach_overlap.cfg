CONSTANTS
    t1 = t1
    t2 = t2
    t3 = t3
    Tasks = {t1, t2, t3}
    Body <- MCBody
    Prefetch = 3
    MaxRetries = 2
    Faults = 2
    PrefixOf <- MCPrefixOf
    Networks <- MCNetworks
    LookupErrors = FALSE
SPECIFICATION Spec
INVARIANTS
    TypeOK
    AttachedOnce
    AckedTakesEffect
    NoStrayEndpoint
CHECK_DEADLOCK FALSE
