CONSTANTS
    t1 = t1
    t2 = t2
    t3 = t3
    Tasks = {t1, t2}
    Body <- TwiceBody
    Prefetch = 2
    MaxRetries = 2
    Faults = 0
    PrefixOf <- MCPrefixOf
    Tables <- JustEmpty
    Refusals <- NoRefusals
SPECIFICATION Spec
INVARIANTS
    WholeMessageRetrySafe
CHECK_DEADLOCK FALSE
