CONSTANTS
    t1 = t1
    t2 = t2
    t3 = t3
    Tasks = {t1, t2}
    Body <- TwinsBody
    Prefetch = 2
    MaxRetries = 2
    Faults = 0
    PrefixOf <- MCPrefixOf
    Networks <- JustBare
    LookupErrors = FALSE
SPECIFICATION Spec
INVARIANTS
    GoodMessagesSucceed
CHECK_DEADLOCK FALSE
