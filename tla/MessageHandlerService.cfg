CONSTANTS
    Messages = {m1, m2}
    Prefetch = 1
    MaxRetries = 2
    AckRetries = 2
    MaxConns = 3
SPECIFICATION FairSpec
INVARIANTS
    TypeOK
    EachMessageHeldOnce
    NoOrphanedDelivery
PROPERTIES
    GracefulClose
    ImplementsAtLeastOnce
    EverySettled
    ShutdownCompletes
CHECK_DEADLOCK FALSE
