CONSTANTS
    Attempts = 2
    Shapes <- ServerInsert
    MaxRetries = 2
SPECIFICATION RetrySpec
INVARIANTS
    OutageIsRetried
CHECK_DEADLOCK FALSE
