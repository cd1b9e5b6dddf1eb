CONSTANTS
    Attempts = 2
    Shapes <- AttachIpInserts
SPECIFICATION Spec
INVARIANTS
    InsertedAtMostOnce
CHECK_DEADLOCK FALSE
