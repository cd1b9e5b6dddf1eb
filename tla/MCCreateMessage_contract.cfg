CONSTANTS
    Messages <- Incomplete
SPECIFICATION Spec
INVARIANTS
    ContractCheckedFirst
CHECK_DEADLOCK FALSE
