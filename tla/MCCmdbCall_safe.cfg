CONSTANTS
    Attempts = 5
    Shapes <- SafeShapes
SPECIFICATION FairSpec
INVARIANTS
    TypeOK
    InsertedAtMostOnce
    OnlyRefusalsAreRecorded
    SurrendersOnlyAfterBudget
PROPERTIES
    ImplementsInsertOnce
    Terminates
CHECK_DEADLOCK FALSE
