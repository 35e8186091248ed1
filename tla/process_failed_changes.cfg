SPECIFICATION ProcessSpec
CONSTANTS
    OrderCount = 4
INVARIANTS
    FailedChangesDiscarded
CHECK_DEADLOCK FALSE
