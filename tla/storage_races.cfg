SPECIFICATION StorageSpec
CONSTANTS
    MessageCount = 5
    Key <- Keys
    NoKey = "none"
    KeyOf <- RaceKeys
    Starts = {1, 2, 5}
    OrderCount = 4
INVARIANTS
    JoinsStartedSaga
PROPERTIES
    StaleNeverOverwrites
    RevivedByOvertakenOnly
    OnlyFirstHandlersOverwrite
CHECK_DEADLOCK FALSE
