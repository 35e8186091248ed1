SPECIFICATION Spec
CONSTANTS
    MessageCount = 5
    Key <- Keys
    NoKey = "none"
    KeyOf <- RaceKeys
    Starts = {1, 2}
PROPERTIES
    SavedUnchangedOnly
CHECK_DEADLOCK FALSE
