SPECIFICATION FairSpec
CONSTANTS
    Type <- Types
    Matches <- Filters
    Wildcard = {"*"}
    Class <- Classes
    Base <- Bases
    Decorated <- DecoratedMethods
    Instance = {"pair"}
    ClassOf <- InstanceClass
    Exports <- ExportedClasses
    Calls <- CallsOf
    Guarded = {"a"}
    Undefined = "undefined"
    MaxSubscribing = 3
    MaxEvents = 3
    MaxWaits = 2
INVARIANTS
    WaitTakesFirstEvent
PROPERTIES
    UnregisterAllOrError
    WaitsEnd
CHECK_DEADLOCK FALSE
