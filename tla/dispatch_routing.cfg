SPECIFICATION FairSpec
CONSTANTS
    Type <- Types
    BusError = "Error"
    Payload = {"p"}
    SubCount = 4
    Filter <- RoutingFilter
    Wildcard = {1}
    Policy <- RoutingPolicy
    Startup = 2
    Transient = {2}
    AppSends <- RoutingApp
    HandlerSends <- None
    MaxMessages = 3
INVARIANTS
    DeliveredOnceInOrder
    CommandHasOneOutcome
PROPERTIES
    EveryMessageProcessed
CHECK_DEADLOCK FALSE
