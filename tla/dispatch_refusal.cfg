SPECIFICATION Spec
CONSTANTS
    Type <- Types
    BusError = "Error"
    Payload = {"p", "q"}
    SubCount = 2
    Filter <- RefusalFilter
    Wildcard = {}
    Policy <- RefusalPolicy
    Startup = 2
    Transient = {}
    AppSends <- PoliciesApp
    HandlerSends <- None
    MaxMessages = 2
INVARIANTS
    IgnoredForThisSubscriptionOnly
CHECK_DEADLOCK FALSE
