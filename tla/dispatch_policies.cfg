SPECIFICATION Spec
CONSTANTS
    Type <- Types
    BusError = "Error"
    Payload = {"p"}
    SubCount = 2
    Filter <- PoliciesFilter
    Wildcard = {}
    Policy <- PoliciesPolicy
    Startup = 2
    Transient = {}
    AppSends <- PoliciesApp
    HandlerSends <- PoliciesHandler
    MaxMessages = 4
INVARIANTS
    IgnoreExistingExclusive
    OneLiveHandler
    NeverLockedOut
    LateSpeakersHadEnded
PROPERTIES
    CancelledOnlyByNewer
CHECK_DEADLOCK FALSE
