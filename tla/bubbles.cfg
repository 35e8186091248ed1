SPECIFICATION FairSpec
CONSTANTS
    Definitions <- Flows
    TypeOf <- Types
    Until <- UntilEvent
    Handled = {"Cmd"}
    Reactions <- HandlerMessages
    ReplyType <- Replies
    BusError = "Bus.Error"
    NoType = "none"
    MaxSends = 4
INVARIANTS
    ResolvedAndValidIsWholeFlow
    SentInTurn
    ErrorsAreExtra
PROPERTIES
    FlowResolves
CHECK_DEADLOCK FALSE
