SPECIFICATION DiagramSpec
CONSTANTS
    Type <- Types
    BusError = "Error"
    ReplyType <- ReplyTypes
    Subscribers <- SubscribersOf
    Unidentified = "none"
    Cancelling <- CancellingOf
    Uses <- TaskUses
    OwnRoutes = {"Request", "*"}
    AppIntents <- AppSends
    HandlerIntents <- HandlerSends
    MaxTransports = 1
    MaxSends = 3
INVARIANTS
    SentByItsHandler
    ConversationCarried
    ReplyTakesTransportOfRequest
    DefaultReportsFailures
    TreeOfOrigins
    RepliesDrawnToRequester
CHECK_DEADLOCK FALSE
