SPECIFICATION FairSpec
CONSTANTS
    RequestCount = 2
    Id <- Ids
    MessageId <- OwnIds
    FromHandler = {1}
    Policies = {"cancelExisting", "ignoreIfExisting"}
    MaxReplies = 2
INVARIANTS
    TableAccounted
    OwnAnswer
    FirstReplyFindsHandler
PROPERTIES
    CallerFairSpec
CHECK_DEADLOCK FALSE
