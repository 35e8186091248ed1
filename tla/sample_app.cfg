SPECIFICATION PagesSpec
CONSTANTS
    Route = {"shopping-cart", "todos", "real-world", "tools"}
    Tools = "tools"
    Product = {"iPad", "CD"}
    Stock <- ShopStock
    Owner <- OwnerOf
    Pages <- PagesOf
    Listed <- ListedOn
    Filter = {"SHOW_ALL", "SHOW_ACTIVE"}
    Login = {"user"}
    Repo = {"repo"}
    Nowhere = "nowhere"
    MaxCartClicks = 4
    MaxUses = 3
    MaxActs = 3
    MaxFailures = 2
    MaxTestUsers = 1
    MaxCalls = 2
    MaxMessages = 2
    SubscriberCounts <- Counts
    MaxSent = 2
    MaxMounts = 2
    MaxKeys = 1
INVARIANTS
    ThunksQueued
    EmptiedIsBought
    TodosNumberedInOrder
    PagesInOrder
    ShownAsCompleted
    ParentsComing
PROPERTIES
    OversoldByThoseAhead
    LoadingEnds
CHECK_DEADLOCK FALSE
