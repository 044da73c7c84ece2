SPECIFICATION Spec
CONSTANTS
    Clients = {1, 2}
    None = None
    Unused = Unused
    Urls <- MCUrls
    Hosts <- MCHosts
    Requests <- MCRequests
    Policies <- MCPolicies
    Plans <- MCPlans
    Chain <- MCChain
    Models <- MCModels
    Kinds <- MCKinds
    Budget <- MCBudget
    Edits <- MCEdits
    MaxRedirects = 2
    Statuses = {200, 302, 303, 307, 429, 500}
    NoLocation = NoLocation
    Providers = {"openai", "local", "mock"}
    HasKey = {"local", "mock"}
    Threshold = 2
    Reset = 1
    TraceSize = 2
    MaxTurns = 1
    MaxMessages = 2
    MaxTokens = 2
    MaxAsks = 4
    MaxClock = 1
    RateWindow = 1
    MaxBuckets = 1
    MaxTime = 2
    MaxRequests = 4
    PageSize = 1
    MaxEdits = 3
    Ids = {1, 2, 3, 4}
    EdgeLists <- MCEdgeLists
INVARIANTS CirclesRejected
CHECK_DEADLOCK FALSE
