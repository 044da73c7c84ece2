SPECIFICATION Spec
CONSTANTS
    None = None
    Unused = Unused
    Nodes = {1, 2}
    Pairs <- MCPairs
    MaxAttempts = 2
    Attempts = {1, 2}
    Scripts = {"fine", "raises", "syntax", "forbidden", "nested", "grows", "spins", "sleeps"}
    Quota = 1
    Clients = {1, 2}
    Asks <- MCAsks
    MaxWorkers = 1
    MaxAssets = 2
    MaxJobs = 2
    MaxRequests = 2
    Plans <- MCPlans
    MaxRuns = 2
    Loop = Loop
    Requests = {thread1, thread2}
    BatchSize = 2
    MaxLines = 3
INVARIANTS SharedStateKept    OutcomesSound LogIsWhole
 
CHECK_DEADLOCK FALSE
