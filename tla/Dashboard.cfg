SPECIFICATION DashboardSpec
CONSTANTS
    n1 = n1
    n2 = n2
    n3 = n3
    v1 = v1
    v2 = v2
    v3 = v3
    v4 = v4
    Nil = Nil
    Server = {n1, n2, n3}
    Value = {v1, v2, v3, v4}
    MaxEntries = 3
    LateReplies = FALSE
    MaxTerm = 5
    MaxRestarts = 0
    MaxInFlight = 2
    Item = {1, 2}
    Critical = {1}
    Listener = {1}
    Loop = {1, 2}
    MaxStarts = 2
    Event = {1, 2, 3}
    Aggregate = {"a", "b"}
    Subscriber = {"s"}
    maxEventsInMemory = 2
    Deployment = {1, 2}
    rolloutPercentage = {20, 100}
    Peer = {"p1", "p2"}
    TermLimit = 2
    MaxLog = 2
    Candidate = {"n1", "n2"}
    ttl = 4
    refreshInterval = 1
    MaxDelay = 1
    Slot = {1, 2}
    Cluster = {"c1", "c2"}
    Work = {1}
    Share = {1}
    EdgeNode = {"n1"}
    maxRecoveryAttempts = 3
    recoveryCooldown = 3
    stepTime = 1
    Horizon = 9
    Machine = {1}
    totalCpuCores = 8
    Reservation = {1, 2, 3}
    Task = {1}
    cpuCores = {4, 6}
    duration = 1
    Now = 1
    Decision = {1, 2}
    Dispatch = {1, 2}
    decisionTimeout = 2
    expiryInterval = 1
    maxPendingDecisions = 1
    Placed = {1, 2, 3}
    Load = {1}
    totalShards = 2
    Member = {"n1", "n2"}
    heartbeatTimeout = 2
    cleanupInterval = 4
    maxNodes = 1
INVARIANTS
    LeaderCompleteness

    
CHECK_DEADLOCK FALSE
