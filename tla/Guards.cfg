SPECIFICATION GuardsSpec
CONSTANTS
    i1 = i1
    i2 = i2
    n1 = n1
    n2 = n2
    t1 = t1
    t2 = t2
    c1 = c1
    c2 = c2
    Nil = Nil
    Gone = Gone
    Instance = {i1, i2}
    Node = {n1}
    Submitted = {t1}
    Clones = {c1}
    Rank <- EqualRank
    MaxRetries = 1
    MaxPerNode = 2
    PriorityQueueWired = FALSE
    RedisMocked = FALSE
    Faulty = TRUE
    Prompt = TRUE
    MaxRuns = 2
    MaxCrashes = 1
    Maintained = {n1}
    windowMs = 3
    limits = {1, 2}
    cleanupInterval = 2
    Horizon = 7
    Id = {1, 2, 3}
    keyHorizon = 3
    Expiry = {1, 2}
    Rule = {1, 2, 3}
    Address = {1, 2}
    Target = {{1}, {1, 2}}
    filterHorizon = 2
    Source = {"a", "b"}
    threshold = 2
    window = 1
    cooldownMs = 2
    maxHistorySize = 4
    maxAlerts = 1
    intrusionHorizon = 5
    MaxEvents = 5
    JWT_EXPIRY = 1
    RATE_LIMIT_WINDOW_MS = 3
    RATE_LIMIT_MAX = 2
    agentCleanup = 2
    agentHorizon = 5
    MaxRequests = 4
    Handler = {"db", "cache", "server"}
    MaxShutdowns = 2
    Configured = {"costOptimization", "carbonTracking"}
    Message = {1, 2, 3}
    prefetch = 2
    MaxConnections = 2
    ttlSeconds = 2
    lockTimeout = 3
    cacheHorizon = 5
    l1TTL = 1
    l2TTL = 2
    l1Cleanup = 3
    latency = 1
INVARIANTS
    
    SingleDispatch
    
    GuardsSafe

    
CHECK_DEADLOCK FALSE
