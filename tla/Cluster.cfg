SPECIFICATION ClusterSpec
CONSTANTS
    i1 = i1
    i2 = i2
    n1 = n1
    n2 = n2
    t1 = t1
    t2 = t2
    c1 = c1
    c2 = c2
    Nil = Nil
    Gone = Gone
    Instance = {i1, i2}
    Node = {n1}
    Submitted = {t1}
    Clones = {c1}
    Rank <- EqualRank
    MaxRetries = 1
    MaxPerNode = 1
    PriorityQueueWired = FALSE
    RedisMocked = FALSE
    Faulty = FALSE
    Prompt = FALSE
    MaxRuns = 1
    MaxCrashes = 0
    Maintained = {}
    Call = {1, 2, 3, 4}
    failureThreshold = 2
    successThreshold = 2
    halfOpenMaxCalls = 2
    maxAttempts = 2
    Id = {1, 2}
    Class = {1, 2}
    weight = 2
    maxBonus = 1
    maxConcurrent = 1
    queueRetries = 1
    QueueHorizon = 2
    MaxEnqueues = 3
    nodeTimeout = 2
    heartbeatInterval = 1
    Connection = {1, 2}
    Message = {"m", "n"}
    maxConnections = 1
    maxReconnectAttempts = 1
    pageReconnects = 2
    MaxCalls = 3
    Look = {1, 2}
    retries = 1
    MaxUndeployed = 2
    Group = {"g"}
    windowSize = 2
    windowHorizon = 6
    Loop = {1, 2}
    MaxEvents = 2
    MaxStops = 2
    MaxRestarts = 2
    poolSize = 2
    MaxStatements = 2
SYMMETRY SchedulerSymmetry
INVARIANTS
    PendingIsQueued
    QueuedIsPending
    ScheduledIsAttended
PROPERTIES
    ClusterSafe
CHECK_DEADLOCK FALSE
