SPECIFICATION LibrariesSpec
CONSTANTS
    n1 = n1
    n2 = n2
    n3 = n3
    v1 = v1
    v2 = v2
    v3 = v3
    v4 = v4
    Nil = Nil
    Cloud = Cloud
    Nothing = Nothing
    Server = {n1, n2, n3}
    Value = {}
    MaxEntries = 1
    LateReplies = TRUE
    MaxTerm = 2
    MaxRestarts = 1
    MaxInFlight = 3
    Training = {1, 2}
    totalRounds = 3
    roundsPerEvaluation = 2
    Accuracy = {1, 2, 3}
    Region = {"a", "b", "c"}
    localRegion = "a"
    RegionTask = {1, 2}
    Nonce = {"x"}
    AgentToken = {1, 2, 3}
    maxDrift = 2
    cleanupInterval = 1
    maxRevoked = 2
    keptRevoked = 2
    AuthHorizon = 6
    MaxRevocations = 4
    Worker = {"w1", "w2"}
    concurrency = 1
    Task = {1, 2}
    Critical = {2}
    maxRetries = 1
    MaxStops = 2
    Sandbox = {1, 2}
    timeout = 2
    removal = 4
    maxTasks = 1
    Delivery = {1, 2}
    retryCount = 2
    MaxRetried = 1
    Key = {"a", "b"}
    Request = {1, 2, 3}
    ttl = 1
    requestCleanup = 2
    maxInFlight = 1
SYMMETRY NodeSymmetry
INVARIANTS
    ElectionPending
    MajorityBecomesLeader
PROPERTIES
    LibrariesSafe
CHECK_DEADLOCK FALSE
