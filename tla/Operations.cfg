SPECIFICATION OperationsSpec
CONSTANTS
    n1 = n1
    n2 = n2
    n3 = n3
    v1 = v1
    v2 = v2
    v3 = v3
    v4 = v4
    Nil = Nil
    Server = {n1, n2, n3}
    Value = {}
    MaxEntries = 1
    LateReplies = FALSE
    MaxTerm = 2
    MaxRestarts = 0
    MaxInFlight = 4
    Instance = {"i1", "i2"}
    Client = {1, 2}
    Broadcast = {1}
    Latency = {10, 14, 20}
    target = 10
    percentile = 60
    window = 1
    retention = 3
    Horizon = 3
    MaxCertificates = 2
    Token = {"t1"}
    Agent = {"a1", "a2"}
    MaxIssued = 3
    Backup = {"b1", "b2"}
    Restore = {1, 2}
    Compressed = {"b2"}
    Deleter = {1, 2}
    Rows = {1}
SYMMETRY NodeSymmetry
INVARIANTS
    ElectionSafety
    VoteInv
PROPERTIES
    OperationsSafe
CHECK_DEADLOCK FALSE
