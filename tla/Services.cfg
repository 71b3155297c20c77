SPECIFICATION ServicesSpec
CONSTANTS
    n1 = n1
    n2 = n2
    n3 = n3
    v1 = v1
    v2 = v2
    v3 = v3
    v4 = v4
    Nil = Nil
    Nothing = Nothing
    Server = {n1, n2, n3}
    Value = {v1, v2, v3, v4}
    MaxEntries = 3
    LateReplies = FALSE
    MaxTerm = 4
    MaxRestarts = 0
    MaxInFlight = 4
    Task = {1}
    Node = {"n1"}
    Scheduler = {"s1", "s2"}
    Request = {1, 2}
    Authorised = TRUE
    MaxChanges = 4
    Email = {"a@x"}
    Register = {1, 2}
    Refresh = {1, 2}
    KeyUse = {1}
    MaxTokens = 5
    Create = {1}
    Retry = {2, 3}
    Cancel = {1, 2}
    maxRetries = 3
    Call = {1, 2, 3}
    AgentRetries = 1
    maxFailures = 2
    Caller = {1, 2}
    maxAttempts = 3
    maxRetriesPerWindow = 2
    initialDelay = 2
    maxDelay = 5
    Steps = 1
    Reservation = {"r1", "r2"}
    ReservedNode = {"n1", "n2"}
    Running = {"t1", "t2", "t3"}
    Priority = {1, 2, 3}
    Amount = {1, 2}
    MaxStarts = 3
INVARIANTS
    LogMatching
    StateMachineSafety
    AppliedIsLogPrefix
PROPERTIES
    CommitMonotonic
    ServicesSafe
CHECK_DEADLOCK FALSE
