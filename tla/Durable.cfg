SPECIFICATION DurableSpec
CONSTANTS
    p1 = p1
    p2 = p2
    Process = {p1, p2}
    totalSteps = 2
    MaxCrashes = 1
    MaxFaults = 1
    Event = {1, 2}
    batchSize = 2
    maxAttempts = 2
    MaxRetryFailed = 1
    MaxMishaps = 1
    Message = {1, 2}
    Worker = {1, 2}
    maxRetries = 2
    MaxReplays = 4
    Retrier = {1, 2}
    dlqMaxRetries = 3
    MaxSends = 4
    Caller = {1, 2, 3}
INVARIANTS
    ProgressIsDone
    CompensatedWasDone
    DurableSafe
PROPERTIES
    SagaEnds
    EventEnds
    KeepsClaim
CHECK_DEADLOCK FALSE
