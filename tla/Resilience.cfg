SPECIFICATION ResilienceSpec
CONSTANTS
    c1 = c1
    c2 = c2
    c3 = c3
    c4 = c4
    Calls = {c1, c2, c3, c4}
    failureThreshold = 3
    halfOpenMaxCalls = 3
    successThreshold = 2
    Task = {1, 2}
    Taker = {1}
    Batch = {2}
    Given = {"HIGH"}
    MaxBoost = 1
    Scheduler = {1, 2}
    perMinuteLimit = 2
    maxPendingTasks = 3
    Minutes = 2
    MaxScheduled = 7
    Request = {1, 2}
    Load = {40, 75, 90, 95}
    throttleThreshold = 70
    loadShedThreshold = 90
    mlThreshold = 80
    cacheThreshold = 90
    featureThreshold = 95
    historyLimit = 1
    Recovery = {1, 2, 3}
    Type = {"node-failure", "service-failure"}
    Entities = {"n1", "n2"}
    maxConcurrentRecoveries = 2
    RecoveredTask = {1}
    ActionType = {"restart-service", "reschedule-tasks"}
    Target = {1}
    healerCooldown = 2
    hour = 4
    minute = 2
    maxConcurrentActions = 5
    bulkhead = 3
    perMinute = 10
    perHour = 3
    Horizon = 6
    Round = {1, 2}
    Varying = {"database", "nodes"}
    ColdNode = {1, 2}
    Recorder = {1, 2}
    coldPhaseThreshold = 1
    warmPhaseThreshold = 2
    MaxResults = 3
    Channel = {"a"}
    Socket = {1, 2, 3}
    Timer = {1, 2, 3}
    maxReconnectAttempts = 2
    MaxOutages = 3
    MaxChanges = 3
    MaxRequests = 2
    Step = {1, 2, 3, 4}
    stepRetries = 1
    Traversal = {1, 2}
    MaxFailures = 1
INVARIANTS
    OneTimerWhileOpen
    ClosedBelowThreshold
    TrialsAccounted
    HalfOpenNeverWedged
PROPERTIES
    OpenEnds
    ExhaustedTrialsDecide
    
    ResilienceProgress
CHECK_DEADLOCK FALSE
