SPECIFICATION LiveSpec
CONSTANTS
    i1 = i1
    i2 = i2
    n1 = n1
    n2 = n2
    t1 = t1
    t2 = t2
    c1 = c1
    c2 = c2
    Instance = {i1}
    Node = {n1}
    Submitted = {t1, t2}
    Clones = {}
    Rank <- EqualRank
    MaxRetries = 1
    MaxPerNode = 2
    Nil = Nil
    Gone = Gone
    PriorityQueueWired = FALSE
    RedisMocked = FALSE
    Faulty = TRUE
    Prompt = TRUE
    MaxRuns = 1
    MaxCrashes = 1
    Maintained = {}
CHECK_DEADLOCK FALSE
PROPERTIES
    QueuedIsTaken
