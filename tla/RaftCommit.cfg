SPECIFICATION DivergedSpec
CONSTANTS
    n1 = n1
    n2 = n2
    n3 = n3
    v1 = v1
    v2 = v2
    v3 = v3
    v4 = v4
    Server = {n1, n2, n3}
    Value = {v1, v2, v3, v4}
    Nil = Nil
    MaxEntries = 1
    LateReplies = FALSE
    MaxTerm = 4
    MaxRestarts = 0
    MaxInFlight = 2
CHECK_DEADLOCK FALSE
INVARIANTS
    StateMachineSafety
