SPECIFICATION StallSpec
CONSTANTS
    None = None
    a = a
    b = b
    c = c
    Recs = {a, b, c}
    Size <- Sizes
    Wait <- Waits
    MaxBatch = 2
    MaxCommits = 1
    MaxDelay = 1
    MaxQueue = 3
    MaxQueueBytes = 3
    LastCall = 0
    MaxTime = 3
    MaxFaults = 1
INVARIANT AckHonest
INVARIANT RefusedNotStored
INVARIANT BatcherInv
PROPERTY Answered
CHECK_DEADLOCK FALSE
