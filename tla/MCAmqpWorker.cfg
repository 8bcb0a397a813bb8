SPECIFICATION FairSpec
CONSTANTS
    None = None
    torn = torn
    fat = fat
    plain = plain
    c1 = c1
    Hooks = {torn, fat, plain}
    Consumers = {c1}
    Place <- Places
    Wire <- Messages
    Object <- Stored
    Prefetch = 2
    MaxAttempts = 2
    MaxFaults = 3
INVARIANT WorkerInv
INVARIANT AckedRecorded
 
CHECK_DEADLOCK FALSE
