SPECIFICATION FairSpec
CONSTANTS
    None = None
    fat = fat
    again = again
    swapped = swapped
    torn = torn
    r1 = r1
    Hooks = {fat, again, swapped, torn}
    Replicas = {r1}
    Wire <- Messages
    Object <- Stored
    DedupeCap = 1
    MaxAckPending = 2
    MaxMessages = 1
    StreamMax = 2
    MaxHooks = 2
    MaxFaults = 1
INVARIANT WorkerInv
PROPERTY Refines
PROPERTY EveryHookLeaves
CHECK_DEADLOCK FALSE
