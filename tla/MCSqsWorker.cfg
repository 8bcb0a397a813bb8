SPECIFICATION FairSpec
CONSTANTS
    fat = fat
    nil = nil
    torn = torn
    stripe = stripe
    w1 = w1
    w2 = w2
    Hooks = {torn, nil, fat}
    Groups = {stripe}
    Workers = {w1, w2}
    Order <- Sequence
    Wire <- Messages
    Object <- Stored
    BatchMax = 2
    MaxReceive = 2
    MaxFaults = 1
INVARIANT WorkerInv
INVARIANT GroupOrder
PROPERTY Refines
 
PROPERTY Stops
CHECK_DEADLOCK FALSE
