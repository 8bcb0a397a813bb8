SPECIFICATION FairSpec
CONSTANTS
    Callers = {c1, c2}
    Calls <- AllCalls
    MaxRoutes = 2
    MaxAttempts = 2
    MaxActive = 1
    Served = {"dlq", "lifecycle"}
    MaxFaults = 1
INVARIANT NodeInv
INVARIANT OutcomeTrue
PROPERTY RevisionStep
PROPERTY CallsEnd
CHECK_DEADLOCK FALSE
