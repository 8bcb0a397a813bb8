SPECIFICATION Spec
CONSTANTS
    Callers = {c1, c2}
    Calls <- AllCalls
    MaxRoutes = 2
    MaxAttempts = 2
    MaxActive = 1
    Served = {"dlq", "lifecycle"}
    MaxFaults = 1
INVARIANT CreatesOnce
CHECK_DEADLOCK FALSE
