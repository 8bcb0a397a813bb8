SPECIFICATION Spec
CONSTANTS
    None = None
    r1 = r1
    r2 = r2
    p1 = p1
    x1 = x1
    k1 = k1
    Keys = {k1}
    Reqs = {r1, r2}
    Pens = {}
    Redrives = {x1}
    KeyOf <- OneFree
    TTL = 1
    DedupeMax = 1
    GroupMax = 2
    RecentMs = 1
    MaxTime = 1
    Roles = {"dispatch"}
    Faults = {"read", "deadline", "write", "landed", "sync", "crash", "restart", "skew", "gate"}
    MaxFaults = 2
INVARIANT IInv
INVARIANT CommittedDurable
 
INVARIANT SeqsDistinct
CHECK_DEADLOCK FALSE
