SPECIFICATION Spec
CONSTANTS
    None = None
    r1 = r1
    r2 = r2
    p1 = p1
    x1 = x1
    k1 = k1
    Keys = {k1}
    Reqs = {r1, r2}
    Pens = {p1}
    Redrives = {}
    KeyOf <- OneKey
    TTL = 2
    DedupeMax = 2
    GroupMax = 2
    RecentMs = 1
    MaxTime = 4
    Roles = {}
    Faults = {"write", "crash", "gate"}
    MaxFaults = 2
 
INVARIANT DuplicateDurable
INVARIANT PenSafe
 
ACTION_CONSTRAINT NoTie
CHECK_DEADLOCK FALSE
