SPECIFICATION FairSpec
CONSTANTS
    None = None
    r1 = r1
    r2 = r2
    p1 = p1
    x1 = x1
    k1 = k1
    Keys = {k1}
    Reqs = {r1, r2}
    Pens = {}
    Redrives = {x1}
    KeyOf <- OneFree
    TTL = 1
    DedupeMax = 2
    GroupMax = 2
    RecentMs = 2
    MaxTime = 1
    Roles = {}
    Faults = {"write", "landed", "sync", "crash"}
    MaxFaults = 2
INVARIANT WatermarkSound
INVARIANT VisibleDurable
PROPERTY Answered
PROPERTY Resumes
CHECK_DEADLOCK FALSE
