SPECIFICATION Spec
CONSTANTS
    None = None
    c1 = c1
    c2 = c2
    c3 = c3
    c4 = c4
    c5 = c5
    k1 = k1
    k2 = k2
    Keys = {k1, k2}
    Calls = {c1, c2, c3, c4, c5}
    KeyOf <- MCKeyOf
    TTL = 1
    DedupeMax = 2
    MaxLen = 4
    Stored <- MCStored
    Used = {0, 1, 2}
INVARIANT FoldAgrees
CHECK_DEADLOCK FALSE
