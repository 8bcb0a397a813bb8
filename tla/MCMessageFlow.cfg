SPECIFICATION Spec
CONSTANTS
    Envelopes <- Hooks
    OtherBytes <- Others
    RefBytes <- Refs
    Sinks <- Limits
    BaseBytes = 6
    DigestBytes = 1
    ClaimFloor = 3
    MaxDamage = 2
    MaxHops = 1
INVARIANT IntactDecodes
INVARIANT NeverCorrupt
INVARIANT KeyAgrees
INVARIANT MessageInv
CHECK_DEADLOCK FALSE
