SPECIFICATION FairSpec
CONSTANTS
    h1 = h1
    old = old
    new = new
    typo = typo
    Hooks = {h1}
    Provider <- ProviderHeaders
    Optional <- HasValues
    Secrets = {old, new, typo}
    Malformed = {typo}
    AllowUnsigned = TRUE
    Tolerance = 2
    Timeout = 1
    MaxSkew = 1
    MaxAttempts = 2
    MaxRotations = 3
    MaxFaults = 1
INVARIANT DeliveryInv
 
PROPERTY Refines
 
CHECK_DEADLOCK FALSE
