SPECIFICATION CachesSpec
CONSTANTS
    c1 = c1
    c2 = c2
    Callers <- MCCallers
    MaxCached = 2
    MaxChanges = 2
INVARIANT
    ServesItsOwn
CHECK_DEADLOCK FALSE
