CONSTANTS
    p1 = p1
    p2 = p2
    p3 = p3
    Processes = {p1, p2, p3}
    Platforms <- BothPlatforms
    TIMEOUT = 1
    STALE = 3
    MaxFaults = 2
SPECIFICATION Spec
INVARIANTS
    LockInv
PROPERTIES
    Serializes
    LockIsReleased
    CallersAreAnswered
