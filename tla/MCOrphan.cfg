SPECIFICATION Spec
CONSTANTS
    Bricks = {k1}
    Sessions = {s1}
    Calls = {c1, c2}
    None = None
    Recovers = {k1}
    MayQueue = {}
    MissThreshold = 2
    MaxAttempts = 1
    MaxQueue = 0
    MaxFaults = 0
CHECK_DEADLOCK FALSE
INVARIANT NoOrphanAdapter
