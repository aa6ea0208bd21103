SPECIFICATION LiveSpec
CONSTANTS
    Bricks = {k1}
    Sessions = {s1}
    Calls = {c1, c2}
    None = None
    Recovers = {}
    MayQueue = {}
    MissThreshold = 1
    MaxAttempts = 2
    MaxQueue = 0
    MaxFaults = 1
CHECK_DEADLOCK FALSE
PROPERTY ReconnectSucceeds
