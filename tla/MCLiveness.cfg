SPECIFICATION LiveSpec
CONSTANTS
    Bricks = {k1}
    Sessions = {s1, s2}
    Calls = {c1, c2}
    None = None
    Recovers = {k1}
    MayQueue = {k1}
    MissThreshold = 2
    MaxAttempts = 2
    MaxQueue = 0
    MaxFaults = 1
CHECK_DEADLOCK FALSE
PROPERTY EveryCallReturns
PROPERTY ExplicitDisconnectEnds
PROPERTY ReconnectingEnds
PROPERTY ReconnectSucceeds
