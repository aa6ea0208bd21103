SPECIFICATION Spec
CONSTANTS
    Bricks = {k1, k2}
    Sessions = {s1, s2}
    Calls = {c1, c2}
    None = None
    Recovers = {k1, k2}
    MayQueue = {}
    MissThreshold = 1
    MaxAttempts = 1
    MaxQueue = 1
    MaxFaults = 2
CHECK_DEADLOCK FALSE
SYMMETRY Symmetry
INVARIANT MapExact
INVARIANT ForegroundIsActive
INVARIANT ObserverAgrees
INVARIANT SuppressionFollowsExplicit
INVARIANT NoStuckReconnecting
INVARIANT RetiredAnswered
INVARIANT ConnectedHasAdapter
PROPERTY NoResurrection
PROPERTY ImplementsLife
