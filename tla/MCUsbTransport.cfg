\* Two bricks, two adapters, two overlapping discover() calls.
CONSTANTS
    Bricks = {b1, b2}
    Adapters = {a1, a2}
    Scans = {s1, s2}
    None = None
    Counters = 2
    MaxReports = 1
    Lengths = {FALSE}
SPECIFICATION Spec
INVARIANT HandlesOwned
PROPERTY ScansSettle
CHECK_DEADLOCK FALSE
