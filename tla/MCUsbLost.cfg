\* One brick and its session: two requests are enough.
CONSTANTS
    Bricks = {b1}
    Adapters = {a1}
    Scans = {s1}
    None = None
    Counters = 4
    MaxReports = 1
    Lengths = {TRUE, FALSE}
SPECIFICATION Spec
PROPERTY RepliesSettle
CHECK_DEADLOCK FALSE
