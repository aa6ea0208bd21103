SPECIFICATION FairSpec
CONSTANTS
    Attempts = {a1, a2, a3}
    Providers = {p1, p2}
    Bricks = {b1}
    Backends <- MCBackends
    None = None
    MaxConcurrent = 1
    InterConnectionCooldown = 2
    ErrorRecoveryCooldown = 2
    BackoffMax = 3
    MaxErrors = 2
    CloseGrace = 1
CHECK_DEADLOCK FALSE
PROPERTY ImplementsPool
INVARIANT NobodyStranded
INVARIANT OneLink
INVARIANT NoSessionOverwritten
PROPERTY RestsHonoured
PROPERTY WaitersServed
