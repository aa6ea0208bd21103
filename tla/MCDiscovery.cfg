SPECIFICATION FairSpec
CONSTANTS
    b1 = b1
    t1 = t1
    t2 = t2
    p1 = p1
    p2 = p2
    q = q
    Bricks = {b1}
    Transports = {t1, t2}
    Providers = {p1, p2, q}
    Scans = {n1, n2}
    TransportOf <- MCTransportOf
    Serves <- MCServes
    Paired = {}
    None = None
    UnavailableAfter = 2
    RemovedAfter = 1
    MaxFaults = 1
CHECK_DEADLOCK FALSE
INVARIANT ListMatchesTracked
INVARIANT EventsComplete
INVARIANT TimersFollow
PROPERTY PresenceSteps
PROPERTY GoneIsRemoved
PROPERTY InReachIsAvailable
