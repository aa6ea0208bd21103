SPECIFICATION FairSpec
CONSTANTS
    Sockets = {s1, s2}
    None = None
    Accept = Accept
    Deny = Deny
    TextEnd = TextEnd
    Unlock = Unlock
    Counters = 3
    MaxBuffer = 3
    MaxWire = 3
CHECK_DEADLOCK FALSE
INVARIANT OpenIsUnlocked
INVARIANT NoSendStranded
INVARIANT OneSocket
PROPERTY OpenSettles
