SPECIFICATION FairSpec
CONSTANTS
    Senders = {s1, s2}
    Workers = {w1, w2}
    MaxMsgs = 3
    MaxConns = 2
    s1 = s1
    s2 = s2
    w1 = w1
    w2 = w2
INVARIANTS
    OneInFlight
    WireOrdered
    NoStranded
    PooledEmpty
PROPERTIES
    PipeSpec
    Delivered
CHECK_DEADLOCK FALSE
