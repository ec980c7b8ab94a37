SPECIFICATION PoolFairSpec
CONSTANTS
    None = None
    Workers = {w1, w2}
    Producers = {p1, p2}
    Sessions = {s1, s2}
    MaxEnqueues = 4
    w1 = w1
    w2 = w2
    p1 = p1
    p2 = p2
    s1 = s1
    s2 = s2
INVARIANTS
    HeldOnce
    WorkConserving
PROPERTY
    HandlersSpec
    StopReturns
CHECK_DEADLOCK FALSE
