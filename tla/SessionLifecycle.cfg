SPECIFICATION FairSpec
CONSTANTS
    Iocp = {r1, r2}
    Callers = {d1, d2}
    MaxConns = 2
    MaxCalls = 2
    r1 = r1
    r2 = r2
    d1 = d1
    d2 = d2
INVARIANTS
    NoRecvInPool
    CountsRecvs
    

    
CHECK_DEADLOCK FALSE
