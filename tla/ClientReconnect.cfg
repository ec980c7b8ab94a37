SPECIFICATION FairSpec
CONSTANTS
    Connectors = {c1}
    Workers = {w1, w2}
    Sender = sender
    Main = main
    Sessions = {s1}
    None = None
    PerThread = 1
    MaxStale = 1
    c1 = c1
    w1 = w1
    w2 = w2
    sender = sender
    main = main
    s1 = s1
INVARIANTS
    AsNew
    EndsDown
PROPERTY
    Reconnected
CHECK_DEADLOCK FALSE
