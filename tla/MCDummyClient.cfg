SPECIFICATION Spec
CONSTANTS
    Connectors = {c1, c2}
    Workers = {w1, w2}
    Loops = {sender, reporter}
    Main = main
    Sessions = {s1, s2}
    None = None
    PerThread = 1
    c1 = c1
    c2 = c2
    w1 = w1
    w2 = w2
    sender = sender
    reporter = reporter
    main = main
    s1 = s1
    s2 = s2
SYMMETRY Symmetry
INVARIANTS
    NoZombie
    ConnectedCounted
PROPERTY
    PoolOutlives
CHECK_DEADLOCK FALSE
