SPECIFICATION Spec
CONSTANTS
    Workers = {w1, w2}
    Handlers = {h1}
    Main = main
    Sessions = {s1, s2}
    None = None
    MaxClients = 1
    w1 = w1
    w2 = w2
    h1 = h1
    main = main
    s1 = s1
    s2 = s2
INVARIANT
    QuietWorkers
CHECK_DEADLOCK FALSE
