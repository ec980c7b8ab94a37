SPECIFICATION Spec
CONSTANTS
    Workers = {w1, w2}
    Cap = 5
    HeaderSize = 2
    Chunk = 3
    Declared <- TwoThenBad
    Pipelined = TRUE
    MaxConns = 1
    w1 = w1
    w2 = w2
INVARIANTS
    OneWorker
    InBounds
    NoStranded
PROPERTY
    NothingAfterBadHeader
CHECK_DEADLOCK FALSE
