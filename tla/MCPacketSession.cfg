SPECIFICATION FairSpec
CONSTANTS
    Workers = {w1, w2}
    Cap = 3
    HeaderSize = 2
    Chunk = 3
    Declared <- ThreePackets
    Pipelined = FALSE
    MaxConns = 2
    w1 = w1
    w2 = w2
INVARIANTS
    TypeOK
    Claimed
    InStreamOrder
PROPERTY
    Handled
CHECK_DEADLOCK FALSE
