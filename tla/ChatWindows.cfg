SPECIFICATION FairSpec
CONSTANTS
    Windows = {w1}
    Consoles = {k1}
    Rooms = {1, 2}
    None = None
    WindowBudget = 4
    ConsoleBudget = 2
    MaxQueued = 1
    MaxLosses = 1
    w1 = w1
    k1 = k1
INVARIANTS
    RoomAgrees
    OwnLines
    SenderOrder
PROPERTY LoginReturns
CHECK_DEADLOCK FALSE
