SPECIFICATION Spec
CONSTANTS
    Sessions = {s1, s2}
    Rooms <- TwoRooms
    Nicknames = {amy}
    None = None
    MaxRequests = 3
    s1 = s1
    s2 = s2
    amy = amy
SYMMETRY Symmetry
INVARIANTS
    NamesReserved
    OneRoom
    StateAgrees
    
CHECK_DEADLOCK FALSE
