SPECIFICATION Spec
CONSTANTS
    a = a
    b = b
    c = c
    Request <- Requests
    Traffic <- MCTraffic
    Order <- MCOrder
    Shipped = Shipped
    Empty = Empty
    Torn = Torn
    MaxRestarts = 1
INVARIANTS
    FileFollowsMemory
    IncompleteIsExplained
    
CHECK_DEADLOCK FALSE
