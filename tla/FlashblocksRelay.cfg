CONSTANTS
    Conns = {c1, c2}
    NoConn = NoConn
    Capacity = 1
    WireCapacity = 1
    MaxPublished = 2
SPECIFICATION Spec
INVARIANT TypeOK
INVARIANT RelayInOrder
INVARIANT GapNeedsLag
 
 
PROPERTY Delivered
CHECK_DEADLOCK FALSE
