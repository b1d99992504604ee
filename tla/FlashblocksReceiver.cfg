SPECIFICATION Spec
CONSTANTS
    Conns = {c1, c2}
    NoConn = NoConn
    Pings = {q1}
    Unknown = Unknown
    MAXIMUM_PINGS = 1
    initial_interval = 1
    max_interval = 2
    StreamCapacity = 1
    WireCapacity = 1
    MaxFailures = 2
    MaxFlashblocks = 1
INVARIANT TypeOK
INVARIANT BackoffGrows
 
PROPERTY UnansweredIsLeft
PROPERTY OrphanEnds
