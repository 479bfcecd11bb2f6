SPECIFICATION Spec
CONSTANTS
    Requests <- MCRequests
    Actual <- MCActual
    LinesCap = 2
    QueueCap = 2
    MaxElements = 100
    ChunkSize = 2
    InflateChunk = 2
INVARIANTS
    HeapKept
    Framed
    
PROPERTIES
    CodingsHonoured
    TypeHonoured
CHECK_DEADLOCK FALSE
