CONSTANTS
    x = x
    Other = {x}
    MaxStream = 6
    Streams <- NoDoubleCR
    InitBuffer = 2
    MaxBuffer = 4
    BodyLengths = {1, 3}
SPECIFICATION FairSpec
INVARIANTS
    BufferFaithful
    LineIsRight
    BodyIsRight
PROPERTIES
    CallEnds
