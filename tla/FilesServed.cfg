SPECIFICATION FairSpec
CONSTANTS
    Workers = {w1, w2}
    Paths <- AllPaths
    ParentOf <- Parents
    IndexOf <- Indexes
    NoPath = "none"
    InitialTree <- Tree
    Kinds <- AllKinds
    MaxRequests = 3
    FullLength = 2
    JunkSizes <- Junk
INVARIANTS
    AnsweredTrue
PROPERTIES
    RequestsEnd
CHECK_DEADLOCK FALSE
