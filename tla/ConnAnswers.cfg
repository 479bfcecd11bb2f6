SPECIFICATION FairSpec
CONSTANTS
    Requests <- SomeKinds
    MaxRequests = 3
    Pipelining = {TRUE, FALSE}
INVARIANTS
    
    OrderKept
PROPERTIES
    EventuallyAnswered
