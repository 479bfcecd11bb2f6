CONSTANTS
    MaxWorkers = 2
    Tasks = {t1, t2, t3}
    Returning = {t2, t3}
    NoTask = NoTask
    AcceptMayFail = TRUE
    Signals = TRUE
    MaxSpurious = 1
SPECIFICATION FairSpec
PROPERTIES
    
    ShutdownEnds
CHECK_DEADLOCK FALSE
