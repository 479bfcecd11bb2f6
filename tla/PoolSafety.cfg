CONSTANTS
    MaxWorkers = 3
    Tasks = {t1, t2, t3}
    Returning = {t1, t2, t3}
    NoTask = NoTask
    AcceptMayFail = TRUE
    Signals = TRUE
    MaxSpurious = 1
SPECIFICATION Spec
SYMMETRY Symmetry
INVARIANTS
    IInv
    QueueExclusive
    TaskConserved
    NoLostWakeup
    JoinedBeforeFree
PROPERTIES
    NoStartAfterStop
    ImplementsDispatch
CHECK_DEADLOCK FALSE
