\* Three producers on two cells, which wrap and fill with a producer asleep while
\* another barges in; the eventfd saturates at once and writing it may fail.
SPECIFICATION FairSpec
CONSTANTS
    Capacity = 2
    Producers = {p1, p2, p3}
    MaxRecords = 2
    NotifyMax = 1
    SignalMayFail = TRUE
    Expected = 2
    LoopMayFail = TRUE
INVARIANTS NothingLost NoLostWakeup NoStrandedWaiter
PROPERTIES ImplementsFifo CompletionsArrive
CHECK_DEADLOCK FALSE
