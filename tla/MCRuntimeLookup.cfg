\* The method descriptors as they are written: the lookup fails.
SPECIFICATION FairSpec
CONSTANTS
    N = 2
    ExecutorCapacity = 1
    CompletionCapacity = 1
    Cancellable = {}
    MethodFound = FALSE
    MayFail = FALSE
PROPERTIES MainExits
CHECK_DEADLOCK FALSE
