\* runtime: every call may fail, and two of the four requests may be cancelled.
\* request: three threads that begin, finish, fail, cancel and inspect a request.
\* body: spans up to the whole ring, which wraps more than twice.
SPECIFICATION ProcessSpec
CONSTANTS
    N = 4
    ExecutorCapacity = 1
    CompletionCapacity = 2
    Cancellable = {1, 3}
    MethodFound = TRUE
    MayFail = TRUE
    Threads = {t1, t2, t3}
    Size = 3
    Spans = {1, 2, 3}
    Capacities = {0, 1, 2, 4}
    MaxBytes = 8
INVARIANTS
    Custody SuccessMeansCompleted QueueOutlivesPublishers
    OneWinner ErrorWhole
    InOrder CopiesDisjoint SettledEndIsWhole
PROPERTIES
    ShutdownEnds
    FailurePublished
    BytesArrive EndIsSeen
CHECK_DEADLOCK FALSE
