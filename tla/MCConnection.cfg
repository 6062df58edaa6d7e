\* Two racing threads that keep calling, all five terminal events.
SPECIFICATION FairSpec
CONSTANTS
    Threads = {t1, t2}
    Cycles = {0, 1, 4}
    CycleModulus = 4
    Reported = {0, 1}
    Fds = {7}
INVARIANTS OneTerminalOwner CleanupOnce TruthfulReply
PROPERTIES ImplementsOutcome CleanupHappens
