\* Three Java threads, a listener, and the native owner.
SPECIFICATION FairSpec
CONSTANTS
    Threads = {t1, t2, t3}
    Listeners = {l1}
INVARIANTS OneOutcome NativeFirst ModeEnds
PROPERTIES ImplementsOutcome PublicationEnds
CHECK_DEADLOCK FALSE
