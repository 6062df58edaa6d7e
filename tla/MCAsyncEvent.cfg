\* One Java thread and the native owner: which event each side ends with.
SPECIFICATION Spec
CONSTANTS
    Threads = {t1}
    Listeners = {}
INVARIANTS OneEventBothSides
CHECK_DEADLOCK FALSE
