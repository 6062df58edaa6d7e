SPECIFICATION Spec
CONSTANTS
    p1 = p1
    p2 = p2
    Pool <- MCPool
    Body = 2
    Styles = {"callback", "worker"}
INVARIANTS CallbackSequence ReadyMeansReadable
PROPERTIES ListenerIsTold
CHECK_DEADLOCK FALSE
