SPECIFICATION Spec
CONSTANTS
    Capacity = 2
    GenMax = 2
    Identities = {i1, i2}
    Cycles = {1}
    Events = {e1, e2}
    ReaderPins = {r1}
    OutputPins = {o1}
    Fds = {5}
    MaxReuse = 3
SYMMETRY IdentitySymmetry
INVARIANTS StaleHandleMisses PinProtects DescriptorOwner
CHECK_DEADLOCK FALSE
