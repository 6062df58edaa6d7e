SPECIFICATION BodySpec
CONSTANTS
    Size = 2
    Spans = {1}
    Capacities = {2}
    MaxBytes = 2
INVARIANTS
    EofMeansComplete
CHECK_DEADLOCK FALSE
