SPECIFICATION Spec
CONSTANTS
    RequestLine <- MCRequestLine
    Field <- MCField
    Number <- MCNumber
    Hex <- MCHex
    Token <- MCToken
    Control = {"BEL", "CR", "LF"}
    Wires <- MCWires
    MaxUint = 255
    UintMax = 255
    MaxMethodBytes = 2
    MaxTargetBytes = 2
    MaxHeaders = 2
    MaxHeaderBytes = 14
    MaxLine = 3
    MaxBody = 5
    MaxTrailers = 1
    MaxTrailerBytes = 8
    BufferBytes = 4
    ReadBudget = 4
    ProcessBudget = 4
    QueueBytes = 4
    StagingBytes = 2
    WriterBytes = 2
    WriteBudget = 2
    Statuses = {100, 200}
    Lengths = {2}
INVARIANTS VerdictAsPolicy BodyAsFramed BoundaryKept EndIsTrue OutputInOrder
PROPERTIES ExchangesEnd
CHECK_DEADLOCK FALSE
