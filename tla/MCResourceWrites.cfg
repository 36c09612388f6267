SPECIFICATION Spec
CONSTANTS
    c1 = c1
    Calls <- OneCall
    Transports <- BothTransports
    MaxRequests = 1
    RequestTimeout = 4
    MaxIngress = 1
    Tools <- AllTools
    Reserve = 2
    Budget = 2
    BatchSize = 2
    MaxEdits = 1
    Sizes = {1, 4}
    Target = 4
    Base = 1
    Marker = 1
    Nothing = Nothing
INVARIANTS
    TypeOK
    AcknowledgedIsReported
    WritesAsReported
    VerdictIsGrounded
    AnswerIsWhole
CHECK_DEADLOCK FALSE
