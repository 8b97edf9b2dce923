CONSTANTS
    Requests <- MCRequests
    BufSize = 16
    AtoiMax = 25
SPECIFICATION Spec
INVARIANTS
    TypeOK
    CountsEveryByte
    BytesAccounted
    ForeignOnlyFromFirstBuffer
    DroppedOnlyForCause
    WritesOnlyForValidRequest
    WholeRequestIsAnswered
    OkMeansStored
    SuccessOnlyIfComplete
PROPERTIES
    ImplementsService
CHECK_DEADLOCK FALSE
