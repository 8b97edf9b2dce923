CONSTANTS
    Requests <- TruncatedRequests
    BufSize = 30
    AtoiMax = 100
SPECIFICATION Spec
INVARIANTS
    OkMeansAllReceived
CHECK_DEADLOCK FALSE
