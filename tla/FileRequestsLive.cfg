CONSTANTS
    Req = {r1, r2}
    NoReq = NoReq
    Workloads <- MCLiveWorkloads
    MaxBlocks = 2
    MaxCrashes = 1
SPECIFICATION Spec
PROPERTIES
    EveryRequestEnds
CHECK_DEADLOCK FALSE
