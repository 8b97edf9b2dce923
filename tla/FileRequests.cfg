CONSTANTS
    Req = {r1, r2, r3}
    NoReq = NoReq
    Workloads <- MCWorkloads
    MaxBlocks = 2
    MaxCrashes = 1
INIT Init
NEXT Next
SYMMETRY Symmetry
INVARIANTS
    TypeOK
    OnePendingRecord
    OkUploadIsStored
    RecordTellsOutcome
    PendingHasCause
CHECK_DEADLOCK FALSE
