CONSTANTS
    a = a
    b = b
    c = c
    File <- MCFile
    Place <- MCPlace
    UnitsPerPush = 2
    Percentage = {0, 994, 995, 1000}
    MaxClock = 1
SYMMETRY Symmetry
INIT Init
NEXT Next
INVARIANTS
    TypeOK
    ShownWhereStored
PROPERTIES
    ImplementsPool
    IconTellsUploads
CHECK_DEADLOCK FALSE
