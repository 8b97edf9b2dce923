CONSTANTS
    a = a
    b = b
    c = c
    r1 = r1
    r2 = r2
    r3 = r3
    u1 = u1
    Nothing = Nothing
    Name <- MCName
    Rename <- MCRename
    Upload <- MCUpload
SYMMETRY Symmetry
INIT Init
NEXT Next
INVARIANTS
    TypeOK
    SuccessMeansMoved
PROPERTIES
    ImplementsStore
CHECK_DEADLOCK FALSE
