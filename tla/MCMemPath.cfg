CONSTANTS
    N = 2
    PtrMod = 2
    Addr = {0, 1}
    Value = {0, 1}
    Issued <- MCIssued
SPECIFICATION Spec
INVARIANTS
    TypeOK
    OnePlacePerAccess
    ReadsReturnMemory
PROPERTY ImplementsLaneMemory
