CONSTANTS
    N = 3
    PtrMod = 4
    Addr = {0}
    Value = {0}
    Issued <- MCIssued
    ProgLatencies = {0}
    WarpDepth = 4
    CallDepth = 2
    Programs <- MCNested
SPECIFICATION SimtSpec
INVARIANTS
    ActiveLanesShareThePC
