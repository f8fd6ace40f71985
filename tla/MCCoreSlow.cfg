CONSTANTS
    N = 2
    PtrMod = 2
    Addr = {0}
    Value = {0}
    Issued <- MCIssued
    ProgLatencies = {2}
    WarpDepth = 4
    CallDepth = 2
    Programs <- MCStraight
SPECIFICATION SimtSpec
INVARIANTS
    DecodesInstructionAtPc
