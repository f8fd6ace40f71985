CONSTANTS
    N = 3
    PtrMod = 4
    Addr = {0}
    Value = {0}
    Issued <- MCIssued
    ProgLatencies = {0, 1}
    WarpDepth = 4
    CallDepth = 2
    Programs <- MCPrograms
SPECIFICATION SimtFairSpec
INVARIANTS
    CoreTypeOK
    DecodesInstructionAtPc
    NoAccessOutlivesInstruction
    ActiveLanesShareThePC
    LanesRunTheirOwnPath
    NoLaneCutShort
    StacksBalanced
PROPERTIES
    BlocksEnd
    ImplementsHandshake
