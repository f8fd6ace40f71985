CONSTANTS
    WordBits = 16
    ImmBits = 11
    ByteBits = 4
    Exp8 <- MCExp8
    CTRL_BASE = 496
    PARAM_BASE = 256
    AXELCC_MAX_INSTRUCTIONS = 64
    WarpDepth = 1
    CallDepth = 1
    Leftover = 77
    BlockIdx = 1
    Foreign = {"#"}
    Sources <- MCSources
    InitData <- MCInitData
SPECIFICATION AxelccSpec
INVARIANTS
    AxelccTypeOK
    ReadsBackWhatWasWritten
    NothingLostInReading
    AcceptsTheWellFormed
    CompiledMeansSource
    StacksSuffice
PROPERTIES
    EveryKernelEnds
CHECK_DEADLOCK FALSE
