CONSTANTS
    WordBits = 16
    ImmBits = 11
    ByteBits = 4
    Exp8 <- MCExp8
    CTRL_BASE = 496
    PARAM_BASE = 256
    AXELCC_MAX_INSTRUCTIONS = 64
    WarpDepth = 4
    CallDepth = 2
    Leftover = 77
    BlockIdx = 1
    Foreign = {"#"}
    Sources <- MCAcrossCall
    InitData <- MCInitData
SPECIFICATION AxelccSpec
INVARIANT CompiledMeansSource
CHECK_DEADLOCK FALSE
