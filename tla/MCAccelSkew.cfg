CONSTANTS
    NumCores = 2
    Threads = 4
    ExtraBlocks = 0
    Configs <- MCConfigs
    InitialMem <- MCInitialMem
SPECIFICATION MmioSpec
INVARIANT RunsAsConfigured
