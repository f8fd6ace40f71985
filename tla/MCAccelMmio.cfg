CONSTANTS
    NumCores = 2
    Threads = 1
    ExtraBlocks = 0
    Configs <- MCConfigs
    InitialMem <- MCInitialMem
SPECIFICATION MmioFairSpec
INVARIANTS
    DoneMeansProduct
    KernelDoneMeansWritten
PROPERTIES
    PollEnds
