CONSTANTS
    NumCores = 2
    MaxBlocks = 2
SPECIFICATION RelaunchSpec
INVARIANT DoneMeansEveryBlockRan
