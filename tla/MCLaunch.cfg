CONSTANTS
    NumCores = 3
    MaxBlocks = 5
SPECIFICATION LaunchFairSpec
INVARIANTS
    LaunchTypeOK
    BlocksAccounted
    DoneMeansEveryBlockRan
    DoneIsThisKernels
    CyclesAreThisKernels
PROPERTIES
    StartIsHeld
    LaunchEnds
