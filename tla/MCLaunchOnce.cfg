CONSTANTS
    NumCores = 2
    MaxBlocks = 2
SPECIFICATION LaunchSpec
INVARIANT EachBlockRunsOnce
