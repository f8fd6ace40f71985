CONSTANTS
    N = 4
    PtrMod = 4
    Addr = {0}
    Value = {0}
    Issued <- MCIssued
SPECIFICATION OrderFairSpec
PROPERTIES
    NoLanePassedTwice
    EveryAccessCompletes
