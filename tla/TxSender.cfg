CONSTANTS
    Queued <- MCQueued
    FinalityDepth = 2
    MaxRetries = 3
    FeeBumpAfter = 1
    MinBump = 2
    HardCap = 2
    IntWidth = 8
    MaxTimelock = 1
    MaxFaults = 1
    MaxVersions = 3
    MaxPayers = 3
    MaxBlocks = 1
SPECIFICATION FairSpec
INVARIANTS FinalizedIsFinal GivenUpOnlyIfSpent

PROPERTIES KeepsTrying
CHECK_DEADLOCK FALSE
