SPECIFICATION FairSpec
CONSTANTS
    Blocks <- MCBlocks
    Parent <- MCParent
    Height <- MCHeight
    NoBlock = "none"
    StartHeight = 1
    FinalityDepth = 3
    MaxFaults = 1
    Consumers = {"lcp"}
INVARIANTS
    OneCanonicalChain
    EventLogReplays
    HandedFinalizedChain
    ResumesWhereItStopped
    NeverMissing
PROPERTIES
    FinalizedNeverReorged
    ImplementsFinalizedChain
    SyncerCatchesUp
    EverythingHanded
