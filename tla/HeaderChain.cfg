CONSTANTS
    BlocksPerEpoch = 4
    Window = 3
    Timespan = 8
    Gap = 4
    Base = 4
    MaxTarget = 496
    WorkSpace = 4096
    Paramsets <- MCParamsets
    FetchBatch = 2
    MaxChallenges = 1
    MaxFaults = 1
SPECIFICATION FairSpec
INVARIANTS HonestHeadersAccepted ProofsAreOfTheChain InclusionProofsVerify
PROPERTIES AssertsAreProved
CHECK_DEADLOCK FALSE
