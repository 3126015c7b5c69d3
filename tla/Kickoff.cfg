SPECIFICATION Spec
CONSTANTS
    Watchtowers = {w1, w2}
    Asserts = {a1}
    FinalityDepth = 3
    TimeToSend = 3
    MaxBlockLen = 2
    MaxHeight = 4
    MaxFaults = 1
SYMMETRY Symmetry
INVARIANTS
    EventsAreHandled
    RecordsTheChain
    DutiesAreComplete
    DutiesAreRequested
    BlockhashAfterChallenges
