SPECIFICATION Spec
CONSTANTS
    Operators = {"op"}
    Kickoffs = {"k1", "k2", "k3"}
    OperatorOf <- MCOperatorOf
    RoundOf <- MCRoundOf
    KickoffHeight <- MCKickoffHeight
    Malicious = {"k1", "k2"}
    Resigned = {"k2"}
    Tracked = {"op"}
    Activity <- MCActivity
    LcpSyncer = TRUE
    StartHeight = 1
    MaxHeight = 3
    MaxSetOperator = 2
    MaxFaults = 1
INVARIANTS
    MachinesAreCurrent
    OneMachineUnlessOverlaid
    KickoffsTrackedUnlessOvertaken
    ChallengedOnceUnlessOverlaid
