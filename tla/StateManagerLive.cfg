SPECIFICATION FairSpec
CONSTANTS
    Operators = {"op", "op2"}
    Kickoffs = {"k1", "k2", "k3"}
    OperatorOf <- MCOperatorOf
    RoundOf <- MCRoundOf
    KickoffHeight <- MCKickoffHeight
    Malicious = {"k1", "k2"}
    Resigned = {"k2"}
    Tracked = {"op"}
    Activity <- MCActivity
    LcpSyncer = FALSE
    StartHeight = 1
    MaxHeight = 2
    MaxSetOperator = 2
    MaxFaults = 1
PROPERTIES
    QueueDrains
