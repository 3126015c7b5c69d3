CONSTANTS
    Kickoffs = {k1}
    Watchtowers = {w1, w2}
    Asserts = {a1}
    Sides = {"operator", "verifiers"}
    NoKickoff = NoKickoff
    FinalityDepth = 1
    ChallengeTimeoutLock = 2
    WatchtowerTimeoutLock = 3
    BlockhashTimeoutLock = 5
    NackLock = 5
    AssertTimeoutLock = 6
    DisproveTimeoutLock = 8
    ReimburseLock = 2
SPECIFICATION Spec
INVARIANTS HonestCollateralIsSafe
PROPERTIES HonestIsReimbursed MaliciousIsRemoved NextRoundOutrunsNoChallenge
CHECK_DEADLOCK FALSE
