SPECIFICATION Spec
CONSTANTS
    NumRounds = 2
    NumKickoffs = 2
    MaxBlockLen = 3
    MaxBlocks = 3
    MaxFaults = 1
INVARIANTS
    EventsAreHandled
    FollowsCollateral
    UsedKickoffsAreReported
    QueuedExactlyWhenFinished
