CONSTANTS
    Withdrawals = {1, 2}
    NumRounds = 2
    Connectors = {1, 2}
    Signed <- MCSigned
    Modes = {"manual"}
    OneByOne = FALSE
    MaxReorgs = 1
SPECIFICATION Spec
INVARIANT BurnsOnlyUnused
CHECK_DEADLOCK FALSE
