CONSTANTS
    Withdrawals = {1, 2}
    NumRounds = 2
    Connectors = {1, 2}
    Signed <- MCSigned
    Modes = {"automation", "manual"}
    OneByOne = TRUE
    MaxReorgs = 1
SPECIFICATION FairSpec
INVARIANTS HonestKickoffAccepted NeverPunishable
PROPERTIES EveryPayoutReimbursed
CHECK_DEADLOCK FALSE
