CONSTANTS
    Configs <- Networks
    Word = 1024
    MinBaseFee = 8
    Tips = {1, 3}
    Estimates = {5, 8, 16}
    Value = 10
    Fundings = {0, 110}
    MaxDeposits = 1
    MaxBlocks = 5
    MaxAttempts = 1
    MaxFaults = 1
SPECIFICATION FairSpec
CHECK_DEADLOCK FALSE
INVARIANTS
    FeesInv
    GasCoversEstimate
    CapSurvivesFiveBlocks
    SignedIsAffordable
    ShortageIsAlerted
PROPERTIES
    PayoutIsSigned
