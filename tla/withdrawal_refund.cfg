CONSTANTS
    MaxTx = 2
    Network = {n1}
    MaxRetries = 1
    Nonces = {0}
    MaxRoots = 1
    LegacyChain = FALSE
    Authorizations = {TRUE, FALSE}
    Histories = {"new", "attached", "legacy", "legacySent"}
    MaxBalance = 2
    MaxFaults = 4
    FaultKinds = {"crash", "db", "ack", "relay", "slow", "payment"}
SPECIFICATION FairSpec
CHECK_DEADLOCK FALSE
INVARIANTS
    ProcessorInv
    RefundIsSafe
    FulfilmentIsPaid
    DebitedOnce
    OnePayout
PROPERTIES
    PayoutSpec
    WithdrawalSettles
