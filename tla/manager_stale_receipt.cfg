CONSTANTS
    MaxTx = 2
    Network = {n1}
    MaxRetries = 1
    SentLimit = 1
    Confirmations = 1
    MaxReorg = 1
    MaxLag = 0
    MaxRoots = 1
    MaxFaults = 2
    FaultKinds = {"reorg", "staleReceipt"}
    LegacyChain = FALSE
SPECIFICATION Spec
CHECK_DEADLOCK FALSE
INVARIANTS
    OutcomeIsFinal
