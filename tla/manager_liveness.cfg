CONSTANTS
    MaxTx = 2
    Network = {n1}
    MaxRetries = 0
    SentLimit = 2
    Confirmations = 1
    MaxReorg = 1
    MaxLag = 0
    MaxRoots = 2
    MaxFaults = 1
    FaultKinds = {"crash", "rpc", "reorg"}
    LegacyChain = FALSE
SPECIFICATION FairSpec
CHECK_DEADLOCK FALSE
INVARIANTS
    NoncesDiffer
    OneBroadcastAtATime
PROPERTIES
    CancellationHolds
    CancellationSettles
    BroadcastReachesOutcome
