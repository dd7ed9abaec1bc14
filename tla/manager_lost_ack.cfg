CONSTANTS
    MaxTx = 2
    Network = {n1}
    MaxRetries = 0
    SentLimit = 2
    Confirmations = 1
    MaxReorg = 0
    MaxLag = 0
    MaxRoots = 2
    MaxFaults = 1
    FaultKinds = {"ack"}
    LegacyChain = FALSE
SPECIFICATION FairSpec
CHECK_DEADLOCK FALSE
PROPERTIES
    BroadcastIsAcknowledged
