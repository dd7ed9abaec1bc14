CONSTANTS
    MaxTx = 2
    Network = {n1}
    MaxRetries = 1
    Nonces = {0}
    MaxRoots = 1
    LegacyChain = FALSE
    Authorizations = {FALSE}
    Histories = {"attached"}
    MaxBalance = 1
    MaxFaults = 0
    FaultKinds = {}
SPECIFICATION Spec
CHECK_DEADLOCK FALSE
INVARIANTS
    FailedHasNoBroadcast
