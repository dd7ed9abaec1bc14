CONSTANTS
    MaxTx = 2
    Network = {n1}
    MaxRetries = 1
    Nonces = {0}
    MaxRoots = 1
    LegacyChain = FALSE
    Authorizations = {TRUE}
    Histories = {"new"}
    MaxBalance = 1
    MaxFaults = 1
    FaultKinds = {"db"}
SPECIFICATION Spec
CHECK_DEADLOCK FALSE
INVARIANTS
    FulfilledIsDebited
