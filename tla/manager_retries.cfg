CONSTANTS
    MaxTx = 3
    Network = {n1}
    MaxRetries = 2
    SentLimit = 1
    Confirmations = 2
    MaxReorg = 1
    MaxLag = 1
    MaxRoots = 1
    MaxFaults = 3
    FaultKinds = {"crash", "rpc", "db", "ack", "reorg", "drop"}
    LegacyChain = TRUE
SPECIFICATION Spec
CHECK_DEADLOCK FALSE
INVARIANTS
    ManagerInv
    NoDoublePayout
    RetryOnlyAfterProof
    NothingSentUnrecorded
    OutcomeIsFinal
    OneRetryPerFailure
PROPERTIES
    LifecycleSpec
    CommittedStays
