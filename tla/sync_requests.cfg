CONSTANTS
    a = a
    b = b
    x = x
    n1 = n1
    n2 = n2
    s1 = s1
    s2 = s2
    s3 = s3
    s4 = s4
    None = None
    Address = {a, b, x}
    Network = {n1, n2}
    Authorization = {s1, s2, s3, s4}
    Catalogue <- Mixed
    BenefitChoice <- Choice
    BoundBefore <- BoundByB
    MaxWithdrawalsPerDay <- Limits
    BatchSize = 2
    MaxRequests = 3
    MaxDay = 1
    MaxFaults = 1
    FaultKinds = {"crash", "db", "ack", "relay", "rpc"}
SPECIFICATION FairSpec
CHECK_DEADLOCK FALSE
INVARIANTS
    SyncInv
    NoRequestSkipped
    AuthorizationsSpentOnce
    DailyLimitHolds
    LimitStopHasCause
PROPERTIES
    RequestsAreTakenOver
