CONSTANTS
    a1 = a1
    a2 = a2
    d1 = d1
    v1 = v1
    w1 = w1
    w2 = w2
    None = None
    Address = {a1, a2}
    FeeAddress = a2
    Transfer <- Moves
    Catalogue <- Disputed
    Honest = FALSE
    Serializable = TRUE
    Deposit = {d1}
    Vesting = {v1}
    Withdrawal = {}
    BatchSize = 2
    MaxTaskFeeAmount = 2
    MaxAddressLogs = 2
    MaxNewAddresses = 1
    DepositMaxAge = 1
    MaxEvents = 3
    MaxDay = 2
    MaxFaults = 1
    FaultKinds = {"migrate", "ack"}
SPECIFICATION Spec
CHECK_DEADLOCK FALSE
INVARIANTS
    DepositsAreReal
    ReleasesWithinSchedule
PROPERTIES
    ClosedVestingsStay
