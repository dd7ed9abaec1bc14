CONSTANTS
    a1 = a1
    a2 = a2
    d1 = d1
    v1 = v1
    w1 = w1
    w2 = w2
    None = None
    Address = {a1, a2}
    FeeAddress = a2
    Transfer <- Moves
    Catalogue <- Traffic
    Honest = TRUE
    Serializable = FALSE
    Deposit = {d1}
    Vesting = {v1}
    Withdrawal = {w1, w2}
    BatchSize = 2
    MaxTaskFeeAmount = 2
    MaxAddressLogs = 2
    MaxNewAddresses = 2
    DepositMaxAge = 0
    MaxEvents = 4
    MaxDay = 0
    MaxFaults = 0
    FaultKinds = {}
SPECIFICATION Spec
CHECK_DEADLOCK FALSE
INVARIANTS
    BalancesMatchLog
