SPECIFICATION SettlementSpec
CHECK_DEADLOCK FALSE
CONSTANTS
    Investors = {v1, v2, v3}
    DepositAmounts <- MCDepositAmounts
    MaxQueueDepth = 0
    MaxQueueAge = 1
    MaxSupply = 6
    MaxCash = 9
    MaxRequests = 3
    MaxTime = 2
    Shares <- MCShares
    Kept <- MCKept
    Values <- MCValues
INVARIANTS
    SettlementIsFair
