SPECIFICATION Spec
CONSTANTS
    Investors = {v1}
    DepositAmounts <- MCTwo
    MaxQueueDepth = 0
    MaxQueueAge = 0
    MaxSupply = 2
    MaxCash = 5
    MaxRequests = 0
    MaxTime = 2
    Invoices = {i1}
    Principals <- MCTwo
    Payments <- MCOneFour
    CollateralAmounts <- MCOne
    DueOffsets <- MCOne
    Premiums <- MCZeroOne
    InsurancePayouts <- MCOne
    BPS = 2
    Rate = 1
    RateDenom = 2
    FeeBps = 1
    ReferralBps = 2
    CollateralThreshold = 2
    CollateralBps = 1
    MaxUtilization = 2
    Precision = 2
    MaxPrincipal = 2
    MaxCollateral = 2
    MaxValue = 2
    MaxOverbooked = 2
INVARIANT DeployedClears
