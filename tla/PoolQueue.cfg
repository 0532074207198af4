SPECIFICATION Spec
SYMMETRY Symmetry
CONSTANTS
    Investors = {v1, v2}
    DepositAmounts <- MCTwo
    MaxQueueDepth = 2
    MaxQueueAge = 1
    MaxSupply = 4
    MaxCash = 6
    MaxRequests = 2
    MaxTime = 2
    Invoices = {i1}
    Principals <- MCThree
    Payments <- MCThree
    CollateralAmounts <- MCNone
    DueOffsets <- MCOne
    Premiums <- MCZero
    InsurancePayouts <- MCOne
    BPS = 2
    Rate = 0
    RateDenom = 1
    FeeBps = 0
    ReferralBps = 0
    CollateralThreshold = 9
    CollateralBps = 0
    MaxUtilization = 2
    Precision = 1
    MaxPrincipal = 3
    MaxCollateral = 0
    MaxValue = 5
    MaxOverbooked = 0
INVARIANTS
    TypeOK
    QueueBacked
    NavCoversDeployed
PROPERTIES
    NobodyIsOvertaken
    SharePriceNeverFalls
