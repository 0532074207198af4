SPECIFICATION Spec
CONSTANTS
    Ids <- MCIds
    SMEs = {s1}
    Debtors = {d1}
    Amounts <- MCAmounts
    DueOffsets <- MCDueOffsets
    MaxOutstanding = 2
    MaxExposure = 3
    DailyLimit = 1
    Day = 2
    Expiration = 1
    VerificationTimeout = 1
    Grace <- MCGrace
    GlobalGrace = 0
    MaxExtension = 1
    DisputeWindow = 1
    StalledOverride = 1
    Threshold = 2
    Arbitration = TRUE
    OracleOnly = FALSE
    StartTime = 2
    MaxTime = 5
    MaxFunded = 2
INVARIANTS
    TypeOK
    OutstandingNeverOverstated
    OpenInvoicesRegistered
    RateLimitHolds
    CleanupConserved
PROPERTIES
    DueDateNeverMovesBack
