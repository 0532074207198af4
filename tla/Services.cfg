SPECIFICATION ServicesSpec
CHECK_DEADLOCK FALSE
CONSTANTS
    PerChainLedger = 2
    MaxHeight = 3
    MaxForks = 1
    PollPage = 3
    BackfillPage = 3
    LookbackLedgers = 1
    MaxFailures = 3
    ReplayPage = 2
    QueryLimit = 3
    MaxReplay = 3
    MaxEvents = 4
    OracleInvoices = {i1, i2, i3}
    MaxConcurrency = 1
    MaxAttempts = 2
    MaxEffects = 4
    MaxRestarts = 1
    StructuringMaxCount = 2
    RescreenInterval = 1
    ClearanceTime = 2
    ReviewCooldown = 1
    MaxClock = 3
    MaxFlags = 2
    MaxUnalerted = 3
    MaxLedger = 4
    PageLimit = 2
    ActivityThreshold = 2
    MonitorPolls = 2
    Components = {c1, c2}
    EventIds = {1, 2}
    HistoryLimit = 2
    MaxPolls = 2
    StreamClients = {s1, s2}
    StreamContracts = {k1, k2}
    StreamLimit = 1
    StreamLookback = 1
    LastStreamLedger = 2
    PerLedger = 1
    SharedPolls = 1
INVARIANTS
    NoGapBelowCursor
    AnswerWasTrue
    QueuedExactlyListened
    StructuringIsFlagged
    ShownAgainOnlyAfterStop
    StreamLosesOnlyPassedOver
    CheckpointCoversProcessed
PROPERTY
    KeepsEventLog
