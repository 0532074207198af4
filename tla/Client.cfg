SPECIFICATION ClientsSpec
CHECK_DEADLOCK FALSE
CONSTANTS
    MaxSubmissions = 1
    MaxRetries = 3
    PoolSize = 2
    MaxConcurrent = 2
    PollLimit = 2
    RacePolls = 1
    MaxVersion = 3
    MaxClicks = 2
    MaxReloads = 1
    MaxBatches = 1
    BatchSize = 2
    MaxSalts = 2
    MaxLoads = 3
    Texts = {"a", " a", " "}
    Trimmed <- MCTrimmed
INVARIANTS
    CallsConform
    FalseFailureExplained
    OwnWriteSeen
    SequenceClashNeedsTwoFlags
    PageKeepsOwnAction
    AnnouncementIsTrue
    FormSendsWhatItShows
    CommitmentStaysRevealable
PROPERTY
    SubmissionSettles
