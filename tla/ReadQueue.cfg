SPECIFICATION QueueSpec
CHECK_DEADLOCK FALSE
CONSTANTS
    MaxConcurrent = 2
    MaxStarts = 3
    MaxReads = 6
PROPERTY
    QueuedReadsStart
