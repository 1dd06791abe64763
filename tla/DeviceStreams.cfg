SPECIFICATION Spec
CONSTANTS
    Window = 1
    FlushEvery = 2
    DropMax = 2
    Ceiling <- MCCeiling
    Links <- MCLinks
    Period <- MCPeriod
    Profiles <- MCProfiles
    Busy = 2
    MaxTime = 4
    MaxControl = 2
    MaxLoss = 1
INVARIANT TypeOK
INVARIANT BatchesHonest
INVARIANT LossExact
PROPERTY RecordsLeaveInTime
CHECK_DEADLOCK FALSE
