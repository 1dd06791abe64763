SPECIFICATION Spec
CONSTANTS
    Window = 1
    FlushEvery = 2
    DropMax = 2
    Ceiling <- MCCeiling
    Links <- MCLinks
    Period <- MCPeriod
    Profiles <- MCProfiles
    Busy = 2
    MaxTime = 5
    MaxControl = 2
    MaxLoss = 1
INVARIANT SamplesEvenlySpaced
CHECK_DEADLOCK FALSE
