SPECIFICATION Spec
CONSTANTS
    Ecus <- TwoEcus
    PollSets <- FastAndSlow
    Latencies = {1, 3}
    Timeout = 2
    ReofferFirst = 1
    ReofferSecond = 4
    ReofferLater = 3
    Windows = 2
    Gateways = {TRUE, FALSE}
    Concurrent = FALSE
    MaxNow = 12
    MaxWrites = 3
    MaxSwitches = 2
    MaxLate = 0
INVARIANT TypeOK
INVARIANT OneOnTheBus
INVARIANT NoGroupStarved
INVARIANT ReofferFloors
PROPERTY MinIntervalKeptInSet
PROPERTY NoMissedTurn
PROPERTY InfoWhenComplete
