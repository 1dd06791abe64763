SPECIFICATION Spec
CONSTANTS
    MatchBits <- MCBits
    BusIds <- MCBus
    ObdIds <- MCObd
    Every <- MCEvery
    Named <- MCNamed
    Rules <- MCRules
    Slots = 2
    MaxTime = 3
    MaxQueue = 1
    MaxInstalls = 3
INVARIANT TypeOK
PROPERTY GatePromise
\* Time and installations end.
CHECK_DEADLOCK FALSE
