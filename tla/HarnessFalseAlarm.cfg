SPECIFICATION Spec
CONSTANTS
    ChunkCap = 8
    FillLimit = 4
    Rounds = 3
    Devices <- MCNamedDevices
    Options <- MCNamedOptions
INVARIANT NoFalseAlarm
CHECK_DEADLOCK FALSE
