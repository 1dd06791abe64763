SPECIFICATION Spec
CONSTANTS
    ChunkCap = 8
    FillLimit = 4
    Rounds = 3
    Devices <- MCDevices
    Options <- MCOptions
INVARIANT TypeOK
INVARIANT NoOrdinaryFalseAlarm
INVARIANT DefectCaught
INVARIANT NotesMatchSmallTable
CHECK_DEADLOCK FALSE
