SPECIFICATION Spec
CONSTANTS
    Centrals = {"ann", "bob"}
    Mtus = {8, 10}
    Ceiling = 10
    MinMtu = 8
    Overhead = 6
    MaxBytes = 7
    MaxChunks = 2
    Tokens = 2
    Totals = {3, 5}
    Hooks = {TRUE, FALSE}
    MaxLinks = 2
    MaxBegins = 3
    MaxFlight = 2
    MaxLost = 1
    MaxFaults = 1
INVARIANT TypeOK
INVARIANT OwnChunksOnly
INVARIANT ChunkWritable
INVARIANT TransferKept
PROPERTY AppliedWhole
PROPERTY OwnTransferOnly
PROPERTY TransferEnds
\* The last client may leave for good.
CHECK_DEADLOCK FALSE
