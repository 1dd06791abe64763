SPECIFICATION Spec
CONSTANTS
    Centrals = {c1}
    NoCentral = NoCentral
    StreamOrder <- OneStream
    Depth = 1
    SeqMod = 2
    BlessSemantics = FALSE
    Swift = FALSE
    Fills = FALSE
    Preempt = {"tick", "hook"}
    MaxLinks = 2
    MaxReqs = 1
    MaxDebt = 3
    MaxBurst = 1
    MaxStalls = 1
INVARIANT TypeOK
INVARIANT LossAccounted
PROPERTY SeqContiguous
PROPERTY HeldResponseFirst
PROPERTY RetryKept
\* The ready hook between two readings of the timer ends the pump.
CHECK_DEADLOCK FALSE
