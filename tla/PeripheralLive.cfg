SPECIFICATION FairSpec
CONSTANTS
    Centrals = {c1}
    NoCentral = NoCentral
    StreamOrder <- TwoStreams
    Depth = 1
    SeqMod = 2
    BlessSemantics = FALSE
    Swift = FALSE
    Fills = TRUE
    Preempt = {}
    MaxLinks = 1
    MaxReqs = 1
    MaxDebt = 1
    MaxBurst = 1
    MaxStalls = 0
PROPERTY StreamsMove
PROPERTY ResponseDelivered
