SPECIFICATION Spec
CONSTANTS
    Centrals = {c1}
    NoCentral = NoCentral
    StreamOrder <- OneStream
    Depth = 1
    SeqMod = 3
    BlessSemantics = TRUE
    Swift = FALSE
    Fills = FALSE
    Preempt = {"poll", "link"}
    MaxLinks = 2
    MaxReqs = 2
    MaxDebt = 0
    MaxBurst = 1
    MaxStalls = 1
INVARIANT NothingForgotten
