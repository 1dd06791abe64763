SPECIFICATION Spec
CONSTANTS
    Centrals = {c1}
    NoCentral = NoCentral
    StreamOrder <- OneStream
    Depth = 1
    SeqMod = 2
    BlessSemantics = TRUE
    Swift = FALSE
    Fills = FALSE
    Preempt = {"tick", "send", "write", "link"}
    MaxLinks = 2
    MaxReqs = 2
    MaxDebt = 1
    MaxBurst = 1
    MaxStalls = 0
INVARIANT NothingForgotten
INVARIANT OneOutstanding
INVARIANT PumpSurvives
PROPERTY ChannelSpec
PROPERTY OwnLinkOnly
