SPECIFICATION Spec
CONSTANTS
    Requests = 5
    Tags = 3
    Pairs = 1
    Losses = 1
INVARIANT TypeOK
INVARIANT OwnAnswer
INVARIANT NoFalseAccusation
PROPERTY AnswerArrives
CHECK_DEADLOCK FALSE
