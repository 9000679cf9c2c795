SPECIFICATION FairSpec
CONSTANTS
    MaxRetries = 2
    MaxChunks = 2
    Capacity = 1
INVARIANTS
    CommandTruth
    CutTurnEnds
PROPERTIES
    AbortEnds
\* the turn ends
CHECK_DEADLOCK FALSE
