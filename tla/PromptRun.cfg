CONSTANTS
    AutoCompact = TRUE
    RetryEnabled = TRUE
    MaxAttempts = 2
    MaxPrompts = 1
    MaxToolRounds = 1
    Histories <- MCHistories
SPECIFICATION FairSpec
INVARIANTS SettledOnce RunsBounded RetriesGoThrough
           ContextMatchesLog
PROPERTY AbortEnds
\* After the last prompt the session is idle.
CHECK_DEADLOCK FALSE
