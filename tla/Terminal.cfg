SPECIFICATION FairSpec
CONSTANTS
    watcher = watcher
    Painters = {watcher}
    Chunks = 2
    StallLimit = 1
    None = None
INVARIANTS
    FlagsRestored
    ShellGetsTerminal
    FramesWhole
PROPERTIES
    QuitEnds
\* the process ends
CHECK_DEADLOCK FALSE
