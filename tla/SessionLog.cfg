CONSTANTS
    Kinds = {"user", "assistant", "toolResult"}
    MaxEntries = 4
    MaxFaults = 1
    MaxForks = 1
SPECIFICATION LogSpec
INVARIANT LogSurvives
PROPERTY ForkKeepsPath
\* A session at the bound of its records does not go on.
CHECK_DEADLOCK FALSE
