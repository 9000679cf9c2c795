CONSTANTS
    real = real
    None = None
    Procs = {c1, c2}
    Paths <- OnePath
    Canon <- OneCanon
    Entries = {e1, e2, e3}
    Registries = {r1, r2}
    WarmStart = FALSE
    MaxCalls = 4
SPECIFICATION FairSpec
\* A turn has finitely many tool calls: after the last one nothing moves.
CHECK_DEADLOCK FALSE
INVARIANTS KeyExclusion NoLostUpdate
PROPERTY CallsReturn
