SPECIFICATION Spec
CONSTANTS
    p1 = p1  p2 = p2
    r1 = r1  l1 = l1  s1 = s1  r2 = r2  x2 = x2
    token = token  other = other
    Procs = {p1, p2}
    Tasks = {r1, l1, r2, x2}
    Keys = {token, other}
    Proc <- McProc
    Kind <- McKind
    Key <- McKey
    Attempts = 2
    MaxFaults = 1
    None = None
    Old = Old
    Torn = Torn
    Nothing = Nothing
INVARIANTS
    NeverTorn
    NoLostUpdate
    AckedDurable
    LockNotLeaked
PROPERTIES
    NewerTokenKept
\* the tasks end
CHECK_DEADLOCK FALSE
