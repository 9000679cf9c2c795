CONSTANTS
    c1 = c1  c2 = c2  none = none
    p1 = p1  p2 = p2  p3 = p3  k1 = k1  t1 = t1  b1 = b1  n1 = n1  r1 = r1  r2 = r2  a1 = a1
    None = none
    Ops = {p1, p2, k1, b1, n1, a1}
    Clients = {c1}
    Kind <- RpcKind
    Owner <- RpcOwner
    Unloadable = {}
SPECIFICATION FairSpec
PROPERTY CallsReturn
\* When every call was made the session is idle.
CHECK_DEADLOCK FALSE
