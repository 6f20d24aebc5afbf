SPECIFICATION Spec
CONSTANTS
    p4 = p4  c4 = c4  p6 = p6  q6 = q6
    t1 = t1  t2 = t2
    None = None
    Endpoints <- MCEndpoints
    IPv4 = {p4, c4}
    SharedSpace = {c4}
    TargetIPs <- MCTargetIPs
    MaxServers = 2
CHECK_DEADLOCK FALSE
INVARIANTS
    UntestedIsLikely
