SPECIFICATION Spec
CONSTANTS
    p4 = p4  c4 = c4  p6 = p6  q6 = q6
    t1 = t1  t2 = t2
    None = None
    Endpoints <- MCEndpoints
    IPv4 = {p4, c4}
    SharedSpace = {c4}
    TargetIPs <- MCTargetIPs
    MaxServers = 4
SYMMETRY Alike
CHECK_DEADLOCK FALSE
INVARIANTS
    PassIsWitnessed
    OrderIsIrrelevant
    UntestedIsNotStronger
    ExitIsExplained
    FilteringIsStated
PROPERTIES
    FailureAddsNothing
