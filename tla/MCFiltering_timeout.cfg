SPECIFICATION Spec
CONSTANTS
    i1 = i1  i2 = i2  i3 = i3  lo = lo
    p1 = p1  p2 = p2
    None = None
    Endpoints <- MCEndpoints
    Loopback = {lo}
    Paths <- HonestPaths
    Timeout = 4
    Fallback = 1
INVARIANTS
    WithinTimeout
