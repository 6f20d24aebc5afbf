SPECIFICATION FairSpec
CONSTANTS
    v4 = v4  v6 = v6
    i4 = i4  j4 = j4  i6 = i6  j6 = j6
    a4 = a4  x4 = x4  b4 = b4  a6 = a6  b6 = b6
    k = k
    None = None
    Servers <- MCServers
    Families = {v4, v6}
    Addrs = {a4, x4, b4, a6, b6}
    TargetIPs = {i4, j4, i6, j6}
    Family <- MCFamily
    IP <- MCIP
    Reach <- MCReach
    Advertise = {2, 3}
    Conns = {k}
    Pools <- MCPools
    NATs <- MCNATs
    See <- MCSee
    Endpoints <- MCEndpoints
    IPv4 <- MCIPv4
    SharedSpace <- MCShared
INVARIANTS
    PassMeansIndependent
    ClaimsHold
    ExitMatchesReport
    FormatsAgree
    NothingLeftRunning
PROPERTIES
    Termination
CHECK_DEADLOCK FALSE
