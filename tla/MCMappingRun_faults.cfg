SPECIFICATION Spec
CONSTANTS
    s1 = s1  s2 = s2  s3 = s3
    k1 = k1  k2 = k2
    a4 = a4  b4 = b4  b6 = b6
    None = None
    Families <- MCFamilies
    Addrs <- MCAddrs
    Family <- MCFamily
    Conns <- MCConns
    Mapping <- MCMapping
    Source <- OwnSource
    Servers <- FaultServers
    Malformed = {}
    Literals = {s1}
    Resolutions <- FaultResolutions
    Answers <- FaultAnswers
    Noise <- FaultNoise
    Bindings <- AnyBinding
    Routes <- AnyRoute
    Gaps = 1
    MaxLost = 0
    Patient = FALSE
SYMMETRY Sockets
INVARIANTS
    TypeOK
    Attribution
    Comparable
    HolderGoesOn
    FirstUsableAddress
    SocketServed
    PendingWasSent
PROPERTIES
    KeepsPromise
