SPECIFICATION Spec
CONSTANTS
    s1 = s1  s2 = s2  s3 = s3
    k1 = k1  k2 = k2
    a4 = a4  b4 = b4  b6 = b6
    None = None
    Families <- MCFamilies
    Addrs <- MCAddrs
    Family <- MCFamily
    Conns <- MCConns
    Mapping <- MCMapping
    Source <- OwnSource
    Servers <- LossServers
    Malformed = {}
    Literals = {}
    Resolutions <- LossResolutions
    Answers <- LossAnswers
    Noise = {}
    Bindings <- BothBound
    Routes <- Routed
    Gaps = 3
    MaxLost = 3
    Patient = TRUE
SYMMETRY Sockets
INVARIANTS
    LossTolerated
