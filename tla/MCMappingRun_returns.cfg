SPECIFICATION FairSpec
CONSTANTS
    s1 = s1  s2 = s2  s3 = s3
    k1 = k1  k2 = k2
    a4 = a4  b4 = b4  b6 = b6
    None = None
    Families <- MCFamilies
    Addrs <- MCAddrs
    Family <- MCFamily
    Conns <- MCConns
    Mapping <- MCMapping
    Source <- ZoneSource
    Servers <- ReturnServers
    Malformed = {s3}
    Literals = {s2}
    Resolutions <- ReturnResolutions
    Answers <- ReturnAnswers
    Noise = {}
    Bindings <- AnyBinding
    Routes <- AllRoutes
    Gaps = 1
    MaxLost = 0
    Patient = FALSE
INVARIANTS
    Attribution
PROPERTIES
    Termination
