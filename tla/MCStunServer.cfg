SPECIFICATION FairSpec
CONSTANTS
    e4 = e4  m4 = m4  e6 = e6  other = other
    None = None
    Sources <- MCSources
    Unmap <- MCUnmap
    Packets <- MCPackets
    Other = other
INVARIANTS
    AnswersRequests
PROPERTIES
    KeepsServing
    Stops
