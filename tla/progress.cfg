SPECIFICATION FairSpec
CONSTANTS
    m1 = m1
    m2 = m2
    NoSocket = NoSocket
    Sockets <- SocketsDef
    Kinds <- KindsDef
    MaxEvents = 2
    MaxDrops = 1
    MaxConnects = 2
INVARIANTS
    TypeOK
    OneLine
    ShowsLastEvent
PROPERTIES
    HiddenByUser
    GivesUp
CHECK_DEADLOCK FALSE
