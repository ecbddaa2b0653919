SPECIFICATION FairHealthSpec
CONSTANTS
    c1 = c1
    c2 = c2
    beat = beat
    get = get
    r1 = r1
    Conns <- ConnsDef
    Checks <- ChecksDef
    Beat = beat
    ApiRequests <- ApiRequestsDef
    MaxEvents = 3
INVARIANTS
    TypeOK
    OffStaysOff
PROPERTY
    StatusFollowsStore
CHECK_DEADLOCK FALSE
