SPECIFICATION FairSpec
CONSTANTS
    Requests = {r1, r2}
    Background = {g1, g2}
    PoolSize = 1
    MaxStatements = 2
    r1 = r1
    r2 = r2
    g1 = g1
    g2 = g2
INVARIANTS
    TypeOK
    ConnectionsAccounted
    StopIsGraceful
    NothingLeftOpen
PROPERTIES
    RequestsEnd
    StopCompletes
CHECK_DEADLOCK FALSE
