\* Two main pools with one thread each, and two connections.
SPECIFICATION FairSpec
CONSTANTS
    Connections = {c1, c2}
    main_pools = 2
    threads = 1
INVARIANTS
    TypeOK
    PoolsStayUp
    DestroyedQuietly
PROPERTIES
    SignalStops
CHECK_DEADLOCK FALSE
