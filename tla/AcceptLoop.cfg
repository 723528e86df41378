\* Three clients compete for two connections; three pools, one of them reserved.
SPECIFICATION FairSpec
CONSTANTS
    Clients = {c1, c2, c3}
    max_connections = 2
    main_pools = 3
    accept_pool = TRUE
INVARIANTS
    TypeOK
    CountExact
    ServedLimit
    WakeupNotLost
    OneContinuation
    ReservedPool
PROPERTIES
    ClientsServed
    ImplementsAdmission
