\* The client may disconnect at any time, also right after it is accepted.
SPECIFICATION Spec
CONSTANTS
    Clients = {c1, c2, c3}
    max_connections = 2
    main_pools = 3
    accept_pool = TRUE
INVARIANTS
    AcceptorSurvives
