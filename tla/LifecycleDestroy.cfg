\* What is left of connections when application::run() returns.
SPECIFICATION Spec
CONSTANTS
    Connections = {c1, c2}
    main_pools = 2
    threads = 1
INVARIANTS
    EndsOnLiveServer
CHECK_DEADLOCK FALSE
