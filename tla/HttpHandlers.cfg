\* Three requests in two connections, of ten kinds.
SPECIFICATION Spec
CONSTANTS
    Sessions = {s1, s2}
    Requests <- MCRequests
    MaxConnections = 2
    MaxRequests = 3
INVARIANTS
    StatConserved
    RefusedNotRun
    FormatAsAsked
    RunNotRefused
CHECK_DEADLOCK FALSE
