\* create: five records in two partitions, transactions of two, three insertions
\* in flight; MaxRecords is never reached by the real counter.  requests: the
\* same partitions, a clock with half seconds, and a TIME of two seconds.
SPECIFICATION BenchSpec
CONSTANTS
    Partitions = {p1, p2}
    RECORDS = 5
    request_queue_max = 3
    transaction_sz = 2
    MaxRecords = 9
    TIME = 4
    SECOND = 2
    MaxTime = 6
INVARIANTS
    WithinLimits
    ActualTotal
    ReportTimeKept
PROPERTIES
    ReportsApart
    CommandEnds
CHECK_DEADLOCK FALSE
