\* Five records in two partitions, transactions of two, three insertions in
\* flight; MaxRecords is never reached by the real counter.
SPECIFICATION Spec
CONSTANTS
    Partitions = {p1, p2}
    RECORDS = 5
    request_queue_max = 3
    transaction_sz = 2
    MaxRecords = 9
INVARIANTS
    CommitDone
CHECK_DEADLOCK FALSE
