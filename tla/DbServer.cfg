\* Three configurations of the database.
SPECIFICATION FairSpec
CONSTANTS
    w1 = w1
    w2 = w2
    rd = rd
    bad = bad
    Threads = {t1, t2}
    Requests <- MCRequests
    query_id <- MCQueryId
    args <- MCArgs
    RowCount <- MCRowCount
    retry_if_locked <- MCRetryIfLocked
    Writes = {"update"}
    Params <- MCParams
    DbDefs <- MCDbDefs
    NoRequest = NoRequest
    Data = {"a", "b", "c", "1", "nan"}
INVARIANTS
    TypeOK
    FailedEmpty
    RowsExact
    BindingsOwn
    FinishNotMissed
PROPERTIES
    AllAnswered
    ImplementsService
CHECK_DEADLOCK FALSE
