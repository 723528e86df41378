------------------------------ MODULE MCDbServer ------------------------------
(* Model-checking instance of DbServer: two writes by one statement, one of  *)
(* which affects and returns a row, and two reads by another one, of which   *)
(* one has too many arguments.                                               *)
EXTENDS DbServer

CONSTANTS w1, w2, rd, bad

MCRequests == {w1, w2, rd, bad}

MCQueryId == [r \in MCRequests |-> IF r \in {w1, w2} THEN "update" ELSE "select"]

MCParams == [update |-> 2, select |-> 1]

MCArgs == [r \in MCRequests |->
             IF r = w1 THEN <<<<"v_blob", "a">>, <<"v_int64", "1">>>>
             ELSE IF r = w2 THEN <<<<"v_blob", "b">>>>
             ELSE IF r = rd THEN <<<<"v_double", "nan">>>>
             ELSE <<<<"v_text", "c">>, <<"v_null", "NULL_">>>>]

MCRowCount == [r \in MCRequests |-> IF r = w2 THEN 1 ELSE IF r = rd THEN 2 ELSE 0]

\* The reads give up at once if the database is locked.
MCRetryIfLocked == [r \in MCRequests |-> r \in {w1, w2}]

\* As create_db.sh makes it; with the default journal; without reads
MCDbDefs ==
    {[queries |-> {"update", "select"}, retries |-> 2, retry_wait |-> TRUE,
      journal |-> "wal"],
     [queries |-> {"update", "select"}, retries |-> 1, retry_wait |-> FALSE,
      journal |-> "rollback"],
     [queries |-> {"update"}, retries |-> 0, retry_wait |-> TRUE,
      journal |-> "wal"]}
==============================================================================
