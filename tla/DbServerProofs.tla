---------------------------- MODULE DbServerProofs ----------------------------
(***************************************************************************)
(* Proofs about DbServer for every pool of threads, every set of requests  *)
(* and queries, every number of retries and both kinds of journal.         *)
(***************************************************************************)
EXTENDS DbServer, TLAPS

------------------------------------------------------------------------------
(* The inductive invariant.                                                *)

\* The states in which a thread's statement is bound to its request's arguments
\* and the query has not ended
Executing == {"step", "enter_wait", "waiting", "woken", "restart"}

\* A thread that is not idle has a request, and no other thread has the same.
Owned ==
    /\ \A t \in Threads : IF pc[t] = "idle" THEN cur[t] = NoRequest
                          ELSE cur[t] \in Requests /\ st[cur[t]] = "taken"
    /\ \A t, u \in Threads :
          pc[t] # "idle" /\ pc[u] # "idle" /\ cur[t] = cur[u] => t = u

\* A request is in the queue at most once and nowhere else.
QueuedOnce ==
    /\ \A i \in 1 .. Len(queue) : st[queue[i]] = "queued"
    /\ \A i, j \in 1 .. Len(queue) : queue[i] = queue[j] => i = j

\* Nothing is known of a request that no thread has begun to execute.
Untouched ==
    \A r \in Requests :
        st[r] \in {"new", "queued"} =>
            resp[r] = "none" /\ rows[r] = <<>> /\ committed[r] = 0

\* A request that is executed has no result yet, and its effect takes place in
\* the last step.
NotYet ==
    \A t \in Threads :
        /\ pc[t] \notin {"idle", "reply"} => resp[cur[t]] = "none"
        /\ pc[t] = "start" => rows[cur[t]] = <<>>
        /\ pc[t] \notin {"idle", "done", "reply"} => committed[cur[t]] = 0
        /\ pc[t] = "done" => committed[cur[t]] = 1

\* The prepared statements keep their number of parameters.
Prepared ==
    \A t \in Threads, q \in DOMAIN Params : Len(bound[t][q]) = Params[q]

\* BindingsOwn also while the thread waits for a retry
BindingsKept ==
    \A t \in Threads : pc[t] \in Executing =>
        \A i \in DOMAIN statement(t) :
            statement(t)[i] = IF i <= Len(args[cur[t]]) THEN bind(args[cur[t]][i])
                                                        ELSE NULL

\* The row that the client is to get for request r
Expected(r) == [i \in 1 .. Params[query_id[r]] |-> Returned(r, i)]

\* With WAL only the first step finds the database locked, so that a restarted
\* statement has not returned any row.
RowsSoFar ==
    db.journal = "wal" =>
        \A t \in Threads :
            /\ pc[t] \in Executing \cup {"done"} =>
                  /\ pos[t] <= RowCount[cur[t]]
                  /\ rows[cur[t]] = [n \in 1 .. pos[t] |-> <<n, Expected(cur[t])>>]
            /\ pc[t] \in Executing \ {"step"} => pos[t] = 0
            /\ pc[t] = "done" => pos[t] = RowCount[cur[t]]

IInv == /\ TypeOK /\ Owned /\ QueuedOnce /\ Untouched /\ NotYet
        /\ Prepared /\ BindingsKept /\ RowsSoFar
        /\ FailedEmpty /\ RowsExact /\ FinishNotMissed

------------------------------------------------------------------------------
(* The operators of Sqlite3.                                               *)

\* bind(): what SQLite gets for a value of each case
LEMMA BindCases ==
  /\ \A d : bind(<<"v_int64", d>>) = <<"INTEGER", d>>
  /\ \A d : bind(<<"v_double", d>>) = IF d = "nan" THEN NULL ELSE <<"FLOAT", d>>
  /\ \A d : bind(<<"v_text", d>>) = <<"TEXT", d>>
  /\ \A d : bind(<<"v_blob", d>>) = <<"BLOB", d>>
  /\ bind(NullValue) = NULL
  /\ bind(<<"not_set", "none">>) = NULL
  BY DEF bind, BindClass, Stored, NullValue

\* get_column() and add_column(): what the client gets for each storage class
LEMMA ColumnCases ==
  /\ \A d : add_column(get_column(<<"INTEGER", d>>)) = <<"v_int64", d>>
  /\ \A d : add_column(get_column(<<"FLOAT", d>>)) = <<"v_double", d>>
  /\ \A d : add_column(get_column(<<"TEXT", d>>)) = <<"v_text", d>>
  /\ \A d : add_column(get_column(<<"BLOB", d>>)) = <<"v_blob", d>>
  /\ add_column(get_column(NULL)) = NullValue
  BY DEF NULL, get_column, ColumnType, add_column, ValueCase, ct_null

\* What bind() gives to SQLite, and what get_column() and add_column() make of
\* it, have their types.
LEMMA ValuesTyped ==
  /\ NULL \in SqlValue
  /\ \A v \in Value : bind(v) \in SqlValue
  /\ \A s \in SqlValue : add_column(get_column(s)) \in Value
  <1>1. NULL \in SqlValue
    BY DEF SqlValue
  <1>2. ASSUME NEW v \in Value PROVE bind(v) \in SqlValue
    <2>1. CASE v \in {"v_int64", "v_double", "v_text", "v_blob"} \X Data
      <3>1. PICK c \in {"v_int64", "v_double", "v_text", "v_blob"}, d \in Data :
              v = <<c, d>>
        BY <2>1
      <3>2. bind(v) = NULL \/ \E k \in {"INTEGER", "FLOAT", "TEXT", "BLOB"} :
                                bind(v) = <<k, d>>
        BY <3>1, BindCases, Zenon
      <3> QED
        BY <1>1, <3>2 DEF SqlValue
    <2>2. CASE v \in {NullValue, <<"not_set", "none">>}
      BY <1>1, <2>2, BindCases
    <2> QED
      BY <2>1, <2>2 DEF Value
  <1>3. ASSUME NEW s \in SqlValue PROVE add_column(get_column(s)) \in Value
    BY ColumnCases DEF Value, SqlValue, NullValue, NULL
  <1> QED
    BY <1>1, <1>2, <1>3

\* A value that is bound and returned by the query is unchanged, except that
\* unset ones and NaN become NULL.
LEMMA RoundTrip ==
  ASSUME NEW v \in Value
  PROVE  add_column(get_column(bind(v))) =
            IF v[1] = "not_set" \/ v = <<"v_double", "nan">> THEN NullValue ELSE v
  <1>1. CASE v \in {"v_int64", "v_double", "v_text", "v_blob"} \X Data
    <2>1. PICK c \in {"v_int64", "v_double", "v_text", "v_blob"}, d \in Data :
            v = <<c, d>>
      BY <1>1
    <2>2. v[1] = c /\ v[2] = d
      BY <2>1
    <2>3. CASE c = "v_double"
      <3>1. CASE d = "nan"
        BY <2>1, <2>3, <3>1, BindCases, ColumnCases, Zenon
      <3>2. CASE d # "nan"
        <4>1. v # <<"v_double", "nan">> /\ v[1] # "not_set"
          BY <2>1, <2>2, <2>3, <3>2
        <4> QED
          BY <2>1, <2>3, <3>2, <4>1, BindCases, ColumnCases, Zenon
      <3> QED
        BY <3>1, <3>2
    <2>4. CASE c # "v_double"
      <3>1. v # <<"v_double", "nan">> /\ v[1] # "not_set"
        BY <2>1, <2>2, <2>4
      <3>2. add_column(get_column(bind(v))) = v
        <4>1. CASE c = "v_int64"
          BY <2>1, <4>1, BindCases, ColumnCases, Zenon
        <4>2. CASE c = "v_text"
          BY <2>1, <4>2, BindCases, ColumnCases, Zenon
        <4>3. CASE c = "v_blob"
          BY <2>1, <4>3, BindCases, ColumnCases, Zenon
        <4> QED
          BY <2>4, <4>1, <4>2, <4>3
      <3> QED
        BY <3>1, <3>2
    <2> QED
      BY <2>3, <2>4
  <1>2. CASE v \in {NullValue, <<"not_set", "none">>}
    BY <1>2, BindCases, ColumnCases DEF NullValue
  <1> QED
    BY <1>1, <1>2 DEF Value

------------------------------------------------------------------------------
(* Threads, their statements and rows.                                     *)

\* What a thread that is not idle executes
LEMMA Statement ==
  ASSUME TypeOK, Owned, Prepared, NEW t \in Threads, pc[t] # "idle"
  PROVE  /\ cur[t] \in Requests /\ query_id[cur[t]] \in DOMAIN Params
         /\ args[cur[t]] \in Seq(Value) /\ RowCount[cur[t]] \in Nat
         /\ statement(t) \in Seq(SqlValue)
         /\ Len(statement(t)) = Params[query_id[cur[t]]]
  BY RequestsAssumption DEF TypeOK, Owned, Prepared, statement

\* A binding of the statement that a thread executes leaves all others alone.
LEMMA BoundStep ==
  ASSUME TypeOK, Owned, Prepared, NEW t \in Threads, pc[t] # "idle",
         NEW values \in Seq(SqlValue), Len(values) = Params[query_id[cur[t]]],
         Bound(t, values), UNCHANGED cur
  PROVE  /\ bound' \in [Threads -> [DOMAIN Params -> Seq(SqlValue)]]
         /\ Prepared'
         /\ statement(t)' = values
         /\ \A u \in Threads : u # t => statement(u)' = statement(u)
  BY Statement DEF TypeOK, Bound, statement, Prepared

\* start(false) and bind() leave nothing of an earlier request.
LEMMA ReboundValues ==
  ASSUME TypeOK, Owned, Prepared, NEW t \in Threads, pc[t] # "idle"
  PROVE  /\ Rebound(t) \in Seq(SqlValue)
         /\ Len(Rebound(t)) = Params[query_id[cur[t]]]
         /\ \A i \in DOMAIN Rebound(t) :
               Rebound(t)[i] = IF i <= Len(args[cur[t]]) THEN bind(args[cur[t]][i])
                                                         ELSE NULL
  <1> DEFINE n == Len(statement(t))
             a == args[cur[t]]
  <1>1. n \in Nat /\ DOMAIN statement(t) = 1 .. n /\ a \in Seq(Value)
    BY Statement
  <1>2. Rebound(t) = [i \in 1 .. n |-> IF i <= Len(a) THEN bind(a[i]) ELSE NULL]
    BY <1>1 DEF Rebound, bind_all, start
  <1>3. \A i \in 1 .. n : (IF i <= Len(a) THEN bind(a[i]) ELSE NULL) \in SqlValue
    BY <1>1, ValuesTyped
  <1>4. Rebound(t) \in [1 .. n -> SqlValue]
    BY <1>2, <1>3
  <1>5. Rebound(t) \in Seq(SqlValue) /\ Len(Rebound(t)) = n
    BY <1>1, <1>4
  <1> QED
    BY <1>2, <1>5, Statement

\* A statement with the arguments of the request returns the expected row.
LEMMA NextRow ==
  ASSUME TypeOK, Owned, Prepared, BindingsKept, NEW t \in Threads, pc[t] = "step"
  PROVE  /\ next_row(t) = <<pos[t] + 1, Expected(cur[t])>>
         /\ next_row(t) \in Nat \X Seq(Value)
  <1> DEFINE n == Params[query_id[cur[t]]]
             a == args[cur[t]]
             col(i) == add_column(get_column(statement(t)[i]))
  <1>1. n \in Nat /\ DOMAIN statement(t) = 1 .. n /\ a \in Seq(Value)
    BY Statement, SettingsAssumption
  <1>2. ASSUME NEW i \in 1 .. n
        PROVE  col(i) = Returned(cur[t], i) /\ col(i) \in Value
    <2>1. statement(t)[i] = IF i <= Len(a) THEN bind(a[i]) ELSE NULL
      BY <1>1 DEF BindingsKept, Executing
    <2>2. CASE i <= Len(a)
      <3>1. a[i] \in Value
        BY <1>1, <2>2
      <3>2. Returned(cur[t], i) =
              IF a[i][1] = "not_set" \/ a[i] = <<"v_double", "nan">> THEN NullValue
                                                                     ELSE a[i]
        BY <1>1, <2>2 DEF Returned
      <3>3. col(i) = add_column(get_column(bind(a[i])))
        BY <2>1, <2>2, Zenon
      <3> QED
        BY <3>1, <3>2, <3>3, RoundTrip, ValuesTyped, Zenon
    <2>3. CASE ~(i <= Len(a))
      BY <1>1, <2>1, <2>3, ColumnCases, ValuesTyped DEF Returned
    <2> QED
      BY <2>2, <2>3
  <1>3. [i \in DOMAIN statement(t) |-> col(i)] = Expected(cur[t])
    BY <1>1, <1>2 DEF Expected
  <1>4. Expected(cur[t]) \in [1 .. n -> Value]
    BY <1>2 DEF Expected
  <1>5. Expected(cur[t]) \in Seq(Value)
    BY <1>1, <1>4
  <1>6. pos[t] \in Nat
    BY DEF TypeOK
  <1> QED
    BY <1>3, <1>5, <1>6 DEF next_row

------------------------------------------------------------------------------
(* Every step preserves the invariant.                                     *)

\* Another process
LEMMA ForeignStep ==
  ASSUME IInv, ForeignLock \/ ForeignUnlock
  PROVE  IInv'
  <1> USE DEF IInv
  <1>1. /\ UNCHANGED <<db, st, queue, pc, cur, left, bound, pos, rows, resp, finished,
                       committed>>
        /\ writer' \in {"none", "foreign"}
    BY DEF ForeignLock, ForeignUnlock, execution, response
  <1>2. TypeOK'
    BY <1>1 DEF TypeOK
  <1>3. Owned' /\ QueuedOnce' /\ Untouched' /\ NotYet'
    BY <1>1 DEF Owned, QueuedOnce, Untouched, NotYet
  <1>4. Prepared' /\ BindingsKept' /\ RowsSoFar'
    BY <1>1 DEF Prepared, BindingsKept, RowsSoFar, statement
  <1>5. FailedEmpty' /\ RowsExact' /\ FinishNotMissed'
    BY <1>1 DEF FailedEmpty, RowsExact, FinishNotMissed
  <1> QED
    BY <1>2, <1>3, <1>4, <1>5

\* The steps of the handler: handle_async() and its continuation
LEMMA HandlerStep ==
  ASSUME IInv, NEW r \in Requests, Query(r) \/ Resume(r)
  PROVE  IInv'
  <1> USE DEF IInv
  <1>1. UNCHANGED <<db, pc, cur, left, bound, pos, rows, resp, finished, writer,
                    committed>>
    BY DEF Query, Resume, execution, response, sqlite
  <1>2. /\ \A q \in Requests : q # r => st'[q] = st[q]
        /\ st[r] \in {"new", "posted"}
        /\ st'[r] \in {"queued", "answered"}
        /\ st[r] = "new" <=> st'[r] = "queued"
    BY DEF Query, Resume, TypeOK
  <1>3. TypeOK'
    <2>1. CASE Query(r)
      BY <1>1, <2>1 DEF TypeOK, Query
    <2>2. CASE Resume(r)
      BY <1>1, <2>2 DEF TypeOK, Resume
    <2> QED
      BY <2>1, <2>2
  <1>4. Owned'
    BY <1>1, <1>2 DEF Owned
  <1>5. QueuedOnce'
    <2>1. queue \in Seq(Requests)
      BY DEF TypeOK
    <2>2. \A i \in 1 .. Len(queue) : queue[i] \in Requests /\ queue[i] # r
      BY <1>2, <2>1 DEF QueuedOnce
    <2>3. \A i \in 1 .. Len(queue) : st'[queue[i]] = "queued"
      BY <1>2, <2>2 DEF QueuedOnce
    <2>4. CASE Resume(r)
      <3>1. queue' = queue
        BY <2>4 DEF Resume
      <3> QED
        BY <2>3, <3>1 DEF QueuedOnce
    <2>5. CASE Query(r)
      <3>1. queue' = Append(queue, r) /\ st'[r] = "queued"
        BY <1>2, <2>5 DEF Query
      <3>2. Len(queue') = Len(queue) + 1 /\ Len(queue) \in Nat
        BY <2>1, <3>1
      <3>3. \A i \in 1 .. Len(queue) : queue'[i] = queue[i]
        BY <2>1, <3>1
      <3>4. queue'[Len(queue) + 1] = r
        BY <2>1, <3>1
      <3>5. \A i \in 1 .. Len(queue') : i \in 1 .. Len(queue) \/ i = Len(queue) + 1
        BY <3>2
      <3>6. \A i \in 1 .. Len(queue') : st'[queue'[i]] = "queued"
        BY <2>3, <3>1, <3>3, <3>4, <3>5, Zenon
      <3>7. ASSUME NEW i \in 1 .. Len(queue'), NEW j \in 1 .. Len(queue'),
                   queue'[i] = queue'[j]
            PROVE  i = j
        BY <2>2, <3>3, <3>4, <3>5, <3>7, Zenon DEF QueuedOnce
      <3> QED
        BY <3>6, <3>7 DEF QueuedOnce
    <2> QED
      BY <2>4, <2>5
  <1>6. Untouched'
    BY <1>1, <1>2 DEF Untouched
  <1>7. /\ NotYet' /\ Prepared' /\ BindingsKept' /\ RowsSoFar' /\ FailedEmpty'
        /\ RowsExact' /\ FinishNotMissed'
    BY <1>1 DEF NotYet, Prepared, BindingsKept, RowsSoFar, FailedEmpty, RowsExact,
                FinishNotMissed, statement
  <1> QED
    BY <1>3, <1>4, <1>5, <1>6, <1>7

\* A thread takes a request from the queue.
LEMMA TakeStep ==
  ASSUME IInv, NEW t \in Threads, Take(t)
  PROVE  IInv'
  <1> USE DEF IInv
  <1> DEFINE r == Head(queue)
  <1>1. UNCHANGED <<db, left, bound, pos, rows, resp, finished, writer, committed>>
    BY DEF Take, execution, response, sqlite
  <1>2. /\ pc[t] = "idle" /\ r \in Requests /\ st[r] = "queued"
        /\ pc' = [pc EXCEPT ![t] = "start"]
        /\ cur' = [cur EXCEPT ![t] = r]
        /\ st' = [st EXCEPT ![r] = "taken"]
    BY DEF Take, Goto, TypeOK, QueuedOnce
  <1>3. TypeOK'
    <2>1. pc' \in [Threads -> ThreadStates]
      BY <1>2 DEF TypeOK, ThreadStates
    <2>2. cur' \in [Threads -> Requests \cup {NoRequest}]
      BY <1>2 DEF TypeOK
    <2>3. st' \in [Requests -> {"new", "queued", "taken", "posted", "answered"}]
      BY <1>2 DEF TypeOK
    <2>4. queue' \in Seq(Requests)
      BY DEF TypeOK, Take
    <2> QED
      BY <1>1, <2>1, <2>2, <2>3, <2>4 DEF TypeOK
  <1>4. Owned'
    <2>1. /\ pc'[t] = "start" /\ cur'[t] = r /\ st'[r] = "taken"
          /\ \A u \in Threads : u # t => pc'[u] = pc[u] /\ cur'[u] = cur[u]
          /\ \A q \in Requests : q # r => st'[q] = st[q]
      BY <1>2 DEF TypeOK
    <2>2. \A u \in Threads : pc[u] # "idle" => cur[u] # r
      BY <1>2 DEF Owned
    <2> QED
      BY <1>2, <2>1, <2>2 DEF Owned
  <1>5. QueuedOnce'
    <2>1. queue \in Seq(Requests) /\ queue # <<>> /\ queue' = Tail(queue)
      BY DEF TypeOK, Take
    <2>2. Len(queue) \in Nat \ {0} /\ Len(queue') = Len(queue) - 1 /\ queue[1] = r
      BY <2>1
    <2>3. ASSUME NEW i \in 1 .. Len(queue')
          PROVE  queue'[i] = queue[i + 1] /\ i + 1 \in 1 .. Len(queue) /\ i + 1 # 1
      BY <2>1, <2>2
    <2>4. ASSUME NEW i \in 1 .. Len(queue') PROVE st'[queue'[i]] = "queued"
      <3>1. st[queue[i + 1]] = "queued" /\ queue[i + 1] \in Requests
        BY <2>1, <2>3 DEF QueuedOnce
      <3>2. 1 \in 1 .. Len(queue)
        BY <2>2
      <3>3. queue[i + 1] # r
        BY <2>2, <2>3, <3>2, Zenon DEF QueuedOnce
      <3>4. st \in [Requests -> {"new", "queued", "taken", "posted", "answered"}]
        BY DEF TypeOK
      <3> QED
        BY <1>2, <2>3, <3>1, <3>3, <3>4
    <2>5. ASSUME NEW i \in 1 .. Len(queue'), NEW j \in 1 .. Len(queue'),
                 queue'[i] = queue'[j]
          PROVE  i = j
      <3>1. i + 1 \in 1 .. Len(queue) /\ j + 1 \in 1 .. Len(queue)
        BY <2>3
      <3>2. queue[i + 1] = queue[j + 1]
        BY <2>3, <2>5
      <3>3. i + 1 = j + 1
        BY <3>1, <3>2 DEF QueuedOnce
      <3> QED
        BY <2>2, <3>3
    <2> QED
      BY <2>4, <2>5 DEF QueuedOnce
  <1>6. Untouched'
    BY <1>1, <1>2 DEF Untouched, TypeOK
  <1>7. NotYet'
    BY <1>1, <1>2 DEF NotYet, Untouched, TypeOK
  <1>8. Prepared' /\ BindingsKept'
    BY <1>1, <1>2 DEF Prepared, BindingsKept, statement, TypeOK, Executing
  <1>9. RowsSoFar'
    BY <1>1, <1>2 DEF RowsSoFar, TypeOK, Executing
  <1>10. FailedEmpty' /\ RowsExact'
    BY <1>1 DEF FailedEmpty, RowsExact
  <1>11. FinishNotMissed'
    BY <1>1, <1>2 DEF FinishNotMissed, TypeOK
  <1> QED
    BY <1>3, <1>4, <1>5, <1>6, <1>7, <1>8, <1>9, <1>10, <1>11

\* run_query() fails before it executes the statement: the request has neither
\* rows nor an effect.
LEMMA RefuseStep ==
  ASSUME IInv, NEW t \in Threads, Reject(t) \/ BindFails(t)
  PROVE  IInv'
  <1> USE DEF IInv
  <1> DEFINE r == cur[t]
  <1>1. UNCHANGED <<db, st, queue, cur, left, pos, rows, finished, writer, committed>>
    BY DEF Reject, BindFails, execution, sqlite
  <1>2. /\ pc[t] = "start" /\ r \in Requests
        /\ pc' = [pc EXCEPT ![t] = "reply"]
        /\ resp' = [resp EXCEPT ![r] = "failed"]
    BY DEF Reject, BindFails, Goto, Owned
  <1>3. /\ bound' \in [Threads -> [DOMAIN Params -> Seq(SqlValue)]]
        /\ Prepared'
        /\ \A u \in Threads : u # t => statement(u)' = statement(u)
    <2>1. CASE Reject(t)
      BY <1>1, <2>1 DEF Reject, execution, TypeOK, Prepared, statement
    <2>2. CASE BindFails(t)
      BY <1>1, <1>2, <2>2, ReboundValues, BoundStep DEF BindFails
    <2> QED
      BY <2>1, <2>2
  <1>4. TypeOK'
    BY <1>1, <1>2, <1>3 DEF TypeOK, ThreadStates
  <1>5. Owned' /\ QueuedOnce'
    BY <1>1, <1>2 DEF Owned, QueuedOnce, TypeOK
  <1>6. Untouched' /\ NotYet'
    <2>1. /\ pc \in [Threads -> ThreadStates]
          /\ resp \in [Requests -> {"none", "ok", "failed"}]
      BY DEF TypeOK
    <2>2. st[r] = "taken"
      BY <1>2 DEF Owned
    <2>3. Untouched'
      BY <1>1, <1>2, <2>1, <2>2 DEF Untouched
    <2>4. ASSUME NEW u \in Threads, u # t, pc[u] # "idle"
          PROVE  resp'[cur[u]] = resp[cur[u]]
      BY <1>2, <2>1, <2>4 DEF Owned
    <2>5. NotYet'
      BY <1>1, <1>2, <2>1, <2>4 DEF NotYet
    <2> QED
      BY <2>3, <2>5
  <1>7. BindingsKept'
    BY <1>1, <1>2, <1>3 DEF BindingsKept, TypeOK, Executing
  <1>8. RowsSoFar' /\ RowsExact'
    BY <1>1, <1>2 DEF RowsSoFar, RowsExact, TypeOK, Executing
  <1>9. FailedEmpty'
    BY <1>1, <1>2 DEF FailedEmpty, NotYet, TypeOK
  <1>10. FinishNotMissed'
    BY <1>1, <1>2 DEF FinishNotMissed, TypeOK
  <1> QED
    BY <1>3, <1>4, <1>5, <1>6, <1>7, <1>8, <1>9, <1>10

\* start(false), bind() and the call of execute_query()
LEMMA StartStep ==
  ASSUME IInv, NEW t \in Threads, Start(t)
  PROVE  IInv'
  <1> USE DEF IInv
  <1>1. UNCHANGED <<db, st, queue, cur, rows, resp, finished, writer, committed>>
    BY DEF Start, response, sqlite
  <1>2. /\ pc[t] = "start" /\ cur[t] \in Requests
        /\ pc' = [pc EXCEPT ![t] = "step"]
        /\ pos' = [pos EXCEPT ![t] = 0]
    BY DEF Start, Goto, Owned
  <1>3. /\ bound' \in [Threads -> [DOMAIN Params -> Seq(SqlValue)]]
        /\ Prepared'
        /\ statement(t)' = Rebound(t)
        /\ \A u \in Threads : u # t => statement(u)' = statement(u)
    BY <1>1, <1>2, ReboundValues, BoundStep DEF Start
  <1>4. TypeOK'
    <2>1. db.retries \in Nat
      BY SettingsAssumption DEF TypeOK
    <2>2. left' \in [Threads -> 0 .. db.retries]
      BY <2>1 DEF Start, TypeOK
    <2> QED
      BY <1>1, <1>2, <1>3, <2>2 DEF TypeOK, ThreadStates
  <1>5. Owned' /\ QueuedOnce'
    BY <1>1, <1>2 DEF Owned, QueuedOnce, TypeOK
  <1>6. Untouched' /\ FailedEmpty' /\ RowsExact'
    BY <1>1 DEF Untouched, FailedEmpty, RowsExact
  <1>7. NotYet'
    BY <1>1, <1>2 DEF NotYet, TypeOK
  <1>8. BindingsKept'
    <2>1. ASSUME NEW u \in Threads, pc'[u] \in Executing, u # t
          PROVE  pc[u] \in Executing /\ statement(u)' = statement(u) /\ cur'[u] = cur[u]
      BY <1>1, <1>2, <1>3, <2>1 DEF TypeOK
    <2>2. \A i \in DOMAIN statement(t)' :
             statement(t)'[i] = IF i <= Len(args[cur'[t]]) THEN bind(args[cur'[t]][i])
                                                           ELSE NULL
      BY <1>1, <1>2, <1>3, ReboundValues
    <2> QED
      BY <2>1, <2>2 DEF BindingsKept
  <1>9. RowsSoFar'
    <2>1. rows[cur[t]] = <<>> /\ RowCount[cur[t]] \in Nat
      BY <1>2, RequestsAssumption DEF NotYet
    <2> QED
      BY <1>1, <1>2, <2>1 DEF RowsSoFar, TypeOK, Executing
  <1>10. FinishNotMissed'
    BY <1>1, <1>2 DEF FinishNotMissed, TypeOK
  <1> QED
    BY <1>3, <1>4, <1>5, <1>6, <1>7, <1>8, <1>9, <1>10

\* With WAL a statement that has returned a row does not find a lock.
LEMMA LockedAtStart ==
  ASSUME TypeOK, NEW t \in Threads, Busy(t), db.journal = "wal"
  PROVE  pos[t] = 0
  BY DEF TypeOK, Busy, BeginBusy, CommitBusy, Begun

\* The query fails or has to be retried, and execute_query() waits for that.
LEMMA WaitStep ==
  ASSUME IInv, NEW t \in Threads,
         StepLocked(t) \/ StepFails(t) \/ EnterWait(t) \/ Wake(t) \/ WaitTimeout(t)
  PROVE  IInv'
  <1> USE DEF IInv
  <1>1. UNCHANGED <<db, st, queue, cur, bound, pos, rows, resp, committed>>
    BY DEF StepLocked, StepFails, EnterWait, Wake, WaitTimeout, execution, response,
           sqlite
  <1>2. /\ pc[t] \in Executing
        /\ \E state \in (Executing \ {"step"}) \cup {"error"} :
              /\ pc' = [pc EXCEPT ![t] = state]
              /\ state # "error" /\ pc[t] = "step" => Busy(t)
    BY DEF StepLocked, StepFails, EnterWait, Wake, WaitTimeout, Goto, Executing
  <1>3. TypeOK'
    <2>1. left' \in [Threads -> 0 .. db.retries]
      <3>1. db.retries \in Nat
        BY SettingsAssumption DEF TypeOK
      <3>2. CASE StepLocked(t)
        BY <3>1, <3>2 DEF StepLocked, next_row_locked, TypeOK
      <3>3. CASE UNCHANGED left
        BY <3>3 DEF TypeOK
      <3> QED
        BY <3>2, <3>3 DEF StepFails, EnterWait, Wake, WaitTimeout, execution
    <2>2. writer' \in Threads \cup {"none", "foreign"}
      BY DEF StepLocked, StepFails, EnterWait, Wake, WaitTimeout, sqlite,
             LockReleased, TypeOK
    <2>3. finished' \in BOOLEAN
      BY DEF StepLocked, StepFails, EnterWait, Wake, WaitTimeout, TypeOK
    <2>4. pc' \in [Threads -> ThreadStates]
      BY <1>2 DEF TypeOK, ThreadStates, Executing
    <2> QED
      BY <1>1, <2>1, <2>2, <2>3, <2>4 DEF TypeOK
  <1>4. Owned' /\ QueuedOnce'
    BY <1>1, <1>2 DEF Owned, QueuedOnce, TypeOK, Executing
  <1>5. Untouched' /\ FailedEmpty' /\ RowsExact' /\ Prepared'
    BY <1>1 DEF Untouched, FailedEmpty, RowsExact, Prepared
  <1>6. NotYet'
    BY <1>1, <1>2 DEF NotYet, TypeOK, Executing
  <1>7. BindingsKept'
    BY <1>1, <1>2 DEF BindingsKept, statement, TypeOK, Executing
  <1>8. RowsSoFar'
    BY <1>1, <1>2, LockedAtStart DEF RowsSoFar, TypeOK, Executing
  <1>9. FinishNotMissed'
    <2>1. CASE StepLocked(t) \/ StepFails(t)
      BY <2>1 DEF StepLocked, StepFails, Goto, FinishNotMissed, TypeOK
    <2>2. CASE EnterWait(t) \/ Wake(t) \/ WaitTimeout(t)
      BY <2>2 DEF EnterWait, Wake, WaitTimeout, FinishNotMissed
    <2> QED
      BY <2>1, <2>2
  <1> QED
    BY <1>3, <1>4, <1>5, <1>6, <1>7, <1>8, <1>9

\* q.start(true) keeps the bindings.
LEMMA RestartStep ==
  ASSUME IInv, NEW t \in Threads, Restart(t)
  PROVE  IInv'
  <1> USE DEF IInv
  <1>1. UNCHANGED <<db, st, queue, cur, left, rows, resp, finished, writer, committed>>
    BY DEF Restart, response, sqlite
  <1>2. /\ pc[t] = "restart"
        /\ pc' = [pc EXCEPT ![t] = "step"]
        /\ pos' = [pos EXCEPT ![t] = 0]
    BY DEF Restart, Goto
  <1>3. /\ bound' \in [Threads -> [DOMAIN Params -> Seq(SqlValue)]]
        /\ Prepared'
        /\ \A u \in Threads : statement(u)' = statement(u)
    BY <1>1, <1>2, Statement, BoundStep DEF Restart, start
  <1>4. TypeOK'
    BY <1>1, <1>2, <1>3 DEF TypeOK, ThreadStates
  <1>5. Owned' /\ QueuedOnce'
    BY <1>1, <1>2 DEF Owned, QueuedOnce, TypeOK
  <1>6. Untouched' /\ FailedEmpty' /\ RowsExact'
    BY <1>1 DEF Untouched, FailedEmpty, RowsExact
  <1>7. NotYet'
    BY <1>1, <1>2 DEF NotYet, TypeOK
  <1>8. BindingsKept'
    BY <1>1, <1>2, <1>3 DEF BindingsKept, TypeOK, Executing
  <1>9. RowsSoFar'
    BY <1>1, <1>2 DEF RowsSoFar, TypeOK, Executing
  <1>10. FinishNotMissed'
    BY <1>1, <1>2 DEF FinishNotMissed, TypeOK
  <1> QED
    BY <1>3, <1>4, <1>5, <1>6, <1>7, <1>8, <1>9, <1>10

\* A sequence that is extended by the next element of a function
LEMMA AppendNext ==
  ASSUME NEW T, NEW s \in Seq(T), NEW f \in [1 .. Len(s) + 1 -> T],
         \A i \in 1 .. Len(s) : s[i] = f[i]
  PROVE  Append(s, f[Len(s) + 1]) = f
  OBVIOUS

\* Rows that are numbered and otherwise equal
LEMMA AppendRow ==
  ASSUME NEW S, NEW x \in S, NEW p \in Nat
  PROVE  Append([n \in 1 .. p |-> <<n, x>>], <<p + 1, x>>) =
            [n \in 1 .. p + 1 |-> <<n, x>>]
  <1> DEFINE s == [n \in 1 .. p |-> <<n, x>>]
             f == [n \in 1 .. p + 1 |-> <<n, x>>]
  <1>1. s \in [1 .. p -> Nat \X S] /\ f \in [1 .. p + 1 -> Nat \X S]
    OBVIOUS
  <1>2. s \in Seq(Nat \X S) /\ Len(s) = p
    BY <1>1
  <1>3. f[p + 1] = <<p + 1, x>> /\ \A n \in 1 .. p : s[n] = f[n]
    OBVIOUS
  <1> HIDE DEF s, f
  <1>4. Append(s, f[p + 1]) = f
    BY <1>1, <1>2, <1>3, AppendNext
  <1> QED
    BY <1>3, <1>4 DEF s, f

\* A row is added to the response.
LEMMA RowStep ==
  ASSUME IInv, NEW t \in Threads, StepRow(t)
  PROVE  IInv'
  <1> USE DEF IInv
  <1> DEFINE r == cur[t]
             row == next_row(t)
  <1>1. UNCHANGED <<db, st, queue, pc, cur, left, bound, resp, finished, committed>>
    BY DEF StepRow
  <1>2. /\ pc[t] = "step" /\ r \in Requests /\ ~LastStep(t)
        /\ pos' = [pos EXCEPT ![t] = pos[t] + 1]
        /\ rows' = [rows EXCEPT ![r] = Append(rows[r], row)]
    BY DEF StepRow, Owned
  <1>3. row = <<pos[t] + 1, Expected(r)>> /\ row \in Nat \X Seq(Value)
    BY <1>2, NextRow
  <1> HIDE DEF row
  <1>4. TypeOK'
    <2>1. rows' \in [Requests -> Seq(Nat \X Seq(Value))]
      BY <1>2, <1>3 DEF TypeOK
    <2>2. pos' \in [Threads -> Nat]
      BY <1>2 DEF TypeOK
    <2>3. writer' \in Threads \cup {"none", "foreign"}
      BY DEF StepRow, LockTaken, TypeOK
    <2> QED
      BY <1>1, <2>1, <2>2, <2>3 DEF TypeOK
  <1>5. Owned' /\ QueuedOnce' /\ Prepared' /\ BindingsKept' /\ FinishNotMissed'
    BY <1>1 DEF Owned, QueuedOnce, Prepared, BindingsKept, FinishNotMissed, statement
  <1>6. st[r] = "taken" /\ resp[r] = "none"
    BY <1>2 DEF Owned, NotYet
  <1>7. Untouched' /\ FailedEmpty' /\ RowsExact'
    <2>1. \A q \in Requests : q # r => rows'[q] = rows[q]
      BY <1>2 DEF TypeOK
    <2> QED
      BY <1>1, <1>6, <2>1 DEF Untouched, FailedEmpty, RowsExact
  <1>8. NotYet'
    <2>1. \A u \in Threads : pc[u] = "start" => rows'[cur[u]] = rows[cur[u]]
      BY <1>2 DEF Owned, TypeOK
    <2> QED
      BY <1>1, <2>1 DEF NotYet
  <1>9. RowsSoFar'
    <2> SUFFICES ASSUME db.journal = "wal"
                 PROVE  RowsSoFar'
      BY <1>1 DEF RowsSoFar
    <2>1. /\ pos[t] \in Nat /\ RowCount[r] \in Nat /\ pos[t] < RowCount[r]
          /\ rows[r] = [n \in 1 .. pos[t] |-> <<n, Expected(r)>>]
      <3>1. pos[t] \in Nat /\ RowCount[r] \in Nat
        BY <1>2, RequestsAssumption DEF TypeOK
      <3>2. /\ pos[t] <= RowCount[r]
            /\ rows[r] = [n \in 1 .. pos[t] |-> <<n, Expected(r)>>]
        BY <1>2 DEF RowsSoFar, Executing
      <3> QED
        BY <1>2, <3>1, <3>2 DEF LastStep
    <2>2. Append(rows[r], row) = [n \in 1 .. pos[t] + 1 |-> <<n, Expected(r)>>]
      <3>1. Expected(r) \in Seq(Value)
        BY <1>3
      <3> QED
        BY <1>3, <2>1, <3>1, AppendRow
    <2>3. /\ pos'[t] = pos[t] + 1
          /\ rows'[r] = [n \in 1 .. pos'[t] |-> <<n, Expected(r)>>]
      BY <1>2, <2>2 DEF TypeOK
    <2>4. ASSUME NEW u \in Threads, u # t, pc[u] # "idle"
          PROVE  pos'[u] = pos[u] /\ rows'[cur[u]] = rows[cur[u]]
      BY <1>2, <2>4 DEF Owned, TypeOK
    <2>5. \A u \in Threads : pc[u] \in Executing \cup {"done"} => pc[u] # "idle"
      BY DEF Executing
    <2>6. pos'[t] <= RowCount[r]
      BY <2>1, <2>3
    <2> DEFINE Good(u, x, ys) ==
          /\ pc[u] \in Executing \cup {"done"} =>
                /\ x <= RowCount[cur[u]]
                /\ ys = [n \in 1 .. x |-> <<n, Expected(cur[u])>>]
          /\ pc[u] \in Executing \ {"step"} => x = 0
          /\ pc[u] = "done" => x = RowCount[cur[u]]
    <2>7. Good(t, pos'[t], rows'[cur[t]])
      BY <1>2, <2>3, <2>6 DEF Executing
    <2>8. ASSUME NEW u \in Threads, u # t PROVE Good(u, pos'[u], rows'[cur[u]])
      <3>1. Good(u, pos[u], rows[cur[u]])
        BY DEF RowsSoFar
      <3> QED
        BY <2>4, <2>5, <2>8, <3>1
    <2> QED
      BY <1>1, <2>7, <2>8 DEF RowsSoFar
  <1> QED
    BY <1>4, <1>5, <1>7, <1>8, <1>9

\* The last step of the statement, in which it takes effect
LEMMA DoneStep ==
  ASSUME IInv, NEW t \in Threads, StepDone(t)
  PROVE  IInv'
  <1> USE DEF IInv
  <1> DEFINE r == cur[t]
  <1>1. UNCHANGED <<db, st, queue, cur, left, bound, pos, rows, resp, finished>>
    BY DEF StepDone, execution, response
  <1>2. /\ pc[t] = "step" /\ r \in Requests /\ LastStep(t)
        /\ pc' = [pc EXCEPT ![t] = "done"]
        /\ committed' = [committed EXCEPT ![r] = committed[r] + 1]
    BY DEF StepDone, Goto, Owned
  <1>3. TypeOK'
    <2>1. writer' \in Threads \cup {"none", "foreign"}
      BY DEF StepDone, LockReleased, TypeOK
    <2>2. pc' \in [Threads -> ThreadStates]
      BY <1>2 DEF TypeOK, ThreadStates
    <2>3. committed' \in [Requests -> Nat]
      BY <1>2 DEF TypeOK
    <2> QED
      BY <1>1, <2>1, <2>2, <2>3 DEF TypeOK
  <1>4. Owned' /\ QueuedOnce'
    BY <1>1, <1>2 DEF Owned, QueuedOnce, TypeOK
  <1>5. /\ st[r] = "taken" /\ committed[r] = 0 /\ committed'[r] = 1
         /\ \A q \in Requests : q # r => committed'[q] = committed[q]
    <2>1. committed \in [Requests -> Nat]
      BY DEF TypeOK
    <2>2. st[r] = "taken" /\ committed[r] = 0
      BY <1>2 DEF Owned, NotYet
    <2> QED
      BY <1>2, <2>1, <2>2
  <1>6. Untouched' /\ FailedEmpty' /\ RowsExact' /\ Prepared'
    BY <1>1, <1>5 DEF Untouched, FailedEmpty, RowsExact, Prepared
  <1>7. NotYet'
    <2>1. /\ pc'[t] = "done" /\ cur'[t] = r
          /\ \A u \in Threads : u # t => pc'[u] = pc[u] /\ cur'[u] = cur[u]
      BY <1>1, <1>2 DEF TypeOK
    <2>2. resp'[r] = "none" /\ committed'[r] = 1
      BY <1>1, <1>2, <1>5 DEF NotYet
    <2>3. ASSUME NEW u \in Threads, u # t, pc[u] # "idle"
          PROVE  committed'[cur[u]] = committed[cur[u]]
      BY <1>2, <1>5, <2>3 DEF Owned
    <2> QED
      BY <1>1, <2>1, <2>2, <2>3 DEF NotYet
  <1>8. BindingsKept'
    BY <1>1, <1>2 DEF BindingsKept, statement, TypeOK, Executing
  <1>9. RowsSoFar'
    BY <1>1, <1>2 DEF RowsSoFar, TypeOK, Executing, LastStep
  <1>10. FinishNotMissed'
    BY <1>1, <1>2 DEF FinishNotMissed, TypeOK
  <1> QED
    BY <1>3, <1>4, <1>6, <1>7, <1>8, <1>9, <1>10

\* What Finish(t) does to the control states: t replies, and a waiting thread,
\* if there is one, is woken.
LEMMA FinishControl ==
  ASSUME TypeOK, NEW t \in Threads, Finish(t)
  PROVE  /\ pc[t] \in {"done", "error"} /\ pc'[t] = "reply"
         /\ pc' \in [Threads -> ThreadStates]
         /\ \A u \in Threads : u # t =>
               pc'[u] = pc[u] \/ (pc[u] = "waiting" /\ pc'[u] = "woken")
         /\ \/ \A u \in Threads : pc[u] # "waiting"
            \/ \E u \in Threads : pc'[u] = "woken"
  BY DEF Finish, Goto, TypeOK, ThreadStates

\* The end of the query and of run_query()
LEMMA FinishStep ==
  ASSUME IInv, NEW t \in Threads, Finish(t)
  PROVE  IInv'
  <1> USE DEF IInv
  <1> DEFINE r == cur[t]
  <1>1. UNCHANGED <<db, st, queue, cur, bound, writer, committed>>
    BY DEF Finish, sqlite
  <1>2. /\ pc[t] \in {"done", "error"} /\ pc'[t] = "reply"
        /\ pc' \in [Threads -> ThreadStates]
        /\ \A u \in Threads : u # t =>
              pc'[u] = pc[u] \/ (pc[u] = "waiting" /\ pc'[u] = "woken")
        /\ \/ \A u \in Threads : pc[u] # "waiting"
           \/ \E u \in Threads : pc'[u] = "woken"
    BY FinishControl
  <1>3. /\ r \in Requests /\ st[r] = "taken" /\ finished' = TRUE
        /\ left' = [left EXCEPT ![t] = 0] /\ pos' = [pos EXCEPT ![t] = 0]
    BY <1>2 DEF Finish, Owned
  <1>4. \/ /\ pc[t] = "done" /\ UNCHANGED rows
           /\ resp' = [resp EXCEPT ![r] = "ok"]
        \/ /\ pc[t] = "error" /\ rows' = [rows EXCEPT ![r] = <<>>]
           /\ resp' = [resp EXCEPT ![r] = "failed"]
    BY <1>2 DEF Finish, Outcome, FailedResult, FailedRows, TypeOK
  <1>5. TypeOK'
    <2>1. rows' \in [Requests -> Seq(Nat \X Seq(Value))]
      <3>1. <<>> \in Seq(Nat \X Seq(Value))
        OBVIOUS
      <3>2. rows \in [Requests -> Seq(Nat \X Seq(Value))]
        BY DEF TypeOK
      <3>3. UNCHANGED rows \/ rows' = [rows EXCEPT ![r] = <<>>]
        BY <1>4
      <3> QED
        BY <3>1, <3>2, <3>3, Zenon
    <2>2. resp' \in [Requests -> {"none", "ok", "failed"}]
      BY <1>3, <1>4 DEF TypeOK
    <2>3. left' \in [Threads -> 0 .. db.retries] /\ pos' \in [Threads -> Nat]
      BY <1>3, SettingsAssumption DEF TypeOK
    <2> QED
      BY <1>1, <1>2, <1>3, <2>1, <2>2, <2>3 DEF TypeOK
  <1>6. \A u \in Threads : (pc'[u] = "idle" <=> pc[u] = "idle")
    BY <1>2
  <1>7. Owned' /\ QueuedOnce' /\ Prepared'
    BY <1>1, <1>6 DEF Owned, QueuedOnce, Prepared
  <1>8. ASSUME NEW u \in Threads, u # t, pc[u] # "idle"
        PROVE  /\ cur[u] \in Requests /\ cur[u] # r
               /\ resp'[cur[u]] = resp[cur[u]]
               /\ rows'[cur[u]] = rows[cur[u]]
               /\ pos'[u] = pos[u]
    BY <1>2, <1>3, <1>4, <1>8 DEF Owned, TypeOK
  <1>9. Untouched'
    BY <1>1, <1>3, <1>4 DEF Untouched, TypeOK
  <1>10. NotYet'
    BY <1>1, <1>2, <1>8 DEF NotYet
  <1>11. BindingsKept'
    BY <1>1, <1>2 DEF BindingsKept, statement, Executing
  <1>12. RowsSoFar'
    <2> SUFFICES ASSUME db.journal = "wal", NEW u \in Threads, u # t, pc[u] # "idle"
                 PROVE  /\ pc'[u] \in Executing \cup {"done"} =>
                              /\ pos[u] <= RowCount[cur[u]]
                              /\ rows[cur[u]] =
                                    [n \in 1 .. pos[u] |-> <<n, Expected(cur[u])>>]
                        /\ pc'[u] \in Executing \ {"step"} => pos[u] = 0
                        /\ pc'[u] = "done" => pos[u] = RowCount[cur[u]]
      BY <1>1, <1>2, <1>6, <1>8 DEF RowsSoFar, Executing
    <2>1. /\ pc'[u] \in Executing \cup {"done"} => pc[u] \in Executing \cup {"done"}
          /\ pc'[u] \in Executing \ {"step"} => pc[u] \in Executing \ {"step"}
          /\ pc'[u] = "done" => pc[u] = "done"
      BY <1>2 DEF Executing
    <2> QED
      BY <2>1 DEF RowsSoFar
  <1>13. FailedEmpty'
    BY <1>3, <1>4 DEF FailedEmpty, TypeOK
  <1>14. RowsExact'
    <2>1. CASE pc[t] = "done"
      <3>1. /\ resp' = [resp EXCEPT ![r] = "ok"] /\ UNCHANGED rows
            /\ db.journal = "wal" =>
                 rows[r] = [n \in 1 .. RowCount[r] |-> <<n, Expected(r)>>]
        BY <1>4, <2>1 DEF RowsSoFar
      <3>2. \A q \in Requests : q # r => resp'[q] = resp[q]
        BY <3>1 DEF TypeOK
      <3> QED
        BY <1>1, <3>1, <3>2 DEF RowsExact, Expected
    <2>2. CASE pc[t] = "error"
      <3>1. /\ resp'[r] = "failed"
            /\ \A q \in Requests : q # r => resp'[q] = resp[q] /\ rows'[q] = rows[q]
        BY <1>3, <1>4, <2>2 DEF TypeOK
      <3> QED
        BY <1>1, <3>1 DEF RowsExact
    <2> QED
      BY <1>2, <2>1, <2>2
  <1>15. FinishNotMissed'
    BY <1>2 DEF FinishNotMissed
  <1> QED
    BY <1>5, <1>7, <1>9, <1>10, <1>11, <1>12, <1>13, <1>14, <1>15

\* The response is posted, and the thread has nothing to do.
LEMMA ReplyStep ==
  ASSUME IInv, NEW t \in Threads, Reply(t)
  PROVE  IInv'
  <1> USE DEF IInv
  <1> DEFINE r == cur[t]
  <1>1. UNCHANGED <<db, queue, left, bound, pos, rows, resp, finished, writer,
                    committed>>
    BY DEF Reply, execution, response, sqlite
  <1>2. /\ pc[t] = "reply" /\ r \in Requests /\ st[r] = "taken"
        /\ pc' = [pc EXCEPT ![t] = "idle"]
        /\ cur' = [cur EXCEPT ![t] = NoRequest]
        /\ st' = [st EXCEPT ![r] = "posted"]
    BY DEF Reply, Goto, Owned
  <1>3. TypeOK'
    BY <1>1, <1>2 DEF TypeOK, ThreadStates
  <1>4. Owned'
    BY <1>2 DEF Owned, TypeOK
  <1>5. QueuedOnce'
    BY <1>1, <1>2 DEF QueuedOnce, TypeOK
  <1>6. Untouched'
    BY <1>1, <1>2 DEF Untouched, TypeOK
  <1>7. NotYet' /\ Prepared'
    BY <1>1, <1>2 DEF NotYet, Prepared, TypeOK
  <1>8. BindingsKept'
    BY <1>1, <1>2 DEF BindingsKept, statement, TypeOK, Executing
  <1>9. RowsSoFar'
    BY <1>1, <1>2 DEF RowsSoFar, TypeOK, Executing
  <1>10. FailedEmpty' /\ RowsExact'
    BY <1>1 DEF FailedEmpty, RowsExact
  <1>11. FinishNotMissed'
    BY <1>1, <1>2 DEF FinishNotMissed, TypeOK
  <1> QED
    BY <1>3, <1>4, <1>5, <1>6, <1>7, <1>8, <1>9, <1>10, <1>11

\* The invariant is inductive.
LEMMA Inductive == IInv /\ [Next]_vars => IInv'
  <1> SUFFICES ASSUME IInv, [Next]_vars PROVE IInv'
    OBVIOUS
  <1>1. CASE UNCHANGED vars
    <2>1. UNCHANGED <<db, st, queue, pc, cur, left, bound, pos, rows, resp, finished,
                      writer, committed>>
      BY <1>1 DEF vars, execution, response, sqlite
    <2> QED
      BY <2>1 DEF IInv, TypeOK, Owned, QueuedOnce, Untouched, NotYet, Prepared,
         BindingsKept, RowsSoFar, FailedEmpty, RowsExact, FinishNotMissed, statement
  <1>2. ASSUME NEW t \in Threads, ThreadStep(t)
        PROVE  IInv'
    BY <1>2, TakeStep, RefuseStep, StartStep, WaitStep, RestartStep, RowStep,
       DoneStep, FinishStep, ReplyStep DEF ThreadStep
  <1>3. ASSUME NEW r \in Requests, Query(r) \/ Resume(r)
        PROVE  IInv'
    BY <1>3, HandlerStep
  <1> QED
    BY <1>1, <1>2, <1>3, ForeignStep DEF Next

\* The invariant holds initially.
LEMMA Initial == Init => IInv
  <1> SUFFICES ASSUME Init PROVE IInv
    OBVIOUS
  <1>1. TypeOK
    <2>1. ASSUME NEW q \in DOMAIN Params
          PROVE  [i \in 1 .. Params[q] |-> NULL] \in Seq(SqlValue)
      <3>1. Params[q] \in Nat
        BY SettingsAssumption
      <3>2. [i \in 1 .. Params[q] |-> NULL] \in [1 .. Params[q] -> SqlValue]
        BY ValuesTyped
      <3> QED
        BY <3>1, <3>2
    <2>2. bound \in [Threads -> [DOMAIN Params -> Seq(SqlValue)]]
      BY <2>1 DEF Init
    <2>3. db \in DbDefs /\ db.retries \in Nat
      BY SettingsAssumption DEF Init
    <2>4. left \in [Threads -> 0 .. db.retries]
      BY <2>3 DEF Init
    <2>5. rows \in [Requests -> Seq(Nat \X Seq(Value))] /\ queue \in Seq(Requests)
      BY DEF Init
    <2> QED
      BY <2>2, <2>3, <2>4, <2>5 DEF Init, TypeOK, ThreadStates
  <1>2. Prepared
    <2>1. ASSUME NEW q \in DOMAIN Params
          PROVE  Len([i \in 1 .. Params[q] |-> NULL]) = Params[q]
      BY SettingsAssumption
    <2> QED
      BY <2>1 DEF Init, Prepared
  <1> QED
    BY <1>1, <1>2 DEF Init, IInv, Owned, QueuedOnce, Untouched, NotYet,
       BindingsKept, RowsSoFar, FailedEmpty, RowsExact, FinishNotMissed, Executing

------------------------------------------------------------------------------
(* The theorems.                                                           *)

\* The invariant holds in every state that is reached.
LEMMA Invariance == Spec => []IInv
  BY Initial, Inductive, PTL DEF Spec

\* The variables keep their types: the retries of execute_query() do not go below
\* zero or beyond the configured number.
THEOREM ServerTyped == Spec => []TypeOK
  <1>1. IInv => TypeOK
    BY DEF IInv
  <1> QED
    BY <1>1, Invariance, PTL

\* Whatever threads, locks and retries come in between, the response of a query
\* that run_query() reports as failed has no rows.
THEOREM FailureIsEmpty == Spec => []FailedEmpty
  <1>1. IInv => FailedEmpty
    BY DEF IInv
  <1> QED
    BY <1>1, Invariance, PTL

\* With WAL, execute_query() returns each row of a successful query once, in order
\* and for the arguments of its own request.
THEOREM SuccessIsExact == Spec => []RowsExact
  <1>1. IInv => RowsExact
    BY DEF IInv
  <1> QED
    BY <1>1, Invariance, PTL

\* A prepared statement, which all requests of a thread share, is never stepped
\* with a binding left by an earlier request.
THEOREM NoForeignBindings == Spec => []BindingsOwn
  <1>1. IInv => BindingsOwn
    BY DEF IInv, BindingsKept, BindingsOwn, Executing
  <1> QED
    BY <1>1, Invariance, PTL

\* The flag of db_sync_t is never set while all waiting threads sleep on.
THEOREM FinishNoticed == Spec => []FinishNotMissed
  <1>1. IInv => FinishNotMissed
    BY DEF IInv
  <1> QED
    BY <1>1, Invariance, PTL

\* Refinement for every instance: the last step of a statement is Perform, the end
\* of run_query() is Succeed or Refuse, and all waiting, retrying and passing of
\* requests and responses between threads is invisible to DbService.
THEOREM Refinement == Spec => ImplementsService
  <1>1. Init => Service!Init
    BY DEF Init, Service!Init
  <1>2. ASSUME IInv, [Next]_vars
        PROVE  [Service!Next]_<<resp, committed>>
    <2> USE <1>2 DEF IInv
    <2>1. CASE UNCHANGED <<resp, committed>>
      BY <2>1
    <2>2. ASSUME NEW t \in Threads, StepDone(t)
          PROVE  Service!Next
      <3> DEFINE r == cur[t]
      <3>1. /\ r \in Requests /\ resp[r] = "none" /\ committed[r] = 0
            /\ committed' = [committed EXCEPT ![r] = committed[r] + 1]
            /\ UNCHANGED resp
        BY <2>2 DEF StepDone, response, Owned, NotYet
      <3>2. committed' = [committed EXCEPT ![r] = 1]
        BY <3>1 DEF TypeOK
      <3> QED
        BY <3>1, <3>2 DEF Service!Next, Service!Perform
    <2>3. ASSUME NEW t \in Threads, Reject(t) \/ BindFails(t)
          PROVE  Service!Next
      <3> DEFINE r == cur[t]
      <3>1. /\ r \in Requests /\ resp[r] = "none" /\ committed[r] = 0
            /\ resp' = [resp EXCEPT ![r] = "failed"]
            /\ UNCHANGED committed
        BY <2>3 DEF Reject, BindFails, sqlite, Owned, NotYet
      <3>2. Service!Refuse(r)
        BY <3>1 DEF Service!Refuse
      <3> QED
        BY <3>1, <3>2 DEF Service!Next
    <2>4. ASSUME NEW t \in Threads, Finish(t)
          PROVE  Service!Next
      <3> DEFINE r == cur[t]
      <3>1. /\ r \in Requests /\ resp[r] = "none"
            /\ pc[t] \in {"done", "error"}
            /\ pc[t] = "done" => committed[r] = 1
            /\ pc[t] = "error" => committed[r] = 0
            /\ resp' = [resp EXCEPT ![r] = IF pc[t] = "done" THEN "ok" ELSE "failed"]
            /\ UNCHANGED committed
        <4>1. r \in Requests /\ pc[t] \in {"done", "error"} /\ UNCHANGED committed
          BY <2>4 DEF Finish, sqlite, Owned
        <4>2. /\ resp[r] = "none"
              /\ pc[t] = "done" => committed[r] = 1
              /\ pc[t] = "error" => committed[r] = 0
          BY <4>1 DEF NotYet
        <4>3. resp' = [resp EXCEPT ![r] = IF pc[t] = "done" THEN "ok" ELSE "failed"]
          BY <2>4 DEF Finish, Outcome, FailedResult
        <4> QED
          BY <4>1, <4>2, <4>3
      <3>2. CASE pc[t] = "done"
        BY <3>1, <3>2 DEF Service!Next, Service!Succeed
      <3>3. CASE pc[t] = "error"
        BY <3>1, <3>3 DEF Service!Next, Service!Refuse
      <3> QED
        BY <3>1, <3>2, <3>3
    <2>5. ASSUME NEW t \in Threads, ThreadStep(t),
                 ~StepDone(t), ~Reject(t), ~BindFails(t), ~Finish(t)
          PROVE  UNCHANGED <<resp, committed>>
      BY <2>5 DEF ThreadStep, Take, Start, StepLocked, StepFails, StepRow, EnterWait,
         Wake, WaitTimeout, Restart, Reply, response, sqlite
    <2>6. CASE \/ \E r \in Requests : Query(r) \/ Resume(r)
               \/ ForeignLock \/ ForeignUnlock \/ UNCHANGED vars
      BY <2>1, <2>6 DEF Query, Resume, ForeignLock, ForeignUnlock, vars, response,
         sqlite
    <2> QED
      BY <2>1, <2>2, <2>3, <2>4, <2>5, <2>6 DEF Next
  <1> QED
    BY <1>1, <1>2, Invariance, PTL DEF Spec, ImplementsService, Service!Spec

------------------------------------------------------------------------------
(* What is posted back to the connection does not change any more.         *)

\* The states in which the connection has, or is about to get, its response
Answered == {"posted", "answered"}

\* A response is posted only with a result.
Decided ==
    /\ \A r \in Requests : st[r] \in Answered => resp[r] # "none"
    /\ \A t \in Threads : pc[t] = "reply" => resp[cur[t]] # "none"

\* db_server::query() hands the response of run_query() over to the completion that
\* call_query() posts, and the thread goes on to other requests with the same
\* prepared statements.  From then on no step of any thread changes the result or
\* the rows, or lets the request take effect again, and a response is not handed
\* over without a result.
AnswerKept ==
    [][\A r \in Requests : st[r] \in Answered =>
          /\ st'[r] \in Answered
          /\ resp[r] # "none" /\ resp'[r] = resp[r]
          /\ rows'[r] = rows[r] /\ committed'[r] = committed[r]]_vars

\* A thread changes the response of its own request, and no other.
LEMMA OwnResponse ==
  ASSUME IInv, NEW t \in Threads, ThreadStep(t), NEW r \in Requests,
         pc[t] = "idle" \/ cur[t] # r
  PROVE  resp'[r] = resp[r] /\ rows'[r] = rows[r] /\ committed'[r] = committed[r]
  <1>1. pc[t] = "idle" => Take(t)
    BY DEF ThreadStep, Reject, BindFails, Start, StepLocked, StepFails, StepRow,
       StepDone, EnterWait, Wake, WaitTimeout, Restart, Finish, Reply
  <1>2. CASE UNCHANGED <<resp, rows, committed>>
    BY <1>2
  <1>3. CASE Reject(t) \/ BindFails(t) \/ StepRow(t) \/ StepDone(t) \/ Finish(t)
    <2>1. pc[t] # "idle" /\ cur[t] # r
      BY <1>3 DEF Reject, BindFails, StepRow, StepDone, Finish
    <2>2. UNCHANGED resp \/ \E x : resp' = [resp EXCEPT ![cur[t]] = x]
      BY <1>3 DEF Reject, BindFails, StepRow, StepDone, Finish, response
    <2>3. UNCHANGED rows \/ \E x : rows' = [rows EXCEPT ![cur[t]] = x]
      BY <1>3 DEF Reject, BindFails, StepRow, StepDone, Finish, response
    <2>4. UNCHANGED committed \/ \E x : committed' = [committed EXCEPT ![cur[t]] = x]
      BY <1>3 DEF Reject, BindFails, StepRow, StepDone, Finish, sqlite
    <2> QED
      BY <2>1, <2>2, <2>3, <2>4 DEF IInv, TypeOK
  <1>4. CASE \/ Take(t) \/ Start(t) \/ StepLocked(t) \/ StepFails(t) \/ EnterWait(t)
             \/ Wake(t) \/ WaitTimeout(t) \/ Restart(t) \/ Reply(t)
    BY <1>2, <1>4 DEF Take, Start, StepLocked, StepFails, EnterWait, Wake,
       WaitTimeout, Restart, Reply, response, sqlite
  <1> QED
    BY <1>3, <1>4 DEF ThreadStep

\* The steps of connections and of other processes do not touch responses.
LEMMA OtherSteps ==
  ASSUME IInv, \/ \E r \in Requests : Query(r) \/ Resume(r)
               \/ ForeignLock \/ ForeignUnlock \/ UNCHANGED vars
  PROVE  /\ UNCHANGED <<resp, rows, committed, pc, cur>>
         /\ \A r \in Requests : st'[r] \in Answered <=> st[r] \in Answered
  <1>1. UNCHANGED <<resp, rows, committed, pc, cur>>
    BY DEF Query, Resume, ForeignLock, ForeignUnlock, vars, response, sqlite
  <1>2. CASE \E r \in Requests : Query(r) \/ Resume(r)
    BY <1>1, <1>2 DEF IInv, TypeOK, Query, Resume, Answered
  <1>3. CASE ForeignLock \/ ForeignUnlock \/ UNCHANGED vars
    BY <1>1, <1>3 DEF ForeignLock, ForeignUnlock, vars
  <1> QED
    BY <1>1, <1>2, <1>3

\* A step of a thread posts at most the response of its own request.
LEMMA Posting ==
  ASSUME IInv, NEW t \in Threads, ThreadStep(t), NEW r \in Requests
  PROVE  /\ st[r] \in Answered => st'[r] \in Answered
         /\ st'[r] \in Answered =>
               st[r] \in Answered \/ (pc[t] = "reply" /\ cur[t] = r /\ resp' = resp)
  <1>1. CASE Take(t)
    <2>1. Head(queue) \in Requests /\ st[Head(queue)] = "queued"
      BY <1>1 DEF IInv, TypeOK, QueuedOnce, Take
    <2> QED
      BY <1>1, <2>1 DEF IInv, TypeOK, Take, Answered
  <1>2. CASE Reply(t)
    <2>1. pc[t] = "reply" /\ cur[t] \in Requests /\ resp' = resp
      BY <1>2 DEF IInv, Owned, Reply, response
    <2> QED
      BY <1>2, <2>1 DEF IInv, TypeOK, Reply, Answered
  <1>3. CASE ~Take(t) /\ ~Reply(t)
    <2>1. UNCHANGED st
      BY <1>3 DEF ThreadStep, Reject, BindFails, Start, StepLocked, StepFails, StepRow,
         StepDone, EnterWait, Wake, WaitTimeout, Restart, Finish
    <2> QED
      BY <2>1
  <1> QED
    BY <1>1, <1>2, <1>3

\* A thread comes to the reply with the result of its request.
LEMMA Replying ==
  ASSUME IInv, Decided, NEW t \in Threads, ThreadStep(t), NEW u \in Threads,
         pc'[u] = "reply"
  PROVE  resp'[cur'[u]] # "none"
  <1>1. CASE u # t
    <2>1. pc'[u] = "reply" => pc[u] = "reply" /\ cur'[u] = cur[u]
      <3>1. UNCHANGED cur \/ \E x : cur' = [cur EXCEPT ![t] = x]
        BY DEF ThreadStep, Take, Reject, BindFails, Start, StepLocked, StepFails, StepRow,
           StepDone, EnterWait, Wake, WaitTimeout, Restart, Finish, Reply
      <3>2. cur'[u] = cur[u]
        BY <1>1, <3>1 DEF IInv, TypeOK
      <3>3. CASE Finish(t)
        BY <1>1, <3>2, <3>3 DEF IInv, TypeOK, Finish, Goto
      <3>4. CASE ~Finish(t)
        <4>1. UNCHANGED pc \/ \E x : pc' = [pc EXCEPT ![t] = x]
          BY <3>4 DEF ThreadStep, Take, Reject, BindFails, Start, StepLocked, StepFails,
             StepRow, StepDone, EnterWait, Wake, WaitTimeout, Restart, Reply, Goto
        <4> QED
          BY <1>1, <3>2, <4>1 DEF IInv, TypeOK
      <3> QED
        BY <3>3, <3>4
    <2>2. /\ cur[u] \in Requests /\ resp[cur[u]] # "none"
          /\ pc[t] = "idle" \/ cur[t] # cur[u]
      BY <1>1, <2>1 DEF IInv, Owned, Decided
    <2> QED
      BY <2>1, <2>2, OwnResponse
  <1>2. CASE u = t
    <2>1. pc[t] # "idle" => cur[t] \in Requests
      BY DEF IInv, Owned
    <2>2. CASE Reject(t) \/ BindFails(t)
      <3>1. /\ pc[t] # "idle" /\ cur' = cur
            /\ resp' = [resp EXCEPT ![cur[t]] = "failed"]
        BY <2>2 DEF Reject, BindFails
      <3> QED
        BY <1>2, <2>1, <3>1 DEF IInv, TypeOK
    <2>3. CASE Finish(t)
      <3>1. /\ pc[t] # "idle" /\ cur' = cur
            /\ resp' = [resp EXCEPT ![cur[t]] = Outcome(t)]
        BY <2>3 DEF Finish
      <3>2. Outcome(t) # "none"
        BY DEF Outcome, FailedResult
      <3> QED
        BY <1>2, <2>1, <3>1, <3>2 DEF IInv, TypeOK
    <2>4. CASE ~Reject(t) /\ ~BindFails(t) /\ ~Finish(t)
      <3>1. pc'[t] # "reply"
        BY <2>4 DEF IInv, TypeOK, ThreadStep, Take, Start, StepLocked, StepFails, StepRow,
           StepDone, EnterWait, Wake, WaitTimeout, Restart, Reply, Goto
      <3> QED
        BY <1>2, <3>1
    <2> QED
      BY <2>2, <2>3, <2>4
  <1> QED
    BY <1>1, <1>2

\* Decided is inductive together with the invariant.
LEMMA DecidedKept == IInv /\ Decided /\ [Next]_vars => Decided'
  <1> SUFFICES ASSUME IInv, Decided, [Next]_vars PROVE Decided'
    OBVIOUS
  <1>1. ASSUME NEW t \in Threads, ThreadStep(t)
        PROVE  Decided'
    <2>1. ASSUME NEW r \in Requests, st'[r] \in Answered
          PROVE  resp'[r] # "none"
      <3>1. CASE st[r] \in Answered
        <4>1. pc[t] = "idle" \/ cur[t] # r
          BY <3>1 DEF IInv, Owned, Answered
        <4> QED
          BY <1>1, <3>1, <4>1, OwnResponse DEF Decided
      <3>2. CASE pc[t] = "reply" /\ cur[t] = r /\ resp' = resp
        BY <3>2 DEF Decided
      <3> QED
        BY <1>1, <2>1, <3>1, <3>2, Posting
    <2>2. \A u \in Threads : pc'[u] = "reply" => resp'[cur'[u]] # "none"
      BY <1>1, Replying
    <2> QED
      BY <2>1, <2>2 DEF Decided
  <1>2. CASE \/ \E r \in Requests : Query(r) \/ Resume(r)
             \/ ForeignLock \/ ForeignUnlock \/ UNCHANGED vars
    BY <1>2, OtherSteps DEF Decided
  <1> QED
    BY <1>1, <1>2 DEF Next

\* For every pool of threads: the response that run_query() has posted is final,
\* it has a result, and no retry or other request changes what the client is told
\* or what was done.
THEOREM AnswersFinal == Spec => AnswerKept
  <1>1. Init => Decided
    BY DEF Init, Decided, Answered
  <1>2. IInv /\ Decided /\ [Next]_vars =>
          [\A r \in Requests : st[r] \in Answered =>
              /\ st'[r] \in Answered
              /\ resp[r] # "none" /\ resp'[r] = resp[r]
              /\ rows'[r] = rows[r] /\ committed'[r] = committed[r]]_vars
    <2> SUFFICES ASSUME IInv, Decided, Next, NEW r \in Requests, st[r] \in Answered
                 PROVE  /\ st'[r] \in Answered
                        /\ resp[r] # "none" /\ resp'[r] = resp[r]
                        /\ rows'[r] = rows[r] /\ committed'[r] = committed[r]
      OBVIOUS
    <2>1. resp[r] # "none"
      BY DEF Decided
    <2>2. ASSUME NEW t \in Threads, ThreadStep(t)
          PROVE  /\ st'[r] \in Answered /\ resp'[r] = resp[r]
                 /\ rows'[r] = rows[r] /\ committed'[r] = committed[r]
      <3>1. pc[t] = "idle" \/ cur[t] # r
        BY DEF IInv, Owned, Answered
      <3> QED
        BY <2>2, <3>1, OwnResponse, Posting
    <2>3. CASE (\E q \in Requests : Query(q) \/ Resume(q)) \/ ForeignLock \/ ForeignUnlock
      <3>1. /\ UNCHANGED <<resp, rows, committed>>
            /\ st'[r] \in Answered <=> st[r] \in Answered
        BY <2>3, OtherSteps
      <3> QED
        BY <2>1, <3>1
    <2> QED
      BY <2>1, <2>2, <2>3 DEF Next
  <1>3. Spec => []Decided
    BY <1>1, DecidedKept, Invariance, PTL DEF Spec
  <1> QED
    BY <1>2, <1>3, Invariance, PTL DEF Spec, AnswerKept
==============================================================================
