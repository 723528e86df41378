------------------------------- MODULE DbServer -------------------------------
(***************************************************************************)
(* db_server: requests posted by HTTP handlers are executed by the threads *)
(* of the database pool, each with its own SQLite connection, and retried  *)
(* while the database is locked.                                           *)
(*                                                                         *)
(* Queries for different databases share neither locks nor the db_sync_t   *)
(* object, so one database is modelled.  SQLite is external: a statement   *)
(* takes the lock it needs in its first sqlite3_step(), holds it until the *)
(* last one, in which a write is committed, and has nothing left of it     *)
(* after an error.  With a rollback journal a commit is refused while      *)
(* there are readers; with WAL, which create_db.sh sets, it is not.        *)
(***************************************************************************)
EXTENDS Sqlite3, FiniteSets

CONSTANTS
    Threads,          \* the threads of the database pool
    Requests,         \* the requests that arrive
    query_id,         \* of each: the name of its query
    args,             \* its arguments
    RowCount,         \* the rows that it returns (a write: RETURNING)
    retry_if_locked,  \* whether it asks for retries
    Writes,           \* the names of the queries that write
    Params,           \* the number of parameters of each query
    DbDefs,           \* the databases that may be configured: the names of the
                      \*   queries, retries, whether retry_wait > 0, and the
                      \*   journal mode of the file, "wal" or "rollback"
    NoRequest         \* what an idle thread executes

ASSUME RequestsAssumption ==
    /\ NoRequest \notin Requests
    /\ query_id \in [Requests -> DOMAIN Params]
    /\ args \in [Requests -> Seq(Value)]
    /\ RowCount \in [Requests -> Nat]
    /\ retry_if_locked \in [Requests -> BOOLEAN]

ASSUME SettingsAssumption ==
    /\ Threads \cap {"none", "foreign"} = {}
    /\ Params \in [DOMAIN Params -> Nat]
    /\ DbDefs \subseteq [queries : SUBSET DOMAIN Params, retries : Nat,
                         retry_wait : BOOLEAN, journal : {"wal", "rollback"}]

VARIABLES
    db,        \* db_def_t, the same in all threads
    st,        \* where each request is on its way
    queue,     \* what is posted to the database pool and not taken
    pc,        \* the control state of each thread
    cur,       \* the request that it executes
    left,      \* execute_query()'s retries
    bound,     \* the values bound to the parameters of its statements
    pos,       \* the rows that its statement has returned since its (re)start
    rows,      \* response.rows of each request
    resp,      \* response.ok of each request
    finished,  \* db.sync->finished
    writer,    \* SQLite: who holds the write lock, "foreign": another process
    committed  \* SQLite: the number of times the request has taken effect

execution == <<left, bound, pos>>
response == <<rows, resp>>
sqlite == <<writer, committed>>
vars == <<db, st, queue, pc, cur, execution, response, finished, sqlite>>

ThreadStates == {"idle", "start", "step", "enter_wait", "waiting", "woken",
                 "restart", "done", "error", "reply"}

TypeOK ==
    /\ db \in DbDefs
    /\ st \in [Requests -> {"new", "queued", "taken", "posted", "answered"}]
    /\ queue \in Seq(Requests)
    /\ pc \in [Threads -> ThreadStates]
    /\ cur \in [Threads -> Requests \cup {NoRequest}]
    /\ left \in [Threads -> 0 .. db.retries]
    /\ bound \in [Threads -> [DOMAIN Params -> Seq(SqlValue)]]
    /\ pos \in [Threads -> Nat]
    /\ rows \in [Requests -> Seq(Nat \X Seq(Value))]
    /\ resp \in [Requests -> {"none", "ok", "failed"}]
    /\ finished \in BOOLEAN
    /\ writer \in Threads \cup {"none", "foreign"}
    /\ committed \in [Requests -> Nat]

Init ==
    /\ db \in DbDefs
    /\ st = [r \in Requests |-> "new"]
    /\ queue = <<>>
    /\ pc = [t \in Threads |-> "idle"]
    /\ cur = [t \in Threads |-> NoRequest]
    /\ left = [t \in Threads |-> 0]
    /\ bound = [t \in Threads |->
                  [q \in DOMAIN Params |-> [i \in 1 .. Params[q] |-> NULL]]]
    /\ pos = [t \in Threads |-> 0]
    /\ rows = [r \in Requests |-> <<>>]
    /\ resp = [r \in Requests |-> "none"]
    /\ finished = FALSE
    /\ writer = "none"
    /\ committed = [r \in Requests |-> 0]

------------------------------------------------------------------------------
(* The handler's side: db::handle_async() and call_query()                 *)

\* The coroutine is suspended and the request posted to the database pool.
Query(r) ==
    /\ st[r] = "new"
    /\ st' = [st EXCEPT ![r] = "queued"]
    /\ queue' = Append(queue, r)
    /\ UNCHANGED <<db, pc, cur, execution, response, finished, sqlite>>

\* The response posted back to the executor of the coroutine resumes it.
Resume(r) ==
    /\ st[r] = "posted"
    /\ st' = [st EXCEPT ![r] = "answered"]
    /\ UNCHANGED <<db, queue, pc, cur, execution, response, finished, sqlite>>

------------------------------------------------------------------------------
(* SQLite                                                                  *)

IsWrite(t) == query_id[cur[t]] \in Writes

Begun(t) == pos[t] > 0

Readers == {t \in Threads : pc[t] = "step" /\ Begun(t) /\ ~IsWrite(t)}

BeginBusy(t) ==
    /\ ~Begun(t)
    /\ IF IsWrite(t) THEN writer # "none"
                     ELSE db.journal = "rollback" /\ writer = "foreign"

LastStep(t) == pos[t] = RowCount[cur[t]]

CommitBusy(t) ==
    /\ LastStep(t) /\ IsWrite(t)
    /\ db.journal = "rollback" /\ Readers # {}

Busy(t) == BeginBusy(t) \/ CommitBusy(t)

\* The write lock after a step that goes on, and after the statement has ended.
LockTaken(t) == IF IsWrite(t) THEN t ELSE writer
LockReleased(t) == IF writer = t THEN "none" ELSE writer

ForeignLock ==
    /\ writer = "none"
    /\ writer' = "foreign"
    /\ UNCHANGED <<db, st, queue, pc, cur, execution, response, finished, committed>>

ForeignUnlock ==
    /\ writer = "foreign"
    /\ writer' = "none"
    /\ UNCHANGED <<db, st, queue, pc, cur, execution, response, finished, committed>>

------------------------------------------------------------------------------
(* db_server::run_query() and execute_query() in a thread of the pool      *)

Goto(t, state) == pc' = [pc EXCEPT ![t] = state]

\* The prepared statement that thread t executes: one of its own
statement(t) == bound[t][query_id[cur[t]]]

Bound(t, values) == bound' = [bound EXCEPT ![t][query_id[cur[t]]] = values]

Take(t) ==
    /\ pc[t] = "idle" /\ queue # <<>>
    /\ Goto(t, "start")
    /\ cur' = [cur EXCEPT ![t] = Head(queue)]
    /\ queue' = Tail(queue)
    /\ st' = [st EXCEPT ![Head(queue)] = "taken"]
    /\ UNCHANGED <<db, execution, response, finished, sqlite>>

\* The database or the query is not found.
Reject(t) ==
    /\ pc[t] = "start" /\ query_id[cur[t]] \notin db.queries
    /\ Goto(t, "reply")
    /\ resp' = [resp EXCEPT ![cur[t]] = "failed"]
    /\ UNCHANGED <<db, st, queue, cur, execution, rows, finished, sqlite>>

Rebound(t) == bind_all(args[cur[t]], start(FALSE, statement(t)))

\* There are more arguments than parameters: bind() throws, with the others
\* bound and before execute_query() is called, so nobody is notified.
BindFails(t) ==
    /\ pc[t] = "start" /\ query_id[cur[t]] \in db.queries
    /\ bind_throws(args[cur[t]], statement(t))
    /\ Goto(t, "reply")
    /\ Bound(t, Rebound(t))
    /\ resp' = [resp EXCEPT ![cur[t]] = "failed"]
    /\ UNCHANGED <<db, st, queue, cur, left, pos, rows, finished, sqlite>>

\* start(false), bind() and the call of execute_query()
Start(t) ==
    /\ pc[t] = "start" /\ query_id[cur[t]] \in db.queries
    /\ ~bind_throws(args[cur[t]], statement(t))
    /\ Goto(t, "step")
    /\ Bound(t, Rebound(t))
    /\ left' = [left EXCEPT ![t] = IF retry_if_locked[cur[t]] THEN db.retries ELSE 0]
    /\ pos' = [pos EXCEPT ![t] = 0]
    /\ UNCHANGED <<db, st, queue, cur, response, finished, sqlite>>

\* Faulty: a locked database is never an error.
next_row_locked_Always(t) == TRUE

\* next_row() reports a locked database only while there are retries left.
next_row_locked(t) == left[t] > 0

StepLocked(t) ==
    /\ pc[t] = "step" /\ Busy(t) /\ next_row_locked(t)
    /\ Goto(t, IF db.retry_wait THEN "enter_wait" ELSE "restart")
    /\ left' = [left EXCEPT ![t] = @ - 1]
    /\ writer' = LockReleased(t)
    /\ UNCHANGED <<db, st, queue, cur, bound, pos, response, finished, committed>>

\* Any other failure, a constraint or an interrupt, may come at any step.
StepFails(t) ==
    /\ pc[t] = "step"
    /\ Busy(t) => ~next_row_locked(t)
    /\ Goto(t, "error")
    /\ writer' = LockReleased(t)
    /\ UNCHANGED <<db, st, queue, cur, execution, response, finished, committed>>

\* The next row of a statement; its columns show what it was bound to.
next_row(t) ==
    <<pos[t] + 1, [i \in DOMAIN statement(t) |-> add_column(get_column(statement(t)[i]))]>>

StepRow(t) ==
    /\ pc[t] = "step" /\ ~Busy(t) /\ ~LastStep(t)
    /\ pos' = [pos EXCEPT ![t] = @ + 1]
    /\ rows' = [rows EXCEPT ![cur[t]] = Append(@, next_row(t))]
    /\ writer' = LockTaken(t)
    /\ UNCHANGED <<db, st, queue, pc, cur, left, bound, resp, finished, committed>>

\* Faulty: the loop of execute_query() does not end with the statement while there
\* are retries left.
StepDone_Again(t) ==
    /\ pc[t] = "step" /\ ~Busy(t) /\ LastStep(t)
    /\ Goto(t, IF left[t] > 0 THEN "restart" ELSE "done")
    /\ left' = [left EXCEPT ![t] = IF @ > 0 THEN @ - 1 ELSE 0]
    /\ committed' = [committed EXCEPT ![cur[t]] = @ + 1]
    /\ writer' = LockReleased(t)
    /\ UNCHANGED <<db, st, queue, cur, bound, pos, response, finished>>

StepDone(t) ==
    /\ pc[t] = "step" /\ ~Busy(t) /\ LastStep(t)
    /\ Goto(t, "done")
    /\ committed' = [committed EXCEPT ![cur[t]] = @ + 1]
    /\ writer' = LockReleased(t)
    /\ UNCHANGED <<db, st, queue, cur, execution, response, finished>>

\* Faulty: the thread sleeps without looking at finished.
EnterWait_NoPredicate(t) ==
    /\ pc[t] = "enter_wait"
    /\ Goto(t, "waiting")
    /\ UNCHANGED <<db, st, queue, cur, execution, response, finished, sqlite>>

\* wait_for() tests the flag under the mutex before it blocks.
EnterWait(t) ==
    /\ pc[t] = "enter_wait"
    /\ Goto(t, IF finished THEN "restart" ELSE "waiting")
    /\ finished' = FALSE
    /\ UNCHANGED <<db, st, queue, cur, execution, response, sqlite>>

\* A notified thread tests it again: another one may have taken it.
Wake(t) ==
    /\ pc[t] = "woken"
    /\ Goto(t, IF finished THEN "restart" ELSE "waiting")
    /\ finished' = FALSE
    /\ UNCHANGED <<db, st, queue, cur, execution, response, sqlite>>

\* Faulty: wait() instead of wait_for().
WaitTimeout_Never(t) == FALSE /\ UNCHANGED vars

\* retry_wait has passed; the flag is reset also in this case.
WaitTimeout(t) ==
    /\ pc[t] \in {"waiting", "woken"}
    /\ Goto(t, "restart")
    /\ finished' = FALSE
    /\ UNCHANGED <<db, st, queue, cur, execution, response, sqlite>>

\* q.start(true): the statement begins again, the response is kept.
Restart(t) ==
    /\ pc[t] = "restart"
    /\ Goto(t, "step")
    /\ Bound(t, start(TRUE, statement(t)))
    /\ pos' = [pos EXCEPT ![t] = 0]
    /\ UNCHANGED <<db, st, queue, cur, left, response, finished, sqlite>>

\* Faulty: the rows read before the error stay in the response.
FailedRows_Kept(r) == rows[r]

FailedRows(r) == <<>>

FailedResult == "failed"

\* How run_query() ends: normally or in its catch clause
Outcome(t) == IF pc[t] = "done" THEN "ok" ELSE FailedResult

\* The destructor of signal_finished, then the end of run_query() or its
\* catch clause.
Finish(t) ==
    /\ pc[t] \in {"done", "error"}
    /\ finished' = TRUE
    /\ \/ /\ \A u \in Threads : pc[u] # "waiting"
          /\ Goto(t, "reply")
       \/ \E u \in Threads : /\ pc[u] = "waiting"
                             /\ pc' = [pc EXCEPT ![t] = "reply", ![u] = "woken"]
    /\ resp' = [resp EXCEPT ![cur[t]] = Outcome(t)]
    /\ rows' = [rows EXCEPT ![cur[t]] =
                  IF pc[t] = "done" THEN @ ELSE FailedRows(cur[t])]
    /\ left' = [left EXCEPT ![t] = 0]
    /\ pos' = [pos EXCEPT ![t] = 0]
    /\ UNCHANGED <<db, st, queue, cur, bound, sqlite>>

\* The completion handler posts the response to the connection's executor.
Reply(t) ==
    /\ pc[t] = "reply"
    /\ Goto(t, "idle")
    /\ st' = [st EXCEPT ![cur[t]] = "posted"]
    /\ cur' = [cur EXCEPT ![t] = NoRequest]
    /\ UNCHANGED <<db, queue, execution, response, finished, sqlite>>

------------------------------------------------------------------------------
ThreadStep(t) ==
    \/ Take(t) \/ Reject(t) \/ BindFails(t) \/ Start(t) \/ StepLocked(t)
    \/ StepFails(t) \/ StepRow(t) \/ StepDone(t) \/ EnterWait(t) \/ Wake(t)
    \/ WaitTimeout(t) \/ Restart(t) \/ Finish(t) \/ Reply(t)

Next == \/ \E t \in Threads : ThreadStep(t)
        \/ \E r \in Requests : Query(r) \/ Resume(r)
        \/ ForeignLock \/ ForeignUnlock

(***************************************************************************)
(* Threads run and time passes.  Nobody is obliged to send a request, and  *)
(* another process may keep the database locked forever.                   *)
(***************************************************************************)
Fairness == /\ \A t \in Threads : WF_vars(ThreadStep(t))
            /\ \A r \in Requests : WF_vars(Resume(r))

Spec == Init /\ [][Next]_vars

FairSpec == Spec /\ Fairness

------------------------------------------------------------------------------
(* Properties *)

\* A failed query returns no rows, though it may have read some before it
\* failed, and though it may have been restarted in between.
FailedEmpty == \A r \in Requests : resp[r] = "failed" => rows[r] = <<>>

\* What the client gets for one of its arguments: NULL for a missing or unset
\* one and for NaN, otherwise the same case and datum.
Returned(r, i) ==
    IF i > Len(args[r]) THEN NullValue
    ELSE IF args[r][i][1] = "not_set" \/ args[r][i] = <<"v_double", "nan">>
    THEN NullValue
    ELSE args[r][i]

\* A successful query returns each of its rows exactly once and in order, also
\* after it was retried, and they are the rows for its own arguments, whatever
\* the statement was used for before.
RowsExact ==
    \A r \in Requests : resp[r] = "ok" /\ db.journal = "wal" =>
        rows[r] = [n \in 1 .. RowCount[r] |->
                     <<n, [i \in 1 .. Params[query_id[r]] |-> Returned(r, i)]>>]

\* A statement is stepped with nothing bound but the arguments of the request:
\* text and blobs are bound by pointers into it (SQLITE_STATIC), and those of
\* an earlier request would dangle.
BindingsOwn ==
    \A t \in Threads : pc[t] = "step" =>
        \A i \in DOMAIN statement(t) :
            statement(t)[i] = IF i <= Len(args[cur[t]]) THEN bind(args[cur[t]][i])
                                                        ELSE NULL

\* A query that ends is not overlooked by the threads that wait for it: if the
\* flag is set while a thread sleeps, a thread has been woken to look at it.
FinishNotMissed ==
    finished /\ (\E t \in Threads : pc[t] = "waiting") =>
        \E t \in Threads : pc[t] = "woken"

\* Every request is answered, whoever holds the lock and however long: retries
\* are bounded, and waiting for them too.  (Each request is sent once, so it is
\* enough that again and again nothing that was sent lacks an answer.)
AllAnswered == []<>(\A r \in Requests : st[r] \in {"new", "answered"})

Service == INSTANCE DbService
    WITH answer <- resp, effects <- committed

\* Refinement: the statement of a request takes effect at most once, in spite
\* of retries (each time that it does is counted), and the response says whether
\* it did.
ImplementsService == Service!Spec
==============================================================================
