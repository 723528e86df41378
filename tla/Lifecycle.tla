------------------------------- MODULE Lifecycle -------------------------------
(***************************************************************************)
(* The life of the process: application::run() in the main thread, the     *)
(* thread pools, the handler of SIGINT and SIGTERM in the control pool,    *)
(* and the coroutines of connections, which are destroyed by whatever owns *)
(* them when the program ends.                                             *)
(*                                                                         *)
(* A connection is ready to run in its pool, running on a thread, waiting  *)
(* for I/O in its pool's io_context, or owned by a request in the database *)
(* pool.  What it does is in HttpConnection and DbServer.                  *)
(***************************************************************************)
EXTENDS Naturals, FiniteSets

CONSTANTS
    Connections,  \* the connections that may be accepted
    main_pools,   \* the number of main pools
    threads       \* the number of threads in each pool

ASSUME PoolsAssumption == main_pools \in Nat \ {0} /\ threads \in Nat \ {0}

ASSUME ConnectionsAssumption == "none" \notin Connections

Control == <<"control", 1>>
Database == <<"database", 1>>
Main(i) == <<"main", i>>
MainPools == {Main(i) : i \in 1 .. main_pools}
AcceptorPool == Main(main_pools)
Pools == MainPools \cup {Control, Database}
Workers == Pools \X (1 .. threads)

VARIABLES
    main,     \* the control state of the main thread in application::run()
    i,        \* its loop variable
    result,   \* what application::run() returns
    thr,      \* the state of each worker thread
    task,     \* the connection that a busy thread runs
    stopped,  \* io_context::stopped() of each pool
    work,     \* whether the pool's executor_work_guard keeps it running
    ctx,      \* whether its io_context has not been destroyed
    sig,      \* the termination signal and its handler
    conn,     \* the state of each connection's coroutine
    home,     \* the pool whose strand it runs on
    http,     \* whether http_srv exists
    late      \* the connections whose at_end ran when http_srv did not exist

mainVars == <<main, i, result>>
threadVars == <<thr, task>>
poolVars == <<stopped, work, ctx>>
connVars == <<conn, home, http, late>>
vars == <<mainVars, threadVars, poolVars, sig, connVars>>

MainStates == {"configure", "db_run", "http_run", "run_control", "run_main",
               "run_database", "wait_control", "wait_main", "wait_database",
               "destroy_http", "reset_acceptor", "destroy_database",
               "destroy_main", "exit"}

ConnStates == {"none", "spawned", "ready", "running", "io", "db_queued",
               "db_running", "ended"}

\* The states in which a coroutine belongs to the io_context of its pool.
Owned == {"spawned", "ready", "running", "io"}

SigStates == {"none", "pending", "stop_main", "stop_database", "interrupt",
              "handled"}

NoTask == "none"

TypeOK ==
    /\ main \in MainStates
    /\ i \in 1 .. main_pools
    /\ result \in {"none", "success", "failure"}
    /\ thr \in [Workers -> {"new", "loop", "run", "busy", "exited"}]
    /\ task \in [Workers -> Connections \cup {NoTask}]
    /\ stopped \in [Pools -> BOOLEAN]
    /\ work \in [Pools -> BOOLEAN]
    /\ ctx \in [Pools -> BOOLEAN]
    /\ sig \in SigStates
    /\ conn \in [Connections -> ConnStates]
    /\ home \in [Connections -> MainPools]
    /\ http \in BOOLEAN
    /\ late \subseteq Connections

Init ==
    /\ main = "configure"
    /\ i = 1
    /\ result = "none"
    /\ thr = [w \in Workers |-> "new"]
    /\ task = [w \in Workers |-> NoTask]
    /\ stopped = [p \in Pools |-> FALSE]
    /\ work = [p \in Pools |-> TRUE]
    /\ ctx = [p \in Pools |-> TRUE]
    /\ sig = "none"
    /\ conn = [c \in Connections |-> "none"]
    /\ home \in [Connections -> MainPools]
    /\ http = FALSE
    /\ late = {}

------------------------------------------------------------------------------
(* thread_pool                                                             *)

InPool(p) == {w \in Workers : w[1] = p}

\* Faulty: the io_context is restarted first, which forgets an earlier stop().
PoolRun_Restart(p, persistent) ==
    /\ thr' = [w \in Workers |-> IF w \in InPool(p) THEN "loop" ELSE thr[w]]
    /\ work' = [work EXCEPT ![p] = persistent]
    /\ stopped' = [stopped EXCEPT ![p] = FALSE]

\* run(): without persistent, the threads end when they run out of work.
PoolRun(p, persistent) ==
    /\ thr' = [w \in Workers |-> IF w \in InPool(p) THEN "loop" ELSE thr[w]]
    /\ work' = [work EXCEPT ![p] = persistent]
    /\ UNCHANGED stopped

PoolStop(p) == stopped' = [stopped EXCEPT ![p] = TRUE]

\* wait(): nothing to join if the pool has not been started.
PoolWaited(p) == \A w \in InPool(p) : thr[w] \in {"new", "exited"}

\* while (!ctx.stopped())
ThreadLoop(w) ==
    /\ thr[w] = "loop"
    /\ thr' = [thr EXCEPT ![w] = IF stopped[w[1]] THEN "exited" ELSE "run"]
    /\ UNCHANGED <<mainVars, task, poolVars, sig, connVars>>

\* io_context (external): the operations pending in pool p.  The acceptor and
\* the signal set wait forever; a database request is a queued handler.
Outstanding(p) ==
    \/ p = Control /\ sig # "handled"
    \/ p = AcceptorPool /\ http
    \/ p = Database /\ \E c \in Connections : conn[c] \in {"db_queued", "db_running"}
    \/ \E c \in Connections : home[c] = p /\ conn[c] \in Owned

\* ctx.run() returns if it is stopped, and stops itself if nothing is pending.
RunReturns(w) ==
    /\ thr[w] = "run"
    /\ stopped[w[1]] \/ (~work[w[1]] /\ ~Outstanding(w[1]))
    /\ PoolStop(w[1])
    /\ thr' = [thr EXCEPT ![w] = "loop"]
    /\ UNCHANGED <<mainVars, task, work, ctx, sig, connVars>>

------------------------------------------------------------------------------
(* The handler of termsig                                                  *)

Signal ==
    /\ main \notin {"configure", "db_run", "exit"}
    /\ sig = "none"
    /\ sig' = "pending"
    /\ UNCHANGED <<mainVars, threadVars, poolVars, connVars>>

SignalHandler(w) ==
    /\ w \in InPool(Control) /\ thr[w] = "run" /\ ~stopped[Control]
    /\ sig = "pending"
    /\ sig' = "stop_main"
    /\ thr' = [thr EXCEPT ![w] = "busy"]
    /\ UNCHANGED <<mainVars, task, poolVars, connVars>>

\* One main pool after another is stopped.
StopMain(w) ==
    /\ w \in InPool(Control) /\ thr[w] = "busy" /\ sig = "stop_main"
    /\ LET S == {j \in 1 .. main_pools : ~stopped[Main(j)]}
       IN  IF S = {} THEN sig' = "stop_database" /\ UNCHANGED stopped
           ELSE LET j == CHOOSE j \in S : \A k \in S : j <= k
                IN  PoolStop(Main(j)) /\ UNCHANGED sig
    /\ UNCHANGED <<mainVars, threadVars, work, ctx, connVars>>

StopDatabase(w) ==
    /\ w \in InPool(Control) /\ thr[w] = "busy" /\ sig = "stop_database"
    /\ PoolStop(Database)
    /\ sig' = "interrupt"
    /\ UNCHANGED <<mainVars, threadVars, work, ctx, connVars>>

\* db_srv.interrupt() makes running statements fail: they end anyway.
Interrupt(w) ==
    /\ w \in InPool(Control) /\ thr[w] = "busy" /\ sig = "interrupt"
    /\ sig' = "handled"
    /\ thr' = [thr EXCEPT ![w] = "run"]
    /\ UNCHANGED <<mainVars, task, poolVars, connVars>>

------------------------------------------------------------------------------
(* Connections                                                             *)

\* accept_loop() runs on a thread of the last main pool.
Accept(w, c) ==
    /\ w \in InPool(AcceptorPool) /\ thr[w] = "run" /\ ~stopped[AcceptorPool]
    /\ conn[c] = "none"
    /\ conn' = [conn EXCEPT ![c] = "spawned"]
    /\ UNCHANGED <<mainVars, threadVars, poolVars, sig, home, http, late>>

Dispatch(w, c) ==
    /\ thr[w] = "run" /\ ~stopped[w[1]]
    /\ \/ conn[c] \in {"spawned", "ready"} /\ w \in InPool(home[c])
          /\ conn' = [conn EXCEPT ![c] = "running"]
       \/ conn[c] = "db_queued" /\ w \in InPool(Database)
          /\ conn' = [conn EXCEPT ![c] = "db_running"]
    /\ thr' = [thr EXCEPT ![w] = "busy"]
    /\ task' = [task EXCEPT ![w] = c]
    /\ UNCHANGED <<mainVars, poolVars, sig, home, http, late>>

\* The coroutine reaches an await, or its end, or the query has been executed
\* and the response is posted to the pool of the connection.
Yield(w) ==
    /\ thr[w] = "busy" /\ task[w] # NoTask
    /\ \E s \in IF conn[task[w]] = "running" THEN {"io", "db_queued", "ended"}
                                             ELSE {"ready"} :
         conn' = [conn EXCEPT ![task[w]] = s]
    /\ thr' = [thr EXCEPT ![w] = "run"]
    /\ task' = [task EXCEPT ![w] = NoTask]
    /\ UNCHANGED <<mainVars, poolVars, sig, home, http, late>>

\* An exception leaves ctx.run(), of the coroutine through co_spawn_handler()
\* or of run_query(), and the thread goes back to its loop.
Throw(w) ==
    /\ thr[w] = "busy" /\ task[w] # NoTask
    /\ conn' = [conn EXCEPT ![task[w]] = "ended"]
    /\ thr' = [thr EXCEPT ![w] = "loop"]
    /\ task' = [task EXCEPT ![w] = NoTask]
    /\ UNCHANGED <<mainVars, poolVars, sig, home, http, late>>

IoCompletes(c) ==
    /\ conn[c] = "io" /\ ctx[home[c]]
    /\ conn' = [conn EXCEPT ![c] = "ready"]
    /\ UNCHANGED <<mainVars, threadVars, poolVars, sig, home, http, late>>

------------------------------------------------------------------------------
(* main() and application::run()                                           *)

MainGoto(from, to) == main = from /\ main' = to

\* main(): without a valid configuration the application is not created.
Configure ==
    /\ main = "configure"
    /\ \/ main' = "db_run" /\ UNCHANGED result
       \/ main' = "exit" /\ result' = "failure"
    /\ UNCHANGED <<i, threadVars, poolVars, sig, connVars>>

DbRun ==
    /\ main = "db_run"
    /\ \/ main' = "http_run" /\ UNCHANGED result
       \/ main' = "destroy_database" /\ result' = "failure"
    /\ UNCHANGED <<i, threadVars, poolVars, sig, connVars>>

\* The constructor and run() of http_srv, which fails if it cannot listen.
HttpRun ==
    /\ main = "http_run"
    /\ \/ main' = "run_control" /\ http' = TRUE /\ UNCHANGED result
       \/ main' = "destroy_database" /\ result' = "failure" /\ UNCHANGED http
    /\ UNCHANGED <<i, threadVars, poolVars, sig, conn, home, late>>

RunControl ==
    /\ MainGoto("run_control", "run_main")
    /\ PoolRun(Control, FALSE)
    /\ UNCHANGED <<i, result, task, ctx, sig, connVars>>

\* Faulty: the loop over the main pools goes one too far.
NextPool_TooFar(from, to) ==
    IF i <= main_pools THEN i' = i + 1 /\ UNCHANGED main
                       ELSE i' = 1 /\ main' = to

NextPool(from, to) ==
    IF i < main_pools THEN i' = i + 1 /\ UNCHANGED main
                      ELSE i' = 1 /\ main' = to

\* Faulty: a main pool does not keep its threads when it has nothing to do.
MainPersistent_No == FALSE

MainPersistent == TRUE

RunMain ==
    /\ main = "run_main"
    /\ PoolRun(Main(i), MainPersistent)
    /\ NextPool("run_main", "run_database")
    /\ UNCHANGED <<result, task, ctx, sig, connVars>>

RunDatabase ==
    /\ MainGoto("run_database", "wait_control")
    /\ PoolRun(Database, TRUE)
    /\ UNCHANGED <<i, result, task, ctx, sig, connVars>>

WaitControl ==
    /\ MainGoto("wait_control", "wait_main")
    /\ PoolWaited(Control)
    /\ UNCHANGED <<i, result, threadVars, poolVars, sig, connVars>>

WaitMain ==
    /\ main = "wait_main"
    /\ PoolWaited(Main(i))
    /\ NextPool("wait_main", "wait_database")
    /\ UNCHANGED <<result, threadVars, poolVars, sig, connVars>>

\* Faulty: database_pool.wait() is left to the destructor of the pool.
WaitDatabase_No ==
    /\ MainGoto("wait_database", "destroy_http")
    /\ UNCHANGED <<i, result, threadVars, poolVars, sig, connVars>>

WaitDatabase ==
    /\ MainGoto("wait_database", "destroy_http")
    /\ PoolWaited(Database)
    /\ UNCHANGED <<i, result, threadVars, poolVars, sig, connVars>>

DestroyHttp ==
    /\ MainGoto("destroy_http", "reset_acceptor")
    /\ http' = FALSE
    /\ UNCHANGED <<i, result, threadVars, poolVars, sig, conn, home, late>>

\* The destructors of the pools in P, which join their threads, and of their
\* io_contexts.  The coroutines that these own are destroyed, and at_end calls
\* active_connection_end() of http_srv, unless the coroutine has not begun.  A
\* coroutine owned by a request in the queue of the database pool is destroyed
\* by the executor of its own pool.
DestroyPools(P) ==
    LET owned == {c \in Connections : conn[c] \in Owned /\ home[c] \in P}
        queued == {c \in Connections : Database \in P /\ conn[c] = "db_queued"}
        orphans == {c \in queued : ~ctx[home[c]]}
    IN  /\ \A p \in P : PoolWaited(p)
        /\ ctx' = [p \in Pools |-> ctx[p] /\ p \notin P]
        /\ conn' = [c \in Connections |->
                      IF c \in owned \cup orphans THEN "ended"
                      ELSE IF c \in queued THEN "ready" ELSE conn[c]]
        /\ late' = late \cup {c \in owned \cup orphans :
                              ~http /\ conn[c] # "spawned"}
        /\ UNCHANGED <<threadVars, stopped, work, sig, home, http, i>>

ResetAcceptor ==
    /\ MainGoto("reset_acceptor", "destroy_database")
    /\ result' = "success"
    /\ DestroyPools({AcceptorPool})

\* The local variables of run() are destroyed in reverse order.
DestroyDatabase ==
    /\ MainGoto("destroy_database", "destroy_main")
    /\ DestroyPools({Database})
    /\ UNCHANGED result

DestroyMain ==
    /\ MainGoto("destroy_main", "exit")
    /\ DestroyPools(MainPools \cup {Control})
    /\ UNCHANGED result

------------------------------------------------------------------------------
MainStep == \/ Configure \/ DbRun \/ HttpRun \/ RunControl \/ RunMain
            \/ RunDatabase \/ WaitControl \/ WaitMain \/ WaitDatabase
            \/ DestroyHttp \/ ResetAcceptor \/ DestroyDatabase \/ DestroyMain

HandlerStep(w) == StopMain(w) \/ StopDatabase(w) \/ Interrupt(w)

ThreadStep(w) == ThreadLoop(w) \/ RunReturns(w) \/ SignalHandler(w)
                 \/ HandlerStep(w) \/ Yield(w) \/ Throw(w)

Next == \/ MainStep
        \/ Signal
        \/ \E w \in Workers : ThreadStep(w)
        \/ \E w \in Workers, c \in Connections : Accept(w, c) \/ Dispatch(w, c)
        \/ \E c \in Connections : IoCompletes(c)

(***************************************************************************)
(* The threads run: a handler that has been started goes on, and the       *)
(* statements of SQLite end.  Nobody is obliged to connect or to send the  *)
(* signal.                                                                 *)
(***************************************************************************)
Fairness == /\ WF_vars(MainStep)
            /\ \A w \in Workers : WF_vars(ThreadStep(w))

Spec == Init /\ [][Next]_vars

FairSpec == Spec /\ Fairness

------------------------------------------------------------------------------
(* Properties *)

\* A thread of a main pool or of the database pool does not end before the
\* signal handler has stopped its pool: neither an exception nor the lack of
\* anything to do ends it.
PoolsStayUp ==
    \A w \in Workers :
        w[1] # Control /\ thr[w] = "exited" =>
            sig \notin {"none", "pending"}

\* application.cpp: "destruction of an async object from the main thread would
\* create a race condition with any operation on the same object performed by
\* pool's threads".  http_srv is not destroyed before all threads have ended.
DestroyedQuietly ==
    main \in {"reset_acceptor", "destroy_database", "destroy_main", "exit"} =>
        \A w \in Workers : thr[w] \in {"new", "exited"}

\* README.md: "Stop the server by sending it signal SIGTERM or SIGINT".  Once it
\* has come, also while the pools are being started, the program ends.
SignalStops == sig = "pending" ~> main = "exit"

\* application.cpp: async objects are destroyed before their pool, "causing
\* cancellation of all async ops".  No operation of http_srv is left then, so
\* no at_end calls active_connection_end() of an http_server that is gone.
EndsOnLiveServer == late = {}
==============================================================================
