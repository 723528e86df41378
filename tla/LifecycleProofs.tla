---------------------------- MODULE LifecycleProofs ----------------------------
(***************************************************************************)
(* Proofs about Lifecycle for every number of main pools, of threads and   *)
(* of connections.                                                         *)
(***************************************************************************)
EXTENDS Lifecycle, TLAPS

------------------------------------------------------------------------------
(* The inductive invariant.                                                *)

Unstopped == {"none", "pending"}

\* The loop variable is used by two loops and starts again in each.
Turn == main \notin {"run_main", "wait_main"} => i = 1

\* What the main thread has waited for has ended, and what it has not started
\* has not begun.
Waited ==
    /\ main \in {"configure", "db_run", "http_run"} => \A w \in Workers : thr[w] = "new"
    /\ main \in {"wait_main", "wait_database", "destroy_http"} => PoolWaited(Control)
    /\ main = "wait_main" => \A j \in 1 .. i - 1 : PoolWaited(Main(j))
    /\ main \in {"wait_database", "destroy_http"} => \A p \in MainPools : PoolWaited(p)
    /\ main = "destroy_http" => PoolWaited(Database)

\* Only the control pool may run out of work.
WorkKept == \A p \in Pools : p # Control => work[p]

\* Only the signal handler stops the other pools.
StoppedBySignal ==
    \A p \in Pools : p # Control /\ stopped[p] => sig \notin Unstopped

IInv == /\ TypeOK /\ Turn /\ Waited /\ WorkKept /\ StoppedBySignal
        /\ PoolsStayUp /\ DestroyedQuietly

------------------------------------------------------------------------------
(* Pools and threads.                                                      *)

\* The control pool, the database pool and the main pools are different.
LEMMA PoolNames ==
  /\ Control \in Pools /\ Database \in Pools /\ MainPools \subseteq Pools
  /\ \A j \in 1 .. main_pools : Main(j) \in MainPools
  /\ AcceptorPool \in MainPools
  /\ Control \notin MainPools /\ Control # Database
  /\ \A p \in Pools : p = Control \/ p = Database \/ p \in MainPools
  /\ \A w \in Workers : w[1] \in Pools
  /\ \A p : \A w \in InPool(p) : w \in Workers /\ w[1] = p
  <1>1. Control # Database
    BY DEF Control, Database
  <1>2. Control \notin MainPools
    BY DEF Control, MainPools, Main
  <1>3. \A j \in 1 .. main_pools : Main(j) \in MainPools
    BY DEF MainPools
  <1>4. AcceptorPool \in MainPools
    <2>1. main_pools \in 1 .. main_pools
      BY PoolsAssumption
    <2> QED
      BY <1>3, <2>1 DEF AcceptorPool
  <1>5. \A w \in Workers : w[1] \in Pools
    BY DEF Workers
  <1>6. \A p : \A w \in InPool(p) : w \in Workers /\ w[1] = p
    BY DEF InPool
  <1>7. /\ Control \in Pools /\ Database \in Pools /\ MainPools \subseteq Pools
        /\ \A p \in Pools : p = Control \/ p = Database \/ p \in MainPools
    BY DEF Pools
  <1> QED
    BY <1>1, <1>2, <1>3, <1>4, <1>5, <1>6, <1>7

\* A thread that has not been started or has ended does nothing, a thread ends
\* where it sees its pool stopped, and pools are stopped after the signal: then
\* the main thread finds what it found before.
LEMMA ThreadsGoOn ==
  ASSUME IInv, UNCHANGED <<main, i, work>>,
         \A w \in Workers : thr[w] \in {"new", "exited"} => thr'[w] = thr[w],
         \A w \in Workers :
            thr'[w] = "exited" => thr[w] = "exited" \/ stopped[w[1]],
         \A p \in Pools : p # Control /\ stopped'[p] =>
            stopped[p] \/ sig' \notin Unstopped,
         sig \notin Unstopped => sig' \notin Unstopped
  PROVE  /\ Turn' /\ Waited' /\ WorkKept' /\ StoppedBySignal'
         /\ PoolsStayUp' /\ DestroyedQuietly'
  <1>1. \A p : PoolWaited(p) => PoolWaited(p)'
    BY PoolNames DEF PoolWaited
  <1>2. Turn' /\ WorkKept'
    BY DEF IInv, Turn, WorkKept
  <1>3. Waited'
    BY <1>1 DEF IInv, Waited
  <1>4. StoppedBySignal'
    BY DEF IInv, StoppedBySignal
  <1>5. PoolsStayUp'
    BY PoolNames DEF IInv, PoolsStayUp, StoppedBySignal, Unstopped
  <1>6. DestroyedQuietly'
    BY DEF IInv, DestroyedQuietly
  <1> QED
    BY <1>2, <1>3, <1>4, <1>5, <1>6

\* What a thread becomes
LEMMA OneThread ==
  ASSUME IInv, NEW w \in Workers, NEW x \in {"loop", "run", "busy", "exited"},
         thr[w] \notin {"new", "exited"}, thr' = [thr EXCEPT ![w] = x],
         x = "exited" => stopped[w[1]]
  PROVE  /\ thr' \in [Workers -> {"new", "loop", "run", "busy", "exited"}]
         /\ \A v \in Workers : thr[v] \in {"new", "exited"} => thr'[v] = thr[v]
         /\ \A v \in Workers :
               thr'[v] = "exited" => thr[v] = "exited" \/ stopped[v[1]]
  BY DEF IInv, TypeOK

------------------------------------------------------------------------------
(* The threads of the pools.                                               *)

\* A thread tests in the loop around ctx.run() whether it was stopped.
LEMMA ThreadLoopStep ==
  ASSUME IInv, NEW w \in Workers, ThreadLoop(w)
  PROVE  IInv'
  <1> DEFINE x == IF stopped[w[1]] THEN "exited" ELSE "run"
  <1>1. /\ thr[w] = "loop" /\ thr' = [thr EXCEPT ![w] = x]
        /\ UNCHANGED <<main, i, result, task, stopped, work, ctx, sig, conn, home, http, late>>
    BY DEF ThreadLoop, mainVars, poolVars, connVars
  <1>2. /\ x \in {"loop", "run", "busy", "exited"} /\ (x = "exited" => stopped[w[1]])
    OBVIOUS
  <1> HIDE DEF x
  <1>3. /\ thr' \in [Workers -> {"new", "loop", "run", "busy", "exited"}]
        /\ \A v \in Workers : thr[v] \in {"new", "exited"} => thr'[v] = thr[v]
        /\ \A v \in Workers :
              thr'[v] = "exited" => thr[v] = "exited" \/ stopped[v[1]]
    BY <1>1, <1>2, OneThread
  <1>4. TypeOK'
    BY <1>1, <1>3 DEF IInv, TypeOK
  <1>5. /\ Turn' /\ Waited' /\ WorkKept' /\ StoppedBySignal'
        /\ PoolsStayUp' /\ DestroyedQuietly'
    BY <1>1, <1>3, ThreadsGoOn
  <1> QED
    BY <1>4, <1>5 DEF IInv

\* The io_context of a pool that has a work guard does not stop by itself.
LEMMA RunReturnsStep ==
  ASSUME IInv, NEW w \in Workers, RunReturns(w)
  PROVE  IInv'
  <1>1. /\ thr[w] = "run" /\ thr' = [thr EXCEPT ![w] = "loop"]
        /\ stopped' = [stopped EXCEPT ![w[1]] = TRUE]
        /\ stopped[w[1]] \/ ~work[w[1]]
        /\ UNCHANGED <<main, i, result, task, work, ctx, sig, conn, home, http, late>>
    BY DEF RunReturns, PoolStop, mainVars, connVars
  <1>2. /\ thr' \in [Workers -> {"new", "loop", "run", "busy", "exited"}]
        /\ \A v \in Workers : thr[v] \in {"new", "exited"} => thr'[v] = thr[v]
        /\ \A v \in Workers :
              thr'[v] = "exited" => thr[v] = "exited" \/ stopped[v[1]]
    BY <1>1, OneThread
  <1>3. stopped \in [Pools -> BOOLEAN] /\ stopped' \in [Pools -> BOOLEAN]
    BY <1>1 DEF IInv, TypeOK
  <1>4. TypeOK'
    BY <1>1, <1>2, <1>3 DEF IInv, TypeOK
  <1>5. \A p \in Pools : p # Control /\ stopped'[p] => stopped[p]
    BY <1>1, <1>3 DEF IInv, WorkKept
  <1>6. /\ Turn' /\ Waited' /\ WorkKept' /\ StoppedBySignal'
        /\ PoolsStayUp' /\ DestroyedQuietly'
    BY <1>1, <1>2, <1>5, ThreadsGoOn
  <1> QED
    BY <1>4, <1>6 DEF IInv

\* The signal comes.
LEMMA SignalStep ==
  ASSUME IInv, Signal
  PROVE  IInv'
  <1>1. /\ sig = "none" /\ sig' = "pending"
        /\ UNCHANGED <<main, i, result, thr, task, stopped, work, ctx>>
        /\ UNCHANGED <<conn, home, http, late>>
    BY DEF Signal, mainVars, threadVars, poolVars, connVars
  <1>2. TypeOK'
    BY <1>1 DEF IInv, TypeOK, SigStates
  <1>3. /\ Turn' /\ Waited' /\ WorkKept' /\ StoppedBySignal'
        /\ PoolsStayUp' /\ DestroyedQuietly'
    BY <1>1, ThreadsGoOn DEF Unstopped
  <1> QED
    BY <1>2, <1>3 DEF IInv

\* The signal handler: it begins, stops the pools and interrupts the databases.
LEMMA SignalHandlerStep ==
  ASSUME IInv, NEW w \in Workers, SignalHandler(w) \/ HandlerStep(w)
  PROVE  IInv'
  <1>1. UNCHANGED <<main, i, result, task, work, ctx, conn, home, http, late>>
    BY DEF SignalHandler, HandlerStep, StopMain, StopDatabase, Interrupt,
           mainVars, threadVars, poolVars, connVars
  <1>2. /\ sig' \notin Unstopped /\ sig' \in SigStates
    BY DEF SignalHandler, HandlerStep, StopMain, StopDatabase, Interrupt, Unstopped,
           SigStates
  <1>3. stopped' \in [Pools -> BOOLEAN]
    <2>1. UNCHANGED stopped \/ \E p : stopped' = [stopped EXCEPT ![p] = TRUE]
      BY DEF SignalHandler, HandlerStep, StopMain, StopDatabase, Interrupt, PoolStop,
             poolVars
    <2> QED
      BY <2>1 DEF IInv, TypeOK
  <1>4. \/ UNCHANGED thr
        \/ thr[w] \in {"run", "busy"} /\ \E x \in {"run", "busy"} : thr' = [thr EXCEPT ![w] = x]
    BY DEF SignalHandler, HandlerStep, StopMain, StopDatabase, Interrupt, threadVars
  <1>5. /\ thr' \in [Workers -> {"new", "loop", "run", "busy", "exited"}]
        /\ \A v \in Workers : thr[v] \in {"new", "exited"} => thr'[v] = thr[v]
        /\ \A v \in Workers :
              thr'[v] = "exited" => thr[v] = "exited" \/ stopped[v[1]]
    BY <1>4 DEF IInv, TypeOK
  <1>6. TypeOK'
    BY <1>1, <1>2, <1>3, <1>5 DEF IInv, TypeOK
  <1>7. /\ Turn' /\ Waited' /\ WorkKept' /\ StoppedBySignal'
        /\ PoolsStayUp' /\ DestroyedQuietly'
    BY <1>1, <1>2, <1>5, ThreadsGoOn
  <1> QED
    BY <1>6, <1>7 DEF IInv

\* A thread runs a part of a coroutine or of a query.
LEMMA WorkStep ==
  ASSUME IInv, NEW w \in Workers,
         Yield(w) \/ Throw(w)
            \/ \E c \in Connections : Accept(w, c) \/ Dispatch(w, c)
  PROVE  IInv'
  <1>1. UNCHANGED <<main, i, result, stopped, work, ctx, sig, home, http, late>>
    BY DEF Yield, Throw, Accept, Dispatch, mainVars, poolVars
  <1>2. conn' \in [Connections -> ConnStates]
    <2>1. \E c, s : s \in ConnStates /\ conn' = [conn EXCEPT ![c] = s]
      BY DEF Yield, Throw, Accept, Dispatch, ConnStates
    <2> QED
      BY <2>1 DEF IInv, TypeOK
  <1>3. task' \in [Workers -> Connections \cup {NoTask}]
    BY DEF IInv, TypeOK, Yield, Throw, Accept, Dispatch, threadVars
  <1>4. \/ UNCHANGED thr
        \/ /\ thr[w] \in {"run", "busy"}
           /\ \E x \in {"loop", "run", "busy"} : thr' = [thr EXCEPT ![w] = x]
    BY DEF Yield, Throw, Accept, Dispatch, threadVars
  <1>5. /\ thr' \in [Workers -> {"new", "loop", "run", "busy", "exited"}]
        /\ \A v \in Workers : thr[v] \in {"new", "exited"} => thr'[v] = thr[v]
        /\ \A v \in Workers :
              thr'[v] = "exited" => thr[v] = "exited" \/ stopped[v[1]]
    BY <1>4 DEF IInv, TypeOK
  <1>6. TypeOK'
    BY <1>1, <1>2, <1>3, <1>5 DEF IInv, TypeOK
  <1>7. /\ Turn' /\ Waited' /\ WorkKept' /\ StoppedBySignal'
        /\ PoolsStayUp' /\ DestroyedQuietly'
    BY <1>1, <1>5, ThreadsGoOn
  <1> QED
    BY <1>6, <1>7 DEF IInv

\* An I/O operation completes.
LEMMA IoCompletesStep ==
  ASSUME IInv, NEW c \in Connections, IoCompletes(c)
  PROVE  IInv'
  <1>1. /\ UNCHANGED <<main, i, result, thr, task, stopped, work, ctx, sig, home, http, late>>
        /\ conn' = [conn EXCEPT ![c] = "ready"]
    BY DEF IoCompletes, mainVars, threadVars, poolVars
  <1>2. TypeOK'
    BY <1>1 DEF IInv, TypeOK, ConnStates
  <1>3. /\ Turn' /\ Waited' /\ WorkKept' /\ StoppedBySignal'
        /\ PoolsStayUp' /\ DestroyedQuietly'
    BY <1>1, ThreadsGoOn
  <1> QED
    BY <1>2, <1>3 DEF IInv

------------------------------------------------------------------------------
(* The main thread.                                                        *)

\* The main thread goes on and the threads of the pools are as they were.
LEMMA MainGoesOn ==
  ASSUME IInv, UNCHANGED <<thr, stopped, work, sig>>
  PROVE  WorkKept' /\ StoppedBySignal' /\ PoolsStayUp'
         /\ \A p : PoolWaited(p)' = PoolWaited(p)
  BY DEF IInv, WorkKept, StoppedBySignal, PoolsStayUp, PoolWaited

\* Before the pools are started
LEMMA PrepareStep ==
  ASSUME IInv, Configure \/ DbRun \/ HttpRun
  PROVE  IInv'
  <1>1. /\ UNCHANGED <<i, thr, task, stopped, work, ctx, sig, conn, home, late>>
        /\ main \in {"configure", "db_run", "http_run"}
        /\ main' \in {"db_run", "http_run", "exit", "destroy_database", "run_control"}
        /\ result' \in {"none", "success", "failure"}
        /\ http' \in BOOLEAN
    BY DEF IInv, TypeOK, Configure, DbRun, HttpRun, threadVars, poolVars, connVars
  <1>2. TypeOK'
    BY <1>1 DEF IInv, TypeOK, MainStates
  <1>3. WorkKept' /\ StoppedBySignal' /\ PoolsStayUp'
    BY <1>1, MainGoesOn
  <1>4. Turn'
    BY <1>1 DEF IInv, Turn
  <1>5. \A w \in Workers : thr'[w] = "new"
    BY <1>1 DEF IInv, Waited
  <1>6. Waited' /\ DestroyedQuietly'
    BY <1>1, <1>5 DEF Waited, DestroyedQuietly
  <1> QED
    BY <1>2, <1>3, <1>4, <1>6 DEF IInv

\* A pool is started: its threads are in their loop, the others as they were.
LEMMA PoolRuns ==
  ASSUME IInv, NEW p \in Pools, NEW persistent \in BOOLEAN, PoolRun(p, persistent),
         persistent \/ p = Control, UNCHANGED sig
  PROVE  /\ thr' \in [Workers -> {"new", "loop", "run", "busy", "exited"}]
         /\ work' \in [Pools -> BOOLEAN] /\ stopped' = stopped
         /\ WorkKept' /\ StoppedBySignal' /\ PoolsStayUp'
  <1>1. /\ thr' = [w \in Workers |-> IF w \in InPool(p) THEN "loop" ELSE thr[w]]
        /\ work' = [work EXCEPT ![p] = persistent]
        /\ stopped' = stopped
    BY DEF PoolRun
  <1>2. thr' \in [Workers -> {"new", "loop", "run", "busy", "exited"}]
    BY <1>1 DEF IInv, TypeOK
  <1>3. work' \in [Pools -> BOOLEAN] /\ WorkKept'
    BY <1>1 DEF IInv, TypeOK, WorkKept
  <1>4. StoppedBySignal'
    BY <1>1 DEF IInv, StoppedBySignal
  <1>5. PoolsStayUp'
    BY <1>1 DEF IInv, PoolsStayUp
  <1> QED
    BY <1>1, <1>2, <1>3, <1>4, <1>5

\* The loops over the main pools
LEMMA NextPoolTyped ==
  ASSUME TypeOK, NEW from, NEW to, NextPool(from, to), main = from,
         to \notin {"run_main", "wait_main"}, from \in {"run_main", "wait_main"}
  PROVE  /\ i' \in 1 .. main_pools
         /\ \/ main' = from /\ i' = i + 1
            \/ main' = to /\ i' = 1 /\ i = main_pools
         /\ Turn'
  BY PoolsAssumption DEF TypeOK, NextPool, Turn

\* The main thread starts a pool.
LEMMA RunStep ==
  ASSUME IInv, RunControl \/ RunMain \/ RunDatabase
  PROVE  IInv'
  <1>1. /\ UNCHANGED <<result, task, ctx, sig, conn, home, http, late>>
        /\ main \in {"run_control", "run_main", "run_database"}
    <2>1. CASE RunControl
      BY <2>1 DEF RunControl, MainGoto, connVars
    <2>2. CASE RunMain
      BY <2>2 DEF RunMain, connVars
    <2>3. CASE RunDatabase
      BY <2>3 DEF RunDatabase, MainGoto, connVars
    <2> QED
      BY <2>1, <2>2, <2>3
  <1>2. \E p \in Pools, persistent \in BOOLEAN :
           PoolRun(p, persistent) /\ (persistent \/ p = Control)
    <2>1. CASE RunControl
      BY <2>1, PoolNames DEF RunControl
    <2>2. CASE RunMain
      <3>1. Main(i) \in Pools
        BY PoolNames DEF IInv, TypeOK
      <3> QED
        BY <2>2, <3>1 DEF RunMain, MainPersistent
    <2>3. CASE RunDatabase
      BY <2>3, PoolNames DEF RunDatabase
    <2> QED
      BY <2>1, <2>2, <2>3
  <1>3. /\ thr' \in [Workers -> {"new", "loop", "run", "busy", "exited"}]
        /\ work' \in [Pools -> BOOLEAN] /\ stopped' = stopped
        /\ WorkKept' /\ StoppedBySignal' /\ PoolsStayUp'
    BY <1>1, <1>2, PoolRuns
  <1>4. /\ i' \in 1 .. main_pools /\ Turn'
        /\ main' \in {"run_main", "run_database", "wait_control"}
    <2>1. CASE RunControl
      BY <2>1 DEF IInv, TypeOK, Turn, RunControl, MainGoto
    <2>2. CASE RunMain
      BY <2>2, NextPoolTyped DEF IInv, RunMain
    <2>3. CASE RunDatabase
      BY <2>3 DEF IInv, TypeOK, Turn, RunDatabase, MainGoto
    <2> QED
      BY <2>1, <2>2, <2>3
  <1>5. TypeOK'
    BY <1>1, <1>3, <1>4 DEF IInv, TypeOK, MainStates
  <1>6. Waited' /\ DestroyedQuietly'
    BY <1>4 DEF Waited, DestroyedQuietly
  <1> QED
    BY <1>3, <1>4, <1>5, <1>6 DEF IInv

\* The control pool has been waited for.
LEMMA WaitControlStep ==
  ASSUME IInv, WaitControl
  PROVE  IInv'
  <1>1. /\ UNCHANGED <<i, result, thr, task, stopped, work, ctx, sig, conn, home, http, late>>
        /\ main = "wait_control" /\ main' = "wait_main" /\ PoolWaited(Control)
    BY DEF WaitControl, MainGoto, threadVars, poolVars, connVars
  <1>2. TypeOK'
    BY <1>1 DEF IInv, TypeOK, MainStates
  <1>3. WorkKept' /\ StoppedBySignal' /\ PoolsStayUp'
    BY <1>1, MainGoesOn
  <1>4. i' = 1
    BY <1>1 DEF IInv, Turn
  <1>5. PoolWaited(Control)'
    BY <1>1 DEF PoolWaited
  <1>6. Turn' /\ Waited' /\ DestroyedQuietly'
    BY <1>1, <1>4, <1>5 DEF Turn, Waited, DestroyedQuietly
  <1> QED
    BY <1>2, <1>3, <1>6 DEF IInv

\* When the loop ends, it has waited for every main pool.
LEMMA WaitMainStep ==
  ASSUME IInv, WaitMain
  PROVE  IInv'
  <1>1. /\ UNCHANGED <<result, thr, task, stopped, work, ctx, sig, conn, home, http, late>>
        /\ main = "wait_main" /\ PoolWaited(Main(i)) /\ i \in 1 .. main_pools
    BY DEF IInv, TypeOK, WaitMain, threadVars, poolVars, connVars
  <1>2. /\ i' \in 1 .. main_pools /\ Turn'
        /\ \/ main' = "wait_main" /\ i' = i + 1
           \/ main' = "wait_database" /\ i' = 1 /\ i = main_pools
    BY <1>1, NextPoolTyped DEF IInv, WaitMain
  <1>3. TypeOK'
    BY <1>1, <1>2 DEF IInv, TypeOK, MainStates
  <1>4. /\ WorkKept' /\ StoppedBySignal' /\ PoolsStayUp'
    BY <1>1, MainGoesOn
  <1>5. PoolWaited(Control) /\ \A j \in 1 .. i : PoolWaited(Main(j))
    <2>1. PoolWaited(Control) /\ \A j \in 1 .. i - 1 : PoolWaited(Main(j))
      BY <1>1 DEF IInv, Waited
    <2>2. \A j \in 1 .. i : j \in 1 .. i - 1 \/ j = i
      BY <1>1
    <2> QED
      BY <1>1, <2>1, <2>2
  <1>6. \A p : PoolWaited(p)' = PoolWaited(p)
    BY <1>1, MainGoesOn
  <1>7. Waited'
    <2>1. CASE main' = "wait_main" /\ i' = i + 1
      <3>1. i' - 1 = i
        BY <1>1, <2>1
      <3>2. \A j \in 1 .. i' - 1 : PoolWaited(Main(j))'
        BY <1>1, <1>5, <3>1 DEF PoolWaited, InPool, Main
      <3> QED
        BY <1>5, <1>6, <2>1, <3>2 DEF Waited
    <2>2. CASE main' = "wait_database" /\ i = main_pools
      <3>1. \A p \in MainPools : PoolWaited(p)
        BY <1>5, <2>2 DEF MainPools
      <3> QED
        BY <1>5, <1>6, <2>2, <3>1 DEF Waited
    <2> QED
      BY <1>2, <2>1, <2>2
  <1>8. DestroyedQuietly'
    BY <1>2 DEF DestroyedQuietly
  <1> QED
    BY <1>2, <1>3, <1>4, <1>7, <1>8 DEF IInv

\* The database pool has been waited for.
LEMMA WaitDatabaseStep ==
  ASSUME IInv, WaitDatabase
  PROVE  IInv'
  <1>1. /\ UNCHANGED <<i, result, thr, task, stopped, work, ctx, sig, conn, home, http, late>>
        /\ main = "wait_database" /\ main' = "destroy_http" /\ PoolWaited(Database)
    BY DEF WaitDatabase, MainGoto, threadVars, poolVars, connVars
  <1>2. TypeOK'
    BY <1>1 DEF IInv, TypeOK, MainStates
  <1>3. WorkKept' /\ StoppedBySignal' /\ PoolsStayUp' /\ \A p : PoolWaited(p)' = PoolWaited(p)
    BY <1>1, MainGoesOn
  <1>4. Waited'
    BY <1>1, <1>3 DEF IInv, Waited
  <1>5. Turn' /\ DestroyedQuietly'
    BY <1>1 DEF IInv, Turn, DestroyedQuietly
  <1> QED
    BY <1>2, <1>3, <1>4, <1>5 DEF IInv

\* http_srv is destroyed after every pool has been waited for.
LEMMA DestroyHttpStep ==
  ASSUME IInv, DestroyHttp
  PROVE  IInv'
  <1>1. /\ UNCHANGED <<i, result, thr, task, stopped, work, ctx, sig, conn, home, late>>
        /\ main = "destroy_http" /\ main' = "reset_acceptor" /\ http' = FALSE
    BY DEF DestroyHttp, MainGoto, threadVars, poolVars
  <1>2. TypeOK'
    BY <1>1 DEF IInv, TypeOK, MainStates
  <1>3. WorkKept' /\ StoppedBySignal' /\ PoolsStayUp'
    BY <1>1, MainGoesOn
  <1>4. Turn' /\ Waited'
    BY <1>1 DEF IInv, Turn, Waited
  <1>5. \A p \in Pools : PoolWaited(p)
    BY <1>1, PoolNames DEF IInv, Waited
  <1>6. DestroyedQuietly'
    BY <1>1, <1>5, PoolNames DEF DestroyedQuietly, PoolWaited, InPool
  <1> QED
    BY <1>2, <1>3, <1>4, <1>6 DEF IInv

\* The destructors at the end destroy io_contexts.
LEMMA DestroyStep ==
  ASSUME IInv, ResetAcceptor \/ DestroyDatabase \/ DestroyMain
  PROVE  IInv'
  <1>1. /\ main \in {"reset_acceptor", "destroy_database", "destroy_main"}
        /\ main' \in {"destroy_database", "destroy_main", "exit"}
        /\ result' \in {"none", "success", "failure"}
    BY DEF IInv, TypeOK, ResetAcceptor, DestroyDatabase, DestroyMain, MainGoto
  <1>2. PICK P : DestroyPools(P)
    BY DEF ResetAcceptor, DestroyDatabase, DestroyMain
  <1>3. UNCHANGED <<i, thr, task, stopped, work, sig, home, http>>
    BY <1>2 DEF DestroyPools, threadVars
  <1>4. /\ ctx' \in [Pools -> BOOLEAN] /\ conn' \in [Connections -> ConnStates]
        /\ late' \subseteq Connections
    BY <1>2 DEF IInv, TypeOK, DestroyPools, ConnStates
  <1>5. TypeOK'
    BY <1>1, <1>3, <1>4 DEF IInv, TypeOK, MainStates
  <1>6. WorkKept' /\ StoppedBySignal' /\ PoolsStayUp'
    BY <1>3, MainGoesOn
  <1>7. Turn' /\ Waited' /\ DestroyedQuietly'
    BY <1>1, <1>3 DEF IInv, Turn, Waited, DestroyedQuietly
  <1> QED
    BY <1>5, <1>6, <1>7 DEF IInv

------------------------------------------------------------------------------
(* Every step together.                                                    *)

\* The invariant holds before application::run().
LEMMA Initial == Init => IInv
  <1> SUFFICES ASSUME Init PROVE IInv
    OBVIOUS
  <1>1. TypeOK
    <2>1. 1 \in 1 .. main_pools
      BY PoolsAssumption
    <2>2. /\ thr \in [Workers -> {"new", "loop", "run", "busy", "exited"}]
          /\ task \in [Workers -> Connections \cup {NoTask}]
      BY DEF Init
    <2>3. /\ stopped \in [Pools -> BOOLEAN] /\ work \in [Pools -> BOOLEAN]
          /\ ctx \in [Pools -> BOOLEAN]
      BY DEF Init
    <2>4. conn \in [Connections -> ConnStates] /\ home \in [Connections -> MainPools]
      BY DEF Init, ConnStates
    <2> QED
      BY <2>1, <2>2, <2>3, <2>4 DEF Init, TypeOK, MainStates, SigStates
  <1>2. Turn /\ Waited
    BY DEF Init, Turn, Waited
  <1>3. WorkKept /\ StoppedBySignal /\ PoolsStayUp /\ DestroyedQuietly
    BY DEF Init, WorkKept, StoppedBySignal, PoolsStayUp, DestroyedQuietly, Unstopped
  <1> QED
    BY <1>1, <1>2, <1>3 DEF IInv

\* Every step keeps the invariant.
LEMMA Inductive == IInv /\ [Next]_vars => IInv'
  <1> SUFFICES ASSUME IInv, [Next]_vars PROVE IInv'
    OBVIOUS
  <1>1. CASE MainStep
    BY <1>1, PrepareStep, RunStep, WaitControlStep, WaitMainStep, WaitDatabaseStep,
       DestroyHttpStep, DestroyStep
    DEF MainStep
  <1>2. ASSUME NEW w \in Workers, ThreadStep(w) PROVE IInv'
    BY <1>2, ThreadLoopStep, RunReturnsStep, SignalHandlerStep, WorkStep
    DEF ThreadStep
  <1>3. ASSUME NEW w \in Workers, NEW c \in Connections, Accept(w, c) \/ Dispatch(w, c)
        PROVE  IInv'
    BY <1>3, WorkStep
  <1>4. CASE UNCHANGED vars
    <2>1. UNCHANGED <<main, i, result, thr, task, stopped, work, ctx, sig, conn, home,
                      http, late>>
      BY <1>4 DEF vars, mainVars, threadVars, poolVars, connVars
    <2>2. TypeOK'
      BY <2>1 DEF IInv, TypeOK
    <2> QED
      BY <2>1, <2>2, ThreadsGoOn DEF IInv
  <1> QED
    BY <1>1, <1>2, <1>3, <1>4, SignalStep, IoCompletesStep DEF Next

\* The invariant holds in every state that is reached.
LEMMA Invariance == Spec => []IInv
  BY Initial, Inductive, PTL DEF Spec

------------------------------------------------------------------------------
(* The results.                                                            *)

\* The state of application::run() and of its pools keeps its type: in particular
\* its loops stay within the main pools.
THEOREM LifecycleTyped == Spec => []TypeOK
  <1>1. IInv => TypeOK
    BY DEF IInv
  <1> QED
    BY <1>1, Invariance, PTL

\* thread_pool: with the work guard and the loop around ctx.run() neither idleness
\* nor an exception ends a thread of a main pool or of the database pool; only
\* the signal handler does.
THEOREM PoolsKeptUp == Spec => []PoolsStayUp
  <1>1. IInv => PoolsStayUp
    BY DEF IInv
  <1> QED
    BY <1>1, Invariance, PTL

\* application::run() destroys http_srv, the acceptor and the pools only when no
\* thread is left that could use them, whether it ends regularly or early.
THEOREM QuietDestruction == Spec => []DestroyedQuietly
  <1>1. IInv => DestroyedQuietly
    BY DEF IInv
  <1> QED
    BY <1>1, Invariance, PTL

------------------------------------------------------------------------------
(* What has stopped does not run again.                                    *)

\* A pool whose run() is still to come has not started any thread.
NotStarted ==
    /\ main \in {"configure", "db_run", "http_run", "run_control"} =>
          \A w \in Workers : thr[w] = "new"
    /\ main = "run_main" =>
          \A w \in Workers :
             w \in InPool(Database) \/ (\E j \in i .. main_pools : w \in InPool(Main(j)))
                => thr[w] = "new"
    /\ main = "run_database" => \A w \in InPool(Database) : thr[w] = "new"

\* The assertion in thread_pool::run(), "not already started": a std::thread that
\* is still joinable must not be assigned to.
RunAsserted ==
    /\ main = "run_control" => \A w \in InPool(Control) : thr[w] = "new"
    /\ main = "run_main" => \A w \in InPool(Main(i)) : thr[w] = "new"
    /\ main = "run_database" => \A w \in InPool(Database) : thr[w] = "new"

\* The handler of the signal may stop a pool before the main thread has called its
\* run(): the stop is not forgotten then, and a thread that has ended, because its
\* pool was stopped as early, is not started again.
StoppedForGood ==
    [][/\ \A p \in Pools : stopped[p] => stopped'[p]
       /\ \A w \in Workers : thr[w] = "exited" => thr'[w] = "exited"]_vars

\* A step of a pool's thread, of a connection or of the signal is none of main
\* and starts no thread.
LEMMA NoThreadStarted ==
  ASSUME IInv,
         \/ \E w \in Workers : ThreadStep(w)
         \/ \E w \in Workers, c \in Connections : Accept(w, c) \/ Dispatch(w, c)
         \/ \E c \in Connections : IoCompletes(c)
         \/ Signal
         \/ UNCHANGED vars
  PROVE  /\ UNCHANGED <<main, i>>
         /\ \A v \in Workers : thr[v] \in {"new", "exited"} => thr'[v] = thr[v]
         /\ \A p \in Pools : stopped[p] => stopped'[p]
  <1>1. UNCHANGED <<main, i>>
    BY DEF ThreadStep, ThreadLoop, RunReturns, SignalHandler, HandlerStep, StopMain,
       StopDatabase, Interrupt, Yield, Throw, Accept, Dispatch, IoCompletes, Signal,
       vars, mainVars
  <1>2. \/ UNCHANGED thr
        \/ \E w \in Workers : \E x : /\ thr[w] \notin {"new", "exited"}
                                     /\ thr' = [thr EXCEPT ![w] = x]
    BY DEF ThreadStep, ThreadLoop, RunReturns, SignalHandler, HandlerStep, StopMain,
       StopDatabase, Interrupt, Yield, Throw, Accept, Dispatch, IoCompletes, Signal,
       vars, threadVars
  <1>3. UNCHANGED stopped \/ \E p : stopped' = [stopped EXCEPT ![p] = TRUE]
    <2>1. ASSUME NEW w \in Workers, StopMain(w)
          PROVE  UNCHANGED stopped \/ \E p : PoolStop(p)
      BY <2>1 DEF StopMain
    <2>2. ASSUME NEW w \in Workers, RunReturns(w) \/ StopDatabase(w)
          PROVE  \E p : PoolStop(p)
      BY <2>2 DEF RunReturns, StopDatabase
    <2>3. ASSUME NEW w \in Workers, ThreadStep(w),
                 ~StopMain(w), ~RunReturns(w), ~StopDatabase(w)
          PROVE  UNCHANGED stopped
      BY <2>3 DEF ThreadStep, ThreadLoop, SignalHandler, HandlerStep, Interrupt, Yield,
         Throw, poolVars
    <2>4. CASE \/ \E w \in Workers, c \in Connections : Accept(w, c) \/ Dispatch(w, c)
               \/ \E c \in Connections : IoCompletes(c)
               \/ Signal \/ UNCHANGED vars
      BY <2>4 DEF Accept, Dispatch, IoCompletes, Signal, vars, poolVars
    <2> QED
      BY <2>1, <2>2, <2>3, <2>4 DEF PoolStop
  <1> QED
    BY <1>1, <1>2, <1>3 DEF IInv, TypeOK

\* run() of a pool: its threads have not begun, and the others stay as they are.
LEMMA StartsNew ==
  ASSUME IInv, NotStarted, RunControl \/ RunMain \/ RunDatabase
  PROVE  /\ NotStarted'
         /\ UNCHANGED stopped
         /\ \A w \in Workers : thr[w] = "exited" => thr'[w] = "exited"
  <1>1. CASE RunControl
    <2>1. /\ main = "run_control" /\ main' = "run_main" /\ UNCHANGED <<i, stopped>>
          /\ thr' = [w \in Workers |-> IF w \in InPool(Control) THEN "loop" ELSE thr[w]]
      BY <1>1 DEF RunControl, MainGoto, PoolRun
    <2>2. \A w \in Workers : thr[w] = "new"
      BY <2>1 DEF NotStarted
    <2>3. \A w \in Workers : w \in InPool(Database) => w \notin InPool(Control)
      BY PoolNames
    <2>4. \A w \in Workers : \A j : w \in InPool(Main(j)) => w \notin InPool(Control)
      BY DEF InPool, Main, Control
    <2> QED
      BY <2>1, <2>2, <2>3, <2>4 DEF NotStarted, InPool
  <1>2. CASE RunMain
    <2>1. /\ main = "run_main" /\ UNCHANGED stopped
          /\ thr' = [w \in Workers |-> IF w \in InPool(Main(i)) THEN "loop" ELSE thr[w]]
      BY <1>2 DEF RunMain, PoolRun
    <2>2. /\ i \in 1 .. main_pools /\ i' \in 1 .. main_pools
          /\ \/ main' = "run_main" /\ i' = i + 1
             \/ main' = "run_database"
      BY <1>2, NextPoolTyped DEF IInv, TypeOK, RunMain
    <2>3. \A w \in InPool(Main(i)) : thr[w] = "new"
      BY <2>1, <2>2, PoolNames DEF NotStarted
    <2>4. \A w \in InPool(Database) : thr[w] = "new" /\ w \notin InPool(Main(i))
      BY <2>1, PoolNames DEF NotStarted, InPool, Main, Database
    <2>5. \A w \in InPool(Database) : thr'[w] = "new"
      BY <2>1, <2>4, PoolNames
    <2>6. ASSUME i' = i + 1, NEW j \in i' .. main_pools, NEW w \in InPool(Main(j))
          PROVE  thr'[w] = "new"
      <3>1. j \in i .. main_pools /\ j # i
        BY <2>2, <2>6
      <3>2. thr[w] = "new" /\ w \in Workers
        BY <2>1, <2>6, <3>1, PoolNames DEF NotStarted
      <3>3. w \notin InPool(Main(i))
        BY <2>6, <3>1 DEF InPool, Main
      <3> QED
        BY <2>1, <3>2, <3>3
    <2>7. NotStarted'
      <3>1. CASE main' = "run_database"
        BY <2>5, <3>1 DEF NotStarted, InPool
      <3>2. CASE main' = "run_main" /\ i' = i + 1
        BY <2>5, <2>6, <3>2 DEF NotStarted, InPool
      <3> QED
        BY <2>2, <3>1, <3>2
    <2> QED
      BY <2>1, <2>3, <2>7
  <1>3. CASE RunDatabase
    <2>1. /\ main = "run_database" /\ main' = "wait_control" /\ UNCHANGED stopped
          /\ thr' = [w \in Workers |-> IF w \in InPool(Database) THEN "loop" ELSE thr[w]]
      BY <1>3 DEF RunDatabase, MainGoto, PoolRun
    <2> QED
      BY <2>1 DEF NotStarted
  <1> QED
    BY <1>1, <1>2, <1>3

\* The other steps of the main thread leave threads and pools alone.
LEMMA MainLeavesThreads ==
  ASSUME IInv, NotStarted, MainStep, ~RunControl, ~RunMain, ~RunDatabase
  PROVE  NotStarted' /\ UNCHANGED <<thr, stopped>>
  <1>1. UNCHANGED <<thr, stopped>>
    BY DEF MainStep, Configure, DbRun, HttpRun, WaitControl, WaitMain, WaitDatabase,
       DestroyHttp, ResetAcceptor, DestroyDatabase, DestroyMain, DestroyPools,
       threadVars, poolVars
  <1>2. CASE Configure \/ DbRun \/ HttpRun
    <2>1. /\ main \in {"configure", "db_run", "http_run"}
          /\ main' \notin {"run_main", "run_database"}
      BY <1>2 DEF Configure, DbRun, HttpRun
    <2> QED
      BY <1>1, <2>1 DEF NotStarted
  <1>3. CASE ~Configure /\ ~DbRun /\ ~HttpRun
    <2>1. main' \notin {"configure", "db_run", "http_run", "run_control", "run_main",
                        "run_database"}
      BY <1>3 DEF MainStep, WaitControl, WaitMain, WaitDatabase, DestroyHttp,
         ResetAcceptor, DestroyDatabase, DestroyMain, MainGoto, NextPool
    <2> QED
      BY <1>1, <2>1 DEF NotStarted
  <1> QED
    BY <1>1, <1>2, <1>3

\* Every step together
LEMMA EveryStepOnce ==
  ASSUME IInv, NotStarted, [Next]_vars
  PROVE  /\ NotStarted'
         /\ \A p \in Pools : stopped[p] => stopped'[p]
         /\ \A w \in Workers : thr[w] = "exited" => thr'[w] = "exited"
  <1>1. CASE MainStep
    BY <1>1, StartsNew, MainLeavesThreads
  <1>2. CASE \/ \E w \in Workers : ThreadStep(w)
             \/ \E w \in Workers, c \in Connections : Accept(w, c) \/ Dispatch(w, c)
             \/ \E c \in Connections : IoCompletes(c)
             \/ Signal
             \/ UNCHANGED vars
    <2>1. /\ UNCHANGED <<main, i>>
          /\ \A v \in Workers : thr[v] \in {"new", "exited"} => thr'[v] = thr[v]
          /\ \A p \in Pools : stopped[p] => stopped'[p]
      BY <1>2, NoThreadStarted
    <2>2. NotStarted'
      BY <2>1, PoolNames DEF NotStarted, InPool
    <2> QED
      BY <2>1, <2>2
  <1> QED
    BY <1>1, <1>2 DEF Next

\* A pool whose run() is to come has no threads.
LEMMA NotStartedAlways == Spec => []NotStarted
  <1>1. Init => NotStarted
    BY PoolNames DEF Init, NotStarted
  <1>2. IInv /\ NotStarted /\ [Next]_vars => NotStarted'
    BY EveryStepOnce
  <1> QED
    BY <1>1, <1>2, Invariance, PTL DEF Spec

\* For every number of pools and threads: the loops of application::run() start no
\* pool twice, so the assertion in thread_pool::run() cannot fail.
THEOREM StartedOnce == Spec => []RunAsserted
  <1>1. IInv /\ NotStarted => RunAsserted
    <2> SUFFICES ASSUME IInv, NotStarted PROVE RunAsserted
      OBVIOUS
    <2>1. i \in i .. main_pools
      BY PoolsAssumption DEF IInv, TypeOK
    <2> QED
      BY <2>1, PoolNames DEF NotStarted, RunAsserted
  <1> QED
    BY <1>1, Invariance, NotStartedAlways, PTL

\* For every number of pools and threads: whatever has stopped or ended stays so
\* until the program exits.
THEOREM NothingRunsAgain == Spec => StoppedForGood
  <1>1. IInv /\ NotStarted /\ [Next]_vars =>
          [/\ \A p \in Pools : stopped[p] => stopped'[p]
           /\ \A w \in Workers : thr[w] = "exited" => thr'[w] = "exited"]_vars
    BY EveryStepOnce
  <1> QED
    BY <1>1, Invariance, NotStartedAlways, PTL DEF Spec, StoppedForGood

------------------------------------------------------------------------------
(* Who runs a coroutine.                                                   *)

Running == {"running", "db_running"}

\* The pool in which a running coroutine, or its query, is run
PoolOf(c) == IF conn[c] = "running" THEN home[c] ELSE Database

\* A connection that runs is run by exactly one thread, which is busy with it, in
\* the pool where this belongs.
Runners ==
    /\ \A w \in Workers : task[w] # NoTask =>
          thr[w] = "busy" /\ conn[task[w]] \in Running /\ w[1] = PoolOf(task[w])
    /\ \A v, w \in Workers : task[v] # NoTask /\ task[v] = task[w] => v = w
    /\ \A c \in Connections : conn[c] \in Running => \E w \in Workers : task[w] = c

\* A coroutine that runs, or whose query is executed, leaves this state only by its
\* own thread.  In particular, the destructors at the end of application::run(),
\* which destroy coroutines that an io_context owns, never meet one that runs.
LeftByRunner ==
    [][\A c \in Connections : conn[c] \in Running /\ conn'[c] # conn[c] =>
          \E w \in Workers : /\ task[w] = c /\ w[1] = PoolOf(c)
                             /\ thr[w] = "busy" /\ task'[w] = NoTask]_vars

\* Whoever runs stays the same if its thread does, and no other one becomes busy.
LEMMA RunnersStay ==
  ASSUME IInv, Runners, UNCHANGED <<task, home>>,
         \A w \in Workers : task[w] # NoTask => thr'[w] = thr[w],
         \A c \in Connections : conn'[c] = conn[c]
                                \/ (conn[c] \notin Running /\ conn'[c] \notin Running)
  PROVE  Runners'
  <1>1. \A w \in Workers : task[w] # NoTask => task[w] \in Connections
    BY DEF IInv, TypeOK
  <1>2. \A w \in Workers : task[w] # NoTask =>
           conn'[task[w]] = conn[task[w]] /\ PoolOf(task[w])' = PoolOf(task[w])
    BY <1>1 DEF Runners, PoolOf
  <1>3. \A w \in Workers : task'[w] # NoTask =>
           thr'[w] = "busy" /\ conn'[task'[w]] \in Running /\ w[1] = PoolOf(task[w])'
    BY <1>2 DEF Runners
  <1>4. \A v, w \in Workers : task'[v] # NoTask /\ task'[v] = task'[w] => v = w
    BY DEF Runners
  <1>5. \A c \in Connections : conn'[c] \in Running => \E w \in Workers : task'[w] = c
    BY DEF Runners
  <1> QED
    BY <1>3, <1>4, <1>5 DEF Runners, PoolOf

\* The main thread starts pools and destroys them: neither concerns one that runs.
LEMMA MainKeepsRunners ==
  ASSUME IInv, NotStarted, Runners, MainStep
  PROVE  /\ Runners'
         /\ \A c \in Connections : conn[c] \in Running => conn'[c] = conn[c]
  <1>1. UNCHANGED <<task, home>>
    BY DEF MainStep, Configure, DbRun, HttpRun, RunControl, RunMain, RunDatabase,
       WaitControl, WaitMain, WaitDatabase, DestroyHttp, ResetAcceptor,
       DestroyDatabase, DestroyMain, DestroyPools, threadVars, connVars
  <1>2. \A w \in Workers : task[w] # NoTask => thr'[w] = thr[w]
    <2>1. CASE RunControl \/ RunMain \/ RunDatabase
      <3>1. PICK p \in Pools :
               /\ thr' = [w \in Workers |-> IF w \in InPool(p) THEN "loop" ELSE thr[w]]
               /\ \A w \in InPool(p) : thr[w] = "new"
        <4>0. i \in 1 .. main_pools /\ i \in i .. main_pools
          BY PoolsAssumption DEF IInv, TypeOK
        <4>1. CASE RunControl
          BY <4>1, PoolNames DEF RunControl, MainGoto, PoolRun, NotStarted
        <4>2. CASE RunMain
          <5>1. Main(i) \in Pools /\ main = "run_main"
            BY <4>0, <4>2, PoolNames DEF RunMain
          <5>2. \A w \in InPool(Main(i)) : thr[w] = "new"
            BY <4>0, <5>1, PoolNames DEF NotStarted
          <5> QED
            BY <4>2, <5>1, <5>2 DEF RunMain, PoolRun
        <4>3. CASE RunDatabase
          BY <4>3, PoolNames DEF RunDatabase, MainGoto, PoolRun, NotStarted
        <4> QED
          BY <2>1, <4>1, <4>2, <4>3
      <3> QED
        BY <3>1 DEF Runners
    <2>2. CASE ~RunControl /\ ~RunMain /\ ~RunDatabase
      BY <2>2, MainLeavesThreads
    <2> QED
      BY <2>1, <2>2
  <1>3. \A c \in Connections : conn'[c] = conn[c]
                               \/ (conn[c] \notin Running /\ conn'[c] \notin Running)
    <2>1. CASE UNCHANGED conn
      BY <2>1
    <2>2. CASE ResetAcceptor \/ DestroyDatabase \/ DestroyMain
      <3>1. PICK P : DestroyPools(P)
        BY <2>2 DEF ResetAcceptor, DestroyDatabase, DestroyMain
      <3>2. \A p \in P : PoolWaited(p)
        BY <3>1 DEF DestroyPools
      <3>3. ASSUME NEW c \in Connections, conn[c] \in Running
            PROVE  conn'[c] = conn[c]
        <4>1. PICK w \in Workers : task[w] = c
          BY <3>3 DEF Runners
        <4>2. thr[w] = "busy" /\ w[1] = PoolOf(c)
          BY <4>1, ConnectionsAssumption DEF Runners, NoTask
        <4>3. PoolOf(c) \notin P
          BY <3>2, <4>2 DEF PoolWaited, InPool
        <4>4. /\ ~(conn[c] \in Owned /\ home[c] \in P)
              /\ conn[c] # "db_queued"
          BY <3>3, <4>3 DEF PoolOf, Running, Owned
        <4> QED
          BY <3>1, <4>4 DEF DestroyPools
      <3>4. \A c \in Connections : conn'[c] \in {"ended", "ready", conn[c]}
        BY <3>1 DEF DestroyPools
      <3> QED
        BY <3>3, <3>4 DEF Running
    <2>3. CASE ~ResetAcceptor /\ ~DestroyDatabase /\ ~DestroyMain
      BY <2>1, <2>3 DEF MainStep, Configure, DbRun, HttpRun, RunControl, RunMain,
         RunDatabase, WaitControl, WaitMain, WaitDatabase, DestroyHttp, connVars
    <2> QED
      BY <2>2, <2>3
  <1> QED
    BY <1>1, <1>2, <1>3, RunnersStay

\* A thread of the control pool runs no connection.
LEMMA ControlFree ==
  ASSUME IInv, Runners, NEW w \in InPool(Control)
  PROVE  task[w] = NoTask
  <1>1. w \in Workers /\ w[1] = Control
    BY PoolNames
  <1>2. task[w] # NoTask => PoolOf(task[w]) # Control
    BY <1>1, PoolNames DEF IInv, TypeOK, PoolOf
  <1> QED
    BY <1>1, <1>2 DEF Runners

\* The loop of a thread, the handler of the signal, the signal itself, and what the
\* client does leave those that run alone.
LEMMA OthersKeepRunners ==
  ASSUME IInv, Runners,
         \/ \E w \in Workers : \/ ThreadLoop(w) \/ RunReturns(w)
                               \/ SignalHandler(w) \/ HandlerStep(w)
         \/ \E w \in Workers, c \in Connections : Accept(w, c)
         \/ \E c \in Connections : IoCompletes(c)
         \/ Signal
         \/ UNCHANGED vars
  PROVE  /\ Runners'
         /\ \A c \in Connections : conn[c] \in Running => conn'[c] = conn[c]
  <1>1. UNCHANGED <<task, home>>
    BY DEF ThreadLoop, RunReturns, SignalHandler, HandlerStep, StopMain, StopDatabase,
       Interrupt, Accept, IoCompletes, Signal, vars, threadVars, connVars
  <1>2. \A w \in Workers : task[w] # NoTask => thr'[w] = thr[w]
    <2>1. \/ UNCHANGED thr
          \/ \E w \in Workers : \E x : /\ thr[w] # "busy" \/ w \in InPool(Control)
                                       /\ thr' = [thr EXCEPT ![w] = x]
      BY DEF ThreadLoop, RunReturns, SignalHandler, HandlerStep, StopMain, StopDatabase,
         Interrupt, Accept, IoCompletes, Signal, vars, threadVars
    <2>2. CASE UNCHANGED thr
      BY <2>2
    <2>3. ASSUME NEW w \in Workers, NEW x, thr[w] # "busy" \/ w \in InPool(Control),
                 thr' = [thr EXCEPT ![w] = x]
          PROVE  \A v \in Workers : task[v] # NoTask => thr'[v] = thr[v]
      <3>1. task[w] = NoTask
        BY <2>3, ControlFree DEF Runners
      <3> QED
        BY <2>3, <3>1 DEF IInv, TypeOK
    <2> QED
      BY <2>1, <2>2, <2>3
  <1>3. \A c \in Connections : conn'[c] = conn[c]
                               \/ (conn[c] \notin Running /\ conn'[c] \notin Running)
    <2>1. \/ UNCHANGED conn
          \/ \E c \in Connections, x \in {"spawned", "ready"} :
                conn[c] \in {"none", "io"} /\ conn' = [conn EXCEPT ![c] = x]
      BY DEF ThreadLoop, RunReturns, SignalHandler, HandlerStep, StopMain, StopDatabase,
         Interrupt, Accept, IoCompletes, Signal, vars, connVars
    <2> QED
      BY <2>1 DEF IInv, TypeOK, Running
  <1> QED
    BY <1>1, <1>2, <1>3, RunnersStay

\* A thread takes a connection that nobody runs.
LEMMA DispatchKeepsRunners ==
  ASSUME IInv, Runners, NEW w \in Workers, NEW c \in Connections, Dispatch(w, c)
  PROVE  /\ Runners'
         /\ \A d \in Connections : conn[d] \in Running => conn'[d] = conn[d]
  <1>1. /\ thr[w] = "run" /\ conn[c] \notin Running /\ UNCHANGED home
        /\ thr' = [thr EXCEPT ![w] = "busy"] /\ task' = [task EXCEPT ![w] = c]
    BY DEF Dispatch, Running
  <1>2. PICK s \in Running : /\ conn' = [conn EXCEPT ![c] = s]
                             /\ w[1] = IF s = "running" THEN home[c] ELSE Database
    BY PoolNames DEF Dispatch, Running
  <1>3. /\ task[w] = NoTask /\ task'[w] = c /\ c # NoTask /\ thr'[w] = "busy"
        /\ \A v \in Workers : v # w => task'[v] = task[v] /\ thr'[v] = thr[v]
        /\ conn'[c] = s /\ \A d \in Connections : d # c => conn'[d] = conn[d]
    BY <1>1, <1>2, ConnectionsAssumption DEF IInv, TypeOK, Runners, NoTask
  <1>4. \A v \in Workers : task[v] # NoTask => task[v] \in Connections /\ task[v] # c
    BY <1>1 DEF IInv, TypeOK, Runners
  <1>5. ASSUME NEW v \in Workers, task'[v] # NoTask
        PROVE  thr'[v] = "busy" /\ conn'[task'[v]] \in Running
               /\ v[1] = IF conn'[task'[v]] = "running" THEN home'[task'[v]] ELSE Database
    <2>1. CASE v = w
      BY <1>1, <1>2, <1>3, <2>1
    <2>2. CASE v # w
      <3>1. /\ task'[v] = task[v] /\ thr'[v] = thr[v] /\ task[v] # NoTask
            /\ conn'[task[v]] = conn[task[v]] /\ home' = home
        BY <1>1, <1>3, <1>4, <1>5, <2>2
      <3> QED
        BY <3>1 DEF Runners, PoolOf
    <2> QED
      BY <2>1, <2>2
  <1>6. \A u, v \in Workers : task'[u] # NoTask /\ task'[u] = task'[v] => u = v
    BY <1>3, <1>4 DEF Runners
  <1>7. \A d \in Connections : conn'[d] \in Running => \E v \in Workers : task'[v] = d
    BY <1>3, <1>4, ConnectionsAssumption DEF Runners, NoTask
  <1>8. \A d \in Connections : conn[d] \in Running => conn'[d] = conn[d]
    BY <1>1, <1>3
  <1> QED
    BY <1>5, <1>6, <1>7, <1>8 DEF Runners, PoolOf

\* A thread leaves the connection that it runs.
LEMMA LeaveKeepsRunners ==
  ASSUME IInv, Runners, NEW w \in Workers, Yield(w) \/ Throw(w)
  PROVE  /\ Runners'
         /\ task[w] \in Connections /\ task'[w] = NoTask
         /\ thr[w] = "busy" /\ w[1] = PoolOf(task[w])
         /\ \A d \in Connections : d # task[w] => conn'[d] = conn[d]
  <1> DEFINE c == task[w]
  <1>1. /\ thr[w] = "busy" /\ c # NoTask /\ UNCHANGED home
        /\ \E x : thr' = [thr EXCEPT ![w] = x]
        /\ task' = [task EXCEPT ![w] = NoTask]
    BY DEF Yield, Throw
  <1>2. PICK s : s \notin Running /\ conn' = [conn EXCEPT ![c] = s]
    BY DEF Yield, Throw, Running
  <1>3. c \in Connections /\ w[1] = PoolOf(c)
    BY <1>1 DEF IInv, TypeOK, Runners
  <1> HIDE DEF c
  <1>4. /\ task'[w] = NoTask
        /\ \A v \in Workers : v # w => task'[v] = task[v] /\ thr'[v] = thr[v]
        /\ conn'[c] = s /\ \A d \in Connections : d # c => conn'[d] = conn[d]
    BY <1>1, <1>2, <1>3 DEF IInv, TypeOK
  <1>5. \A v \in Workers : v # w /\ task[v] # NoTask =>
           task[v] \in Connections /\ task[v] # c
    BY DEF IInv, TypeOK, Runners, c
  <1>6. ASSUME NEW v \in Workers, task'[v] # NoTask
        PROVE  thr'[v] = "busy" /\ conn'[task'[v]] \in Running
               /\ v[1] = IF conn'[task'[v]] = "running" THEN home'[task'[v]] ELSE Database
    <2>1. /\ task'[v] = task[v] /\ thr'[v] = thr[v] /\ task[v] # NoTask
          /\ conn'[task[v]] = conn[task[v]] /\ home' = home
      BY <1>1, <1>4, <1>5, <1>6
    <2> QED
      BY <2>1 DEF Runners, PoolOf
  <1>7. \A u, v \in Workers : task'[u] # NoTask /\ task'[u] = task'[v] => u = v
    BY <1>4 DEF Runners
  <1>8. \A d \in Connections : conn'[d] \in Running => \E v \in Workers : task'[v] = d
    BY <1>2, <1>4 DEF Runners, c
  <1> QED
    BY <1>1, <1>3, <1>4, <1>6, <1>7, <1>8 DEF Runners, PoolOf, c

\* For every number of pools, threads and connections: no coroutine is run by two
\* threads, and none is destroyed while a thread runs it.
THEOREM RunsUndisturbed == Spec => LeftByRunner
  <1>1. Init => Runners
    BY DEF Init, Runners, Running
  <1>2. ASSUME IInv, NotStarted, Runners, [Next]_vars
        PROVE  /\ Runners'
               /\ \A c \in Connections : conn[c] \in Running /\ conn'[c] # conn[c] =>
                     \E w \in Workers : /\ task[w] = c /\ w[1] = PoolOf(c)
                                        /\ thr[w] = "busy" /\ task'[w] = NoTask
    <2>1. CASE MainStep
      BY <1>2, <2>1, MainKeepsRunners
    <2>2. ASSUME NEW w \in Workers, NEW c \in Connections, Dispatch(w, c)
          PROVE  /\ Runners'
                 /\ \A d \in Connections : conn[d] \in Running => conn'[d] = conn[d]
      BY <1>2, <2>2, DispatchKeepsRunners
    <2>3. ASSUME NEW w \in Workers, Yield(w) \/ Throw(w)
          PROVE  /\ Runners'
                 /\ task[w] \in Connections /\ task'[w] = NoTask
                 /\ thr[w] = "busy" /\ w[1] = PoolOf(task[w])
                 /\ \A d \in Connections : d # task[w] => conn'[d] = conn[d]
      BY <1>2, <2>3, LeaveKeepsRunners
    <2>4. CASE \/ \E w \in Workers : \/ ThreadLoop(w) \/ RunReturns(w)
                                     \/ SignalHandler(w) \/ HandlerStep(w)
               \/ \E w \in Workers, c \in Connections : Accept(w, c)
               \/ \E c \in Connections : IoCompletes(c)
               \/ Signal
               \/ UNCHANGED vars
      BY <1>2, <2>4, OthersKeepRunners
    <2> QED
      BY <1>2, <2>1, <2>2, <2>3, <2>4 DEF Next, ThreadStep
  <1>3. IInv /\ NotStarted /\ Runners /\ [Next]_vars => Runners'
    BY <1>2
  <1>4. IInv /\ NotStarted /\ Runners /\ [Next]_vars =>
          [\A c \in Connections : conn[c] \in Running /\ conn'[c] # conn[c] =>
              \E w \in Workers : /\ task[w] = c /\ w[1] = PoolOf(c)
                                 /\ thr[w] = "busy" /\ task'[w] = NoTask]_vars
    BY <1>2
  <1>5. Spec => []Runners
    BY <1>1, <1>3, Invariance, NotStartedAlways, PTL DEF Spec
  <1> QED
    BY <1>4, <1>5, Invariance, NotStartedAlways, PTL DEF Spec, LeftByRunner
==============================================================================
