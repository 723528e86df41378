------------------------------ MODULE AcceptLoop ------------------------------
(***************************************************************************)
(* The accept loop of http_server and the limit on the number of           *)
(* simultaneously served connections.                                      *)
(*                                                                         *)
(* Actors: the single accept_loop() coroutine, which runs on the threads   *)
(* of the last main pool, and one handle_connection() coroutine for each   *)
(* accepted client, which runs on the threads of the pool chosen for it.   *)
(* They share the counter active_connections (an atomic), and the slot     *)
(* active_connections_hnd in which the loop parks its own continuation     *)
(* when the limit is reached; the slot is protected by                     *)
(* active_connections_mtx.  Every step below is what one thread does       *)
(* between two points where another thread can interleave: the counter is  *)
(* incremented without the mutex, so the critical sections are not atomic. *)
(*                                                                         *)
(* Session numbers are used only in log messages and are left out.         *)
(***************************************************************************)
EXTENDS Naturals, FiniteSets

CONSTANTS
    Clients,          \* the clients that may connect (each one repeatedly)
    max_connections,  \* HttpServer.max_connections, 0 = unlimited
    main_pools,       \* the number of main thread pools, workers.size()
    accept_pool       \* ThreadPools.accept_pool

ASSUME ConstantsAssumption ==
    /\ IsFiniteSet(Clients)
    /\ max_connections \in Nat
    /\ main_pools \in Nat \ {0}
    /\ accept_pool \in BOOLEAN

VARIABLES
    loop,     \* the control state of accept_loop()
    st,       \* the control state of each client's connection
    active,   \* active_connections
    mtx,      \* TRUE while active_connections_mtx is locked
    hnd,      \* TRUE while active_connections_hnd holds the parked loop
    posted,   \* TRUE while the continuation is queued in the acceptor's pool
    worker_i, \* the pool that the next accepted connection gets
    pool      \* the pool whose strand runs the client's connection

vars == <<loop, st, active, mtx, hnd, posted, worker_i, pool>>

LoopStates == {"conn_limit", "check", "install", "suspended",
               "async_accept", "accepted", "counted", "dead"}

ConnStates == {"away", "backlog", "accepted", "counted", "handling",
               "at_end", "locked", "notify", "leaked"}

Limited == max_connections # 0

\* Faulty: the reserved pool stays in the round robin.
use_workers_All == main_pools

\* The constructor takes one pool away from the round robin if it is reserved
\* for the acceptor; the acceptor always uses the last pool.
use_workers == IF main_pools > 1 /\ accept_pool THEN main_pools - 1
                                                ELSE main_pools
AcceptorPool == main_pools - 1

TypeOK ==
    /\ loop \in LoopStates
    /\ st \in [Clients -> ConnStates]
    /\ active \in Nat
    /\ mtx \in BOOLEAN
    /\ hnd \in BOOLEAN
    /\ posted \in BOOLEAN
    /\ worker_i \in 0 .. use_workers - 1
    /\ pool \in [Clients -> 0 .. main_pools - 1]

Init ==
    /\ loop = "conn_limit"
    /\ st = [c \in Clients |-> "away"]
    /\ active = 0
    /\ mtx = FALSE
    /\ hnd = FALSE
    /\ posted = FALSE
    /\ worker_i = 0
    /\ pool = [c \in Clients |-> 0]

------------------------------------------------------------------------------
(* The environment: clients and the listen queue of the kernel.            *)

Connect(c) ==
    /\ st[c] = "away"
    /\ st' = [st EXCEPT ![c] = "backlog"]
    /\ UNCHANGED <<loop, active, mtx, hnd, posted, worker_i, pool>>

GiveUp(c) ==
    /\ st[c] = "backlog"
    /\ st' = [st EXCEPT ![c] = "away"]
    /\ UNCHANGED <<loop, active, mtx, hnd, posted, worker_i, pool>>

------------------------------------------------------------------------------
(* accept_loop() and conn_limit()                                          *)

\* Faulty: the round robin does not wrap around.
NextIteration_NoWrap ==
    /\ worker_i' = worker_i + 1
    /\ loop' = "conn_limit"

NextIteration ==
    /\ worker_i' = (worker_i + 1) % use_workers
    /\ loop' = "conn_limit"

\* Faulty: the limit is tested without locking active_connections_mtx.
ConnLimitLock_NoMutex ==
    /\ loop = "conn_limit"
    /\ loop' = "check"
    /\ UNCHANGED <<st, active, mtx, hnd, posted, worker_i, pool>>

ConnLimitLock ==
    /\ loop = "conn_limit"
    /\ ~mtx
    /\ mtx' = TRUE
    /\ loop' = "check"
    /\ UNCHANGED <<st, active, hnd, posted, worker_i, pool>>

\* Faulty: one connection too many.
LimitReached_OffByOne == Limited /\ active > max_connections

LimitReached == Limited /\ active >= max_connections

\* No limit or still room: the lock is released and the loop goes on.
ConnLimitPass ==
    /\ loop = "check"
    /\ ~LimitReached
    /\ mtx' = FALSE
    /\ loop' = "async_accept"
    /\ UNCHANGED <<st, active, hnd, posted, worker_i, pool>>

\* Full: the lock moves into conn_limit_init and stays held until the
\* coroutine is suspended.
ConnLimitFull ==
    /\ loop = "check"
    /\ LimitReached
    /\ loop' = "install"
    /\ UNCHANGED <<st, active, mtx, hnd, posted, worker_i, pool>>

\* conn_limit_init::operator(): park the continuation, then unlock.
ConnLimitInit ==
    /\ loop = "install"
    /\ hnd' = TRUE
    /\ mtx' = FALSE
    /\ loop' = "suspended"
    /\ UNCHANGED <<st, active, posted, worker_i, pool>>

\* The continuation posted by active_connection_end() runs.  The limit is not
\* tested again: the loop goes straight to async_accept().
Resume ==
    /\ loop = "suspended"
    /\ posted
    /\ posted' = FALSE
    /\ loop' = "async_accept"
    /\ UNCHANGED <<st, active, mtx, hnd, worker_i, pool>>

AcceptFailed ==
    /\ loop = "async_accept"
    /\ NextIteration
    /\ UNCHANGED <<st, active, mtx, hnd, posted, pool>>

Accepted(c) ==
    /\ loop = "async_accept"
    /\ st[c] = "backlog"
    /\ st' = [st EXCEPT ![c] = "accepted"]
    /\ loop' = "accepted"
    /\ UNCHANGED <<active, mtx, hnd, posted, worker_i, pool>>

\* Faulty: a connection that was never counted is uncounted.
NoEndpoint_Uncounts(c) ==
    /\ loop = "accepted"
    /\ st[c] = "accepted"
    /\ active' = active - 1
    /\ st' = [st EXCEPT ![c] = "away"]
    /\ NextIteration
    /\ UNCHANGED <<mtx, hnd, posted, pool>>

\* remote_endpoint(ec) reports an error: the socket is closed.
NoEndpoint(c) ==
    /\ loop = "accepted"
    /\ st[c] = "accepted"
    /\ st' = [st EXCEPT ![c] = "away"]
    /\ NextIteration
    /\ UNCHANGED <<active, mtx, hnd, posted, pool>>

Count(c) ==
    /\ loop = "accepted"
    /\ st[c] = "accepted"
    /\ active' = active + 1
    /\ st' = [st EXCEPT ![c] = "counted"]
    /\ loop' = "counted"
    /\ UNCHANGED <<mtx, hnd, posted, worker_i, pool>>

Spawn(c) ==
    /\ loop = "counted"
    /\ st[c] = "counted"
    /\ st' = [st EXCEPT ![c] = "handling"]
    /\ pool' = [pool EXCEPT ![c] = worker_i]
    /\ NextIteration
    /\ UNCHANGED <<active, mtx, hnd, posted>>

\* The log statement calls the overload of remote_endpoint() that throws if
\* the client has disconnected in the meantime.  The exception leaves
\* accept_loop() and is rethrown by co_spawn_handler(): the coroutine is gone
\* and the connection stays counted.
EndpointThrows(c) ==
    /\ loop = "counted"
    /\ st[c] = "counted"
    /\ st' = [st EXCEPT ![c] = "leaked"]
    /\ loop' = "dead"
    /\ UNCHANGED <<active, mtx, hnd, posted, worker_i, pool>>

------------------------------------------------------------------------------
(* handle_connection() seen from the accept loop: it ends, normally or by  *)
(* an exception, the stream is destroyed and then the at_end destructor    *)
(* calls active_connection_end().                                          *)

Finish(c) ==
    /\ st[c] = "handling"
    /\ st' = [st EXCEPT ![c] = "at_end"]
    /\ UNCHANGED <<loop, active, mtx, hnd, posted, worker_i, pool>>

EndLock(c) ==
    /\ st[c] = "at_end"
    /\ ~mtx
    /\ mtx' = TRUE
    /\ st' = [st EXCEPT ![c] = "locked"]
    /\ UNCHANGED <<loop, active, hnd, posted, worker_i, pool>>

EndDecrement(c) ==
    /\ st[c] = "locked"
    /\ active' = active - 1
    /\ st' = [st EXCEPT ![c] = "notify"]
    /\ UNCHANGED <<loop, mtx, hnd, posted, worker_i, pool>>

\* Faulty: only the last connection to leave wakes the loop.
MayResume_WhenEmpty == Limited /\ active = 0 /\ hnd

MayResume == Limited /\ active < max_connections /\ hnd

\* Faulty: the slot is not reset after its content has been posted.
PostHandler_NoReset == posted' = TRUE /\ hnd' = hnd

PostHandler == posted' = TRUE /\ hnd' = FALSE

\* active_connections is read again here; then the lock is released.
EndNotify(c) ==
    /\ st[c] = "notify"
    /\ IF MayResume THEN PostHandler ELSE UNCHANGED <<hnd, posted>>
    /\ mtx' = FALSE
    /\ st' = [st EXCEPT ![c] = "away"]
    /\ UNCHANGED <<loop, active, worker_i, pool>>

------------------------------------------------------------------------------
LoopStep == \/ ConnLimitLock \/ ConnLimitPass \/ ConnLimitFull
            \/ ConnLimitInit \/ Resume \/ AcceptFailed
            \/ \E c \in Clients : \/ Accepted(c) \/ NoEndpoint(c)
                                  \/ Count(c) \/ Spawn(c) \/ EndpointThrows(c)

EndStep(c) == EndLock(c) \/ EndDecrement(c) \/ EndNotify(c)

Next == \/ LoopStep
        \/ \E c \in Clients : \/ Connect(c) \/ GiveUp(c)
                              \/ Finish(c) \/ EndStep(c)

(***************************************************************************)
(* Threads of a pool run whatever is ready, hence weak fairness of the     *)
(* steps that need no lock; a thread blocked on the mutex gets it if it is *)
(* released again and again, hence strong fairness of the locking steps.   *)
(* Nothing is assumed about clients: a connection may be handled forever.  *)
(***************************************************************************)
Fairness ==
    /\ WF_vars(ConnLimitPass \/ ConnLimitFull \/ ConnLimitInit \/ Resume)
    /\ SF_vars(ConnLimitLock)
    /\ \A c \in Clients : /\ SF_vars(EndLock(c))
                          /\ WF_vars(EndDecrement(c) \/ EndNotify(c))

Spec == Init /\ [][Next]_vars

FairSpec == Spec /\ Fairness

------------------------------------------------------------------------------
(* Properties *)

Counted == {c \in Clients : st[c] \in {"counted", "handling", "at_end",
                                       "locked", "leaked"}}

OpenSockets == {c \in Clients : st[c] \in {"accepted", "counted", "handling"}}

\* The counter is exact: between any two steps active_connections is the number
\* of connections that have been counted and have not been uncounted, although
\* it is changed with and without the mutex by different threads.
CountExact == active = Cardinality(Counted)

\* The limit counts sockets, not only increments: with max_connections
\* configured, the sockets that are open on behalf of clients, the one just
\* accepted and not yet counted included, never outnumber it.
ServedLimit == Limited => Cardinality(OpenSockets) <= max_connections

\* A parked accept loop cannot be forgotten: while its continuation lies in
\* active_connections_hnd, either the server is full or a connection that has
\* left is inside active_connection_end() and is going to post it.
WakeupNotLost ==
    hnd => active >= max_connections \/ \E c \in Clients : st[c] = "notify"

\* The continuation of a suspended loop exists in exactly one place, the slot
\* or the queue of the acceptor's pool, and nowhere if the loop is running: the
\* coroutine is never resumed twice and never left without a way to resume.
OneContinuation ==
    /\ loop = "suspended" <=> (hnd \/ posted)
    /\ ~(hnd /\ posted)

\* configuration.proto: "If main_pools > 1, reserve one pool just for accepting
\* new connections".  No connection is handled by the acceptor's pool then.
ReservedPool ==
    accept_pool /\ main_pools > 1 =>
        \A c \in Clients : st[c] = "handling" => pool[c] # AcceptorPool

\* A connection that ends while the loop is suspended gets it accepting again.
LeaveResumes ==
    (loop = "suspended" /\ \E c \in Clients : st[c] = "at_end")
        ~> (loop = "async_accept")

\* What service to every client takes besides Fairness: handle_connection()
\* ends, as it does when all the timeouts are set (WaitsEnd of HttpConnection),
\* a call of async_accept() made again and again succeeds at last, and the loop
\* goes on with what it has accepted.
ConnectionsEnd ==
    /\ \A c \in Clients : WF_vars(Finish(c))
    /\ SF_vars(\E c \in Clients : Accepted(c))
    /\ WF_vars(\E c \in Clients : \/ NoEndpoint(c) \/ Count(c)
                                   \/ Spawn(c) \/ EndpointThrows(c))

\* Connections that wait in the listen queue while the server is full, or while
\* async_accept() fails, are not left there: if every connection ends, the loop
\* takes one of them, or is gone by the exception of AcceptorSurvives.
BacklogServed ==
    ConnectionsEnd =>
        (\E c \in Clients : st[c] = "backlog")
            ~> (loop \in {"accepted", "dead"} \/ \A c \in Clients : st[c] # "backlog")

\* The two ways in which a full server must become available again: at once,
\* whatever the other connections do, and for those who have been waiting.
ClientsServed == LeaveResumes /\ BacklogServed

\* README.md names SIGTERM and SIGINT as the way to stop the server: without
\* them, accept_loop() is never gone.
AcceptorSurvives == loop # "dead"

Abstract == INSTANCE Admission WITH served <- Counted

\* Refinement: each connection takes a slot only while there is room for it and
\* gives it back exactly once.
ImplementsAdmission == Abstract!Spec
==============================================================================
