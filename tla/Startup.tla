-------------------------------- MODULE Startup --------------------------------
(***************************************************************************)
(* main(): the configuration is read and validated, the level of the log   *)
(* is set, databases are opened and the server socket is bound, and the    *)
(* end of the program is reported.  While the application runs, its        *)
(* threads write to the log; what else they do is in Lifecycle.            *)
(*                                                                         *)
(* Of the messages of the main thread only those about failures and the    *)
(* end are modelled.  It writes each of them in one expression, so they    *)
(* appear in the log in one step.                                          *)
(***************************************************************************)
EXTENDS Configuration, Logging

CONSTANTS
    Configurations,  \* what the file may say
    Databases        \* the names of the databases in it

ASSUME ConfigurationsAssumption == Configurations \subseteq Configuration

\* The main thread, which is "main" in the log, is not one of the pools.
ASSUME WritersAssumption == "main" \notin Writers

VARIABLES
    cfg,     \* configuration::_cfg
    main,    \* the control state of main(): "begin", "read", "level", "open",
             \*   "http_run", "running", "finish" or "exit"
    dbs,     \* db_server::databases: for each thread those that it has opened,
             \*   and the db_sync_t of each, 0: none
    cause,   \* history: what has failed
    result,  \* the exit status
    cout     \* whether the failure was written to the standard output

startVars == <<cfg, main, dbs, cause, result, cout>>
vars == <<startVars, logVars>>

database_threads == num_threads(cfg.database_threads)

Init ==
    /\ LogInit
    /\ cfg \in Configurations
    /\ main = "begin"
    /\ dbs = <<>>
    /\ cause = "none"
    /\ result = "EXIT_FAILURE"
    /\ cout = FALSE

\* Messages of the main thread with the same level
say(l, texts) ==
    /\ out' = IF enabled(l) THEN out \o [i \in DOMAIN texts |-> <<"main", i, texts[i]>>]
                            ELSE out
    /\ UNCHANGED <<level, msg, made, written>>

fail(what, texts) ==
    /\ cause' = what
    /\ main' = "finish"
    /\ say(log_levels.crit, texts)
    /\ UNCHANGED <<cfg, dbs, result, cout>>

------------------------------------------------------------------------------
Usage ==
    /\ main = "begin"
    /\ cause' = "usage"
    /\ main' = "finish"
    /\ cout' = TRUE
    /\ say(log_levels.crit, <<"usage">>)
    /\ UNCHANGED <<cfg, dbs, result>>

CommandLine ==
    /\ main = "begin"
    /\ main' = "read"
    /\ UNCHANGED <<cfg, dbs, cause, result, cout, logVars>>

\* Faulty: a file that cannot be read to the end is given up without a word.
ReadError_Silent(what) == fail(what, <<>>)

\* The file cannot be opened, not read to the end, or is not valid JSON.
ReadError(what) == fail(what, <<what>>)

\* The constructor of configuration
ReadFails ==
    /\ main = "read"
    /\ \E what \in {"open", "not_to_the_end", "parse"} : ReadError(what)

\* validate() complains about everything that it finds.
Refuse ==
    /\ main = "read" /\ ~validate(cfg)
    /\ fail("invalid", [i \in 1 .. Cardinality(Complaints(cfg)) |-> "invalid"])

ReadConfiguration ==
    /\ main = "read" /\ validate(cfg)
    /\ main' = "level"
    /\ UNCHANGED <<cfg, dbs, cause, result, cout, logVars>>

\* logger::global().level() and the construction of the thread pools
SetLevel ==
    /\ main = "level"
    /\ level' = IF get_log_level(cfg) = None THEN level ELSE get_log_level(cfg)
    /\ main' = "open"
    /\ UNCHANGED <<cfg, dbs, cause, result, cout, msg, made, written, out>>

------------------------------------------------------------------------------
(* db_server::run() *)

\* Faulty: every thread makes its own db_sync_t.
new_sync_Own(d) == Len(dbs)

\* The db_sync_t of database d in the last thread, named by who has made it
new_sync(d) == IF Len(dbs) = 1 THEN 1 ELSE dbs[1].sync[d]

Last == dbs[Len(dbs)]

\* A database that is open, but has neither its queries nor its db_sync_t yet
Unprepared == {d \in Last.opened : Last.sync[d] = 0}

\* The databases of the last thread are all open and prepared.
ThreadReady == dbs # <<>> => Last.opened = Databases /\ Unprepared = {}

NextThread ==
    /\ main = "open" /\ ThreadReady /\ Len(dbs) < database_threads
    /\ dbs' = Append(dbs, [opened |-> {}, sync |-> [d \in Databases |-> 0]])
    /\ UNCHANGED <<cfg, main, cause, result, cout, logVars>>

Opening(d) ==
    /\ main = "open" /\ dbs # <<>> /\ d \notin Last.opened
    /\ Unprepared = {}

OpenDatabase(d) ==
    /\ Opening(d)
    /\ dbs' = [dbs EXCEPT ![Len(dbs)].opened = @ \cup {d}]
    /\ UNCHANGED <<cfg, main, cause, result, cout, logVars>>

Preparing(d) == main = "open" /\ dbs # <<>> /\ d \in Unprepared

PrepareQueries(d) ==
    /\ Preparing(d)
    /\ dbs' = [dbs EXCEPT ![Len(dbs)].sync[d] = new_sync(d)]
    /\ UNCHANGED <<cfg, main, cause, result, cout, logVars>>

\* The exception is caught in run().
sqlite_error == fail("databases", <<"databases", "db_server">>)

\* sqlite3_open_v2() or the pragma fails.
OpenFails(d) == Opening(d) /\ sqlite_error

\* sqlite3_prepare_v3() fails.
PrepareFails(d) == Preparing(d) /\ sqlite_error

DatabaseStep(d) == \/ OpenDatabase(d) \/ OpenFails(d)
                   \/ PrepareQueries(d) \/ PrepareFails(d)

DbRunEnds ==
    /\ main = "open" /\ ThreadReady /\ Len(dbs) = database_threads
    /\ main' = "http_run"
    /\ UNCHANGED <<cfg, dbs, cause, result, cout, logVars>>

------------------------------------------------------------------------------
(* http_server::run() and the end *)

HttpRun ==
    /\ main = "http_run"
    /\ main' = "running"
    /\ UNCHANGED <<cfg, dbs, cause, result, cout, logVars>>

\* set_option(), bind() or listen() fails.
HttpRunFails ==
    /\ main = "http_run"
    /\ fail("listen", <<"listen", "http_server">>)

final_exception ==
    /\ cause' = "exception"
    /\ main' = "exit"
    /\ cout' = TRUE
    /\ say(log_levels.emerg, <<"exception">>)
    /\ UNCHANGED <<cfg, dbs, result>>

\* acceptor.open() is the overload that throws.
AcceptorThrows == main = "http_run" /\ final_exception

\* The threads of the pools
Work ==
    /\ main = "running"
    /\ \E w \in Writers : WriterStep(w)
    /\ UNCHANGED startVars

\* All threads have been joined, and application::run() returns.
RunEnds ==
    /\ main = "running"
    /\ \A w \in Writers : msg[w] = NoMsg
    /\ main' = "finish"
    /\ result' = "EXIT_SUCCESS"
    /\ UNCHANGED <<cfg, dbs, cause, cout, logVars>>

\* Only the message after an error is modelled.
Finish ==
    /\ main = "finish"
    /\ main' = "exit"
    /\ say(log_levels.crit,
           IF result = "EXIT_SUCCESS" THEN <<>> ELSE <<"Terminating after error">>)
    /\ UNCHANGED <<cfg, dbs, cause, result, cout>>

Next == \/ Usage \/ CommandLine \/ ReadFails \/ Refuse \/ ReadConfiguration
        \/ SetLevel \/ NextThread \/ DbRunEnds
        \/ \E d \in Databases : DatabaseStep(d)
        \/ HttpRun \/ HttpRunFails \/ AcceptorThrows \/ Work \/ RunEnds \/ Finish

Spec == Init /\ [][Next]_vars

------------------------------------------------------------------------------
(* Properties *)

Accepted == main \in {"open", "http_run", "running"}

\* Every accepted configuration can be used: there is a port, and at least one
\* pool and one thread of each kind; listen() gets an int, no conversion of a
\* time overflows, and wait_for() does not.
AcceptedUsable ==
    Accepted =>
        LET s == settings(cfg)
        IN  /\ s.port \in 1 .. PORT_MAX
            /\ s.use_workers \in 1 .. s.pools
            /\ s.main_threads >= 1 /\ s.control_threads >= 1
            /\ s.database_threads >= 1
            /\ s.listen_queue = None \/ s.listen_queue \in 1 .. INT_MAX
            /\ {s.idle_timeout, s.keepalive_timeout} \subseteq {None} \cup (0 .. REP_MAX)
            /\ s.retry_wait \in 0 .. max_retry_wait

\* A time t in ns nanoseconds, up to the precision of float and one nanosecond
NotLonger(t, ns) == (FloatRange + 1) * t * NanoPerSecond >= FloatRange * ns * FloatUnit
NotShorter(t, ns) ==
    (FloatRange - 1) * t * NanoPerSecond <= FloatRange * (ns + 1) * FloatUnit

\* A time that is used as it is configured, or the maximum instead of a longer one
TimeKept(t, ns, max) ==
    t > 0 /\ ns # None /\ NotLonger(t, ns) /\ (NotShorter(t, ns) \/ ns = max)

\* What each setting is for a configuration that is not refused.  It is used as it
\* is, 0 is the default or no limit, as configuration.proto says, and nothing
\* else is unlimited, but for what the code replaces without a message:
\*  - listen_queue, timeouts and retry_wait are capped at what listen(),
\*    nanoseconds and wait_for() can take;
\*  - limits keep only 32 bits;
\*  - a negative number of database threads is 1 thread;
\*  - a timeout that is NaN is unlimited, and with a retry_wait that is negative or
\*    NaN a query is retried at once.
\* The letter that "Log level set to" shows stands for the level with -l, too.
SettingsHonoured ==
    Accepted =>
        LET s == settings(cfg)
        IN  /\ s.port = IF cfg.port = 0 THEN http_port_default ELSE cfg.port
            /\ s.pools = IF cfg.main_pools < 1 THEN 1 ELSE cfg.main_pools
            /\ s.pools - s.use_workers =
                  IF cfg.accept_pool /\ cfg.main_pools > 1 THEN 1 ELSE 0
            /\ \A f \in {"main_threads", "control_threads"} :
                  cfg[f] # 0 => s[f] = cfg[f]
            /\ cfg.database_threads # 0 =>
                  s.database_threads =
                      IF cfg.database_threads < 0 THEN 1 ELSE cfg.database_threads
            /\ IF cfg.listen_queue = 0 THEN s.listen_queue = None
               ELSE \/ s.listen_queue = cfg.listen_queue
                    \/ s.listen_queue = INT_MAX /\ cfg.listen_queue > INT_MAX
            /\ \A f \in {"max_connections", "keepalive_requests",
                         "max_request_headers", "max_request_body"} :
                  /\ s[f] = None <=> cfg[f] = 0
                  /\ cfg[f] # 0 /\ cfg[f] < UINT32 => s[f] = cfg[f]
            /\ \A f \in {"idle_timeout", "keepalive_timeout"} :
                  IF cfg[f] \in {0, NaN} THEN s[f] = None
                                         ELSE TimeKept(cfg[f], s[f], REP_MAX)
            /\ IF cfg.retry_wait = NaN \/ cfg.retry_wait <= 0 THEN s.retry_wait = 0
               ELSE TimeKept(cfg.retry_wait, s.retry_wait, max_retry_wait)
            /\ level = IF cfg.level = 0 THEN log_levels.info ELSE cfg.level - 2
            /\ from_string(to_string(level)) = level

\* When the application runs, every thread of the database pool finds every
\* database complete at its index, and all of them share its db_sync_t.
DatabasesReady ==
    main \in {"http_run", "running"} =>
        /\ Len(dbs) = database_threads
        /\ \A t \in DOMAIN dbs :
              /\ dbs[t].opened = Databases
              /\ \A d \in Databases :
                    dbs[t].sync[d] # 0 /\ dbs[t].sync[d] = dbs[1].sync[d]

\* The exit status tells whether something failed, and what failed is in the
\* log, unless its level was configured to exclude it; an exception is reported
\* even then.
FailureReported ==
    main = "exit" =>
        /\ result = "EXIT_SUCCESS" <=> cause = "none"
        /\ cause = "exception" => cout
        /\ cause # "none" /\ level >= log_levels.crit =>
              \E i \in DOMAIN out : out[i][1] = "main" /\ out[i][3] = cause
==============================================================================
