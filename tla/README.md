# Formal models of acppsrv

TLA+ modules for `acppsrv`, an asynchronous HTTP server (C++20 coroutines,
Boost.Asio, Boost.Beast) with SQLite databases, and for its database benchmark.
Every module is translated from the source; `PROJECT.json` maps each definition
to the lines it stands for. Definitions keep the names of the code (`use_workers`,
`before_request_timeout`, `is_done`) where they model one function or variable.
A definition whose name ends in `_Something` and whose comment begins with
`Faulty:` is a plausible bug: it is not part of the model, but shows that the
property named in `PROJECT.json` notices it.

## 1. The system

| Part | State | Operations | Interacts with |
| --- | --- | --- | --- |
| accept loop and connection limit (`http_server.cpp`) | atomic `active_connections`, mutex, slot `active_connections_hnd` with the parked coroutine, `worker_i` | `accept_loop`, `conn_limit`, `conn_limit_init`, `active_connection_end` | all connections, through the counter and the slot; the acceptor's pool |
| HTTP connection (`http_server.cpp`) | a coroutine: request number, parser, timer, error and stage | `handle_connection`, the two timeout functions | client, handlers |
| handlers (`http_hnd_*`, `http_server_impl.hpp`) | four atomic counters of `stat` | `parse`, `serialize`, `echo`, `stat`, `db` | connections, database server |
| database server (`db_server*`, `sqlite3.*`) | the queue of its pool, per thread a connection and prepared statements with what is bound to them, per database `db_sync_t` (flag, mutex, condition variable) | `query`, `run_query`, `execute_query`, `next_row`, `start`, `bind`, `get_column`, `interrupt` | handlers (requests and completions posted between pools), SQLite, other processes |
| main program, configuration (`acppsrv.cpp`, `configuration.*`) | the parsed file, the level of the log, the exit status | reading, `validate`, conversions to settings, reports of failures | all components, which get their settings from it |
| logging (`log.*`) | the level, per message an `osyncstream` | constructor, `<<`, move, destructor | all threads |
| application, thread pools (`application.cpp`, `worker.cpp`) | threads, `io_context`, work guard of each pool | start, `run`, `stop`, `wait`, signal handler, destructors | everything |
| benchmark (`benchmark.cpp`) | atomics `records` and `tt`, per partition a strand, `cur_tx`, a database | `create`, `requests` | SQLite |
| `finally`, protocol files, scripts | - | - | - |

What is hard, and what makes each part correct:

* **Connection limit.** The counter is incremented without the mutex under which
  it is decremented and compared, and the limit is not tested again after a
  suspension. Correct: the counter is exact, the limit is never exceeded by open
  sockets, the suspended loop is resumed exactly once and never forgotten.
* **Connection.** Pipelining, chunked bodies, 100-continue, three timeouts and
  four limits in one coroutine. Correct: framing is kept, responses are in order,
  limits and announced closes are honoured, no silent client holds a connection
  although a timeout is configured, a slow handler is not taken for one.
* **Handlers.** Statistics are reset one atomic at a time while everyone counts;
  a query is executed before the format of its answer is negotiated. Correct:
  nothing is lost or counted twice, a refused request is not executed.
* **Database server.** Statements are retried while the database is locked, with
  one flag shared by all waiting threads; prepared statements are reused, with text
  bound by pointers into the request. Correct: at most one effect per request and
  an answer that agrees with it, exact rows for its own arguments, an answer for
  every request.
* **Application.** A signal may come at any moment, and objects are destroyed by
  the main thread. Correct: threads end only when stopped, all have ended before
  what they use is destroyed, the signal always ends the program.
* **Start.** Values are tested in one place and converted in others, between types
  of different widths; databases are opened for all threads by one; every step may
  fail. Correct: what is accepted is usable and used, what fails is reported.
* **Logging.** Threads write to one stream at the same time and move messages.
  Correct: a message is written once, completely, and not mixed with others.
* **Benchmark.** Chains of insertions end by a shared counter while others are in
  flight, or by the clock; whoever takes the time of the last report has to put it
  back. Correct: termination, bounded queue and transactions, number of records,
  one report at a time.

The list `hazards` in `PROJECT.json` names the lines where this bites.

## 2. The modules

**`Admission`** (abstract) says what the limit promises: a set of served clients,
joined only while there is room, left once. **`AcceptLoop`** implements it:
one process for `accept_loop()` (`loop`), one per connection (`st`), the counter,
the mutex, the slot (`hnd`) and the posted continuation (`posted`). Each action is
what one thread does between two points at which another can interleave, so
`conn_limit()` is four actions and `active_connection_end()` three. That the loop
may end by the throwing `remote_endpoint()` is an action too (`EndpointThrows`).

**`HttpConnection`**: one coroutine, its timer and one client that sends any
sequence of well-formed requests, pipelined or not, and may stop or disconnect
anywhere. A step goes from the completion of one await to the start of the next.
A body is a number of pieces, one per `async_read_some()`; in the stream the header
and the pieces of a request are numbered. The parser's verdicts
(`HeaderError`, `is_done`), the stream's timer and the default limits of
Boost.Beast are external. `Fail` is any await that ends by the timer or by the
client's disconnection.

**`HttpHandlers`**: from a complete request to the response, for several
connections at once. A step is one access to one atomic counter with the local
computation after it. Media types are five classes of header fields; `"any"` is
`*` and `*/*`. `events` and `taken` are history variables.

**`DbService`** (abstract): each request has an effect at most once, before its
answer, and the answer says whether it had. Effects are counted for each request, and
the count is `committed` of the detailed module, so a statement executed twice by a
retry is not a step of `DbService`. **`DbServer`** implements it: requests
go through the pool's queue to threads; a thread steps its statement, waits on the
condition variable, restarts, and posts the answer back. **`Sqlite3`** has what
passes through a prepared statement: the value bound for each argument (and what
`start()` leaves bound), and the value that a column returns, over any set of `Data`;
`bound` is the state of the statements of each thread. SQLite is external: a
write holds the write lock from its first step to its last, a reader blocks a
commit only with a rollback journal (`CommitBusy`), another process may hold the
write lock for any time (`ForeignLock`). One database is modelled, as databases
share nothing; which one (retries, waiting, journal mode, known queries) is chosen
in `Init`. A failing statement (constraint, interrupt) may come at any step.

**`Configuration`**: operators for `validate()` and for the conversions of the file
to settings, in `configuration.cpp`, the constructor of `http_server` and
`db_server::run()`. Widths (`int`, `uint32_t`, `nanoseconds::rep`, the mantissa of
`float`) are constants, so that a run with small ones meets every limit. A float is
described by the distances between neighbours (`Ulps`, powers of 2), and rounding
takes the nearest one, ties to even; `Configuration`, the record, has the fields of
the protocol file with their types.
**`Logging`**: a `log_msg` of each thread, from the constructor to the destructor,
with moves and with exceptions of `<<`; a line is a sequence of pieces, and `Places`
are those of one writer in the log.
**`Startup`** composes them: `main()` up to the running application, with each
failure, `db_server::run()` thread by thread and database by database, the threads
that log meanwhile, and the exit status. `dbs` has for each thread the databases that
it has opened and their `db_sync_t`, named by who made it. Of the messages of the
main thread those about failures are modelled.

**`Lifecycle`**: `main()` and `application::run()` as the main thread, every thread
of every pool, the handler of the signal, and connections reduced to who owns their
coroutine (ready, running, waiting for I/O, in the database pool). `DestroyPools`
destroys the coroutines that an `io_context` owns, which runs `at_end`.
Loss of an `io_context` owner and of `http_srv` are explicit, so that calls on a
destroyed object can be seen (`late`).

**`BenchCreate`**: the insertions of `benchmark create`. Handlers of one partition
are serialised by its strand and share only `records` with others, so a handler is
one action with its alternatives (record created, last record, `begin` fails, the
keys file cannot be written). Keys are random: any partition. **`BenchRequests`**:
the requests of `benchmark requests`; here a handler is split at the clock, the
exchange of `tt` and its assignment, since these interleave between partitions.
**`Benchmark`** is the program with its two commands.

A module `*Proofs` has the proofs about a component (section 5). `MC*` modules give
values to the constants; each `.cfg` is one run.

## 3. The runs

| Run | Shows | Bounds |
| --- | --- | --- |
| `accept_loop` | `CountExact`, `ServedLimit`, `WakeupNotLost`, `OneContinuation`, `ReservedPool`, liveness `ClientsServed`, refinement `ImplementsAdmission` | 3 clients, limit 2, 3 pools of which 1 reserved: the server fills up, one client waits, two may leave at once, and the round robin wraps |
| `http_connection` | `SlowHandlerAnswered`, `FramingKept`, `AnsweredInOrder`, `CloseAnnounced`, `LargeRefused`, liveness `WaitsEnd` | 3 requests of 6 kinds (no body, declared, chunked, with `Expect`, over each limit), 3 configurations: every kind may follow every other, in one buffer or not |
| `http_handlers` | `StatConserved`, `RefusedNotRun`, `FormatAsAsked`, `RunNotRefused` | 2 connections, 3 requests of 10 kinds: a reset may overlap with another one and with counting |
| `db_server` | `FailedEmpty`, `RowsExact`, `BindingsOwn`, `FinishNotMissed`, liveness `AllAnswered`, refinement `ImplementsService` | 2 threads, 4 requests (two executions of one write with different arguments, a read of 2 rows, one with too many arguments); 3 databases: WAL with 2 retries and waiting, rollback journal with 1 retry without waiting (a commit may be refused after rows), no retries and an unknown query. Both threads may wait, a foreign lock may outlast the retries, and a statement is reused |
| `lifecycle` | `PoolsStayUp`, `DestroyedQuietly`, liveness `SignalStops` | 2 main pools, control and database pool with 1 thread each, 2 connections |
| `startup` | `AcceptedUsable`, `SettingsHonoured`, `DatabasesReady`, `FailureReported`, `LogFaithful` | about 80 configurations on both sides of every limit, with small widths; 2 databases for up to 2 threads; 2 writers with 2 messages each, enough for two to overlap and for a message after a moved one |
| `benchmark` | `WithinLimits`, `ActualTotal`, `ReportTimeKept`, `ReportsApart`, liveness `CommandEnds` | `create`: 5 records, 2 partitions, 3 in flight, transactions of 2; `MaxRecords` is above what the code can reach. `requests`: 3 in flight, a clock with half seconds, `TIME` of 2 seconds: a handler may look at the clock, wait while another reports, and go on |

Deadlock is checked in `accept_loop`. The others may stop: a connection ends, all
requests are answered, the program exits.

Five runs show that the code does not do what a document or an assertion says:

* `acceptor_survives`: `conn.remote_endpoint()` in a log statement throws if the
  client is gone, and ends the accept loop; the process goes on without it.
* `http_unlimited_body`: `max_request_body = 0` is documented as unlimited, but
  leaves the default of the parser in force (also for headers).
* `lifecycle_destroy`: connections open at the end are destroyed after `http_srv`
  and call it (`at_end`).
* `bench_total_records`: `RECORDS + min(1000, RECORDS) - 1` records are created.
* `bench_commit_done`: the last insertions of a partition commit without a
  transaction, because the branch that ends a chain does not reset `cur_tx`.

Seen while modelling, without a statement in the repository to compare with:

* With a rollback journal, a write with `RETURNING` whose commit is refused is
  restarted with its rows kept, so that they appear twice (`RowsExact` fails in
  this mode and is checked with WAL only).
* `Accept: */*` with a protobuf request is refused by 406, after the query was
  executed; `RunNotRefused` has this exception. A reset of statistics refused in
  the same way is lost to the client.
* A failed conversion of a response is answered by 200, as the error response is
  discarded (`Serialize`).
* A final response that the client does not read has no timeout (`WaitsEnd` ends
  there).
* Limits configured as `uint64` are truncated to 32 bits: 2^32 becomes a limit of 0,
  which refuses every body (`limit`).
* A negative number of threads is refused for the main and the control pool, but
  accepted for the database pool, and replaced by 1. A timeout of NaN, which JSON
  can express, is accepted and means none; one of less than a nanosecond is a
  timeout of 0. A `retry_wait` that is negative or NaN is accepted and means that a
  query is retried at once.
* `listen_queue`, timeouts and `retry_wait` are capped without a message, at
  `INT_MAX`, the largest number of nanoseconds and one minute. `SettingsHonoured`
  states, for all settings, these and the two points above as the only cases where
  a setting is not used as it is configured.
* A level of the log below `crit` also hides why the program could not start
  (`FailureReported` has this condition).
* A request may wait in the unbounded queue of the database pool; only
  `max_connections` limits it. `sqlite3_interrupt()` does nothing between two steps,
  so the end of the program may take all the retries of a statement.
* The handle of a database that cannot be opened is not closed (the program ends).
* The counters of an interval of `benchmark requests` are reset outside of the
  exclusion that `tt` gives, so counts may be lost between two reports.
* A partition of the benchmark may be destroyed inside a transaction; changing the
  journal mode then throws in a destructor (`End` of `BenchCreate`). The second part
  of `ActualTotal` is that records are lost in no other way, and never without this
  exception.

## 4. Fairness

* `AcceptLoop`: threads run what is ready (weak fairness); a thread that waits for
  the mutex gets it eventually (strong fairness of the locking steps), which a
  mutex released again and again gives in practice. Clients owe nothing.
  `BacklogServed`, the second part of `ClientsServed`, states what it needs besides
  (`ConnectionsEnd`): connections end,
  which `WaitsEnd` shows for configured timeouts, and `async_accept()` does not fail
  forever.
* `HttpConnection`: time passes, an operation whose timer has expired completes,
  and a handler returns (what `AllAnswered` shows of the database). Clients owe
  nothing, not even to read.
* `DbServer`: threads run and `wait_for()` times out. Another process may keep
  its lock forever.
* `Lifecycle`: the main thread and the pools' threads run. Nobody must connect or
  send the signal.
* `Benchmark`: the threads run while there is work, each partition's strand gets its
  turn, and the clock goes on.

## 5. The proofs

What a run shows on one instance, a theorem shows for every value of the constants.
Each component has a module with an inductive invariant `IInv`, the lemma that it
holds initially, one lemma or step per action that keeps it, and one theorem per
property, which follows from it. `IInv` itself was model-checked on the instance of
the run before it was proved. The theorems use the assumptions named in the modules
(types, non-empty sets, a finite set of clients, names that are not taken for
connections) and hold for all values of the bounds. Some theorems state a property
that no run has (`AnswerKept`, `RunAsserted`, `StoppedForGood`, `LeftByRunner`): it is
defined in the module of the proofs, next to them.

**`AcceptLoopProofs`**: `TypeCorrect`, `CounterExact`, `NoLostWakeup`,
`SingleContinuation`, `AcceptorPoolReserved`, `LimitHolds`, and `Refinement`
(`AcceptLoop` implements `Admission`), for all finite sets of clients, all limits
(also none) and all numbers of pools. `IInv` adds
* `MutexOwned`: the mutex is locked exactly while one thread is in a critical
  section, so the parking of the loop and the end of a connection exclude each
  other (without it `WakeupNotLost` cannot be shown);
* `LoopOwnsSocket`: an accepted or counted socket that is not yet spawned belongs
  to the loop and is alone, so there is one incrementer;
* `RoomAhead`: from a positive answer of `conn_limit()`, or the posting of the
  continuation, to the increment there is room. This is why the stale test at
  line 58 of `http_server.cpp` is harmless;
* `HandlerNeedsLimit`: the slot is used only with a limit, by a full server.

**`HttpConnectionProofs`**: `ConnectionTyped`, `SlowHandler`, `Framing`, `InOrder`,
`AnnouncesClose`, `RefusesLarge`, for all configurations, kinds of requests, lengths
of bodies and numbers of requests. `IInv` adds
* `Progress`: which part of which request the coroutine has consumed in each state;
* `Stream`: what is in the stream continues what was consumed and ends with what was
  sent last, without a gap. The messages are numbered so that this can be said of
  neighbours, and `FramingKept` is a consequence: the first message in the stream
  where a header is read cannot be a piece of a body;
* `AnswersCounted`: the final responses are as many as the requests done, which is
  the link between the order of responses and the number of the current request;
* `KeptSoFar`, `TimerOff`: no response so far announced an end, and the timer is off
  from the handler to the end of its response.

**`HttpHandlersProofs`**: `StatisticsConserved`, `RefusedNeverRun`, `FormatHonoured`,
`RunAnswered`, `HandlersTyped`, for all sets of connections and non-empty sets of
requests. `StatConserved` is inductive with the types, because a counter is read and
set to zero in one step (`AddConserves` and `StatConserves` are the two ways in
which a counter changes); `HandlersTyped` includes that `stat` never reads past its
four counters. For the others `IInv` adds `NotRunYet` (before the message
is parsed nothing has been run) and `Prepared` (past `parse()` there is a message
and the response is not an error, so `serialize()` alone decides format and 406).

**`DbServerProofs`**: `ServerTyped`, `FailureIsEmpty`, `SuccessIsExact`,
`NoForeignBindings`, `FinishNoticed`, and `Refinement` (`DbServer` implements
`DbService`), for all pools, requests, queries and numbers of retries, and for both
journals (`RowsExact` itself is about WAL). `IInv` adds
* `Owned` and `QueuedOnce`: a request is in the queue once or belongs to one thread,
  so nobody else changes its response;
* `Untouched` and `NotYet`: before its last step a request has neither effect nor
  result, and after it exactly one effect; this carries the refinement;
* `Prepared` and `BindingsKept`: what is bound stays the request's own also while its
  thread waits and restarts;
* `RowsSoFar`: with WAL only the first step finds the database locked, so a statement
  that is restarted has returned nothing; this is why retries do not repeat rows.

`AnswersFinal` is an action property (`AnswerKept`): when a response is handed over
to the connection, it has a result (`Decided`), and from then on neither it nor the
number of times that the request took effect changes. It rests on `Owned` and
`QueuedOnce`: a thread writes only to the response of its own request.

**`LifecycleProofs`**: `LifecycleTyped`, `PoolsKeptUp`, `QuietDestruction`, for any
number of main pools, threads and connections. `IInv` adds `Turn` (the loop variable
of `application::run()` starts again), `Waited` (what the main thread has waited for
has ended, what it has not started has not begun), `WorkKept` (only the control pool
may run out of work) and `StoppedBySignal`. Three more theorems are about what a
step may never do:
* `StartedOnce`: the assertion `not already started` of `thread_pool::run()` holds at
  each of its calls. `NotStarted` says for each position of the main thread which
  pools have no threads yet, although the signal may already have been handled;
* `NothingRunsAgain` (`StoppedForGood`): a stopped pool stays stopped, even if it was
  stopped before its `run()`, and a thread that has ended is not started again;
* `RunsUndisturbed` (`LeftByRunner`): a coroutine that runs, or whose query is
  executed, leaves this state only by its own thread. `Runners` ties the running
  connections to busy threads one to one, each in the pool where it belongs, so the
  destructors of the pools, which come after their threads have ended, cannot destroy
  a coroutine under a thread that runs it. (That they destroy suspended ones after
  `http_srv` is what `lifecycle_destroy` shows.)

**`BenchmarkProofs`**: `CreateLimits`, `CreateTotal`, `ReportTime`, and
`ReportInterval` (the action property `ReportsApart`). For `create`, `IInv` counts:
inserted records are counted by `records`, and the chains in flight are those that
were posted, of which one ends with each record from `RECORDS` on (`ChainsCounted`);
from the latter follows how many records there are at the end. `LossReported` and
`TransactionCounted` (nothing is pending outside a transaction) give that they are
stored or an exception was thrown. Sums over partitions
are cardinalities of sets of pairs, since facts about recursive sums need an
induction that the prover does not do. For `requests`, a handler that holds `tt` has
a time that is not after the clock.

**`StartupProofs`**: `ThreadsReady`, `ExitTells`, `NothingLost`, for any
configurations, databases and writers. Either the main thread or the threads of the
pools have written to the log: the main thread does so only after a failure, and the
pools work only without one (`Control`, `Log`). For the pools, `Kept` says that what
a thread wrote is what it has in the log followed by the text of its unfinished
message, and `Unsent` that nothing of an enabled message is in the log, so that a
message that is flushed cannot be mixed with itself. The lemma `Block` tells how the
counts of each writer change when a block is appended. `Opened`: all threads before
the last have all databases, and nobody has a `db_sync_t` other than the first
thread's.

**`ConfigurationProofs`**: `Usability` (`AcceptedUsable`) and `NothingReplaced`
(`SettingsHonoured`, with the replacements listed in section 3), for all widths of
integers and floats and for every record of the type `Configuration`, not only the
values of the run. The hard part is
`get_time()`, where `float(max)` is larger than `max`, so that `t < float(max)` does
not say `t <= max` as it stands:
* `NoFloatBetween`: there is no float strictly between a number and what it is rounded
  to. So a float below `float(max)` is not above `max` (`InRangeFits`, `RepFits`), and
  the conversion to `rep` is defined. This needs that the product is itself a float
  (`RoundsToFloat`);
* `Precision`: rounding changes a number by at most one part in `FloatRange`, from
  which `TimeHonoured` has the time that is used, up to a nanosecond, and
  `RetryHonoured` the one that is capped again by `max_retry_wait`;
* `UlpExists`: the smallest fitting distance exists by `WFMin` of the library, where
  a definition by recursion over exponents would have needed an induction.

`FloatAssumption` says what `Ulps` are: powers of 2 from 1 on, of which the smaller
divides the larger, and enough for the largest `rep`. `MaxAssumption` is that the
largest `rep` is rounded up, as 2^63 - 1 is. Both are evaluated by TLC for the
values of the run. `CfgInv` ties this to the start: the configuration does not change,
nothing goes on without `validate()`, and the level is the configured one from where
it is set.

Only model-checked:
* liveness, for which the prover has no support: `ClientsServed`, `WaitsEnd`,
  `AllAnswered`, `SignalStops`, `CommandEnds`;
* the five runs that show a violation.

## 6. Not modelled

`finally.hpp` (its uses are steps of the modules), protocol files (they appear where
their fields decide something), scripts, the parsing of command lines and of JSON,
formatting of messages and headers, creation of the benchmark's files, closing of
databases. `co_spawn_handler()` only rethrows (`EndpointThrows`, `Throw`). What is
left of the source is declarations.

## 7. State

All components that section 6 does not exclude are modelled, and every safety
invariant, action property and refinement that a run checks is also a theorem. Left
are liveness, which stays with TLC, and two hazards of the list in `PROJECT.json`
without a property (their notes say why).
