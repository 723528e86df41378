----------------------------- MODULE BenchRequests -----------------------------
(***************************************************************************)
(* "benchmark requests": a fixed number of get, update and insert requests *)
(* is in flight; each one, executed in the strand of its partition, starts *)
(* the next one, until TIME has passed.  About once a second one of the    *)
(* handlers reports: whoever takes the time of the last report from the    *)
(* atomic variable tt and finds it old enough.                             *)
(*                                                                         *)
(* The requests of a partition are serialised and go to its own database,  *)
(* so a partition is a process.  What the statements do and the counters,  *)
(* which are only logged, are left out.  The clock counts fractions of a   *)
(* second from t0 = 1; 0 is clock::time_point{}.                           *)
(***************************************************************************)
EXTENDS Naturals

CONSTANTS
    Partitions,
    request_queue_max,
    TIME,    \* the command line argument
    SECOND,  \* the interval of reports
    MaxTime  \* bound: the clock stops, after TIME

VARIABLES
    started,  \* the requests posted by worker::init()
    waiting,  \* the handlers waiting in the strand of each partition
    pc,       \* the control state of the handler that it executes
    tnow,     \* time_ref::test(): when the handler looked at the clock
    t,        \*   and what it got from tt
    tt,       \* worker::tt
    now,      \* the clock
    report    \* history: the time of the last report

vars == <<started, waiting, pc, tnow, t, tt, now, report>>

t0 == 1

Init ==
    /\ started = 0
    /\ waiting = [p \in Partitions |-> 0]
    /\ pc = [p \in Partitions |-> "idle"]
    /\ tnow = [p \in Partitions |-> 0]
    /\ t = [p \in Partitions |-> 0]
    /\ tt = t0
    /\ now = t0
    /\ report = t0

\* Time before t0, which init() takes last, does not matter.
ClockTicks ==
    /\ started = request_queue_max /\ now < MaxTime
    /\ now' = now + 1
    /\ UNCHANGED <<started, waiting, pc, tnow, t, tt, report>>

\* create_request(): the key decides the partition.
create_request(queues, p) == [queues EXCEPT ![p] = @ + 1]

\* worker::init()
Start(p) ==
    /\ started < request_queue_max
    /\ started' = started + 1
    /\ waiting' = create_request(waiting, p)
    /\ UNCHANGED <<pc, tnow, t, tt, now, report>>

\* handle_get(), handle_update() or handle_insert(), to the call of test()
Handle(p) ==
    /\ started = request_queue_max /\ pc[p] = "idle" /\ waiting[p] > 0
    /\ waiting' = [waiting EXCEPT ![p] = @ - 1]
    /\ tnow' = [tnow EXCEPT ![p] = now]
    /\ pc' = [pc EXCEPT ![p] = "exchange"]
    /\ UNCHANGED <<started, t, tt, now, report>>

\* SQLite reports an error: the exception ends this chain of requests.
HandleThrows(p) ==
    /\ started = request_queue_max /\ pc[p] = "idle" /\ waiting[p] > 0
    /\ waiting' = [waiting EXCEPT ![p] = @ - 1]
    /\ UNCHANGED <<started, pc, tnow, t, tt, now, report>>

\* Faulty: the time of the last report is loaded and stays for the others.
Exchange_Load(p) ==
    /\ pc[p] = "exchange"
    /\ t' = [t EXCEPT ![p] = tt]
    /\ pc' = [pc EXCEPT ![p] = IF tt = 0 THEN "done" ELSE "put_back"]
    /\ UNCHANGED <<started, waiting, tnow, tt, now, report>>

Exchange(p) ==
    /\ pc[p] = "exchange"
    /\ t' = [t EXCEPT ![p] = tt]
    /\ tt' = 0
    /\ pc' = [pc EXCEPT ![p] = IF tt = 0 THEN "done" ELSE "put_back"]
    /\ UNCHANGED <<started, waiting, tnow, now, report>>

IsReport(p) == tnow[p] >= t[p] + SECOND

\* Faulty: tt is set again only by the one that reports.
put_back_Report(p) == IF IsReport(p) THEN tnow[p] ELSE tt

put_back(p) == IF IsReport(p) THEN tnow[p] ELSE t[p]

PutBack(p) ==
    /\ pc[p] = "put_back"
    /\ tt' = put_back(p)
    /\ report' = IF IsReport(p) THEN tnow[p] ELSE report
    /\ pc' = [pc EXCEPT ![p] = "done"]
    /\ UNCHANGED <<started, waiting, tnow, t, now>>

is_done(p) == tnow[p] >= t0 + TIME

\* The chain ends or goes on with another request.
Proceed(p) ==
    /\ pc[p] = "done"
    /\ pc' = [pc EXCEPT ![p] = "idle"]
    /\ \/ is_done(p) /\ UNCHANGED waiting
       \/ ~is_done(p) /\ \E q \in Partitions : waiting' = create_request(waiting, q)
    /\ tnow' = [tnow EXCEPT ![p] = 0]
    /\ t' = [t EXCEPT ![p] = 0]
    /\ UNCHANGED <<started, tt, now, report>>

\* The threads run out of work.
Finished ==
    /\ started = request_queue_max
    /\ \A p \in Partitions : pc[p] = "idle" /\ waiting[p] = 0

HandlerStep(p) ==
    \/ Start(p) \/ Handle(p) \/ HandleThrows(p) \/ Exchange(p) \/ PutBack(p)
    \/ Proceed(p)

Next == ClockTicks \/ \E p \in Partitions : HandlerStep(p)

------------------------------------------------------------------------------
\* The time of the last report is in tt, or in the hands of exactly one handler
\* that will put it back, whichever handlers looked at the clock before and
\* after each other: otherwise nobody would report any more.
ReportTimeKept ==
    LET holders == {p \in Partitions : pc[p] = "put_back"}
    IN  \/ tt = report /\ holders = {}
        \/ tt = 0 /\ \E p \in Partitions : holders = {p} /\ t[p] = report
==============================================================================
