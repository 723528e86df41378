------------------------------ MODULE BenchCreate ------------------------------
(***************************************************************************)
(* "benchmark create": the threads fill the partitions of a database.  A   *)
(* fixed number of insertions is in flight; each one, executed in the      *)
(* strand of its partition, starts the next one, until the shared counter  *)
(* of records says that there are enough.                                  *)
(*                                                                         *)
(* The counter is the only thing that handlers of different partitions     *)
(* share, so a handler is one step.  Keys are random: a new record goes to *)
(* any partition.                                                          *)
(***************************************************************************)
EXTENDS Naturals, FiniteSets

CONSTANTS
    Partitions,
    RECORDS,            \* the command line argument
    request_queue_max,
    transaction_sz,
    MaxRecords          \* bound: the handlers executed

ASSUME SizesAssumption ==
    /\ RECORDS \in Nat \ {0} /\ request_queue_max \in Nat \ {0}
    /\ transaction_sz \in Nat \ {0} /\ MaxRecords \in Nat

VARIABLES
    phase,      \* of create(): filling the queue, running, or finished
    posted,     \* the insertions posted by worker::init()
    queued,     \* the handlers waiting in the strand of each partition
    records,    \* worker::records
    cur_tx,     \* partition::cur_tx
    open,       \* SQLite: whether the partition has a transaction
    pending,    \* SQLite: the records inserted by this transaction
    stored,     \* SQLite: the records that are committed
    errors      \* the exceptions thrown by handlers and destructors

vars == <<phase, posted, queued, records, cur_tx, open, pending, stored, errors>>

Zero == [p \in Partitions |-> 0]

Init ==
    /\ phase = "init"
    /\ posted = 0
    /\ queued = Zero
    /\ records = 0
    /\ cur_tx = Zero
    /\ open = [p \in Partitions |-> FALSE]
    /\ pending = Zero
    /\ stored = Zero
    /\ errors = {}

------------------------------------------------------------------------------
requests == IF request_queue_max < RECORDS THEN request_queue_max ELSE RECORDS

\* worker::create_record(): the key decides the partition.
create_record(queue, p) == [queue EXCEPT ![p] = @ + 1]

\* The strand of partition p executes a handler.
Dequeue(p) == [queued EXCEPT ![p] = @ - 1]

\* worker::init(), before the threads are started
InitRecord(p) ==
    /\ phase = "init" /\ posted < requests
    /\ queued' = create_record(queued, p)
    /\ posted' = posted + 1
    /\ UNCHANGED <<phase, records, cur_tx, open, pending, stored, errors>>

Run ==
    /\ phase = "init" /\ posted = requests
    /\ phase' = "run"
    /\ UNCHANGED <<posted, queued, records, cur_tx, open, pending, stored,
                   errors>>

\* A thread executes a handler of partition p.
Handling(p) == phase = "run" /\ queued[p] > 0 /\ records < MaxRecords

\* cur_tx says that a transaction has to begin, but there is one, left by a
\* handler that threw: begin throws too, before anything is inserted.
Nested(p) == cur_tx[p] = 0 /\ open[p]

BeginFails(p) ==
    /\ Handling(p)
    /\ Nested(p)
    /\ errors' = errors \cup {"begin"}
    /\ queued' = Dequeue(p)
    /\ UNCHANGED <<phase, posted, records, cur_tx, open, pending, stored>>

\* What begin and insert leave behind in partition p: outside a transaction an
\* insert commits by itself.
Inserting(p) == open[p] \/ cur_tx[p] = 0
PendingAfter(p) == IF Inserting(p) THEN pending[p] + 1 ELSE 0
StoredAfter(p) == IF Inserting(p) THEN stored[p] ELSE stored[p] + 1

Inserted(p) ==
    /\ open' = [open EXCEPT ![p] = Inserting(p)]
    /\ pending' = [pending EXCEPT ![p] = PendingAfter(p)]
    /\ stored' = [stored EXCEPT ![p] = StoredAfter(p)]

Committed(p) ==
    /\ open' = [open EXCEPT ![p] = FALSE]
    /\ pending' = [pending EXCEPT ![p] = 0]
    /\ stored' = [stored EXCEPT ![p] = StoredAfter(p) + PendingAfter(p)]

\* Faulty: the counter has to hit RECORDS exactly.
is_done_Exactly == records + 1 = RECORDS

\* Faulty: one record too many.
is_done_OffByOne == records + 1 > RECORDS

is_done == records + 1 >= RECORDS

\* Faulty: a transaction is one record too large.
Full_OffByOne(p) == cur_tx[p] = transaction_sz

\* ++cur_tx == transaction_sz
Full(p) == cur_tx[p] + 1 = transaction_sz

\* Not enough records yet: commit a full transaction and start another insertion.
HandleCreate(p) ==
    /\ Handling(p)
    /\ ~Nested(p)
    /\ ~is_done
    /\ records' = records + 1
    /\ IF Full(p)
       THEN Committed(p) /\ cur_tx' = [cur_tx EXCEPT ![p] = 0]
       ELSE Inserted(p) /\ cur_tx' = [cur_tx EXCEPT ![p] = @ + 1]
    /\ \E q \in Partitions : queued' = create_record(Dequeue(p), q)
    /\ UNCHANGED <<phase, posted, errors>>

\* Enough records: commit and let the chain end.  cur_tx is left as it is, so
\* the next one in this partition does not begin a transaction, and its commit
\* throws an error.
HandleLast(p) ==
    /\ Handling(p)
    /\ ~Nested(p)
    /\ is_done
    /\ records' = records + 1
    /\ IF Inserting(p) THEN Committed(p) /\ UNCHANGED errors
                       ELSE Inserted(p) /\ errors' = errors \cup {"commit"}
    /\ queued' = Dequeue(p)
    /\ UNCHANGED <<phase, posted, cur_tx>>

\* fwrite() fails: the record has been inserted, but neither the counter nor
\* cur_tx knows of it, and the chain ends.
KeysWriteFails(p) ==
    /\ Handling(p)
    /\ ~Nested(p)
    /\ Inserted(p)
    /\ errors' = errors \cup {"keys_write"}
    /\ queued' = Dequeue(p)
    /\ UNCHANGED <<phase, posted, records, cur_tx>>

\* Out of work: the threads end and the partitions are destroyed.  SQLite
\* refuses to change the journal mode inside a transaction, which is lost then.
End ==
    /\ phase = "run" /\ queued = Zero
    /\ phase' = "end"
    /\ errors' = errors \cup {e \in {"journal_mode"} : \E p \in Partitions : open[p]}
    /\ UNCHANGED <<posted, queued, records, cur_tx, open, pending, stored>>

------------------------------------------------------------------------------
Handle(p) == \/ HandleCreate(p) \/ HandleLast(p)
             \/ KeysWriteFails(p) \/ BeginFails(p)

Next == \/ Run \/ End
        \/ \E p \in Partitions : InitRecord(p) \/ Handle(p)

Spec == Init /\ [][Next]_vars

------------------------------------------------------------------------------
(* Properties *)

\* The records, or handlers, of all partitions are counted by numbering those of
\* each partition.
Numbered(f) == UNION {{p} \X (1 .. f[p]) : p \in Partitions}
Sum(f) == Cardinality(Numbered(f))

\* The records that partition p has inserted, committed or not
total == [p \in Partitions |-> stored[p] + pending[p]]

\* The variables keep their types and the program its limits, whichever handlers
\* of a partition come before and after the last record is counted.
\* benchmark.cpp: "The maximum number of outstanding database requests"; each
\* handler replaces itself by at most one.  A transaction collects at most
\* transaction_sz records: between two handlers there is room for one more.
WithinLimits ==
    /\ phase \in {"init", "run", "end"}
    /\ posted \in 0 .. RECORDS
    /\ queued \in [Partitions -> Nat] /\ Sum(queued) <= request_queue_max
    /\ records \in 0 .. MaxRecords
    /\ cur_tx \in [Partitions -> 0 .. transaction_sz - 1]
    /\ open \in [Partitions -> BOOLEAN]
    /\ pending \in [Partitions -> Nat]
    /\ "keys_write" \notin errors => \A p \in Partitions : pending[p] < transaction_sz
    /\ stored \in [Partitions -> Nat]
    /\ errors \subseteq {"begin", "keys_write", "commit", "journal_mode"}

\* The insertions that are in flight when RECORDS is reached are executed too:
\* this is the number of records that a run without failures of fwrite() inserts.
\* All of them are stored, unless the destructor of a partition has thrown: no
\* transaction is lost in silence, whatever failed before.
ActualTotal ==
    phase = "end" =>
        /\ errors \cap {"keys_write", "begin"} = {} =>
              Sum(total) = RECORDS + requests - 1
        /\ "journal_mode" \notin errors => stored = total

\* The usage text: "RECORDS The total number of records, together in all
\* partitions".
TotalRecords ==
    phase = "end" /\ errors = {} => Sum(stored) = RECORDS

\* handle_create() asserts that each commit returns status::done.
CommitDone == "commit" \notin errors
================================================================================
