---------------------------- MODULE BenchmarkProofs ----------------------------
(***************************************************************************)
(* Proofs about Benchmark for every set of partitions, number of records   *)
(* and size of queues and transactions: "benchmark create" keeps its       *)
(* limits and makes a known number of records, and "benchmark requests"    *)
(* reports in order.                                                       *)
(***************************************************************************)
EXTENDS Benchmark, FiniteSetTheorems, TLAPS

------------------------------------------------------------------------------
(* The inductive invariant of "benchmark create".                          *)

\* What WithinLimits says of the types
Typed ==
    /\ phase \in {"init", "run", "end"}
    /\ posted \in Nat /\ posted <= requests
    /\ queued \in [Partitions -> Nat]
    /\ records \in Nat /\ records <= MaxRecords
    /\ cur_tx \in [Partitions -> 0 .. transaction_sz - 1]
    /\ open \in [Partitions -> BOOLEAN]
    /\ pending \in [Partitions -> Nat]
    /\ stored \in [Partitions -> Nat]
    /\ errors \subseteq {"begin", "keys_write", "commit", "journal_mode"}

\* cur_tx counts the records of a transaction, as long as no handler throws
\* between insert and the counters; outside a transaction nothing is pending.
TransactionCounted ==
    \A p \in Partitions :
        /\ ~open[p] => pending[p] = 0
        /\ "keys_write" \notin errors => pending[p] <= cur_tx[p]

\* Each record that is inserted is counted.
RecordsCounted ==
    /\ IsFiniteSet(Numbered(total))
    /\ "keys_write" \notin errors => Sum(total) = records

\* The chains of insertions in flight: they are those that init() has started, of
\* which one ends with each record from RECORDS on.
ChainsCounted ==
    /\ IsFiniteSet(Numbered(queued)) /\ Sum(queued) <= posted
    /\ phase = "init" => records = 0 /\ Sum(queued) = posted
    /\ phase # "init" => posted = requests
    /\ phase = "end" => Sum(queued) = 0
    /\ phase # "init" /\ errors \cap {"keys_write", "begin"} = {} =>
          Sum(queued) = IF records < RECORDS THEN requests
                        ELSE RECORDS + requests - 1 - records

\* At the end no transaction is left open without an error.
LossReported ==
    phase = "end" /\ "journal_mode" \notin errors => \A p \in Partitions : ~open[p]

CreateInv == Typed /\ TransactionCounted /\ RecordsCounted /\ ChainsCounted

------------------------------------------------------------------------------
(* Counting.                                                               *)

\* The sizes are positive, and requests is the smaller of two of them.
LEMMA Sizes ==
  /\ RECORDS \in Nat /\ RECORDS > 0 /\ MaxRecords \in Nat
  /\ transaction_sz \in Nat /\ transaction_sz > 0
  /\ requests \in Nat /\ requests > 0
  /\ requests <= RECORDS /\ requests <= request_queue_max
  BY SizesAssumption DEF requests

\* One more in a partition is one more altogether.
LEMMA OneMore ==
  ASSUME NEW f \in [Partitions -> Nat], NEW g \in [Partitions -> Nat],
         NEW p \in Partitions, g[p] = f[p] + 1,
         \A q \in Partitions : q # p => g[q] = f[q],
         IsFiniteSet(Numbered(f))
  PROVE  /\ IsFiniteSet(Numbered(g)) /\ Sum(f) \in Nat
         /\ Sum(g) = Sum(f) + 1
  <1> DEFINE x == <<p, f[p] + 1>>
  <1>1. f[p] \in Nat
    OBVIOUS
  <1>2. \A n : n \in 1 .. g[p] <=> n \in 1 .. f[p] \/ n = f[p] + 1
    BY <1>1
  <1>3. \A y :
           /\ y \in Numbered(f) <=> \E q \in Partitions : \E n \in 1 .. f[q] : y = <<q, n>>
           /\ y \in Numbered(g) <=> \E q \in Partitions : \E n \in 1 .. g[q] : y = <<q, n>>
    BY DEF Numbered
  <1>4. ASSUME NEW y \in Numbered(g) PROVE y \in Numbered(f) \cup {x}
    <2>1. PICK q \in Partitions : \E n \in 1 .. g[q] : y = <<q, n>>
      BY <1>3
    <2>2. PICK n \in 1 .. g[q] : y = <<q, n>>
      BY <2>1
    <2>3. CASE q = p
      BY <1>2, <1>3, <2>2, <2>3
    <2>4. CASE q # p
      BY <1>1, <1>3, <2>2, <2>4
    <2> QED
      BY <2>3, <2>4
  <1>5. ASSUME NEW y \in Numbered(f) PROVE y \in Numbered(g)
    <2>1. PICK q \in Partitions : \E n \in 1 .. f[q] : y = <<q, n>>
      BY <1>3
    <2>2. PICK n \in 1 .. f[q] : y = <<q, n>>
      BY <2>1
    <2>3. n \in 1 .. g[q]
      BY <1>1, <1>2, <2>2
    <2> QED
      BY <1>3, <2>2, <2>3
  <1>6. x \in Numbered(g)
    BY <1>2, <1>3
  <1>7. x \notin Numbered(f)
    <2> SUFFICES ASSUME x \in Numbered(f) PROVE FALSE
      OBVIOUS
    <2>1. PICK q \in Partitions : \E n \in 1 .. f[q] : x = <<q, n>>
      BY <1>3
    <2>2. PICK n \in 1 .. f[q] : x = <<q, n>>
      BY <2>1
    <2>3. q = p /\ n = f[p] + 1
      BY <2>2
    <2> QED
      BY <2>2, <2>3
  <1>8. Numbered(g) = Numbered(f) \cup {x}
    BY <1>4, <1>5, <1>6
  <1>9. Cardinality(Numbered(f)) \in Nat
    BY FS_CardinalityType
  <1> HIDE DEF x
  <1>10. /\ IsFiniteSet(Numbered(f) \cup {x})
         /\ Cardinality(Numbered(f) \cup {x}) = Cardinality(Numbered(f)) + 1
    BY <1>7, FS_AddElement
  <1> QED
    BY <1>8, <1>9, <1>10 DEF Sum

\* One less in a partition is one less altogether.
LEMMA OneLess ==
  ASSUME NEW f \in [Partitions -> Nat], NEW p \in Partitions, f[p] > 0,
         NEW g \in [Partitions -> Nat], g[p] = f[p] - 1,
         \A q \in Partitions : q # p => g[q] = f[q],
         IsFiniteSet(Numbered(f))
  PROVE  /\ IsFiniteSet(Numbered(g))
         /\ Sum(f) \in Nat /\ Sum(g) \in Nat /\ Sum(f) = Sum(g) + 1
  <1>1. f[p] \in Nat /\ f[p] = g[p] + 1
    OBVIOUS
  <1>2. \A q \in Partitions : 1 .. g[q] \subseteq 1 .. f[q]
    BY <1>1
  <1>3. Numbered(g) \subseteq Numbered(f)
    BY <1>2 DEF Numbered
  <1>4. IsFiniteSet(Numbered(g))
    BY <1>3, FS_Subset
  <1>5. Sum(g) \in Nat /\ Sum(f) = Sum(g) + 1
    BY <1>1, <1>4, OneMore
  <1> QED
    BY <1>4, <1>5

\* Nothing is numbered by the function that is 0 everywhere.
LEMMA SumZero == IsFiniteSet(Numbered(Zero)) /\ Sum(Zero) = 0
  <1>1. Numbered(Zero) = {}
    <2>1. \A p \in Partitions : {p} \X (1 .. Zero[p]) = {}
      BY DEF Zero
    <2> QED
      BY <2>1 DEF Numbered
  <1> QED
    BY <1>1, FS_EmptySet DEF Sum

------------------------------------------------------------------------------
(* Every step of "benchmark create" keeps the invariant.                   *)

\* A record is inserted, and the transaction goes on or is committed.
LEMMA Inserts ==
  ASSUME CreateInv, NEW p \in Partitions, Inserted(p) \/ Committed(p)
  PROVE  /\ open' \in [Partitions -> BOOLEAN]
         /\ pending' \in [Partitions -> Nat] /\ stored' \in [Partitions -> Nat]
         /\ \A q \in Partitions : q # p => open'[q] = open[q] /\ pending'[q] = pending[q]
         /\ ~open'[p] => pending'[p] = 0
         /\ pending'[p] \in {0, pending[p] + 1}
         /\ Committed(p) \/ ~Inserting(p) => pending'[p] = 0
         /\ IsFiniteSet(Numbered(total')) /\ Sum(total) \in Nat
         /\ Sum(total') = Sum(total) + 1
  <1>1. /\ open \in [Partitions -> BOOLEAN]
        /\ ~open[p] => pending[p] = 0
        /\ pending \in [Partitions -> Nat] /\ stored \in [Partitions -> Nat]
    BY DEF CreateInv, Typed, TransactionCounted
  <1>2. /\ PendingAfter(p) \in {0, pending[p] + 1} /\ StoredAfter(p) \in Nat
        /\ PendingAfter(p) \in Nat
        /\ ~Inserting(p) => PendingAfter(p) = 0
        /\ StoredAfter(p) + PendingAfter(p) = stored[p] + pending[p] + 1
    <2>1. CASE Inserting(p)
      BY <1>1, <2>1 DEF PendingAfter, StoredAfter
    <2>2. CASE ~Inserting(p)
      <3>1. pending[p] = 0
        BY <1>1, <2>2 DEF Inserting
      <3> QED
        BY <1>1, <2>2, <3>1 DEF PendingAfter, StoredAfter
    <2> QED
      BY <2>1, <2>2
  <1>3. Inserting(p) \in BOOLEAN
    BY <1>1 DEF Inserting
  <1>4. /\ open' \in [Partitions -> BOOLEAN]
        /\ pending' \in [Partitions -> Nat] /\ stored' \in [Partitions -> Nat]
        /\ \A q \in Partitions : q # p =>
              /\ open'[q] = open[q] /\ pending'[q] = pending[q]
              /\ stored'[q] = stored[q]
        /\ stored'[p] + pending'[p] = stored[p] + pending[p] + 1
        /\ ~open'[p] => pending'[p] = 0
        /\ pending'[p] \in {0, pending[p] + 1}
        /\ Committed(p) \/ ~Inserting(p) => pending'[p] = 0
    <2>1. CASE Inserted(p)
      <3>1. /\ open' = [open EXCEPT ![p] = Inserting(p)]
            /\ pending' = [pending EXCEPT ![p] = PendingAfter(p)]
            /\ stored' = [stored EXCEPT ![p] = StoredAfter(p)]
        BY <2>1 DEF Inserted
      <3>2. Committed(p) => pending'[p] = 0
        BY <1>1 DEF Committed
      <3>3. /\ open' \in [Partitions -> BOOLEAN] /\ open'[p] = Inserting(p)
            /\ \A q \in Partitions : q # p => open'[q] = open[q]
        BY <1>1, <1>3, <3>1
      <3>4. /\ pending' \in [Partitions -> Nat] /\ pending'[p] = PendingAfter(p)
            /\ stored' \in [Partitions -> Nat] /\ stored'[p] = StoredAfter(p)
            /\ \A q \in Partitions : q # p =>
                  pending'[q] = pending[q] /\ stored'[q] = stored[q]
        BY <1>1, <1>2, <3>1
      <3> QED
        BY <1>2, <3>2, <3>3, <3>4
    <2>2. CASE Committed(p)
      <3>1. /\ open' = [open EXCEPT ![p] = FALSE]
            /\ pending' = [pending EXCEPT ![p] = 0]
            /\ stored' = [stored EXCEPT ![p] = StoredAfter(p) + PendingAfter(p)]
        BY <2>2 DEF Committed
      <3>2. /\ open' \in [Partitions -> BOOLEAN]
            /\ \A q \in Partitions : q # p => open'[q] = open[q]
        BY <1>1, <3>1
      <3>3. /\ pending' \in [Partitions -> Nat] /\ pending'[p] = 0
            /\ stored' \in [Partitions -> Nat]
            /\ stored'[p] = StoredAfter(p) + PendingAfter(p)
            /\ \A q \in Partitions : q # p =>
                  pending'[q] = pending[q] /\ stored'[q] = stored[q]
        BY <1>1, <1>2, <3>1
      <3> QED
        BY <1>1, <1>2, <3>2, <3>3
    <2> QED
      BY <2>1, <2>2
  <1>5. /\ total \in [Partitions -> Nat] /\ total' \in [Partitions -> Nat]
        /\ total'[p] = total[p] + 1
        /\ \A q \in Partitions : q # p => total'[q] = total[q]
    BY <1>1, <1>4 DEF total
  <1>6. IsFiniteSet(Numbered(total))
    BY DEF CreateInv, RecordsCounted
  <1>7. /\ IsFiniteSet(Numbered(total')) /\ Sum(total) \in Nat
        /\ Sum(total') = Sum(total) + 1
    BY <1>5, <1>6, OneMore
  <1> QED
    BY <1>4, <1>7

\* A handler is taken from the strand of partition p.
LEMMA Dequeues ==
  ASSUME CreateInv, NEW p \in Partitions, queued[p] > 0
  PROVE  /\ Dequeue(p) \in [Partitions -> Nat] /\ IsFiniteSet(Numbered(Dequeue(p)))
         /\ Sum(queued) \in Nat /\ Sum(Dequeue(p)) \in Nat
         /\ Sum(queued) = Sum(Dequeue(p)) + 1
  <1>1. queued \in [Partitions -> Nat] /\ IsFiniteSet(Numbered(queued))
    BY DEF CreateInv, Typed, ChainsCounted
  <1>2. /\ Dequeue(p) \in [Partitions -> Nat] /\ Dequeue(p)[p] = queued[p] - 1
        /\ \A q \in Partitions : q # p => Dequeue(p)[q] = queued[q]
    BY <1>1 DEF Dequeue
  <1> QED
    BY <1>1, <1>2, OneLess

\* An insertion is put into the strand of partition p.
LEMMA Enqueues ==
  ASSUME NEW f \in [Partitions -> Nat], IsFiniteSet(Numbered(f)), NEW p \in Partitions
  PROVE  /\ create_record(f, p) \in [Partitions -> Nat]
         /\ IsFiniteSet(Numbered(create_record(f, p)))
         /\ Sum(f) \in Nat /\ Sum(create_record(f, p)) = Sum(f) + 1
  <1>1. /\ create_record(f, p) \in [Partitions -> Nat]
        /\ create_record(f, p)[p] = f[p] + 1
        /\ \A q \in Partitions : q # p => create_record(f, p)[q] = f[q]
    BY DEF create_record
  <1> QED
    BY <1>1, OneMore

\* worker::init() posts one more chain, which is in flight.
LEMMA InitRecordStep ==
  ASSUME CreateInv, NEW p \in Partitions, InitRecord(p)
  PROVE  CreateInv'
  <1>1. /\ phase = "init" /\ posted < requests /\ posted' = posted + 1
        /\ queued' = create_record(queued, p)
        /\ UNCHANGED <<phase, records, cur_tx, open, pending, stored, errors>>
    BY DEF InitRecord
  <1>2. queued \in [Partitions -> Nat] /\ IsFiniteSet(Numbered(queued)) /\ posted \in Nat
    BY DEF CreateInv, Typed, ChainsCounted
  <1>3. /\ queued' \in [Partitions -> Nat] /\ IsFiniteSet(Numbered(queued'))
        /\ Sum(queued) \in Nat /\ Sum(queued') = Sum(queued) + 1
    BY <1>1, <1>2, Enqueues
  <1>4. Typed'
    BY <1>1, <1>2, <1>3, Sizes DEF CreateInv, Typed, requests
  <1>5. TransactionCounted' /\ RecordsCounted'
    BY <1>1 DEF CreateInv, TransactionCounted, RecordsCounted, total
  <1>6. ChainsCounted'
    BY <1>1, <1>2, <1>3 DEF CreateInv, ChainsCounted
  <1> QED
    BY <1>4, <1>5, <1>6 DEF CreateInv

\* create() goes on when all chains have been posted.
LEMMA RunStep ==
  ASSUME CreateInv, Run
  PROVE  CreateInv'
  <1>1. /\ phase = "init" /\ phase' = "run" /\ posted = requests
        /\ UNCHANGED <<posted, queued, records, cur_tx, open, pending, stored, errors>>
    BY DEF Run
  <1>2. Typed' /\ TransactionCounted' /\ RecordsCounted'
    BY <1>1 DEF CreateInv, Typed, TransactionCounted, RecordsCounted, total, requests
  <1>3. ChainsCounted'
    BY <1>1, Sizes DEF CreateInv, ChainsCounted, requests
  <1> QED
    BY <1>2, <1>3 DEF CreateInv

\* A handler below RECORDS inserts a record and posts itself again.
LEMMA HandleCreateStep ==
  ASSUME CreateInv, NEW p \in Partitions, HandleCreate(p)
  PROVE  CreateInv'
  <1>1. /\ phase = "run" /\ queued[p] > 0 /\ records < MaxRecords
        /\ ~(records + 1 >= RECORDS) /\ records' = records + 1
        /\ UNCHANGED <<phase, posted, errors>>
        /\ \/ Committed(p) /\ cur_tx' = [cur_tx EXCEPT ![p] = 0]
           \/ /\ Inserted(p) /\ cur_tx[p] + 1 # transaction_sz
              /\ cur_tx' = [cur_tx EXCEPT ![p] = cur_tx[p] + 1]
    BY DEF HandleCreate, Handling, is_done, Full
  <1>2. PICK q \in Partitions : queued' = create_record(Dequeue(p), q)
    BY DEF HandleCreate
  <1>3. /\ records \in Nat /\ cur_tx \in [Partitions -> 0 .. transaction_sz - 1]
        /\ pending \in [Partitions -> Nat]
    BY DEF CreateInv, Typed
  <1>4. /\ queued' \in [Partitions -> Nat] /\ IsFiniteSet(Numbered(queued'))
        /\ Sum(queued') = Sum(queued)
    <2>1. /\ Dequeue(p) \in [Partitions -> Nat] /\ IsFiniteSet(Numbered(Dequeue(p)))
          /\ Sum(queued) = Sum(Dequeue(p)) + 1
      BY <1>1, Dequeues
    <2> QED
      BY <1>2, <2>1, Enqueues
  <1>5. cur_tx' \in [Partitions -> 0 .. transaction_sz - 1]
    <2>1. CASE cur_tx' = [cur_tx EXCEPT ![p] = 0]
      BY <1>3, <2>1, Sizes
    <2>2. CASE /\ cur_tx[p] + 1 # transaction_sz
               /\ cur_tx' = [cur_tx EXCEPT ![p] = cur_tx[p] + 1]
      <3>1. cur_tx[p] + 1 \in 0 .. transaction_sz - 1
        BY <1>3, <2>2, Sizes
      <3> QED
        BY <1>3, <2>2, <3>1
    <2> QED
      BY <1>1, <2>1, <2>2
  <1>6. /\ open' \in [Partitions -> BOOLEAN]
        /\ pending' \in [Partitions -> Nat] /\ stored' \in [Partitions -> Nat]
        /\ \A r \in Partitions : r # p => open'[r] = open[r] /\ pending'[r] = pending[r]
        /\ ~open'[p] => pending'[p] = 0
        /\ pending'[p] \in {0, pending[p] + 1}
        /\ Committed(p) => pending'[p] = 0
        /\ IsFiniteSet(Numbered(total')) /\ Sum(total) \in Nat
        /\ Sum(total') = Sum(total) + 1
    BY <1>1, Inserts
  <1>7. Typed'
    BY <1>1, <1>3, <1>4, <1>5, <1>6, Sizes DEF CreateInv, Typed, requests
  <1>8. TransactionCounted'
    <2>1. "keys_write" \notin errors => pending[p] <= cur_tx[p]
      BY DEF CreateInv, TransactionCounted
    <2>2. "keys_write" \notin errors' => pending'[p] <= cur_tx'[p]
      BY <1>1, <1>3, <1>6, <2>1
    <2>3. \A r \in Partitions : r # p => cur_tx'[r] = cur_tx[r]
      BY <1>1, <1>3
    <2> QED
      BY <1>1, <1>6, <2>2, <2>3 DEF CreateInv, TransactionCounted
  <1>9. RecordsCounted'
    BY <1>1, <1>6 DEF CreateInv, RecordsCounted
  <1>10. ChainsCounted'
    <2>1. records < RECORDS /\ records' < RECORDS
      BY <1>1, <1>3, Sizes
    <2> QED
      BY <1>1, <1>4, <2>1 DEF CreateInv, ChainsCounted, requests
  <1> QED
    BY <1>7, <1>8, <1>9, <1>10 DEF CreateInv

\* A handler that reaches RECORDS inserts its record and ends its chain.
LEMMA HandleLastStep ==
  ASSUME CreateInv, NEW p \in Partitions, HandleLast(p)
  PROVE  CreateInv'
  <1>1. /\ phase = "run" /\ queued[p] > 0 /\ records < MaxRecords
        /\ records + 1 >= RECORDS /\ records' = records + 1
        /\ queued' = Dequeue(p)
        /\ UNCHANGED <<phase, posted, cur_tx>>
        /\ \/ Committed(p) /\ UNCHANGED errors
           \/ Inserted(p) /\ ~Inserting(p) /\ errors' = errors \cup {"commit"}
    BY DEF HandleLast, Handling, is_done
  <1>2. /\ records \in Nat /\ cur_tx \in [Partitions -> 0 .. transaction_sz - 1]
        /\ posted \in Nat
    BY DEF CreateInv, Typed
  <1>3. /\ queued' \in [Partitions -> Nat] /\ IsFiniteSet(Numbered(queued'))
        /\ Sum(queued) \in Nat /\ Sum(queued') \in Nat /\ Sum(queued) = Sum(queued') + 1
    BY <1>1, Dequeues
  <1>4. /\ open' \in [Partitions -> BOOLEAN]
        /\ pending' \in [Partitions -> Nat] /\ stored' \in [Partitions -> Nat]
        /\ \A r \in Partitions : r # p => open'[r] = open[r] /\ pending'[r] = pending[r]
        /\ ~open'[p] => pending'[p] = 0
        /\ pending'[p] = 0
        /\ IsFiniteSet(Numbered(total')) /\ Sum(total) \in Nat
        /\ Sum(total') = Sum(total) + 1
    BY <1>1, Inserts
  <1>5. Typed'
    <2>1. errors' \subseteq {"begin", "keys_write", "commit", "journal_mode"}
      BY <1>1 DEF CreateInv, Typed
    <2>2. records' \in Nat /\ records' <= MaxRecords
      BY <1>1, <1>2, Sizes
    <2> QED
      BY <1>1, <1>3, <1>4, <2>1, <2>2 DEF CreateInv, Typed, requests
  <1>6. \A e \in {"keys_write", "begin"} : e \in errors' <=> e \in errors
    BY <1>1
  <1>7. TransactionCounted'
    <2>1. pending'[p] <= cur_tx'[p]
      BY <1>1, <1>2, <1>4, Sizes
    <2> QED
      BY <1>1, <1>4, <1>6, <2>1 DEF CreateInv, TransactionCounted
  <1>8. RecordsCounted'
    BY <1>1, <1>4, <1>6 DEF CreateInv, RecordsCounted
  <1>9. ChainsCounted'
    <2>1. ~(records' < RECORDS) /\ (records < RECORDS => records + 1 = RECORDS)
      BY <1>1, <1>2, Sizes
    <2>2. errors' \cap {"keys_write", "begin"} = {} =>
             errors \cap {"keys_write", "begin"} = {}
      BY <1>6
    <2>3. errors' \cap {"keys_write", "begin"} = {} =>
             Sum(queued') = RECORDS + requests - 1 - records'
      BY <1>1, <1>2, <1>3, <2>1, <2>2, Sizes DEF CreateInv, ChainsCounted
    <2>4. Sum(queued') <= posted'
      BY <1>1, <1>2, <1>3 DEF CreateInv, ChainsCounted
    <2>5. posted' = requests /\ phase' = "run"
      BY <1>1 DEF CreateInv, ChainsCounted
    <2> QED
      BY <1>3, <2>1, <2>3, <2>4, <2>5 DEF ChainsCounted, requests
  <1> QED
    BY <1>5, <1>7, <1>8, <1>9 DEF CreateInv

\* The exception after an insertion is remembered, and excuses the counts.
LEMMA KeysWriteFailsStep ==
  ASSUME CreateInv, NEW p \in Partitions, KeysWriteFails(p)
  PROVE  CreateInv'
  <1>1. /\ phase = "run" /\ queued[p] > 0 /\ Inserted(p)
        /\ errors' = errors \cup {"keys_write"} /\ queued' = Dequeue(p)
        /\ UNCHANGED <<phase, posted, records, cur_tx>>
    BY DEF KeysWriteFails, Handling
  <1>2. /\ queued' \in [Partitions -> Nat] /\ IsFiniteSet(Numbered(queued'))
        /\ Sum(queued) \in Nat /\ Sum(queued') \in Nat /\ Sum(queued) = Sum(queued') + 1
    BY <1>1, Dequeues
  <1>3. /\ open' \in [Partitions -> BOOLEAN]
        /\ pending' \in [Partitions -> Nat] /\ stored' \in [Partitions -> Nat]
        /\ \A r \in Partitions : r # p => open'[r] = open[r] /\ pending'[r] = pending[r]
        /\ ~open'[p] => pending'[p] = 0
        /\ IsFiniteSet(Numbered(total'))
    BY <1>1, Inserts
  <1>4. "keys_write" \in errors'
    BY <1>1
  <1>5. Typed'
    <2>1. errors' \subseteq {"begin", "keys_write", "commit", "journal_mode"}
      BY <1>1 DEF CreateInv, Typed
    <2> QED
      BY <1>1, <1>2, <1>3, <2>1 DEF CreateInv, Typed, requests
  <1>6. TransactionCounted' /\ RecordsCounted'
    BY <1>3, <1>4 DEF CreateInv, TransactionCounted, RecordsCounted
  <1>7. ChainsCounted'
    <2>1. Sum(queued') <= posted'
      BY <1>1, <1>2 DEF CreateInv, ChainsCounted, Typed
    <2> QED
      BY <1>1, <1>2, <1>4, <2>1 DEF CreateInv, ChainsCounted, requests
  <1> QED
    BY <1>5, <1>6, <1>7 DEF CreateInv

\* A failed begin ends a chain without a record.
LEMMA BeginFailsStep ==
  ASSUME CreateInv, NEW p \in Partitions, BeginFails(p)
  PROVE  CreateInv'
  <1>1. /\ phase = "run" /\ queued[p] > 0
        /\ errors' = errors \cup {"begin"} /\ queued' = Dequeue(p)
        /\ UNCHANGED <<phase, posted, records, cur_tx, open, pending, stored>>
    BY DEF BeginFails, Handling
  <1>2. /\ queued' \in [Partitions -> Nat] /\ IsFiniteSet(Numbered(queued'))
        /\ Sum(queued) \in Nat /\ Sum(queued') \in Nat /\ Sum(queued) = Sum(queued') + 1
    BY <1>1, Dequeues
  <1>3. "begin" \in errors' /\ ("keys_write" \in errors' <=> "keys_write" \in errors)
    BY <1>1
  <1>4. Typed'
    <2>1. errors' \subseteq {"begin", "keys_write", "commit", "journal_mode"}
      BY <1>1 DEF CreateInv, Typed
    <2> QED
      BY <1>1, <1>2, <2>1 DEF CreateInv, Typed, requests
  <1>5. TransactionCounted' /\ RecordsCounted'
    BY <1>1, <1>3 DEF CreateInv, TransactionCounted, RecordsCounted, total
  <1>6. ChainsCounted'
    <2>1. Sum(queued') <= posted'
      BY <1>1, <1>2 DEF CreateInv, ChainsCounted, Typed
    <2> QED
      BY <1>1, <1>2, <1>3, <2>1 DEF CreateInv, ChainsCounted, requests
  <1> QED
    BY <1>4, <1>5, <1>6 DEF CreateInv

\* When nothing is in flight, create() ends; only journal_mode may fail then.
LEMMA EndStep ==
  ASSUME CreateInv, End
  PROVE  CreateInv'
  <1>1. /\ phase = "run" /\ phase' = "end" /\ queued = Zero
        /\ UNCHANGED <<posted, queued, records, cur_tx, open, pending, stored>>
        /\ errors \subseteq errors' /\ errors' \subseteq errors \cup {"journal_mode"}
    BY DEF End
  <1>2. \A e \in {"keys_write", "begin"} : e \in errors' <=> e \in errors
    BY <1>1
  <1>3. Typed'
    BY <1>1 DEF CreateInv, Typed, requests
  <1>4. TransactionCounted' /\ RecordsCounted'
    BY <1>1, <1>2 DEF CreateInv, TransactionCounted, RecordsCounted, total
  <1>5. ChainsCounted'
    <2>1. Sum(queued') = 0
      BY <1>1, SumZero
    <2> QED
      BY <1>1, <1>2, <2>1 DEF CreateInv, ChainsCounted, requests
  <1> QED
    BY <1>3, <1>4, <1>5 DEF CreateInv

\* The invariant of create() holds before the first record.
LEMMA CreateInitial == Init => CreateInv
  <1> SUFFICES ASSUME Init PROVE CreateInv
    OBVIOUS
  <1>1. Zero \in [Partitions -> Nat] /\ \A p \in Partitions : Zero[p] = 0
    BY DEF Zero
  <1>2. Typed
    BY <1>1, Sizes DEF Init, Typed
  <1>3. total = Zero
    BY DEF Init, total, Zero
  <1>4. TransactionCounted /\ RecordsCounted /\ ChainsCounted
    BY <1>1, <1>3, SumZero DEF Init, TransactionCounted, RecordsCounted, ChainsCounted
  <1> QED
    BY <1>2, <1>4 DEF CreateInv

\* Every step of create() keeps it.
LEMMA CreateInductive == CreateInv /\ [Next]_vars => CreateInv'
  <1> SUFFICES ASSUME CreateInv, [Next]_vars PROVE CreateInv'
    OBVIOUS
  <1>1. CASE Next
    BY <1>1, InitRecordStep, RunStep, HandleCreateStep, HandleLastStep,
       KeysWriteFailsStep, BeginFailsStep, EndStep
    DEF Next, Handle
  <1>2. CASE UNCHANGED vars
    BY <1>2 DEF vars, CreateInv, Typed, TransactionCounted, RecordsCounted,
                ChainsCounted, total, requests
  <1> QED
    BY <1>1, <1>2

\* Only the last step, which looks for open transactions, gets to the end.
LEMMA LossInductive == LossReported /\ [Next]_vars => LossReported'
  <1> SUFFICES ASSUME LossReported, [Next]_vars PROVE LossReported'
    OBVIOUS
  <1>1. CASE End
    BY <1>1 DEF End, LossReported
  <1>2. CASE Run
    BY <1>2 DEF Run, LossReported
  <1>3. ASSUME NEW p \in Partitions, InitRecord(p) \/ Handle(p)
        PROVE  LossReported'
    <2>1. phase # "end" /\ phase' = phase
      BY <1>3 DEF InitRecord, Handle, HandleCreate, HandleLast, KeysWriteFails,
                  BeginFails, Handling
    <2> QED
      BY <2>1 DEF LossReported
  <1>4. CASE UNCHANGED vars
    BY <1>4 DEF vars, LossReported
  <1> QED
    BY <1>1, <1>2, <1>3, <1>4 DEF Next

------------------------------------------------------------------------------
(* "benchmark requests": the time of the last report.                      *)

\* The clock starts at 1, so that 0 in tt is no time.
Clocks ==
    /\ pc \in [Partitions -> {"idle", "exchange", "put_back", "done"}]
    /\ tnow \in [Partitions -> Nat] /\ t \in [Partitions -> Nat]
    /\ now \in Nat \ {0} /\ report \in Nat \ {0}
    /\ \A p \in Partitions : pc[p] # "idle" => tnow[p] # 0

\* ReportTimeKept without the set of handlers
Held ==
    \/ tt = report /\ \A p \in Partitions : pc[p] # "put_back"
    \/ /\ tt = 0
       /\ \E p \in Partitions :
             /\ pc[p] = "put_back" /\ t[p] = report
             /\ \A q \in Partitions : q # p => pc[q] # "put_back"

RequestsInv == Clocks /\ Held

\* The invariant of "benchmark requests" holds at t0.
LEMMA RequestsInitial == Requests!Init => RequestsInv
  BY DEF Requests!Init, Requests!t0, RequestsInv, Clocks, Held

\* A handler that finds the time in tt takes it, and whoever has it puts it back.
LEMMA RequestsStepKeeps ==
  ASSUME RequestsInv, Requests!Next
  PROVE  /\ RequestsInv'
         /\ report' # report => report' >= report + SECOND
  <1>1. CASE Requests!ClockTicks
    BY <1>1 DEF Requests!ClockTicks, RequestsInv, Clocks, Held
  <1>2. ASSUME NEW p \in Partitions, Requests!HandlerStep(p)
        PROVE  /\ RequestsInv'
               /\ report' # report => report' >= report + SECOND
    <2>1. CASE Requests!Start(p) \/ Requests!HandleThrows(p)
      <3>1. UNCHANGED <<pc, tnow, t, tt, now, report>>
        BY <2>1 DEF Requests!Start, Requests!HandleThrows
      <3> QED
        BY <3>1 DEF RequestsInv, Clocks, Held
    <2>2. CASE Requests!Handle(p)
      <3>1. /\ pc[p] = "idle" /\ tnow' = [tnow EXCEPT ![p] = now]
            /\ pc' = [pc EXCEPT ![p] = "exchange"]
            /\ UNCHANGED <<t, tt, now, report>>
        BY <2>2 DEF Requests!Handle
      <3>2. Clocks'
        BY <3>1 DEF RequestsInv, Clocks
      <3>3. Held'
        BY <3>1 DEF RequestsInv, Clocks, Held
      <3> QED
        BY <3>1, <3>2, <3>3 DEF RequestsInv
    <2>3. CASE Requests!Exchange(p)
      <3>1. /\ pc[p] = "exchange" /\ t' = [t EXCEPT ![p] = tt] /\ tt' = 0
            /\ pc' = [pc EXCEPT ![p] = IF tt = 0 THEN "done" ELSE "put_back"]
            /\ UNCHANGED <<tnow, now, report>>
        BY <2>3 DEF Requests!Exchange
      <3>2. tt \in Nat
        BY DEF RequestsInv, Clocks, Held
      <3>3. Clocks'
        BY <3>1, <3>2 DEF RequestsInv, Clocks
      <3>4. CASE tt = 0
        <4>1. pc' = [pc EXCEPT ![p] = "done"]
          BY <3>1, <3>4
        <4> QED
          BY <3>1, <3>3, <3>4, <4>1 DEF RequestsInv, Clocks, Held
      <3>5. CASE tt # 0
        <4>1. pc' = [pc EXCEPT ![p] = "put_back"]
          BY <3>1, <3>5
        <4>2. tt = report /\ \A q \in Partitions : pc[q] # "put_back"
          BY <3>5 DEF RequestsInv, Held
        <4> QED
          BY <3>1, <3>3, <4>1, <4>2 DEF RequestsInv, Clocks, Held
      <3> QED
        BY <3>4, <3>5
    <2>4. CASE Requests!PutBack(p)
      <3>1. /\ pc[p] = "put_back" /\ pc' = [pc EXCEPT ![p] = "done"]
            /\ UNCHANGED <<tnow, t, now>>
            /\ \/ tnow[p] >= t[p] + SECOND /\ tt' = tnow[p] /\ report' = tnow[p]
               \/ tt' = t[p] /\ report' = report
        BY <2>4 DEF Requests!PutBack, Requests!put_back, Requests!IsReport
      <3>2. t[p] = report /\ \A q \in Partitions : q # p => pc[q] # "put_back"
        BY <3>1 DEF RequestsInv, Held
      <3>3. Clocks'
        BY <3>1 DEF RequestsInv, Clocks
      <3>4. tt' = report' /\ \A q \in Partitions : pc'[q] # "put_back"
        BY <3>1, <3>2 DEF RequestsInv, Clocks
      <3> QED
        BY <3>1, <3>2, <3>3, <3>4 DEF RequestsInv, Held
    <2>5. CASE Requests!Proceed(p)
      <3>1. /\ pc[p] = "done" /\ pc' = [pc EXCEPT ![p] = "idle"]
            /\ tnow' = [tnow EXCEPT ![p] = 0] /\ t' = [t EXCEPT ![p] = 0]
            /\ UNCHANGED <<tt, now, report>>
        BY <2>5 DEF Requests!Proceed
      <3>2. Clocks'
        BY <3>1 DEF RequestsInv, Clocks
      <3>3. Held'
        BY <3>1 DEF RequestsInv, Clocks, Held
      <3> QED
        BY <3>1, <3>2, <3>3 DEF RequestsInv
    <2> QED
      BY <1>2, <2>1, <2>2, <2>3, <2>4, <2>5 DEF Requests!HandlerStep
  <1> QED
    BY <1>1, <1>2 DEF Requests!Next

------------------------------------------------------------------------------
(* The program.                                                            *)

IInv == CreateInv /\ LossReported /\ RequestsInv

\* Either command keeps the invariants of both.
LEMMA BenchStep ==
  ASSUME IInv, [BenchNext]_benchVars
  PROVE  /\ IInv'
         /\ report' # report => report' >= report + SECOND
  <1>1. CASE CreateStep
    <2>1. CreateInv' /\ LossReported'
      BY <1>1, CreateInductive, LossInductive DEF IInv, CreateStep
    <2>2. RequestsInv' /\ report' = report
      BY <1>1 DEF IInv, CreateStep, requestVars, RequestsInv, Clocks, Held
    <2> QED
      BY <2>1, <2>2 DEF IInv
  <1>2. CASE RequestsStep
    <2>1. CreateInv' /\ LossReported'
      BY <1>2, CreateInductive, LossInductive DEF IInv, RequestsStep
    <2> QED
      BY <1>2, <2>1, RequestsStepKeeps DEF IInv, RequestsStep
  <1>3. CASE UNCHANGED <<vars, requestVars>>
    <2>1. CreateInv' /\ LossReported'
      BY <1>3, CreateInductive, LossInductive DEF IInv
    <2>2. RequestsInv' /\ report' = report
      BY <1>3 DEF IInv, requestVars, RequestsInv, Clocks, Held
    <2> QED
      BY <2>1, <2>2 DEF IInv
  <1> QED
    BY <1>1, <1>2, <1>3 DEF BenchNext, benchVars, RunCommand, CommandReturns

\* Both invariants hold in every state that is reached.
LEMMA Invariance == BenchSpec => []IInv
  <1>1. BenchInit => IInv
    BY CreateInitial, RequestsInitial DEF BenchInit, Init, IInv, LossReported
  <1>2. IInv /\ [BenchNext]_benchVars => IInv'
    BY BenchStep
  <1> QED
    BY <1>1, <1>2, PTL DEF BenchSpec

\* "benchmark create" has at most request_queue_max insertions in flight, its
\* transactions have at most transaction_sz records, and its variables keep their
\* types, for every order of the handlers.
THEOREM CreateLimits == BenchSpec => []WithinLimits
  <1>1. IInv => WithinLimits
    <2> SUFFICES ASSUME IInv PROVE WithinLimits
      OBVIOUS
    <2>1. Typed /\ TransactionCounted /\ ChainsCounted
      BY DEF IInv, CreateInv
    <2>2. Sum(queued) \in Nat
      BY <2>1, FS_CardinalityType DEF ChainsCounted, Sum
    <2>3. Sum(queued) <= request_queue_max /\ posted \in 0 .. RECORDS
      BY <2>1, <2>2, Sizes, SizesAssumption DEF Typed, ChainsCounted
    <2>4. "keys_write" \notin errors => \A p \in Partitions : pending[p] < transaction_sz
      <3> SUFFICES ASSUME "keys_write" \notin errors, NEW p \in Partitions
                   PROVE  pending[p] < transaction_sz
        OBVIOUS
      <3>1. pending[p] <= cur_tx[p] /\ pending[p] \in Nat /\ cur_tx[p] \in 0 .. transaction_sz - 1
        BY <2>1 DEF Typed, TransactionCounted
      <3> QED
        BY <3>1, Sizes
    <2>5. records \in 0 .. MaxRecords
      BY <2>1, Sizes DEF Typed
    <2> QED
      BY <2>1, <2>3, <2>4, <2>5 DEF Typed, WithinLimits
  <1> QED
    BY <1>1, Invariance, PTL

\* The number of records that create() inserts: the ones in flight when RECORDS is
\* reached are inserted too.  They are all stored, or a destructor has thrown.
THEOREM CreateTotal == BenchSpec => []ActualTotal
  <1>1. IInv => ActualTotal
    <2> SUFFICES ASSUME IInv, phase = "end"
                 PROVE  /\ errors \cap {"keys_write", "begin"} = {} =>
                              Sum(total) = RECORDS + requests - 1
                        /\ "journal_mode" \notin errors => stored = total
      BY DEF ActualTotal
    <2>1. ASSUME errors \cap {"keys_write", "begin"} = {}
          PROVE  Sum(total) = RECORDS + requests - 1
      <3>1. Sum(total) = records /\ records \in Nat
        BY <2>1 DEF IInv, CreateInv, RecordsCounted, Typed
      <3>2. 0 = IF records < RECORDS THEN requests
                ELSE RECORDS + requests - 1 - records
        BY <2>1 DEF IInv, CreateInv, ChainsCounted
      <3> QED
        BY <3>1, <3>2, Sizes
    <2>2. ASSUME "journal_mode" \notin errors
          PROVE  stored = total
      <3>1. \A p \in Partitions : pending[p] = 0
        BY <2>2 DEF IInv, CreateInv, TransactionCounted, LossReported
      <3>2. stored \in [Partitions -> Nat]
        BY DEF IInv, CreateInv, Typed
      <3>3. \A p \in Partitions : stored[p] = stored[p] + pending[p]
        BY <3>1, <3>2
      <3> QED
        BY <3>2, <3>3 DEF total
    <2> QED
      BY <2>1, <2>2
  <1> QED
    BY <1>1, Invariance, PTL

\* time_ref::test(): the time of the last report is never lost and never in two
\* places, whichever handlers exchange worker::tt at the same time.
THEOREM ReportTime == BenchSpec => []ReportTimeKept
  <1>1. IInv => ReportTimeKept
    BY DEF IInv, RequestsInv, Held, ReportTimeKept, Requests!ReportTimeKept
  <1> QED
    BY <1>1, Invariance, PTL

\* Two reports of "benchmark requests" are at least a second apart.
THEOREM ReportInterval == BenchSpec => ReportsApart
  <1>1. IInv /\ [BenchNext]_benchVars =>
           [report' # report => report' >= report + SECOND]_report
    BY BenchStep
  <1> QED
    BY <1>1, Invariance, PTL DEF BenchSpec, ReportsApart
==============================================================================
