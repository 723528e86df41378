--------------------------- MODULE AcceptLoopProofs ---------------------------
(***************************************************************************)
(* Proofs about AcceptLoop for every set of clients, limit and number of   *)
(* pools: its safety properties are invariants, and it implements          *)
(* Admission.                                                              *)
(***************************************************************************)
EXTENDS AcceptLoop, FiniteSetTheorems, TLAPS

------------------------------------------------------------------------------
(* The inductive invariant.                                                *)

Holders == {c \in Clients : st[c] \in {"locked", "notify"}}

\* The mutex is locked exactly while one thread is in a critical section.
MutexOwned ==
    /\ mtx <=> (loop \in {"check", "install"} \/ Holders # {})
    /\ loop \in {"check", "install"} => Holders = {}
    /\ \A c, d \in Holders : c = d

\* A socket that is accepted or counted but not spawned belongs to the loop,
\* and there is at most one.
LoopOwnsSocket ==
    \A c, d \in Clients :
        /\ st[c] = "accepted" => loop = "accepted"
        /\ st[c] = "counted" => loop = "counted"
        /\ st[c] = "accepted" /\ st[d] = "accepted" => c = d
        /\ st[c] = "counted" /\ st[d] = "counted" => c = d

\* While the loop is on its way to the next increment there is room for it: the
\* answer of conn_limit() cannot become stale, because nobody else increments.
RoomAhead ==
    Limited => /\ active <= max_connections
               /\ loop \in {"async_accept", "accepted"} \/ posted
                    => active < max_connections

\* The loop is suspended only by a limit, and only a full server suspends it.
HandlerNeedsLimit ==
    /\ hnd => Limited
    /\ loop = "install" => Limited /\ active >= max_connections

IInv == /\ TypeOK
        /\ CountExact
        /\ MutexOwned
        /\ LoopOwnsSocket
        /\ RoomAhead
        /\ HandlerNeedsLimit
        /\ OneContinuation
        /\ WakeupNotLost
        /\ ReservedPool

------------------------------------------------------------------------------
(* Type correctness.                                                       *)

\* The round robin of accept_loop() always has a pool.
LEMMA WorkersAvailable == use_workers \in 1 .. main_pools
  BY ConstantsAssumption DEF use_workers

\* An index taken modulo the number of pools is the index of a pool.
LEMMA RoundRobin ==
  ASSUME NEW n \in Nat \ {0}, NEW i \in Nat
  PROVE  (i + 1) % n \in 0 .. n - 1
  BY SMT

\* The next iteration of accept_loop() has a valid pool.
LEMMA NextIterationType ==
  ASSUME TypeOK, NextIteration
  PROVE  /\ loop' \in LoopStates
         /\ worker_i' \in 0 .. use_workers - 1
  <1>1. use_workers \in Nat \ {0} /\ worker_i \in Nat
    BY WorkersAvailable, ConstantsAssumption DEF TypeOK
  <1>2. (worker_i + 1) % use_workers \in 0 .. use_workers - 1
    BY <1>1, RoundRobin
  <1> QED
    BY <1>2 DEF NextIteration, LoopStates

\* A step of active_connection_end() finds its own connection in the counter.
LEMMA DecrementType ==
  ASSUME TypeOK, CountExact, NEW c \in Clients, EndDecrement(c)
  PROVE  /\ active - 1 \in Nat
         /\ active - 1 = Cardinality(Counted \ {c})
  <1>1. IsFiniteSet(Counted)
    BY ConstantsAssumption, FS_Subset DEF Counted
  <1>2. c \in Counted
    BY DEF EndDecrement, Counted
  <1>3. Cardinality(Counted \ {c}) = Cardinality(Counted) - 1
    BY <1>1, <1>2, FS_RemoveElement
  <1>4. IsFiniteSet(Counted \ {c}) /\ Cardinality(Counted \ {c}) \in Nat
    BY <1>1, FS_Subset, FS_CardinalityType
  <1> QED
    BY <1>3, <1>4 DEF CountExact

\* Every step preserves types; that active does not go below zero needs
\* CountExact.
LEMMA TypeStep ==
  ASSUME TypeOK, CountExact, [Next]_vars
  PROVE  TypeOK'
  <1> USE DEF TypeOK, LoopStates, ConnStates
  <1>1. CASE UNCHANGED vars
    BY <1>1 DEF vars
  <1>2. CASE \/ ConnLimitLock \/ ConnLimitPass \/ ConnLimitFull
             \/ ConnLimitInit \/ Resume
    BY <1>2 DEF ConnLimitLock, ConnLimitPass, ConnLimitFull, ConnLimitInit,
                Resume
  <1>3. CASE AcceptFailed
    BY <1>3, NextIterationType DEF AcceptFailed
  <1>4. ASSUME NEW c \in Clients,
               \/ Connect(c) \/ GiveUp(c) \/ Accepted(c) \/ EndpointThrows(c)
               \/ Finish(c)
        PROVE  TypeOK'
    BY <1>4 DEF Connect, GiveUp, Accepted, EndpointThrows, Finish
  <1>5. ASSUME NEW c \in Clients, Count(c)
        PROVE  TypeOK'
    BY <1>5 DEF Count
  <1>6. ASSUME NEW c \in Clients, EndLock(c)
        PROVE  TypeOK'
    BY <1>6 DEF EndLock
  <1>7. ASSUME NEW c \in Clients, NoEndpoint(c)
        PROVE  TypeOK'
    BY <1>7, NextIterationType DEF NoEndpoint
  <1>8. ASSUME NEW c \in Clients, Spawn(c)
        PROVE  TypeOK'
    <2>1. worker_i \in 0 .. main_pools - 1
      BY WorkersAvailable, ConstantsAssumption
    <2> QED
      BY <1>8, <2>1, NextIterationType DEF Spawn
  <1>9. ASSUME NEW c \in Clients, EndDecrement(c)
        PROVE  TypeOK'
    BY <1>9, DecrementType DEF EndDecrement
  <1>10. ASSUME NEW c \in Clients, EndNotify(c)
        PROVE  TypeOK'
    BY <1>10 DEF EndNotify, PostHandler
  <1> QED
    BY <1>1, <1>2, <1>3, <1>4, <1>5, <1>6, <1>7, <1>8,
       <1>9, <1>10
    DEF Next, LoopStep, EndStep

------------------------------------------------------------------------------
(* How the set of counted connections changes with the state of one of     *)
(* them, and its cardinality with it.                                      *)

CountedStates == {"counted", "handling", "at_end", "locked", "leaked"}

\* The counted connections can be counted.
LEMMA CountedFinite == IsFiniteSet(Counted) /\ Cardinality(Counted) \in Nat
  BY ConstantsAssumption, FS_Subset, FS_CardinalityType DEF Counted

\* How Counted changes if the state of one connection does.
LEMMA CountedUpdate ==
  ASSUME TypeOK, NEW c \in Clients, NEW s \in ConnStates,
         st' = [st EXCEPT ![c] = s]
  PROVE  /\ (st[c] \in CountedStates <=> s \in CountedStates)
              => Counted' = Counted
         /\ st[c] \notin CountedStates /\ s \in CountedStates
              => c \notin Counted /\ Counted' = Counted \cup {c}
         /\ st[c] \in CountedStates /\ s \notin CountedStates
              => c \in Counted /\ Counted' = Counted \ {c}
  BY DEF TypeOK, Counted, CountedStates, ConnStates

\* Every step changes the counter together with the set it counts.
LEMMA CountStep ==
  ASSUME TypeOK, CountExact, [Next]_vars
  PROVE  CountExact'
  <1> USE DEF CountExact
  <1>1. CASE UNCHANGED st /\ UNCHANGED active
    BY <1>1 DEF Counted
  <1>2. ASSUME NEW c \in Clients,
               \/ Connect(c) \/ GiveUp(c) \/ Accepted(c) \/ NoEndpoint(c)
               \/ Spawn(c) \/ EndpointThrows(c) \/ Finish(c) \/ EndLock(c)
               \/ EndNotify(c)
        PROVE  CountExact'
    <2>1. \E s \in ConnStates :
             /\ st' = [st EXCEPT ![c] = s]
             /\ st[c] \in CountedStates <=> s \in CountedStates
      BY <1>2 DEF Connect, GiveUp, Accepted, NoEndpoint, Spawn,
                  EndpointThrows, Finish, EndLock, EndNotify, ConnStates,
                  CountedStates
    <2>2. active' = active
      BY <1>2 DEF Connect, GiveUp, Accepted, NoEndpoint, Spawn,
                  EndpointThrows, Finish, EndLock, EndNotify
    <2> QED
      BY <2>1, <2>2, CountedUpdate
  <1>3. ASSUME NEW c \in Clients, Count(c)
        PROVE  CountExact'
    <2>1. c \notin Counted /\ Counted' = Counted \cup {c}
      BY <1>3, CountedUpdate DEF Count, ConnStates, CountedStates
    <2>2. Cardinality(Counted \cup {c}) = Cardinality(Counted) + 1
      BY <2>1, CountedFinite, FS_AddElement
    <2> QED
      BY <1>3, <2>1, <2>2 DEF Count
  <1>4. ASSUME NEW c \in Clients, EndDecrement(c)
        PROVE  CountExact'
    <2>1. Counted' = Counted \ {c}
      BY <1>4, CountedUpdate DEF EndDecrement, ConnStates, CountedStates
    <2> QED
      BY <1>4, <2>1, DecrementType DEF EndDecrement
  <1>5. CASE \/ ConnLimitLock \/ ConnLimitPass \/ ConnLimitFull
             \/ ConnLimitInit \/ Resume \/ AcceptFailed \/ UNCHANGED vars
    BY <1>1, <1>5 DEF ConnLimitLock, ConnLimitPass, ConnLimitFull,
       ConnLimitInit, Resume, AcceptFailed, vars
  <1> QED
    BY <1>2, <1>3, <1>4, <1>5 DEF Next, LoopStep, EndStep
------------------------------------------------------------------------------
(* The other parts of the invariant, action by action.                     *)

LoopInv == /\ MutexOwned
           /\ LoopOwnsSocket
           /\ RoomAhead
           /\ HandlerNeedsLimit
           /\ OneContinuation
           /\ WakeupNotLost
           /\ ReservedPool

\* The steps of accept_loop() that change only its own control state.
LEMMA LoopStepInv ==
  ASSUME IInv, \/ ConnLimitLock \/ ConnLimitPass \/ ConnLimitFull
               \/ ConnLimitInit \/ Resume \/ AcceptFailed
  PROVE  LoopInv'
  <1> USE DEF IInv, TypeOK, LoopInv, MutexOwned, LoopOwnsSocket, RoomAhead,
              HandlerNeedsLimit, OneContinuation, WakeupNotLost, ReservedPool,
              Holders, LoopStates, ConnStates
  <1>1. CASE ConnLimitLock
    BY <1>1 DEF ConnLimitLock
  <1>2. CASE ConnLimitPass
    BY <1>2, ConstantsAssumption DEF ConnLimitPass, LimitReached, Limited
  <1>3. CASE ConnLimitFull
    BY <1>3 DEF ConnLimitFull, LimitReached, Limited
  <1>4. CASE ConnLimitInit
    BY <1>4 DEF ConnLimitInit, Limited
  <1>5. CASE Resume
    BY <1>5 DEF Resume
  <1>6. CASE AcceptFailed
    BY <1>6 DEF AcceptFailed, NextIteration
  <1> QED
    BY <1>1, <1>2, <1>3, <1>4, <1>5, <1>6
\* The end of an iteration keeps the pool of the acceptor out of the round robin.
LEMMA AcceptStepInv ==
  ASSUME IInv, NEW c \in Clients,
         \/ Accepted(c) \/ NoEndpoint(c) \/ Count(c) \/ Spawn(c)
         \/ EndpointThrows(c)
  PROVE  LoopInv'
  <1> USE DEF IInv, TypeOK, LoopInv, MutexOwned, LoopOwnsSocket, RoomAhead,
              HandlerNeedsLimit, OneContinuation, WakeupNotLost, ReservedPool,
              Holders, LoopStates, ConnStates
  <1>1. CASE Accepted(c)
    BY <1>1 DEF Accepted
  <1>2. CASE NoEndpoint(c)
    BY <1>2 DEF NoEndpoint, NextIteration
  <1>3. CASE Count(c)
    BY <1>3, ConstantsAssumption DEF Count, Limited
  <1>4. CASE Spawn(c)
    BY <1>4, ConstantsAssumption
    DEF Spawn, NextIteration, use_workers, AcceptorPool
  <1>5. CASE EndpointThrows(c)
    BY <1>5 DEF EndpointThrows
  <1> QED
    BY <1>1, <1>2, <1>3, <1>4, <1>5

\* The steps of the clients and of handle_connection().
LEMMA ConnStepInv ==
  ASSUME IInv, NEW c \in Clients,
         \/ Connect(c) \/ GiveUp(c) \/ Finish(c) \/ EndStep(c)
  PROVE  LoopInv'
  <1> USE DEF IInv, TypeOK, LoopInv, MutexOwned, LoopOwnsSocket, RoomAhead,
              HandlerNeedsLimit, OneContinuation, WakeupNotLost, ReservedPool,
              Holders, LoopStates, ConnStates
  <1>1. CASE Connect(c)
    BY <1>1 DEF Connect
  <1>2. CASE GiveUp(c)
    BY <1>2 DEF GiveUp
  <1>3. CASE Finish(c)
    BY <1>3 DEF Finish
  <1>4. CASE EndLock(c)
    BY <1>4 DEF EndLock
  <1>5. CASE EndDecrement(c)
    BY <1>5, DecrementType, ConstantsAssumption DEF EndDecrement, Limited
  <1>6. CASE EndNotify(c)
    BY <1>6, ConstantsAssumption DEF EndNotify, MayResume, PostHandler, Limited
  <1> QED
    BY <1>1, <1>2, <1>3, <1>4, <1>5, <1>6 DEF EndStep
------------------------------------------------------------------------------
(* The theorems.                                                           *)

\* The invariant is inductive.
LEMMA Inductive == IInv /\ [Next]_vars => IInv'
  <1> SUFFICES ASSUME IInv, [Next]_vars PROVE IInv'
    OBVIOUS
  <1>1. TypeOK' /\ CountExact'
    BY TypeStep, CountStep DEF IInv
  <1>2. CASE UNCHANGED vars
    BY <1>2 DEF vars, IInv, TypeOK, CountExact, MutexOwned, LoopOwnsSocket,
       RoomAhead, HandlerNeedsLimit, OneContinuation, WakeupNotLost,
       ReservedPool, Holders, Counted
  <1>3. CASE Next
    BY <1>1, <1>3, LoopStepInv, AcceptStepInv, ConnStepInv
    DEF Next, LoopStep, EndStep, LoopInv, IInv
  <1> QED
    BY <1>2, <1>3

\* The invariant holds initially.
LEMMA Initial == Init => IInv
  <1> SUFFICES ASSUME Init PROVE IInv
    OBVIOUS
  <1>1. Counted = {} /\ Holders = {}
    BY DEF Init, Counted, Holders
  <1>2. CountExact
    BY <1>1, FS_EmptySet DEF Init, CountExact
  <1>3. TypeOK
    <2>1. 0 \in 0 .. use_workers - 1 /\ 0 \in 0 .. main_pools - 1
      BY WorkersAvailable, ConstantsAssumption
    <2> QED
      BY <2>1 DEF Init, TypeOK, LoopStates, ConnStates
  <1>4. MutexOwned
    BY <1>1 DEF Init, MutexOwned
  <1> QED
    BY <1>2, <1>3, <1>4, ConstantsAssumption
    DEF Init, IInv, LoopOwnsSocket, RoomAhead, HandlerNeedsLimit,
        OneContinuation, WakeupNotLost, ReservedPool

\* The invariant holds always.
LEMMA Invariance == Spec => []IInv
  BY Initial, Inductive, PTL DEF Spec

\* Type correctness; worker_i stays a valid index of the pools in use.
THEOREM TypeCorrect == Spec => []TypeOK
  <1>1. IInv => TypeOK
    BY DEF IInv
  <1> QED
    BY <1>1, Invariance, PTL

\* active_connections, incremented without the mutex by accept_loop() and
\* decremented under it by active_connection_end(), is exact in every state.
THEOREM CounterExact == Spec => []CountExact
  <1>1. IInv => CountExact
    BY DEF IInv
  <1> QED
    BY <1>1, Invariance, PTL

\* For every limit and every number of clients, the loop parked in
\* active_connections_hnd by conn_limit() is never forgotten there.
THEOREM NoLostWakeup == Spec => []WakeupNotLost
  <1>1. IInv => WakeupNotLost
    BY DEF IInv
  <1> QED
    BY <1>1, Invariance, PTL

\* The continuation of accept_loop() is in one place while it is suspended and
\* nowhere while it runs.
THEOREM SingleContinuation == Spec => []OneContinuation
  <1>1. IInv => OneContinuation
    BY DEF IInv
  <1> QED
    BY <1>1, Invariance, PTL

\* With accept_pool and several pools, the acceptor's pool runs no connection.
THEOREM AcceptorPoolReserved == Spec => []ReservedPool
  <1>1. IInv => ReservedPool
    BY DEF IInv
  <1> QED
    BY <1>1, Invariance, PTL

\* The sockets open for clients are within max_connections: all but the one
\* that accept_loop() has not counted yet are in the counter, and for that one
\* there is room.
THEOREM LimitHolds == Spec => []ServedLimit
  <1>1. ASSUME IInv, Limited
        PROVE  Cardinality(OpenSockets) <= max_connections
    <2> DEFINE Fresh == {c \in Clients : st[c] = "accepted"}
    <2>1. IsFiniteSet(Counted) /\ Cardinality(Counted) \in Nat
      BY CountedFinite
    <2>2. active = Cardinality(Counted) /\ active <= max_connections
      BY <1>1 DEF IInv, CountExact, RoomAhead
    <2>3. CASE Fresh = {}
      <3>1. OpenSockets \subseteq Counted
        BY <2>3 DEF OpenSockets, Counted
      <3>2. /\ Cardinality(OpenSockets) \in Nat
            /\ Cardinality(OpenSockets) <= Cardinality(Counted)
        BY <2>1, <3>1, FS_Subset, FS_CardinalityType
      <3> QED
        BY <2>1, <2>2, <3>2, ConstantsAssumption
    <2>4. CASE Fresh # {}
      <3>1. PICK c \in Clients : st[c] = "accepted"
        BY <2>4
      <3>2. active < max_connections
        BY <1>1, <3>1 DEF IInv, LoopOwnsSocket, RoomAhead
      <3>3. c \notin Counted /\ OpenSockets \subseteq Counted \cup {c}
        BY <1>1, <3>1 DEF IInv, LoopOwnsSocket, OpenSockets, Counted
      <3>4. /\ IsFiniteSet(Counted \cup {c})
            /\ Cardinality(Counted \cup {c}) = Cardinality(Counted) + 1
        BY <2>1, <3>3, FS_AddElement
      <3>5. /\ Cardinality(OpenSockets) \in Nat
            /\ Cardinality(OpenSockets) <= Cardinality(Counted \cup {c})
        BY <3>3, <3>4, FS_Subset, FS_CardinalityType
      <3> QED
        BY <2>1, <2>2, <3>2, <3>4, <3>5, ConstantsAssumption
    <2> QED
      BY <2>3, <2>4
  <1>2. IInv => ServedLimit
    BY <1>1 DEF ServedLimit
  <1> QED
    BY <1>2, Invariance, PTL

\* Refinement for every instance: counting a connection is Admit, uncounting
\* it is Leave, and everything else that accept_loop(), conn_limit() and
\* active_connection_end() do is invisible to Admission.
THEOREM Refinement == Spec => ImplementsAdmission
  <1>1. Init => Abstract!Init
    BY DEF Init, Counted, Abstract!Init
  <1>2. ASSUME IInv, [Next]_vars
        PROVE  [Abstract!Next]_Counted
    <2>1. ASSUME NEW c \in Clients, Count(c)
          PROVE  Abstract!Next
      <3>1. c \notin Counted /\ Counted' = Counted \cup {c}
        BY <1>2, <2>1, CountedUpdate
        DEF IInv, Count, ConnStates, CountedStates
      <3>2. max_connections = 0 \/ Cardinality(Counted) < max_connections
        BY <1>2, <2>1 DEF IInv, Count, CountExact, RoomAhead, Limited
      <3>3. Cardinality(Counted) = Abstract!Cardinality(Counted)
        BY Zenon DEF Cardinality, Abstract!Cardinality
      <3>4. Abstract!HasRoom
        BY <3>2, <3>3 DEF Abstract!HasRoom
      <3> QED
        BY <3>1, <3>4 DEF Abstract!Next, Abstract!Admit
    <2>2. ASSUME NEW c \in Clients, EndDecrement(c)
          PROVE  Abstract!Next
      <3>1. c \in Counted /\ Counted' = Counted \ {c}
        BY <1>2, <2>2, CountedUpdate
        DEF IInv, EndDecrement, ConnStates, CountedStates
      <3> QED
        BY <3>1 DEF Abstract!Next, Abstract!Leave
    <2>3. ASSUME NEW c \in Clients,
                 \/ Connect(c) \/ GiveUp(c) \/ Accepted(c) \/ NoEndpoint(c)
                 \/ Spawn(c) \/ EndpointThrows(c) \/ Finish(c) \/ EndLock(c)
                 \/ EndNotify(c)
          PROVE  Counted' = Counted
      <3>1. \E s \in ConnStates :
               /\ st' = [st EXCEPT ![c] = s]
               /\ st[c] \in CountedStates <=> s \in CountedStates
        BY <2>3 DEF Connect, GiveUp, Accepted, NoEndpoint, Spawn,
                    EndpointThrows, Finish, EndLock, EndNotify, ConnStates,
                    CountedStates
      <3> QED
        BY <1>2, <3>1, CountedUpdate DEF IInv
    <2>4. CASE UNCHANGED st
      BY <2>4 DEF Counted
    <2>5. CASE \/ ConnLimitLock \/ ConnLimitPass \/ ConnLimitFull
               \/ ConnLimitInit \/ Resume \/ AcceptFailed \/ UNCHANGED vars
      BY <2>4, <2>5 DEF ConnLimitLock, ConnLimitPass, ConnLimitFull,
         ConnLimitInit, Resume, AcceptFailed, vars
    <2> QED
      BY <1>2, <2>1, <2>2, <2>3, <2>5 DEF Next, LoopStep, EndStep
  <1> QED
    BY <1>1, <1>2, Invariance, PTL DEF Spec, ImplementsAdmission, Abstract!Spec
==============================================================================
