------------------------------ MODULE Admission ------------------------------
(***************************************************************************)
(* What the connection limit of http_server promises, without the mutex,   *)
(* the counter and the parked coroutine that implement it: a set of        *)
(* clients is being served, a client joins the set only while there is     *)
(* room, and leaves it once.  AcceptLoop implements this specification.    *)
(***************************************************************************)
EXTENDS Naturals, FiniteSets

CONSTANTS Clients,          \* everyone who may connect
          max_connections   \* the configured limit, 0 = unlimited

VARIABLE served             \* the clients that occupy a slot

HasRoom == max_connections = 0 \/ Cardinality(served) < max_connections

Init == served = {}

Admit(c) == /\ c \notin served
            /\ HasRoom
            /\ served' = served \cup {c}

Leave(c) == /\ c \in served
            /\ served' = served \ {c}

Next == \E c \in Clients : Admit(c) \/ Leave(c)

Spec == Init /\ [][Next]_served
==============================================================================
