------------------------------- MODULE MCStartup -------------------------------
(* Model-checking instance of Startup: a configuration with only defaults and *)
(* others that differ from it in what one group of settings says.             *)
EXTENDS Startup

Default ==
    [level |-> 0, main_threads |-> 0, control_threads |-> 0, database_threads |-> 0,
     main_pools |-> 0, accept_pool |-> FALSE, port |-> 0, listen_queue |-> 0,
     max_connections |-> 0, keepalive_requests |-> 0, max_request_headers |-> 0,
     max_request_body |-> 0, idle_timeout |-> 0, keepalive_timeout |-> 0,
     retry_wait |-> 0]

UInt32 == {0, 1, INT_MAX, INT_MAX + 1, UINT32 - 1}

\* Times around those where rounding and the limit matter, and beyond all
Times == {NaN} \cup (-1 .. 3) \cup (48 .. 54) \cup {60, 110}

MCConfigurations ==
    {[Default EXCEPT !.level = l] : l \in 0 .. 11} \cup
    {[Default EXCEPT !.main_threads = m, !.control_threads = c, !.database_threads = d] :
        m \in -1 .. 1, c \in {-1, 0, 2}, d \in {-1, 2}} \cup
    {[Default EXCEPT !.main_pools = n, !.accept_pool = a] :
        n \in -1 .. 2, a \in BOOLEAN} \cup
    {[Default EXCEPT !.port = p, !.listen_queue = q] :
        p \in {1, PORT_MAX, PORT_MAX + 1, UINT32 - 1}, q \in {1, INT_MAX + 1}} \cup
    {[Default EXCEPT !.max_connections = n, !.keepalive_requests = n,
                     !.max_request_headers = b, !.max_request_body = UINT32 + n] :
        n \in UInt32, b \in {1, UINT32}} \cup
    {[Default EXCEPT !.idle_timeout = t, !.keepalive_timeout = u, !.retry_wait = t] :
        t \in Times, u \in {-1, 1}}
==============================================================================
