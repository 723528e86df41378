----------------------------- MODULE HttpHandlers -----------------------------
(***************************************************************************)
(* From a complete HTTP request to its response: the choice of the handler *)
(* by the URI path, the handlers echo, stat and db, the parsing of the     *)
(* request and the choice of the response's format by Content-Type and     *)
(* Accept, and the counters of http_hnd::stat, which the coroutines of all *)
(* connections change and the stat handler reads or resets one by one.     *)
(*                                                                         *)
(* A counter is one atomic variable, so a step is one access to a counter, *)
(* with the local computation that follows it.  What happens between the   *)
(* awaits of a connection is in HttpConnection, and what a query does is   *)
(* in DbServer: here it is executed or not.  A body is empty or has size 1.*)
(***************************************************************************)
EXTENDS Naturals, Sequences

CONSTANTS
    Sessions,        \* the connections
    Requests,        \* the kinds of requests
    MaxConnections,  \* bound: how many times sessions are opened
    MaxRequests      \* bound: how many requests are sent

\* A header field: absent, "*" or "*/*", one of the known types, another one
MediaTypes == {"absent", "any", "json", "protobuf", "other"}

RequestType == [target : {"/db", "/echo", "/stat", "unknown"},
                content_type : MediaTypes,
                accept : MediaTypes,
                parses : BOOLEAN,      \* the body is valid in its format
                reset : BOOLEAN,       \* proto::stat::Request
                head : BOOLEAN,        \* the method is HEAD
                body : 0 .. 1]

ASSUME RequestsAssumption == Requests # {} /\ Requests \subseteq RequestType
ASSUME BoundsAssumption == MaxConnections \in Nat /\ MaxRequests \in Nat

VARIABLES
    pc,       \* the control state of each connection
    req,      \* its request
    k,        \* the counter that its stat handler reads next
    resp,     \* its response, status and body
    counter,  \* stat::data_t
    ran,      \* the connections whose present request has run a query
    events,   \* history: the increments of each counter
    taken     \* history: the sum of the values that resets got

vars == <<pc, req, k, resp, counter, ran, events, taken>>

\* In the order in which the stat handler reads them
Order == <<"connections", "requests", "data_req", "data_resp">>
Counters == {Order[j] : j \in 1 .. Len(Order)}
Zero == [c \in Counters |-> 0]

Bodies == {"none", "text", "echo", "json", "protobuf"}
Response == [status : {200, 400, 406, 415}, body : Bodies]

handle_sync == [status |-> 200, body |-> "none"]
error_response(status) == [status |-> status, body |-> "text"]

TypeOK ==
    /\ pc \in [Sessions -> {"closed", "headers", "body", "stat", "query",
                            "serialize", "respond"}]
    /\ req \in [Sessions -> Requests]
    /\ k \in [Sessions -> 1 .. Len(Order)]
    /\ resp \in [Sessions -> Response]
    /\ counter \in [Counters -> Nat]
    /\ ran \subseteq Sessions
    /\ events \in [Counters -> Nat]
    /\ taken \in [Counters -> Nat]

Init ==
    /\ pc = [s \in Sessions |-> "closed"]
    /\ req = [s \in Sessions |-> CHOOSE r \in Requests : TRUE]
    /\ k = [s \in Sessions |-> 1]
    /\ resp = [s \in Sessions |-> handle_sync]
    /\ counter = Zero
    /\ ran = {}
    /\ events = Zero
    /\ taken = Zero

Goto(s, state) == pc' = [pc EXCEPT ![s] = state]

\* stat->data.c += n
Add(c, n) == /\ counter' = [counter EXCEPT ![c] = @ + n]
             /\ events' = [events EXCEPT ![c] = @ + n]

------------------------------------------------------------------------------
(* http_handler: formats                                                   *)

OrElse(first, second) == IF first = "absent" THEN second ELSE first

\* The media type that decides the format of a response
Wanted(r, wildcards) ==
    OrElse(IF r.accept \in wildcards THEN "absent" ELSE r.accept, r.content_type)

\* Faulty: "*/*" is taken for a media type.
json_body_NoWildcard(r, is_req) ==
    (IF is_req THEN r.content_type ELSE Wanted(r, {})) = "json"

json_body(r, is_req) ==
    (IF is_req THEN r.content_type ELSE Wanted(r, {"any"})) = "json"

\* Unlike in json_body(), "*/*" is taken for a media type.
protobuf_body(r, is_req) ==
    (IF is_req THEN r.content_type ELSE Wanted(r, {})) = "protobuf"

\* The response that parse() returns, with or without a message
parse(r) ==
    IF ~json_body(r, TRUE) /\ ~protobuf_body(r, TRUE) THEN error_response(415)
    ELSE IF ~r.parses THEN error_response(400)
    ELSE handle_sync

\* Faulty: the handler goes on without a message.
has_message_Always(r) == TRUE

\* Whether parse() returns a message
has_message(r) == (json_body(r, TRUE) \/ protobuf_body(r, TRUE)) /\ r.parses

\* Faulty: the response has the format of the request.
serialize_AsRequest(r, response) ==
    [response EXCEPT !.body = IF json_body(r, TRUE) THEN "json" ELSE "protobuf"]

serialize(r, response) ==
    IF json_body(r, FALSE) THEN [response EXCEPT !.body = "json"]
    ELSE IF protobuf_body(r, FALSE) THEN [response EXCEPT !.body = "protobuf"]
    ELSE error_response(406)

\* The handler echo: the body of the request
Echo(r) == [handle_sync EXCEPT !.body = IF r.body = 0 THEN "none" ELSE "echo"]

------------------------------------------------------------------------------
(* handle_connection()                                                     *)

Open(s) ==
    /\ pc[s] = "closed" /\ events["connections"] < MaxConnections
    /\ Add("connections", 1)
    /\ Goto(s, "headers")
    /\ UNCHANGED <<req, k, resp, ran, taken>>

ReadHeaders(s, r) ==
    /\ pc[s] = "headers" /\ events["requests"] < MaxRequests
    /\ Add("requests", 1)
    /\ req' = [req EXCEPT ![s] = r]
    /\ Goto(s, "body")
    /\ ran' = ran \ {s}
    /\ UNCHANGED <<k, resp, taken>>

\* An error, a timeout or a limit while the request is read
Abort(s) ==
    /\ pc[s] \in {"headers", "body"}
    /\ Goto(s, "closed")
    /\ UNCHANGED <<req, k, resp, counter, ran, events, taken>>

\* The body is complete: find the handler and call it.
Dispatch(s) ==
    LET r == req[s]
        Answer(response) == resp' = [resp EXCEPT ![s] = response]
                            /\ Goto(s, "respond")
    IN  /\ pc[s] = "body"
        /\ Add("data_req", r.body)
        /\ \/ r.target = "unknown" /\ Answer(error_response(400))
           \/ r.target = "/echo" /\ Answer(Echo(r))
           \/ r.target \in {"/stat", "/db"} /\ ~has_message(r) /\ Answer(parse(r))
           \/ r.target \in {"/stat", "/db"} /\ has_message(r)
              /\ resp' = [resp EXCEPT ![s] = parse(r)]
              /\ Goto(s, IF r.target = "/stat" THEN "stat" ELSE "query")
        /\ UNCHANGED <<req, k, ran, taken>>

\* Faulty: a reset reads the counter and leaves it as it is.
exchange_Load(s, c) == counter[c]

\* What is left in a counter after stat::handle_sync() has read it.
exchange(s, c) == IF req[s].reset THEN 0 ELSE counter[c]

MoreCounters(s) == k[s] < Len(Order)

\* The four counters are read one after another, not together.
Stat(s) ==
    LET c == Order[k[s]]
    IN  /\ pc[s] = "stat"
        /\ counter' = [counter EXCEPT ![c] = exchange(s, c)]
        /\ taken' = [taken EXCEPT ![c] = IF req[s].reset THEN @ + counter[c] ELSE @]
        /\ IF MoreCounters(s)
           THEN k' = [k EXCEPT ![s] = @ + 1] /\ UNCHANGED pc
           ELSE k' = [k EXCEPT ![s] = 1] /\ Goto(s, "serialize")
        /\ UNCHANGED <<req, resp, ran, events>>

\* db::handle_async(): the query is executed and its response comes back.
Query(s) ==
    /\ pc[s] = "query"
    /\ ran' = ran \cup {s}
    /\ Goto(s, "serialize")
    /\ UNCHANGED <<req, k, resp, counter, events, taken>>

\* If the conversion itself fails, serialize() discards the result of
\* error_response() and the response stays as parse() has prepared it.
Serialize(s) ==
    /\ pc[s] = "serialize"
    /\ \/ resp' = [resp EXCEPT ![s] = serialize(req[s], resp[s])]
       \/ serialize(req[s], resp[s]).body # "text" /\ UNCHANGED resp
    /\ Goto(s, "respond")
    /\ UNCHANGED <<req, k, counter, ran, events, taken>>

\* A HEAD request gets no body.  After the response the connection goes on or
\* ends.
Respond(s) ==
    /\ pc[s] = "respond"
    /\ Add("data_resp", IF req[s].head \/ resp[s].body = "none" THEN 0 ELSE 1)
    /\ \E state \in {"headers", "closed"} : Goto(s, state)
    /\ UNCHANGED <<req, k, resp, ran, taken>>

------------------------------------------------------------------------------
Step(s) == \/ Open(s) \/ Abort(s) \/ Dispatch(s) \/ Stat(s) \/ Query(s)
           \/ Serialize(s) \/ Respond(s) \/ \E r \in Requests : ReadHeaders(s, r)

Next == \E s \in Sessions : Step(s)

Spec == Init /\ [][Next]_vars

------------------------------------------------------------------------------
(* Properties *)

\* Statistics are neither lost nor counted twice: with several connections
\* counting and several resets overlapping in any way, what the resets have got
\* and what is still in a counter is exactly what has been counted.
StatConserved == \A c \in Counters : counter[c] + taken[c] = events[c]

\* A request that is refused because it cannot be parsed has had no effect: its
\* query has not been run.
RefusedNotRun ==
    \A s \in Sessions :
        pc[s] = "respond" /\ resp[s].status \in {400, 415} => s \notin ran

\* The format that Accept names is the format of the response; without it, or
\* with a wildcard, it is the format of the request.
FormatAsAsked ==
    \A s \in Sessions :
        pc[s] = "respond" /\ resp[s].body \in {"json", "protobuf"} =>
            resp[s].body = IF req[s].accept \in {"json", "protobuf"}
                           THEN req[s].accept ELSE req[s].content_type

\* A query that has been run is answered by its result, unless the client asks
\* for a format that the server does not have, or for "*/*" in protobuf.
RunNotRefused ==
    \A s \in ran :
        pc[s] = "respond" /\ resp[s].status # 200 =>
            \/ req[s].accept = "other"
            \/ req[s].accept = "any" /\ req[s].content_type = "protobuf"
==============================================================================
