---------------------------- MODULE HttpConnection ----------------------------
(***************************************************************************)
(* One HTTP connection: the coroutine http_server::handle_connection(), the *)
(* timer of its tcp_stream and the client at the other end.                *)
(*                                                                         *)
(* The coroutine gives way only where it awaits the socket or a handler,   *)
(* so a step is what it does from the completion of one await to the start *)
(* of the next.  Bodies are counted in pieces, each the result of one      *)
(* async_read_some().  Header fields, URIs and the contents of responses   *)
(* are left out, except the ones that decide where the coroutine goes.     *)
(***************************************************************************)
EXTENDS Naturals, Sequences, FiniteSets

CONSTANTS
    Configs,             \* the server configurations considered
    Requests,            \* the kinds of requests that the client may send
    MaxRequests,         \* bound: the requests sent in one connection
    DefaultHeaderLimit,  \* the limits that the parser of Boost.Beast has
    DefaultBodyLimit     \*   unless header_limit(), body_limit() are called

\* Zero stands for "not configured" in every number.
ConfigType == [idle_timeout : BOOLEAN, keepalive_timeout : BOOLEAN,
               keepalive_requests : Nat, max_request_headers : Nat,
               max_request_body : Nat]

RequestType == [headers : Nat,        \* the size of the headers
                body : Nat,           \* the pieces of the body
                declared : BOOLEAN,   \* Content-Length, otherwise chunked
                expect : BOOLEAN,     \* Expect: 100-continue
                keep_alive : BOOLEAN]

ASSUME ConfigsAssumption == Configs \subseteq ConfigType
ASSUME RequestsAssumption == Requests \subseteq RequestType
ASSUME BoundsAssumption ==
    MaxRequests \in Nat /\ DefaultHeaderLimit \in Nat /\ DefaultBodyLimit \in Nat

VARIABLES
    cfg,        \* the configuration of the server, never changed
    at,         \* what the coroutine awaits
    timer,      \* the expiry of the tcp_stream's timer
    req,        \* the request being processed
    got,        \* the pieces of its body read so far
    req_n,      \* the number of requests whose headers have been read
    ec, stage,  \* the error and the stage that are reported at the end
    net,        \* what the client has sent and the parser has not consumed
    asked,      \* the requests the client has sent or begun to send
    tosend,     \* the pieces of the last of them not sent yet
    peer,       \* whether the client keeps its side open
    out         \* the responses written

server == <<cfg, at, timer, req, got, req_n, ec, stage, out>>
client == <<net, asked, tosend, peer>>
vars == <<server, client>>

Reads == {"read_header", "read_body"}
Writes == {"write_100", "write_response", "write_413"}
Final == {"ended", "thrown"}

Errors == {"none", "timeout", "io", "header_limit", "body_limit"}
Stages == {"none", "read_request_headers", "write_100_continue",
           "read_request_body", "write_response"}

\* The headers of a request and the pieces of its body, which are numbered
Message == [id : 1 .. MaxRequests, piece : Nat]
HeaderOf(n) == [id |-> n, piece |-> 0]
PieceOf(n, k) == [id |-> n, piece |-> k]
IsHeader(m) == m.piece = 0

Response == [kind : {"100", "final", "413"}, id : 0 .. MaxRequests,
             keep : BOOLEAN]

TypeOK ==
    /\ cfg \in Configs
    /\ at \in Reads \cup Writes \cup Final \cup {"handle"}
    /\ timer \in {"never", "armed", "expired"}
    /\ req \in 0 .. MaxRequests
    /\ got \in Nat
    /\ req_n \in 0 .. Len(asked)
    /\ ec \in Errors
    /\ stage \in Stages
    /\ net \in Seq(Message)
    /\ asked \in Seq(Requests) /\ Len(asked) <= MaxRequests
    /\ tosend \in Nat
    /\ peer \in {"open", "closed"}
    /\ out \in Seq(Response)

------------------------------------------------------------------------------
(* The client: any well-formed sequence of requests, pipelined or not,     *)
(* stopping or closing the connection anywhere.                            *)

SendHeader(r) ==
    /\ peer = "open" /\ tosend = 0 /\ Len(asked) < MaxRequests
    /\ asked' = Append(asked, r)
    /\ net' = Append(net, HeaderOf(Len(asked) + 1))
    /\ tosend' = r.body
    /\ UNCHANGED <<server, peer>>

SendPiece ==
    /\ peer = "open" /\ tosend > 0
    /\ net' = Append(net, PieceOf(Len(asked), asked[Len(asked)].body - tosend + 1))
    /\ tosend' = tosend - 1
    /\ UNCHANGED <<server, asked, peer>>

Disconnect ==
    /\ peer = "open"
    /\ peer' = "closed"
    /\ UNCHANGED <<server, net, asked, tosend>>

------------------------------------------------------------------------------
(* The timer of tcp_stream.  If it expires while an operation is pending,  *)
(* or has expired before one is started, the operation may fail with       *)
(* error::timeout, unless it completes first.                              *)

expiry(configured) == IF configured THEN "armed" ELSE "never"

\* Faulty: the two timeouts are confused.
before_request_timeout_Swapped(first) ==
    expiry(IF first THEN cfg.keepalive_timeout ELSE cfg.idle_timeout)

before_request_timeout(first) ==
    expiry(IF first THEN cfg.idle_timeout ELSE cfg.keepalive_timeout)

in_request_timeout == expiry(cfg.idle_timeout)

\* Faulty: the timer armed for reading the request goes on.
response_timeout_Kept == timer

\* stream.expires_never() before the response is written
response_timeout == "never"

TimerExpires ==
    /\ timer = "armed"
    /\ at \notin Final
    /\ timer' = "expired"
    /\ UNCHANGED <<cfg, at, req, got, req_n, ec, stage, out, client>>

------------------------------------------------------------------------------
(* handle_connection()                                                     *)

header_limit == IF cfg.max_request_headers # 0 THEN cfg.max_request_headers
                                               ELSE DefaultHeaderLimit

body_limit == IF cfg.max_request_body # 0 THEN cfg.max_request_body
                                          ELSE DefaultBodyLimit

Init ==
    /\ cfg \in Configs
    /\ at = "read_header"
    /\ timer = before_request_timeout(TRUE)
    /\ req = 0 /\ got = 0 /\ req_n = 0
    /\ ec = "none" /\ stage = "none"
    /\ net = <<>> /\ asked = <<>> /\ tosend = 0 /\ peer = "open"
    /\ out = <<>>

\* Faulty: any error is answered by 413.
abort_connection_Answers(error, where) ==
    /\ ec' = error /\ stage' = where
    /\ at' = "write_413" /\ timer' = in_request_timeout

\* Faulty: a refused request is skipped and the connection goes on.
abort_connection_Skips(error, where) ==
    /\ ec' = error /\ stage' = where
    /\ at' = "read_header" /\ timer' = before_request_timeout(FALSE)

\* goto abort_connection: only an exceeded body limit is answered.
abort_connection(error, where) ==
    /\ ec' = error /\ stage' = where
    /\ IF error = "body_limit"
       THEN at' = "write_413" /\ timer' = in_request_timeout
       ELSE at' = "ended" /\ UNCHANGED timer

Proceed(where) == ec' = "none" /\ stage' = where

\* Faulty: one async_read_some() is taken for the whole body.
is_done_Early(r, n) == r.body = 0 \/ n > 0

\* parser.is_done() of a request of which n pieces of body have been read
is_done(r, n) == n = r.body

\* The loop that reads the body: wait for a piece or go on to the handler.
ReadBodyOrHandle(r, n) ==
    IF is_done(r, n) THEN at' = "handle" /\ UNCHANGED timer
                     ELSE at' = "read_body" /\ timer' = in_request_timeout

\* What async_read_header() reports of the message at the head of the stream.
HeaderError(m) ==
    IF ~IsHeader(m) THEN "io"
    ELSE LET a == asked[m.id]
         IN  IF a.headers > header_limit THEN "header_limit"
             ELSE IF a.declared /\ a.body > body_limit THEN "body_limit"
             ELSE "none"

\* Faulty: a request is counted before and after its headers are read.
count_request_Twice == req_n' = req_n + 2

count_request == req_n' = req_n + 1

HeaderRefused ==
    /\ at = "read_header" /\ net # <<>>
    /\ HeaderError(Head(net)) # "none"
    /\ abort_connection(HeaderError(Head(net)), "read_request_headers")
    /\ req' = Head(net).id
    /\ net' = Tail(net)
    /\ UNCHANGED <<cfg, got, req_n, out, asked, tosend, peer>>

ReadHeader ==
    LET r == asked[Head(net).id]
    IN  /\ at = "read_header" /\ net # <<>>
        /\ HeaderError(Head(net)) = "none"
        /\ net' = Tail(net)
        /\ Proceed("read_request_headers")
        /\ req' = Head(net).id
        /\ got' = 0
        /\ count_request
        /\ IF r.expect THEN at' = "write_100" /\ timer' = in_request_timeout
                       ELSE ReadBodyOrHandle(r, 0)
        /\ UNCHANGED <<cfg, out, asked, tosend, peer>>

Write100 ==
    /\ at = "write_100"
    /\ out' = Append(out, [kind |-> "100", id |-> req, keep |-> TRUE])
    /\ Proceed("write_100_continue")
    /\ ReadBodyOrHandle(asked[req], 0)
    /\ UNCHANGED <<cfg, req, got, req_n, client>>

\* A chunked body is found to be too large only when it is read.
BodyRefused ==
    /\ at = "read_body" /\ net # <<>>
    /\ got + 1 > body_limit
    /\ abort_connection("body_limit", "read_request_body")
    /\ net' = Tail(net)
    /\ UNCHANGED <<cfg, req, got, req_n, out, asked, tosend, peer>>

ReadBody ==
    /\ at = "read_body" /\ net # <<>>
    /\ got + 1 <= body_limit
    /\ net' = Tail(net)
    /\ got' = got + 1
    /\ Proceed("read_request_body")
    /\ ReadBodyOrHandle(asked[req], got + 1)
    /\ UNCHANGED <<cfg, req, req_n, out, asked, tosend, peer>>

\* The response is ready: of a handler, synchronous or not, or of an error.
\* It may take any time.
Handled ==
    /\ at = "handle"
    /\ at' = "write_response" /\ timer' = response_timeout
    /\ UNCHANGED <<cfg, req, got, req_n, ec, stage, out, client>>

\* An exception from a handler leaves the coroutine.
HandlerThrows ==
    /\ at = "handle"
    /\ at' = "thrown"
    /\ UNCHANGED <<cfg, timer, req, got, req_n, ec, stage, out, client>>

\* Faulty: one request more than configured.
keepalive_OffByOne ==
    /\ asked[req].keep_alive
    /\ cfg.keepalive_requests = 0 \/ req_n <= cfg.keepalive_requests

keepalive ==
    /\ asked[req].keep_alive
    /\ cfg.keepalive_requests = 0 \/ req_n < cfg.keepalive_requests

LoopAgain == keepalive

WriteResponse ==
    /\ at = "write_response"
    /\ out' = Append(out, [kind |-> "final", id |-> req, keep |-> keepalive])
    /\ Proceed("none")
    /\ IF LoopAgain
       THEN at' = "read_header" /\ timer' = before_request_timeout(FALSE)
       ELSE at' = "ended" /\ UNCHANGED timer
    /\ UNCHANGED <<cfg, req, got, req_n, client>>

\* Without Content-Length this response ends with the connection.
Write413 ==
    /\ at = "write_413"
    /\ out' = Append(out, [kind |-> "413", id |-> req, keep |-> FALSE])
    /\ at' = "ended"
    /\ UNCHANGED <<cfg, timer, req, got, req_n, ec, stage, client>>

\* An await fails, because of the timer or because the client is gone.
FailedStage == CASE at = "read_header"    -> "read_request_headers"
                 [] at = "write_100"      -> "write_100_continue"
                 [] at = "read_body"      -> "read_request_body"
                 [] at = "write_response" -> "write_response"
                 [] at = "write_413"      -> stage

\* In the final write the error goes to ece and ec is left alone.
Fail ==
    /\ at \in Reads \cup Writes
    /\ \E e \in {"timeout", "io"} :
         /\ IF e = "timeout" THEN timer = "expired" ELSE peer = "closed"
         /\ ec' = IF at = "write_413" THEN ec ELSE e
    /\ at' = "ended"
    /\ stage' = FailedStage
    /\ UNCHANGED <<cfg, timer, req, got, req_n, out, client>>

ServerStep == \/ ReadHeader \/ HeaderRefused \/ Write100
              \/ ReadBody \/ BodyRefused \/ Handled \/ HandlerThrows
              \/ WriteResponse \/ Write413 \/ Fail

ClientStep == SendPiece \/ Disconnect \/ \E r \in Requests : SendHeader(r)

Next == ServerStep \/ ClientStep \/ TimerExpires

(***************************************************************************)
(* Time passes, a pending operation whose timer has expired completes, and *)
(* a handler returns.  Nothing is expected of the client: it need not send *)
(* or read anything, and it need not close the connection.                 *)
(***************************************************************************)
Fairness == WF_vars(TimerExpires) /\ WF_vars(Fail)
            /\ WF_vars(Handled \/ HandlerThrows)

Spec == Init /\ [][Next]_vars

FairSpec == Spec /\ Fairness

------------------------------------------------------------------------------
(* Properties *)

\* However long the handler takes, for example an SQL query waiting for a
\* lock, its response is not lost to a timer armed while reading the request.
SlowHandlerAnswered == ~(stage = "write_response" /\ ec = "timeout")

\* Bytes of a body, read or refused, are never parsed as the next request, with
\* pipelining, 100-continue and refused bodies: where the parser expects
\* headers, the stream has headers.
FramingKept ==
    at = "read_header" /\ net # <<>> => IsHeader(net[1])

\* The i-th final response answers the i-th request of the connection, so a
\* client that pipelines can match them.
AnsweredInOrder ==
    \A i \in 1 .. Len(out) :
        out[i].kind = "final" =>
            out[i].id = Cardinality({j \in 1 .. i : out[j].kind = "final"})

\* What a response announces is what happens: after one without keep-alive
\* nothing more is written, without an error or an exception the connection
\* does not end before one, and the request that reaches keepalive_requests gets
\* one, so a client never sends a request that is not served because of it.
CloseAnnounced ==
    /\ \A i \in 1 .. Len(out) : ~out[i].keep => i = Len(out)
    /\ at = "ended" /\ ec = "none" =>
         out # <<>> /\ ~out[Len(out)].keep
    /\ \A i \in 1 .. Len(out) :
         out[i].kind = "final" /\ cfg.keepalive_requests \in 1 .. out[i].id =>
             ~out[i].keep

\* A body over the limit is answered by 413 and nothing else, and nothing else
\* is answered by 413.
LargeRefused ==
    \A i \in 1 .. Len(out) :
        /\ out[i].kind = "413" => asked[out[i].id].body > body_limit
        /\ out[i].kind = "final" => asked[out[i].id].body <= body_limit

\* A client cannot hold a connection by not sending, or by not reading 100 or
\* 413, if the timeout for that wait is configured.  Only the wait for a final
\* response to be read has no timeout.
WaitsEnd ==
    /\ cfg.idle_timeout ~>
         \/ at \in Final \cup {"handle", "write_response"}
         \/ at = "read_header" /\ req_n > 0
    /\ cfg.keepalive_timeout /\ at = "read_header" /\ req_n > 0 ~>
         ~(at = "read_header")

\* configuration.proto: "max_request_body = 8; // 0 = unlimited".
UnlimitedBody ==
    cfg.max_request_body = 0 => \A i \in 1 .. Len(out) : out[i].kind # "413"
==============================================================================
