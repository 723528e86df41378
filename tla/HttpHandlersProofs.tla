-------------------------- MODULE HttpHandlersProofs --------------------------
(***************************************************************************)
(* Proofs about HttpHandlers for every set of connections and of requests: *)
(* the statistics are conserved, a refused request has not been run, and a *)
(* response has the format and the status that its request asks for.       *)
(***************************************************************************)
EXTENDS HttpHandlers, TLAPS

------------------------------------------------------------------------------
(* The inductive invariant.                                                *)

\* A query is run only after the request has been parsed.
NotRunYet ==
    \A s \in Sessions : pc[s] \in {"body", "stat"} => s \notin ran

\* A handler goes on only with a message, and then the response that parse()
\* has prepared is not an error and has no body yet.
Prepared ==
    \A s \in Sessions :
        pc[s] \in {"stat", "query", "serialize"} =>
            resp[s] = handle_sync /\ has_message(req[s])

IInv == /\ TypeOK
        /\ StatConserved
        /\ NotRunYet
        /\ Prepared
        /\ RefusedNotRun
        /\ FormatAsAsked
        /\ RunNotRefused

------------------------------------------------------------------------------
(* The operators on which the model is built.                              *)

\* A response that has not been made by serialize()
Unformatted(x) == x.body \notin {"json", "protobuf"}

\* The names of the counters, as a set
LEMMA CounterNames ==
    Counters = {"connections", "requests", "data_req", "data_resp"}
  <1>1. Len(Order) = 4
    BY DEF Order
  <1>2. \A j : j \in 1 .. 4 <=> j = 1 \/ j = 2 \/ j = 3 \/ j = 4
    BY SMT
  <1>3. /\ Order[1] = "connections" /\ Order[2] = "requests"
        /\ Order[3] = "data_req" /\ Order[4] = "data_resp"
    BY DEF Order
  <1>4. Counters = {Order[1], Order[2], Order[3], Order[4]}
    BY <1>1, <1>2, SMT DEF Counters
  <1> QED
    BY <1>3, <1>4

\* Counting adds to a counter and to its history alike.
LEMMA AddConserves ==
  ASSUME TypeOK, StatConserved, NEW c \in Counters, NEW n \in Nat, Add(c, n),
         UNCHANGED taken
  PROVE  /\ StatConserved'
         /\ counter' \in [Counters -> Nat] /\ events' \in [Counters -> Nat]
  BY DEF TypeOK, StatConserved, Add

\* stat::handle_sync() reads a counter: its value moves to what the resets have
\* got, or stays.
LEMMA StatConserves ==
  ASSUME TypeOK, StatConserved, NEW s \in Sessions, Stat(s)
  PROVE  /\ StatConserved'
         /\ counter' \in [Counters -> Nat] /\ taken' \in [Counters -> Nat]
  <1>1. Order[k[s]] \in Counters
    BY DEF TypeOK, Counters
  <1> QED
    BY <1>1 DEF TypeOK, StatConserved, Stat, exchange

\* What parse(), serialize() and echo return is a response; parse() prepares an
\* empty response for a message, serialize() makes at most 406 of that, and only
\* serialize() gives a response a format.
LEMMA Responses ==
  ASSUME NEW r \in RequestType, NEW x \in Response
  PROVE  /\ handle_sync \in Response /\ handle_sync.status = 200
         /\ error_response(400) \in Response /\ Unformatted(error_response(400))
         /\ Echo(r) \in Response /\ Unformatted(Echo(r))
         /\ parse(r) \in Response /\ Unformatted(parse(r))
         /\ has_message(r) => parse(r) = handle_sync
         /\ serialize(r, x) \in Response
         /\ x.status = 200 => serialize(r, x).status \in {200, 406}
  <1>1. handle_sync \in Response /\ handle_sync.status = 200
    BY DEF handle_sync, Response, Bodies
  <1>2. \A n \in {200, 400, 406, 415} :
          /\ error_response(n) \in Response /\ error_response(n).status = n
          /\ Unformatted(error_response(n))
    BY DEF error_response, Response, Bodies, Unformatted
  <1>3. Echo(r) \in Response /\ Unformatted(Echo(r))
    BY DEF Echo, handle_sync, Response, Bodies, Unformatted
  <1>4. /\ parse(r) \in Response /\ Unformatted(parse(r))
        /\ has_message(r) => parse(r) = handle_sync
    <2>1. CASE has_message(r)
      <3>1. parse(r) = handle_sync
        BY <2>1 DEF parse, has_message
      <3> QED
        BY <1>1, <3>1 DEF Unformatted, handle_sync
    <2>2. CASE ~has_message(r)
      <3>1. CASE ~json_body(r, TRUE) /\ ~protobuf_body(r, TRUE)
        <4>1. parse(r) = error_response(415)
          BY <3>1 DEF parse
        <4> QED
          BY <1>2, <2>2, <4>1
      <3>2. CASE json_body(r, TRUE) \/ protobuf_body(r, TRUE)
        <4>1. ~r.parses
          BY <2>2, <3>2 DEF has_message
        <4>2. parse(r) = error_response(400)
          BY <3>2, <4>1, Zenon DEF parse
        <4> QED
          BY <1>2, <2>2, <4>2
      <3> QED
        BY <3>1, <3>2
    <2> QED
      BY <2>1, <2>2
  <1>5. /\ serialize(r, x) \in Response
        /\ x.status = 200 => serialize(r, x).status \in {200, 406}
    <2>1. /\ [x EXCEPT !.body = "json"] \in Response
          /\ [x EXCEPT !.body = "json"].status = x.status
      BY DEF Response, Bodies
    <2>2. /\ [x EXCEPT !.body = "protobuf"] \in Response
          /\ [x EXCEPT !.body = "protobuf"].status = x.status
      BY DEF Response, Bodies
    <2>3. CASE json_body(r, FALSE)
      <3>1. serialize(r, x) = [x EXCEPT !.body = "json"]
        BY <2>3 DEF serialize
      <3> QED
        BY <2>1, <3>1
    <2>4. CASE ~json_body(r, FALSE) /\ protobuf_body(r, FALSE)
      <3>1. serialize(r, x) = [x EXCEPT !.body = "protobuf"]
        BY <2>4 DEF serialize
      <3> QED
        BY <2>2, <3>1
    <2>5. CASE ~json_body(r, FALSE) /\ ~protobuf_body(r, FALSE)
      <3>1. serialize(r, x) = error_response(406)
        BY <2>5 DEF serialize
      <3> QED
        BY <1>2, <3>1
    <2> QED
      BY <2>3, <2>4, <2>5
  <1> QED
    BY <1>1, <1>2, <1>3, <1>4, <1>5

\* The format that serialize() chooses for a message is the one asked for, and it
\* refuses only what FormatAsAsked and RunNotRefused except.
LEMMA Formats ==
  ASSUME NEW r \in RequestType, has_message(r)
  PROVE  LET x == serialize(r, handle_sync)
         IN  /\ x.body \in {"json", "protobuf"} =>
                   x.body = IF r.accept \in {"json", "protobuf"}
                            THEN r.accept ELSE r.content_type
             /\ x.status # 200 =>
                   \/ r.accept = "other"
                   \/ r.accept = "any" /\ r.content_type = "protobuf"
  <1> DEFINE x == serialize(r, handle_sync)
  <1>1. r.accept \in MediaTypes /\ r.content_type \in {"json", "protobuf"}
    BY DEF RequestType, has_message, json_body, protobuf_body
  <1>2. CASE json_body(r, FALSE)
    <2>1. x = [handle_sync EXCEPT !.body = "json"]
      BY <1>2 DEF serialize
    <2>2. x.body = "json" /\ x.status = 200
      BY <2>1 DEF handle_sync
    <2>3. \/ r.accept = "json"
          \/ r.accept \in {"any", "absent"} /\ r.content_type = "json"
      BY <1>1, <1>2 DEF json_body, Wanted, OrElse, MediaTypes
    <2> QED
      BY <2>2, <2>3
  <1>3. CASE ~json_body(r, FALSE) /\ protobuf_body(r, FALSE)
    <2>1. x = [handle_sync EXCEPT !.body = "protobuf"]
      BY <1>3 DEF serialize
    <2>2. x.body = "protobuf" /\ x.status = 200
      BY <2>1 DEF handle_sync
    <2>3. \/ r.accept = "protobuf"
          \/ r.accept = "absent" /\ r.content_type = "protobuf"
      BY <1>1, <1>3 DEF protobuf_body, Wanted, OrElse, MediaTypes
    <2> QED
      BY <2>2, <2>3
  <1>4. CASE ~json_body(r, FALSE) /\ ~protobuf_body(r, FALSE)
    <2>1. x = error_response(406)
      BY <1>4 DEF serialize
    <2>2. x.body = "text"
      BY <2>1 DEF error_response
    <2>3. \/ r.accept = "other"
          \/ r.accept = "any" /\ r.content_type = "protobuf"
      BY <1>1, <1>4 DEF json_body, protobuf_body, Wanted, OrElse, MediaTypes
    <2> QED
      BY <2>2, <2>3
  <1> QED
    BY <1>2, <1>3, <1>4

------------------------------------------------------------------------------
(* Every step preserves the invariant.                                     *)

\* The steps that only count
LEMMA CountingStep ==
  ASSUME IInv, NEW s \in Sessions,
         \/ Open(s) \/ Respond(s) \/ \E r \in Requests : ReadHeaders(s, r)
  PROVE  IInv'
  <1> USE DEF IInv
  <1>1. CASE Open(s)
    <2>1. /\ StatConserved'
          /\ counter' \in [Counters -> Nat] /\ events' \in [Counters -> Nat]
      BY <1>1, AddConserves, CounterNames DEF Open
    <2> QED
      BY <1>1, <2>1
      DEF Open, Goto, TypeOK, NotRunYet, Prepared, RefusedNotRun, FormatAsAsked,
          RunNotRefused
  <1>2. CASE Respond(s)
    <2>1. /\ StatConserved'
          /\ counter' \in [Counters -> Nat] /\ events' \in [Counters -> Nat]
      BY <1>2, AddConserves, CounterNames DEF Respond
    <2> QED
      BY <1>2, <2>1
      DEF Respond, Goto, TypeOK, NotRunYet, Prepared, RefusedNotRun, FormatAsAsked,
          RunNotRefused
  <1>3. ASSUME NEW r \in Requests, ReadHeaders(s, r)
        PROVE  IInv'
    <2>1. /\ StatConserved'
          /\ counter' \in [Counters -> Nat] /\ events' \in [Counters -> Nat]
      BY <1>3, AddConserves, CounterNames DEF ReadHeaders
    <2> QED
      BY <1>3, <2>1
      DEF ReadHeaders, Goto, TypeOK, NotRunYet, Prepared, RefusedNotRun,
          FormatAsAsked, RunNotRefused
  <1> QED
    BY <1>1, <1>2, <1>3

\* The call of the handler
LEMMA DispatchStep ==
  ASSUME IInv, NEW s \in Sessions, Dispatch(s)
  PROVE  IInv'
  <1> USE DEF IInv
  <1>1. req[s] \in RequestType /\ req[s].body \in Nat /\ resp[s] \in Response
    BY RequestsAssumption DEF TypeOK, RequestType
  <1>2. /\ StatConserved'
        /\ counter' \in [Counters -> Nat] /\ events' \in [Counters -> Nat]
    BY <1>1, AddConserves, CounterNames DEF Dispatch
  <1>3. s \notin ran
    BY DEF Dispatch, NotRunYet
  <1>4. \/ \E x \in Response : /\ resp' = [resp EXCEPT ![s] = x] /\ Unformatted(x)
                              /\ pc' = [pc EXCEPT ![s] = "respond"]
        \/ \E p \in {"stat", "query"} :
              /\ resp' = [resp EXCEPT ![s] = handle_sync] /\ has_message(req[s])
              /\ pc' = [pc EXCEPT ![s] = p]
    BY <1>1, Responses DEF Dispatch, Goto
  <1>5. UNCHANGED <<req, k, ran, taken>>
    BY DEF Dispatch
  <1>6. pc \in [Sessions -> {"closed", "headers", "body", "stat", "query",
                            "serialize", "respond"}]
        /\ resp \in [Sessions -> Response] /\ handle_sync \in Response
    <2>1. handle_sync \in Response
      BY <1>1, Responses
    <2> QED
      BY <2>1 DEF TypeOK
  <1>7. TypeOK'
    <2>1. /\ pc' \in [Sessions -> {"closed", "headers", "body", "stat", "query",
                                  "serialize", "respond"}]
          /\ resp' \in [Sessions -> Response]
      BY <1>4, <1>6
    <2> QED
      BY <1>2, <1>5, <2>1 DEF TypeOK
  <1>8. NotRunYet' /\ RefusedNotRun'
    BY <1>3, <1>4, <1>5, <1>6 DEF NotRunYet, RefusedNotRun
  <1>9. Prepared'
    BY <1>4, <1>5, <1>6 DEF Prepared
  <1>10. FormatAsAsked'
    BY <1>4, <1>5, <1>6 DEF FormatAsAsked, Unformatted
  <1>11. RunNotRefused'
    <2>1. \A t \in ran : t # s /\ t \in Sessions
      BY <1>3 DEF TypeOK
    <2> QED
      BY <1>4, <1>5, <1>6, <2>1 DEF RunNotRefused
  <1> QED
    BY <1>2, <1>7, <1>8, <1>9, <1>10, <1>11

\* The handlers stat and db
LEMMA HandlerStep ==
  ASSUME IInv, NEW s \in Sessions,
         Stat(s) \/ Query(s) \/ Serialize(s) \/ Abort(s)
  PROVE  IInv'
  <1> USE DEF IInv
  <1>1. CASE Stat(s)
    <2>1. /\ StatConserved'
          /\ counter' \in [Counters -> Nat] /\ taken' \in [Counters -> Nat]
      BY <1>1, StatConserves
    <2>2. /\ k' \in [Sessions -> 1 .. Len(Order)]
          /\ \/ UNCHANGED pc
             \/ pc[s] = "stat" /\ pc' = [pc EXCEPT ![s] = "serialize"]
      <3>1. Len(Order) = 4
        BY DEF Order
      <3> QED
        BY <1>1, <3>1 DEF Stat, MoreCounters, Goto, TypeOK
    <2>3. UNCHANGED <<req, resp, ran, events>>
      BY <1>1 DEF Stat
    <2>4. TypeOK'
      BY <2>1, <2>2, <2>3 DEF TypeOK
    <2>5. pc \in [Sessions -> {"closed", "headers", "body", "stat", "query",
                              "serialize", "respond"}]
      BY DEF TypeOK
    <2>6. NotRunYet' /\ Prepared' /\ RefusedNotRun'
      BY <2>2, <2>3, <2>5 DEF NotRunYet, Prepared, RefusedNotRun
    <2>7. FormatAsAsked' /\ RunNotRefused'
      BY <2>2, <2>3, <2>5 DEF FormatAsAsked, RunNotRefused, TypeOK
    <2> QED
      BY <2>1, <2>4, <2>6, <2>7
  <1>2. CASE Query(s)
    BY <1>2 DEF Query, Goto, TypeOK, StatConserved, NotRunYet, Prepared,
                RefusedNotRun, FormatAsAsked, RunNotRefused
  <1>3. CASE Serialize(s)
    <2>1. /\ req[s] \in RequestType /\ resp[s] \in Response
          /\ resp[s] = handle_sync /\ has_message(req[s])
          /\ handle_sync.status = 200 /\ handle_sync.body = "none"
      BY <1>3, RequestsAssumption DEF TypeOK, Serialize, Prepared, handle_sync
    <2>2. /\ resp' \in [Sessions -> Response]
          /\ resp'[s].status \in {200, 406}
          /\ \A t \in Sessions : t # s => resp'[t] = resp[t]
          /\ resp'[s].body \in {"json", "protobuf"} =>
                resp'[s].body = IF req[s].accept \in {"json", "protobuf"}
                                THEN req[s].accept ELSE req[s].content_type
          /\ resp'[s].status # 200 =>
                \/ req[s].accept = "other"
                \/ req[s].accept = "any" /\ req[s].content_type = "protobuf"
      <3>1. CASE resp' = [resp EXCEPT ![s] = serialize(req[s], resp[s])]
        <4> DEFINE x == serialize(req[s], resp[s])
        <4>1. x \in Response /\ x.status \in {200, 406}
          BY <2>1, Responses
        <4>2. /\ x.body \in {"json", "protobuf"} =>
                    x.body = IF req[s].accept \in {"json", "protobuf"}
                             THEN req[s].accept ELSE req[s].content_type
              /\ x.status # 200 =>
                    \/ req[s].accept = "other"
                    \/ req[s].accept = "any" /\ req[s].content_type = "protobuf"
          BY <2>1, Formats
        <4> HIDE DEF x
        <4>3. resp' = [resp EXCEPT ![s] = x]
          BY <3>1 DEF x
        <4> QED
          BY <4>1, <4>2, <4>3 DEF TypeOK
      <3>2. CASE UNCHANGED resp
        BY <2>1, <3>2 DEF TypeOK
      <3> QED
        BY <1>3, <3>1, <3>2 DEF Serialize
    <2>3. /\ pc' = [pc EXCEPT ![s] = "respond"]
          /\ UNCHANGED <<req, k, counter, ran, events, taken>>
      BY <1>3 DEF Serialize, Goto
    <2>4. TypeOK' /\ StatConserved' /\ NotRunYet' /\ Prepared' /\ RefusedNotRun'
      BY <2>2, <2>3 DEF TypeOK, StatConserved, NotRunYet, Prepared, RefusedNotRun
    <2>5. FormatAsAsked'
      BY <2>2, <2>3 DEF TypeOK, FormatAsAsked
    <2>6. RunNotRefused'
      BY <2>2, <2>3 DEF TypeOK, RunNotRefused
    <2> QED
      BY <2>4, <2>5, <2>6
  <1>4. CASE Abort(s)
    BY <1>4 DEF Abort, Goto, TypeOK, StatConserved, NotRunYet, Prepared,
                RefusedNotRun, FormatAsAsked, RunNotRefused
  <1> QED
    BY <1>1, <1>2, <1>3, <1>4

\* The invariant is inductive.
LEMMA Inductive == IInv /\ [Next]_vars => IInv'
  <1> SUFFICES ASSUME IInv, [Next]_vars PROVE IInv'
    OBVIOUS
  <1>1. CASE UNCHANGED vars
    BY <1>1 DEF vars, IInv, TypeOK, StatConserved, NotRunYet, Prepared,
                RefusedNotRun, FormatAsAsked, RunNotRefused
  <1>2. ASSUME NEW s \in Sessions, Step(s)
        PROVE  IInv'
    BY <1>2, CountingStep, DispatchStep, HandlerStep DEF Step
  <1> QED
    BY <1>1, <1>2 DEF Next

\* The invariant holds initially.
LEMMA Initial == Init => IInv
  <1> SUFFICES ASSUME Init PROVE IInv
    OBVIOUS
  <1>1. (CHOOSE r \in Requests : TRUE) \in Requests
    BY RequestsAssumption
  <1>2. handle_sync \in Response
    BY DEF handle_sync, Response, Bodies
  <1>3. 1 \in 1 .. Len(Order)
    BY DEF Order
  <1>4. Zero \in [Counters -> Nat]
    BY DEF Zero
  <1>5. TypeOK
    BY <1>1, <1>2, <1>3, <1>4 DEF Init, TypeOK
  <1>6. StatConserved
    BY DEF Init, StatConserved, Zero
  <1> QED
    BY <1>5, <1>6 DEF Init, IInv, NotRunYet, Prepared, RefusedNotRun, FormatAsAsked,
                      RunNotRefused

------------------------------------------------------------------------------
(* The theorems.                                                           *)

\* The invariant holds in every state that is reached.
LEMMA Invariance == Spec => []IInv
  BY Initial, Inductive, PTL DEF Spec

\* However many connections count in http_hnd::stat and however their resets
\* overlap, what the resets have got and what is still in a counter is what
\* has been counted.
THEOREM StatisticsConserved == Spec => []StatConserved
  <1>1. IInv => StatConserved
    BY DEF IInv
  <1> QED
    BY <1>1, Invariance, PTL

\* A request that parse() of http_handler refuses with 400 or 415 has not run
\* its query.
THEOREM RefusedNeverRun == Spec => []RefusedNotRun
  <1>1. IInv => RefusedNotRun
    BY DEF IInv
  <1> QED
    BY <1>1, Invariance, PTL

\* serialize() of http_handler answers in the format that Accept names, or else in
\* that of the request.
THEOREM FormatHonoured == Spec => []FormatAsAsked
  <1>1. IInv => FormatAsAsked
    BY DEF IInv
  <1> QED
    BY <1>1, Invariance, PTL

\* The query of http_hnd::db has run only where its result is the answer, except
\* for a client that cannot be given any format.
THEOREM RunAnswered == Spec => []RunNotRefused
  <1>1. IInv => RunNotRefused
    BY DEF IInv
  <1> QED
    BY <1>1, Invariance, PTL

\* The variables keep their types: the counters do not become negative, and the
\* stat handler does not read past its four counters.
THEOREM HandlersTyped == Spec => []TypeOK
  <1>1. IInv => TypeOK
    BY DEF IInv
  <1> QED
    BY <1>1, Invariance, PTL
==============================================================================
