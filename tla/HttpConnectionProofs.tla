------------------------- MODULE HttpConnectionProofs -------------------------
(***************************************************************************)
(* Proofs about HttpConnection for every set of configurations and kinds   *)
(* of requests, every number of requests and every body.                   *)
(***************************************************************************)
EXTENDS HttpConnection, FiniteSetTheorems, TLAPS

------------------------------------------------------------------------------
(* The inductive invariant.                                                *)

\* The states in which the request that was read last is processed, and those
\* in which the coroutine will read from the stream again if all goes well
InRequest == {"write_100", "read_body", "handle", "write_response"}
Live == InRequest \cup {"read_header"}

\* What the client sends after message m, if a are its requests
Following(a, m) ==
    IF m.id > 0 /\ m.piece < a[m.id].body THEN PieceOf(m.id, m.piece + 1)
                                          ELSE HeaderOf(m.id + 1)

\* The last message that the coroutine has consumed, and the last one sent
Consumed == PieceOf(req, got)
Sent == IF asked = <<>> THEN HeaderOf(0)
        ELSE PieceOf(Len(asked), asked[Len(asked)].body - tosend)

\* The requests are numbered as they come, and their parts are counted.
Progress ==
    /\ req \in 0 .. Len(asked)
    /\ asked = <<>> => tosend = 0
    /\ asked # <<>> => tosend <= asked[Len(asked)].body
    /\ at \in Live =>
          /\ req_n = req
          /\ got <= body_limit
          /\ req = 0 => at = "read_header" /\ got = 0
          /\ req > 0 => /\ got <= asked[req].body
                        /\ at \in {"read_header", "handle", "write_response"} =>
                              got = asked[req].body
                        /\ at = "read_body" => got < asked[req].body
                        /\ at = "write_100" => got = 0
    /\ at = "write_413" => req > 0 /\ asked[req].body > body_limit

\* Nothing is missing in the stream and nothing is in it twice.
Stream ==
    at \in Live =>
        /\ net = <<>> => Consumed = Sent
        /\ net # <<>> => /\ net[1] = Following(asked, Consumed)
                         /\ net[Len(net)] = Sent
        /\ \A k \in 1 .. Len(net) - 1 : net[k + 1] = Following(asked, net[k])
        /\ \A k \in 1 .. Len(net) :
              net[k].id \in 1 .. Len(asked) /\ net[k].piece <= asked[net[k].id].body

\* The number of final responses, and the requests that they answer
Answered == {j \in 1 .. Len(out) : out[j].kind = "final"}
AnswersCounted ==
    /\ \A i \in 1 .. Len(out) : out[i].id \in 1 .. Len(asked)
    /\ at = "read_header" => Cardinality(Answered) = req
    /\ at \in InRequest => Cardinality(Answered) = req - 1

\* As long as the connection goes on, this is what has been announced.
KeptSoFar ==
    /\ at \notin Final => \A i \in 1 .. Len(out) : out[i].keep
    /\ at = "write_413" => ec = "body_limit"

\* The timer does not run while a final response is written.
TimerOff == at = "write_response" => timer = "never"

IInv == /\ TypeOK /\ Progress /\ Stream /\ AnswersCounted /\ KeptSoFar /\ TimerOff
        /\ SlowHandlerAnswered /\ AnsweredInOrder /\ CloseAnnounced /\ LargeRefused

------------------------------------------------------------------------------
(* The stream and the responses.                                           *)

\* Limits and requests have their types.
LEMMA Types ==
  ASSUME TypeOK
  PROVE  /\ body_limit \in Nat /\ header_limit \in Nat
         /\ cfg.keepalive_requests \in Nat
         /\ \A n \in 1 .. Len(asked) : /\ asked[n] \in Requests
                                       /\ asked[n].body \in Nat
                                       /\ asked[n].headers \in Nat
  <1>1. /\ cfg.max_request_body \in Nat /\ cfg.max_request_headers \in Nat
        /\ cfg.keepalive_requests \in Nat
    BY ConfigsAssumption DEF TypeOK, ConfigType
  <1>2. \A n \in 1 .. Len(asked) : asked[n] \in Requests
    BY DEF TypeOK
  <1>3. \A r \in Requests : r.body \in Nat /\ r.headers \in Nat
    BY RequestsAssumption DEF RequestType
  <1> QED
    BY <1>1, <1>2, <1>3, BoundsAssumption DEF body_limit, header_limit

\* A message at the head of the stream is consumed: the rest of the stream follows.
LEMMA Consume ==
  ASSUME TypeOK, Progress, Stream, at \in Live, net # <<>>, net' = Tail(net),
         UNCHANGED <<asked, tosend>>, Consumed' = Head(net)
  PROVE  Stream'
  <1>1. /\ Len(net) \in Nat /\ Len(net) > 0 /\ Head(net) = net[1]
        /\ net' \in Seq(Message) /\ Len(net') = Len(net) - 1
        /\ \A k \in 1 .. Len(net') : net'[k] = net[k + 1]
    BY DEF TypeOK
  <1>2. Sent' = Sent
    BY DEF Sent
  <1>3. /\ net[Len(net)] = Sent
        /\ \A k \in 1 .. Len(net) - 1 : net[k + 1] = Following(asked, net[k])
        /\ \A k \in 1 .. Len(net) :
              net[k].id \in 1 .. Len(asked) /\ net[k].piece <= asked[net[k].id].body
    BY DEF Stream
  <1>4. ASSUME net' = <<>> PROVE Consumed' = Sent'
    <2>1. Len(<<>>) = 0
      OBVIOUS
    <2>2. Len(net') = 0
      BY <1>4, <2>1, Zenon
    <2>3. Len(net) = 1
      BY <1>1, <2>2
    <2> QED
      BY <1>1, <1>2, <1>3, <2>3
  <1>5. ASSUME net' # <<>>
        PROVE  net'[1] = Following(asked', Consumed') /\ net'[Len(net')] = Sent'
    <2>1. Len(net') \in Nat /\ Len(net') > 0
      BY <1>1, <1>5
    <2>2. net'[1] = net[2] /\ net'[Len(net')] = net[Len(net)]
      BY <1>1, <2>1
    <2> QED
      BY <1>1, <1>2, <1>3, <2>1, <2>2
  <1>6. \A k \in 1 .. Len(net') - 1 : net'[k + 1] = Following(asked', net'[k])
    BY <1>1, <1>3
  <1>7. \A k \in 1 .. Len(net') : /\ net'[k].id \in 1 .. Len(asked')
                                 /\ net'[k].piece <= asked'[net'[k].id].body
    BY <1>1, <1>3
  <1> QED
    BY <1>4, <1>5, <1>6, <1>7 DEF Stream

\* A message is added to the stream: it follows what was sent before.
LEMMA Supply ==
  ASSUME TypeOK, Progress, Stream, NEW x \in Message, net' = Append(net, x),
         asked' \in Seq(Requests), Len(asked') >= Len(asked),
         \A n \in 1 .. Len(asked) : asked'[n] = asked[n],
         Following(asked', Sent) = x, Sent' = x,
         x.id \in 1 .. Len(asked'), x.piece <= asked'[x.id].body,
         UNCHANGED <<at, req, got>>
  PROVE  Stream'
  <1> SUFFICES ASSUME at \in Live PROVE Stream'
    BY DEF Stream
  <1>1. /\ Len(net) \in Nat /\ Len(net') = Len(net) + 1 /\ net' # <<>>
        /\ \A k \in 1 .. Len(net) : net'[k] = net[k]
        /\ net'[Len(net) + 1] = x
    <2>1. net \in Seq(Message)
      BY DEF TypeOK
    <2>2. net' # <<>>
      BY <2>1
    <2>3. Len(net) \in Nat /\ Len(net') = Len(net) + 1
      BY <2>1
    <2>4. net'[Len(net) + 1] = x
      BY <2>1
    <2>5. \A k \in 1 .. Len(net) : net'[k] = net[k]
      BY <2>1
    <2> QED
      BY <2>2, <2>3, <2>4, <2>5
  <1>2. Len(asked) \in Nat /\ Len(asked') \in Nat
    BY DEF TypeOK
  <1>3. Consumed' = Consumed /\ Consumed.id = req /\ req \in 0 .. Len(asked)
    BY DEF Consumed, PieceOf, Progress
  <1>4. ASSUME NEW m, m.id \in 0 .. Len(asked)
        PROVE  Following(asked', m) = Following(asked, m)
    BY <1>2, <1>4 DEF Following
  <1>5. \A k \in 1 .. Len(net) :
           net[k].id \in 1 .. Len(asked) /\ net[k].piece <= asked[net[k].id].body
    BY DEF Stream
  <1>6. \A k \in 1 .. Len(net') :
           net'[k].id \in 1 .. Len(asked') /\ net'[k].piece <= asked'[net'[k].id].body
    <2> SUFFICES ASSUME NEW k \in 1 .. Len(net')
                 PROVE  /\ net'[k].id \in 1 .. Len(asked')
                        /\ net'[k].piece <= asked'[net'[k].id].body
      OBVIOUS
    <2>1. CASE k \in 1 .. Len(net)
      BY <1>1, <1>2, <1>5, <2>1
    <2>2. CASE k = Len(net) + 1
      BY <1>1, <2>2
    <2> QED
      BY <1>1, <2>1, <2>2
  <1>7. net'[Len(net')] = Sent'
    BY <1>1
  <1>8. CASE net = <<>>
    <2>1. Len(net) = 0
      BY <1>8
    <2>2. net'[1] = Following(asked', Consumed')
      BY <1>1, <1>3, <1>8, <2>1 DEF Stream
    <2> QED
      BY <1>1, <1>6, <1>7, <2>1, <2>2 DEF Stream
  <1>9. CASE net # <<>>
    <2>1. Len(net) > 0
      BY <1>1, <1>9 DEF TypeOK
    <2>2. /\ net[1] = Following(asked, Consumed) /\ net[Len(net)] = Sent
          /\ \A k \in 1 .. Len(net) - 1 : net[k + 1] = Following(asked, net[k])
      BY <1>9 DEF Stream
    <2>3. net'[1] = Following(asked', Consumed')
      BY <1>1, <1>3, <1>4, <2>1, <2>2
    <2>4. ASSUME NEW k \in 1 .. Len(net)
          PROVE  net'[k + 1] = Following(asked', net'[k])
      <3>1. CASE k \in 1 .. Len(net) - 1
        <4>1. net[k].id \in 0 .. Len(asked)
          BY <1>2, <1>5
        <4> QED
          BY <1>1, <1>4, <2>2, <3>1, <4>1
      <3>2. CASE k = Len(net)
        BY <1>1, <2>1, <2>2, <3>2
      <3> QED
        BY <1>1, <3>1, <3>2
    <2>5. \A k \in 1 .. Len(net') - 1 : net'[k + 1] = Following(asked', net'[k])
      BY <1>1, <2>4
    <2> QED
      BY <1>1, <1>6, <1>7, <2>3, <2>5 DEF Stream
  <1> QED
    BY <1>8, <1>9

\* What the coroutine finds in the stream: headers where it expects headers, and
\* the next piece of the body where it expects that.
LEMMA NextMessage ==
  ASSUME TypeOK, Progress, Stream, at \in {"read_header", "read_body"}, net # <<>>
  PROVE  /\ Head(net) = net[1] /\ Head(net) \in Message
         /\ at = "read_header" =>
               Head(net) = HeaderOf(req + 1) /\ req + 1 \in 1 .. Len(asked)
         /\ at = "read_body" => Head(net) = PieceOf(req, got + 1)
  <1>1. /\ Head(net) = net[1] /\ net[1] \in Message
    BY DEF TypeOK
  <1>2. net[1] = Following(asked, Consumed) /\ net[1].id \in 1 .. Len(asked)
    BY DEF Stream, Live, InRequest, TypeOK
  <1>3. Consumed.id = req /\ Consumed.piece = got
    BY DEF Consumed, PieceOf
  <1>4. req \in Nat /\ got \in Nat
    BY DEF TypeOK
  <1>5. CASE at = "read_header"
    <2>1. ~(req > 0 /\ got < asked[req].body)
      BY <1>4, <1>5, Types DEF Progress, Live
    <2>2. net[1] = HeaderOf(req + 1)
      BY <1>2, <1>3, <2>1 DEF Following
    <2> QED
      BY <1>1, <1>2, <1>5, <2>2 DEF HeaderOf
  <1>6. CASE at = "read_body"
    <2>1. req > 0 /\ got < asked[req].body
      BY <1>4, <1>6 DEF Progress, Live, InRequest
    <2> QED
      BY <1>1, <1>2, <1>3, <1>6, <2>1 DEF Following
  <1> QED
    BY <1>1, <1>5, <1>6

\* The final responses are finitely many.
LEMMA AnsweredFinite ==
  ASSUME TypeOK
  PROVE  IsFiniteSet(Answered) /\ Cardinality(Answered) \in Nat
  <1>1. IsFiniteSet(1 .. Len(out))
    BY FS_Interval DEF TypeOK
  <1>2. IsFiniteSet(Answered)
    BY <1>1, FS_Subset DEF Answered
  <1> QED
    BY <1>2, FS_CardinalityType

\* A response is written.
LEMMA Written ==
  ASSUME TypeOK, NEW x \in Response, out' = Append(out, x)
  PROVE  /\ out' \in Seq(Response) /\ Len(out) \in Nat /\ Len(out') = Len(out) + 1
         /\ \A i \in 1 .. Len(out) : out'[i] = out[i]
         /\ out'[Len(out) + 1] = x
         /\ x.kind # "final" => Cardinality(Answered') = Cardinality(Answered)
         /\ x.kind = "final" => Cardinality(Answered') = Cardinality(Answered) + 1
         /\ AnsweredInOrder /\ (x.kind = "final" => x.id = Cardinality(Answered) + 1)
               => AnsweredInOrder'
  <1> DEFINE n == Len(out)
  <1>1. /\ out' \in Seq(Response) /\ n \in Nat /\ Len(out') = n + 1
        /\ \A i \in 1 .. n : out'[i] = out[i]
        /\ out'[n + 1] = x
    BY DEF TypeOK
  <1>2. ASSUME x.kind # "final" PROVE Answered' = Answered
    BY <1>1, <1>2 DEF Answered
  <1>3. ASSUME x.kind = "final"
        PROVE  /\ Answered' = Answered \cup {n + 1} /\ n + 1 \notin Answered
               /\ Cardinality(Answered') = Cardinality(Answered) + 1
    <2>1. Answered' = Answered \cup {n + 1} /\ n + 1 \notin Answered
      BY <1>1, <1>3 DEF Answered
    <2> QED
      BY <2>1, AnsweredFinite, FS_AddElement
  <1>4. ASSUME NEW i \in 1 .. n
        PROVE  {j \in 1 .. i : out'[j].kind = "final"} = {j \in 1 .. i : out[j].kind = "final"}
    BY <1>1
  <1>5. ASSUME AnsweredInOrder, x.kind = "final" => x.id = Cardinality(Answered) + 1
        PROVE  AnsweredInOrder'
    <2> SUFFICES ASSUME NEW i \in 1 .. n + 1, out'[i].kind = "final"
                 PROVE  out'[i].id = Cardinality({j \in 1 .. i : out'[j].kind = "final"})
      BY <1>1 DEF AnsweredInOrder
    <2>1. CASE i \in 1 .. n
      BY <1>1, <1>4, <1>5, <2>1 DEF AnsweredInOrder
    <2>2. CASE i = n + 1
      <3>1. {j \in 1 .. i : out'[j].kind = "final"} = Answered'
        BY <1>1, <2>2 DEF Answered
      <3> QED
        BY <1>1, <1>3, <1>5, <2>2, <3>1
    <2>3. i \in 1 .. n \/ i = n + 1
      BY <1>1
    <2> QED
      BY <2>1, <2>2, <2>3, Zenon
  <1> QED
    BY <1>1, <1>2, <1>3, <1>5

\* Where nothing is written the responses are as good as they were.
LEMMA NothingWritten ==
  ASSUME IInv, UNCHANGED <<cfg, out>>, asked' \in Seq(Requests),
         Len(asked') >= Len(asked), \A n \in 1 .. Len(asked) : asked'[n] = asked[n],
         at' = "ended" /\ ec' = "none" => at = "ended" /\ ec = "none"
  PROVE  /\ AnsweredInOrder' /\ CloseAnnounced' /\ LargeRefused' /\ Answered' = Answered
         /\ \A i \in 1 .. Len(out') : out'[i].id \in 1 .. Len(asked')
  <1>1. Len(asked) \in Nat /\ Len(asked') \in Nat
    BY DEF IInv, TypeOK
  <1>2. \A i \in 1 .. Len(out) : out[i].id \in 1 .. Len(asked)
    BY DEF IInv, AnswersCounted
  <1>3. AnsweredInOrder' /\ Answered' = Answered
    BY DEF IInv, AnsweredInOrder, Answered
  <1>4. CloseAnnounced'
    BY DEF IInv, CloseAnnounced
  <1>5. LargeRefused'
    <2>1. body_limit' = body_limit
      BY DEF body_limit
    <2> QED
      BY <1>1, <1>2, <2>1 DEF IInv, LargeRefused
  <1> QED
    BY <1>1, <1>2, <1>3, <1>4, <1>5

------------------------------------------------------------------------------
(* The client and the timer.                                               *)

\* The client sends the header of its next request.
LEMMA SendHeaderStep ==
  ASSUME IInv, NEW r \in Requests, SendHeader(r)
  PROVE  IInv'
  <1>1. /\ UNCHANGED <<cfg, at, timer, req, got, req_n, ec, stage, out, peer>>
        /\ tosend = 0 /\ Len(asked) < MaxRequests
        /\ asked' = Append(asked, r) /\ tosend' = r.body
        /\ net' = Append(net, HeaderOf(Len(asked) + 1))
    BY DEF SendHeader, server
  <1>2. TypeOK /\ Progress /\ Stream
    BY DEF IInv
  <1>3. r.body \in Nat
    BY RequestsAssumption DEF RequestType
  <1> DEFINE n == Len(asked)
             x == HeaderOf(n + 1)
  <1>4. n \in Nat /\ MaxRequests \in Nat
    BY BoundsAssumption, <1>2 DEF TypeOK
  <1>5. /\ asked' \in Seq(Requests) /\ Len(asked') = n + 1 /\ asked' # <<>>
        /\ \A k \in 1 .. n : asked'[k] = asked[k]
        /\ asked'[n + 1] = r
    BY <1>1, <1>2 DEF TypeOK
  <1>6. x \in Message /\ x.id = n + 1 /\ x.piece = 0
    BY <1>1, <1>4 DEF HeaderOf, Message
  <1>7. TypeOK'
    BY <1>1, <1>2, <1>3, <1>4, <1>5, <1>6 DEF TypeOK
  <1>8. body_limit' = body_limit
    BY <1>1 DEF body_limit
  <1>9. Progress'
    BY <1>1, <1>2, <1>3, <1>4, <1>5, <1>8 DEF Progress, TypeOK
  <1>10. Sent' = x
    BY <1>1, <1>3, <1>4, <1>5 DEF Sent, HeaderOf, PieceOf
  <1>11. Following(asked', Sent) = x
    <2>1. CASE asked = <<>>
      BY <1>4, <2>1 DEF Sent, Following, HeaderOf
    <2>2. CASE asked # <<>>
      <3>1. n > 0
        BY <1>2, <1>4, <2>2 DEF TypeOK
      <3>2. asked[n].body \in Nat
        BY <1>2, <1>4, <3>1, Types
      <3>3. Sent.id = n /\ Sent.piece = asked[n].body
        BY <1>1, <2>2, <3>2 DEF Sent, PieceOf
      <3> QED
        BY <1>4, <1>5, <3>1, <3>2, <3>3 DEF Following
    <2> QED
      BY <2>1, <2>2
  <1>12. Stream'
    BY <1>1, <1>2, <1>3, <1>4, <1>5, <1>6, <1>10, <1>11, Supply
  <1>13. /\ AnsweredInOrder' /\ CloseAnnounced' /\ LargeRefused' /\ Answered' = Answered
         /\ \A i \in 1 .. Len(out') : out'[i].id \in 1 .. Len(asked')
    BY <1>1, <1>4, <1>5, NothingWritten
  <1>14. AnswersCounted' /\ KeptSoFar' /\ TimerOff' /\ SlowHandlerAnswered'
    BY <1>1, <1>13
    DEF IInv, AnswersCounted, KeptSoFar, TimerOff, SlowHandlerAnswered
  <1> QED
    BY <1>7, <1>9, <1>12, <1>13, <1>14 DEF IInv

\* The client sends the next piece of a body.
LEMMA SendPieceStep ==
  ASSUME IInv, SendPiece
  PROVE  IInv'
  <1> DEFINE n == Len(asked)
             x == PieceOf(n, asked[n].body - tosend + 1)
  <1>1. /\ UNCHANGED <<cfg, at, timer, req, got, req_n, ec, stage, out, asked, peer>>
        /\ tosend > 0 /\ tosend' = tosend - 1
        /\ net' = Append(net, x)
    BY DEF SendPiece, server
  <1>2. TypeOK /\ Progress /\ Stream
    BY DEF IInv
  <1>3. n \in Nat /\ n > 0 /\ n <= MaxRequests /\ MaxRequests \in Nat /\ asked # <<>>
    BY <1>1, <1>2, BoundsAssumption DEF TypeOK, Progress
  <1>4. asked[n].body \in Nat /\ tosend \in Nat /\ tosend <= asked[n].body
    BY <1>2, <1>3, Types DEF TypeOK, Progress
  <1>5. x \in Message /\ x.id = n /\ x.piece = asked[n].body - tosend + 1
    <2>1. n \in 1 .. MaxRequests /\ asked[n].body - tosend + 1 \in Nat
      BY <1>3, <1>4
    <2> QED
      BY <2>1 DEF PieceOf, Message
  <1>6. TypeOK'
    BY <1>1, <1>2, <1>4, <1>5 DEF TypeOK
  <1>7. Progress'
    <2>1. body_limit' = body_limit
      BY <1>1 DEF body_limit
    <2> QED
      BY <1>1, <1>2, <1>3, <1>4, <2>1 DEF Progress
  <1>8. Sent' = x
    BY <1>1, <1>3, <1>4 DEF Sent, PieceOf
  <1>9. Following(asked', Sent) = x
    <2>1. Sent.id = n /\ Sent.piece = asked[n].body - tosend
      BY <1>3 DEF Sent, PieceOf
    <2> QED
      BY <1>1, <1>3, <1>4, <2>1 DEF Following
  <1>10. Stream'
    <2>1. x.id \in 1 .. Len(asked') /\ x.piece <= asked'[x.id].body
      <3>1. n \in 1 .. n /\ asked[n].body - tosend + 1 <= asked[n].body
        BY <1>1, <1>3, <1>4
      <3> QED
        BY <1>1, <1>5, <3>1
    <2>2. asked' \in Seq(Requests) /\ Len(asked') >= Len(asked)
      BY <1>1, <1>2, <1>3 DEF TypeOK
    <2> QED
      BY <1>1, <1>2, <1>5, <1>8, <1>9, <2>1, <2>2, Supply
  <1>11. /\ AnsweredInOrder' /\ CloseAnnounced' /\ LargeRefused' /\ Answered' = Answered
         /\ \A i \in 1 .. Len(out') : out'[i].id \in 1 .. Len(asked')
    BY <1>1, <1>2, <1>3, NothingWritten DEF TypeOK
  <1>12. AnswersCounted' /\ KeptSoFar' /\ TimerOff' /\ SlowHandlerAnswered'
    BY <1>1, <1>11
    DEF IInv, AnswersCounted, KeptSoFar, TimerOff, SlowHandlerAnswered
  <1> QED
    BY <1>6, <1>7, <1>10, <1>11, <1>12 DEF IInv

\* A step that reads and writes nothing and stays within the request.
LEMMA StreamKept ==
  ASSUME Stream, UNCHANGED <<net, asked, tosend, req, got>>, at' \in Live => at \in Live
  PROVE  Stream'
  <1>1. Consumed' = Consumed /\ Sent' = Sent
    BY DEF Consumed, Sent
  <1> QED
    BY <1>1 DEF Stream

\* The client disconnects.
LEMMA DisconnectStep ==
  ASSUME IInv, Disconnect
  PROVE  IInv'
  <1>1. /\ UNCHANGED <<cfg, at, timer, req, got, req_n, ec, stage, out>>
        /\ UNCHANGED <<net, asked, tosend>> /\ peer' = "closed"
    BY DEF Disconnect, server
  <1>2. TypeOK' /\ Progress' /\ Stream'
    BY <1>1, StreamKept DEF IInv, TypeOK, Progress, body_limit
  <1>3. AnsweredInOrder' /\ CloseAnnounced' /\ LargeRefused' /\ AnswersCounted'
    BY <1>1
    DEF IInv, AnsweredInOrder, CloseAnnounced, LargeRefused, AnswersCounted, Answered,
        body_limit
  <1>4. KeptSoFar' /\ TimerOff' /\ SlowHandlerAnswered'
    BY <1>1 DEF IInv, KeptSoFar, TimerOff, SlowHandlerAnswered
  <1> QED
    BY <1>2, <1>3, <1>4 DEF IInv

\* The timer of the stream expires.
LEMMA TimerExpiresStep ==
  ASSUME IInv, TimerExpires
  PROVE  IInv'
  <1>1. /\ UNCHANGED <<cfg, at, req, got, req_n, ec, stage, out>>
        /\ UNCHANGED <<net, asked, tosend, peer>>
        /\ timer = "armed" /\ timer' = "expired"
    BY DEF TimerExpires, client
  <1>2. TypeOK' /\ Progress' /\ Stream'
    BY <1>1, StreamKept DEF IInv, TypeOK, Progress, body_limit
  <1>3. AnsweredInOrder' /\ CloseAnnounced' /\ LargeRefused' /\ AnswersCounted'
    BY <1>1
    DEF IInv, AnsweredInOrder, CloseAnnounced, LargeRefused, AnswersCounted, Answered,
        body_limit
  <1>4. KeptSoFar' /\ TimerOff' /\ SlowHandlerAnswered'
    BY <1>1 DEF IInv, KeptSoFar, TimerOff, SlowHandlerAnswered
  <1> QED
    BY <1>2, <1>3, <1>4 DEF IInv

------------------------------------------------------------------------------
(* The coroutine reads.                                                    *)

\* The timeouts are expiries.
LEMMA Expiries ==
  /\ in_request_timeout \in {"never", "armed"}
  /\ before_request_timeout(FALSE) \in {"never", "armed"}
  /\ before_request_timeout(TRUE) \in {"never", "armed"}
  BY DEF in_request_timeout, before_request_timeout, expiry

\* Going on in a request: the body is complete where the handler is called.
LEMMA GoesOn ==
  ASSUME NEW r, NEW n, timer \in {"never", "armed", "expired"}, ReadBodyOrHandle(r, n)
  PROVE  /\ timer' \in {"never", "armed", "expired"}
         /\ \/ at' = "handle" /\ n = r.body
            \/ at' = "read_body" /\ n # r.body
  BY Expiries DEF ReadBodyOrHandle, is_done

\* handle_connection() gets a header that the parser accepts.
LEMMA ReadHeaderStep ==
  ASSUME IInv, ReadHeader
  PROVE  IInv'
  <1> DEFINE r == asked[Head(net).id]
  <1>1. /\ at = "read_header" /\ net # <<>> /\ net' = Tail(net)
        /\ UNCHANGED <<cfg, out, asked, tosend, peer>>
        /\ req' = Head(net).id /\ got' = 0 /\ req_n' = req_n + 1
        /\ ec' = "none" /\ stage' = "read_request_headers"
        /\ IF r.expect THEN at' = "write_100" /\ timer' = in_request_timeout
                       ELSE ReadBodyOrHandle(r, 0)
    BY DEF ReadHeader, Proceed, count_request
  <1>2. TypeOK /\ Progress /\ Stream
    BY DEF IInv
  <1>3. Head(net) = HeaderOf(req + 1) /\ req + 1 \in 1 .. Len(asked) /\ req \in Nat
    BY <1>1, <1>2, NextMessage DEF TypeOK
  <1>4. req' = req + 1 /\ r = asked[req + 1]
    BY <1>1, <1>3 DEF HeaderOf
  <1>5. req_n = req
    BY <1>1, <1>2 DEF Progress, Live
  <1>6. /\ timer' \in {"never", "armed", "expired"}
        /\ \/ at' = "write_100"
           \/ at' = "handle" /\ 0 = r.body
           \/ at' = "read_body" /\ 0 # r.body
    <2>1. timer \in {"never", "armed", "expired"}
      BY <1>2 DEF TypeOK
    <2>2. CASE r.expect
      BY <1>1, <2>2, Expiries
    <2>3. CASE ~r.expect
      <3>1. ReadBodyOrHandle(r, 0)
        BY <1>1, <2>3
      <3> QED
        BY <2>1, <3>1, GoesOn
    <2> QED
      BY <2>2, <2>3
  <1>7. TypeOK'
    <2>1. net' \in Seq(Message)
      BY <1>1, <1>2 DEF TypeOK
    <2>2. req' \in 0 .. MaxRequests /\ req_n' \in 0 .. Len(asked')
      BY <1>1, <1>2, <1>3, <1>4, <1>5, BoundsAssumption DEF TypeOK
    <2> QED
      BY <1>1, <1>2, <1>6, <2>1, <2>2
      DEF TypeOK, Reads, Writes, Final, Errors, Stages
  <1>8. Progress'
    <2>1. r.body \in Nat /\ body_limit \in Nat /\ body_limit' = body_limit
      BY <1>1, <1>2, <1>3, <1>4, Types DEF body_limit
    <2>2. /\ req' \in 0 .. Len(asked') /\ req' > 0 /\ req_n' = req'
          /\ asked' = <<>> => tosend' = 0
          /\ asked' # <<>> => tosend' <= asked'[Len(asked')].body
      BY <1>1, <1>2, <1>3, <1>4, <1>5 DEF Progress
    <2>3. /\ got' <= body_limit' /\ got' <= asked'[req'].body
          /\ at' \in {"read_header", "handle", "write_response"} =>
                got' = asked'[req'].body
          /\ at' = "read_body" => got' < asked'[req'].body
          /\ at' = "write_100" => got' = 0
          /\ at' # "write_413"
      BY <1>1, <1>4, <1>6, <2>1
    <2> QED
      BY <2>2, <2>3 DEF Progress
  <1>9. Stream'
    <2>1. Consumed' = Head(net)
      BY <1>1, <1>3, <1>4 DEF Consumed, HeaderOf, PieceOf
    <2> QED
      BY <1>1, <1>2, <2>1, Consume DEF Live
  <1>10. /\ AnsweredInOrder' /\ CloseAnnounced' /\ LargeRefused' /\ Answered' = Answered
         /\ \A i \in 1 .. Len(out') : out'[i].id \in 1 .. Len(asked')
    BY <1>1, <1>2, <1>6, NothingWritten DEF TypeOK
  <1>11. AnswersCounted'
    <2>1. Cardinality(Answered) = req /\ req' - 1 = req
      BY <1>1, <1>3, <1>4 DEF IInv, AnswersCounted
    <2>2. at' # "read_header"
      BY <1>6
    <2> QED
      BY <1>10, <2>1, <2>2 DEF AnswersCounted
  <1>12. KeptSoFar' /\ TimerOff' /\ SlowHandlerAnswered'
    BY <1>1, <1>6 DEF IInv, KeptSoFar, TimerOff, SlowHandlerAnswered, Final
  <1> QED
    BY <1>7, <1>8, <1>9, <1>10, <1>11, <1>12 DEF IInv

\* A connection is given up: nothing more is read.
LEMMA GivenUp ==
  ASSUME IInv, UNCHANGED <<cfg, out, asked, tosend>>, req' \in 0 .. Len(asked),
         \/ at' \in Final
         \/ at' = "write_413" /\ req' > 0 /\ asked[req'].body > body_limit
            /\ at \notin Final /\ ec' = "body_limit",
         at' = "ended" => ec' # "none",
         stage' = "write_response" => ec' # "timeout"
  PROVE  /\ Progress' /\ Stream' /\ AnswersCounted' /\ KeptSoFar' /\ TimerOff'
         /\ SlowHandlerAnswered' /\ AnsweredInOrder' /\ CloseAnnounced' /\ LargeRefused'
  <1>1. at' \notin Live /\ at' \notin InRequest
    BY DEF Live, InRequest, Final
  <1>2. body_limit' = body_limit
    BY DEF body_limit
  <1>3. Progress' /\ Stream' /\ TimerOff' /\ SlowHandlerAnswered'
    BY <1>1, <1>2
    DEF IInv, Progress, Stream, TimerOff, SlowHandlerAnswered, Live, InRequest, Final
  <1>4. /\ AnsweredInOrder' /\ CloseAnnounced' /\ LargeRefused' /\ Answered' = Answered
        /\ \A i \in 1 .. Len(out') : out'[i].id \in 1 .. Len(asked')
    BY NothingWritten DEF IInv, TypeOK
  <1>5. AnswersCounted' /\ KeptSoFar'
    BY <1>1, <1>4 DEF IInv, AnswersCounted, KeptSoFar, Live, Final
  <1> QED
    BY <1>3, <1>4, <1>5

\* The parser refuses a header.
LEMMA HeaderRefusedStep ==
  ASSUME IInv, HeaderRefused
  PROVE  IInv'
  <1> DEFINE e == HeaderError(Head(net))
  <1>1. /\ at = "read_header" /\ net # <<>> /\ net' = Tail(net)
        /\ e # "none" /\ req' = Head(net).id
        /\ ec' = e /\ stage' = "read_request_headers"
        /\ IF e = "body_limit" THEN at' = "write_413" /\ timer' = in_request_timeout
                               ELSE at' = "ended" /\ UNCHANGED timer
        /\ UNCHANGED <<cfg, got, req_n, out, asked, tosend, peer>>
    BY DEF HeaderRefused, abort_connection
  <1>2. TypeOK /\ Progress /\ Stream
    BY DEF IInv
  <1>3. Head(net) = HeaderOf(req + 1) /\ req + 1 \in 1 .. Len(asked) /\ req \in Nat
    BY <1>1, <1>2, NextMessage DEF TypeOK
  <1>4. req' = req + 1 /\ Head(net).id = req + 1 /\ Head(net).piece = 0
    BY <1>1, <1>3 DEF HeaderOf
  <1>5. e \in {"header_limit", "body_limit"}
    BY <1>1, <1>4 DEF HeaderError, IsHeader
  <1>6. e = "body_limit" => asked[req'].body > body_limit
    BY <1>4 DEF HeaderError, IsHeader
  <1>7. TypeOK'
    <2>1. net' \in Seq(Message)
      BY <1>1, <1>2 DEF TypeOK
    <2>2. req' \in 0 .. MaxRequests
      BY <1>1, <1>2, <1>3, <1>4, BoundsAssumption DEF TypeOK
    <2>3. timer' \in {"never", "armed", "expired"} /\ at' \in {"write_413", "ended"}
      BY <1>1, <1>2, Expiries DEF TypeOK
    <2> QED
      BY <1>1, <1>2, <1>5, <2>1, <2>2, <2>3
      DEF TypeOK, Reads, Writes, Final, Errors, Stages
  <1>8. /\ Progress' /\ Stream' /\ AnswersCounted' /\ KeptSoFar' /\ TimerOff'
        /\ SlowHandlerAnswered' /\ AnsweredInOrder' /\ CloseAnnounced' /\ LargeRefused'
    <2>1. req' \in 0 .. Len(asked) /\ req' > 0
      BY <1>3, <1>4
    <2>2. \/ at' \in Final
          \/ at' = "write_413" /\ asked[req'].body > body_limit /\ ec' = "body_limit"
      BY <1>1, <1>6 DEF Final
    <2> QED
      BY <1>1, <2>1, <2>2, GivenUp DEF Final
  <1> QED
    BY <1>7, <1>8 DEF IInv

\* handle_connection() gets a piece of the body.
LEMMA ReadBodyStep ==
  ASSUME IInv, ReadBody
  PROVE  IInv'
  <1>1. /\ at = "read_body" /\ net # <<>> /\ net' = Tail(net)
        /\ got + 1 <= body_limit /\ got' = got + 1
        /\ ec' = "none" /\ stage' = "read_request_body"
        /\ UNCHANGED <<cfg, req, req_n, out, asked, tosend, peer>>
        /\ ReadBodyOrHandle(asked[req], got + 1)
    BY DEF ReadBody, Proceed
  <1>2. TypeOK /\ Progress /\ Stream
    BY DEF IInv
  <1>3. Head(net) = PieceOf(req, got + 1)
    BY <1>1, <1>2, NextMessage
  <1>4. /\ req \in 1 .. Len(asked) /\ req_n = req
        /\ got \in Nat /\ got < asked[req].body
    BY <1>1, <1>2 DEF TypeOK, Progress, Live, InRequest
  <1>5. asked[req].body \in Nat /\ body_limit \in Nat /\ body_limit' = body_limit
    BY <1>1, <1>2, <1>4, Types DEF body_limit
  <1>6. /\ timer' \in {"never", "armed", "expired"}
        /\ \/ at' = "handle" /\ got + 1 = asked[req].body
           \/ at' = "read_body" /\ got + 1 # asked[req].body
    BY <1>1, <1>2, GoesOn DEF TypeOK
  <1>7. TypeOK'
    <2>1. net' \in Seq(Message) /\ got' \in Nat
      BY <1>1, <1>2 DEF TypeOK
    <2> QED
      BY <1>1, <1>2, <1>6, <2>1
      DEF TypeOK, Reads, Writes, Final, Errors, Stages
  <1>8. Progress'
    <2>1. /\ req' \in 0 .. Len(asked') /\ req' > 0 /\ req_n' = req'
          /\ asked' = <<>> => tosend' = 0
          /\ asked' # <<>> => tosend' <= asked'[Len(asked')].body
      BY <1>1, <1>2, <1>4 DEF Progress
    <2>2. /\ got' <= body_limit' /\ got' <= asked'[req'].body
          /\ at' \in {"read_header", "handle", "write_response"} =>
                got' = asked'[req'].body
          /\ at' = "read_body" => got' < asked'[req'].body
          /\ at' # "write_100" /\ at' # "write_413"
      BY <1>1, <1>4, <1>5, <1>6
    <2> QED
      BY <2>1, <2>2 DEF Progress
  <1>9. Stream'
    <2>1. Consumed' = Head(net)
      BY <1>1, <1>3 DEF Consumed, PieceOf
    <2> QED
      BY <1>1, <1>2, <2>1, Consume DEF Live, InRequest
  <1>10. /\ AnsweredInOrder' /\ CloseAnnounced' /\ LargeRefused' /\ Answered' = Answered
         /\ \A i \in 1 .. Len(out') : out'[i].id \in 1 .. Len(asked')
    BY <1>1, <1>2, <1>6, NothingWritten DEF TypeOK
  <1>11. AnswersCounted'
    <2>1. Cardinality(Answered) = req - 1
      BY <1>1 DEF IInv, AnswersCounted, InRequest
    <2>2. at' # "read_header"
      BY <1>6
    <2> QED
      BY <1>1, <1>10, <2>1, <2>2 DEF AnswersCounted
  <1>12. KeptSoFar' /\ TimerOff' /\ SlowHandlerAnswered'
    BY <1>1, <1>6 DEF IInv, KeptSoFar, TimerOff, SlowHandlerAnswered, Final
  <1> QED
    BY <1>7, <1>8, <1>9, <1>10, <1>11, <1>12 DEF IInv

\* The parser refuses a body while it is read.
LEMMA BodyRefusedStep ==
  ASSUME IInv, BodyRefused
  PROVE  IInv'
  <1>1. /\ at = "read_body" /\ net # <<>> /\ net' = Tail(net) /\ got + 1 > body_limit
        /\ at' = "write_413" /\ timer' = in_request_timeout
        /\ ec' = "body_limit" /\ stage' = "read_request_body"
        /\ UNCHANGED <<cfg, req, got, req_n, out, asked, tosend, peer>>
    BY DEF BodyRefused, abort_connection
  <1>2. TypeOK /\ Progress
    BY DEF IInv
  <1>3. req \in 1 .. Len(asked) /\ got \in Nat /\ got < asked[req].body
    BY <1>1, <1>2 DEF TypeOK, Progress, Live, InRequest
  <1>4. asked[req].body > body_limit
    <2>1. asked[req].body \in Nat /\ body_limit \in Nat
      BY <1>2, <1>3, Types
    <2> QED
      BY <1>1, <1>3, <2>1
  <1>5. TypeOK'
    <2>1. net' \in Seq(Message)
      BY <1>1, <1>2 DEF TypeOK
    <2>2. timer' \in {"never", "armed", "expired"}
      BY <1>1, Expiries
    <2> QED
      BY <1>1, <1>2, <2>1, <2>2 DEF TypeOK, Reads, Writes, Final, Errors, Stages
  <1>6. /\ Progress' /\ Stream' /\ AnswersCounted' /\ KeptSoFar' /\ TimerOff'
        /\ SlowHandlerAnswered' /\ AnsweredInOrder' /\ CloseAnnounced' /\ LargeRefused'
    BY <1>1, <1>3, <1>4, GivenUp DEF Final
  <1> QED
    BY <1>5, <1>6 DEF IInv

------------------------------------------------------------------------------
(* The coroutine calls the handler and writes.                             *)

\* The handler returns its response.
LEMMA HandledStep ==
  ASSUME IInv, Handled
  PROVE  IInv'
  <1>1. /\ at = "handle" /\ at' = "write_response" /\ timer' = "never"
        /\ UNCHANGED <<cfg, req, got, req_n, ec, stage, out>>
        /\ UNCHANGED <<net, asked, tosend, peer>>
    BY DEF Handled, client, response_timeout
  <1>2. TypeOK'
    BY <1>1 DEF IInv, TypeOK, Reads, Writes, Final
  <1>3. Progress'
    BY <1>1 DEF IInv, Progress, Live, InRequest, body_limit
  <1>4. Stream'
    BY <1>1, StreamKept DEF IInv, Live, InRequest
  <1>5. /\ AnsweredInOrder' /\ CloseAnnounced' /\ LargeRefused' /\ Answered' = Answered
        /\ \A i \in 1 .. Len(out') : out'[i].id \in 1 .. Len(asked')
    BY <1>1, NothingWritten DEF IInv, TypeOK
  <1>6. AnswersCounted'
    BY <1>1, <1>5 DEF IInv, AnswersCounted, InRequest
  <1>7. KeptSoFar' /\ TimerOff' /\ SlowHandlerAnswered'
    BY <1>1 DEF IInv, KeptSoFar, TimerOff, SlowHandlerAnswered, Final
  <1> QED
    BY <1>2, <1>3, <1>4, <1>5, <1>6, <1>7 DEF IInv

\* An exception of the handler ends the connection.
LEMMA HandlerThrowsStep ==
  ASSUME IInv, HandlerThrows
  PROVE  IInv'
  <1>1. /\ at = "handle" /\ at' = "thrown"
        /\ UNCHANGED <<cfg, timer, req, got, req_n, ec, stage, out>>
        /\ UNCHANGED <<net, asked, tosend, peer>>
    BY DEF HandlerThrows, client
  <1>2. TypeOK'
    BY <1>1 DEF IInv, TypeOK, Reads, Writes, Final
  <1>3. /\ Progress' /\ Stream' /\ AnswersCounted' /\ KeptSoFar' /\ TimerOff'
        /\ SlowHandlerAnswered' /\ AnsweredInOrder' /\ CloseAnnounced' /\ LargeRefused'
    <2>1. req' \in 0 .. Len(asked)
      BY <1>1 DEF IInv, Progress
    <2>2. stage' = "write_response" => ec' # "timeout"
      BY <1>1 DEF IInv, SlowHandlerAnswered
    <2> QED
      BY <1>1, <2>1, <2>2, GivenUp DEF Final
  <1> QED
    BY <1>2, <1>3 DEF IInv

\* An await fails: a write of a final response never because of the timer.
LEMMA FailStep ==
  ASSUME IInv, Fail
  PROVE  IInv'
  <1>1. /\ at \in Reads \cup Writes /\ at' = "ended" /\ stage' = FailedStage
        /\ UNCHANGED <<cfg, timer, req, got, req_n, out>>
        /\ UNCHANGED <<net, asked, tosend, peer>>
    BY DEF Fail, client
  <1>2. PICK e \in {"timeout", "io"} :
           /\ IF e = "timeout" THEN timer = "expired" ELSE peer = "closed"
           /\ ec' = IF at = "write_413" THEN ec ELSE e
    BY DEF Fail
  <1>3. ec' \in {"timeout", "io", "body_limit"}
    BY <1>2 DEF IInv, KeptSoFar
  <1>4. at = "write_413" => ec' = "body_limit"
    BY <1>2 DEF IInv, KeptSoFar
  <1>5. at = "write_response" => ec' # "timeout"
    BY <1>2 DEF IInv, TimerOff
  <1>6. stage' \in Stages /\ (stage' = "write_response" => ec' # "timeout")
    <2>1. stage \in Stages
      BY DEF IInv, TypeOK
    <2> QED
      BY <1>1, <1>4, <1>5, <2>1 DEF FailedStage, Reads, Writes, Stages
  <1>7. TypeOK'
    BY <1>1, <1>3, <1>6 DEF IInv, TypeOK, Final, Errors
  <1>8. /\ Progress' /\ Stream' /\ AnswersCounted' /\ KeptSoFar' /\ TimerOff'
        /\ SlowHandlerAnswered' /\ AnsweredInOrder' /\ CloseAnnounced' /\ LargeRefused'
    <2>1. req' \in 0 .. Len(asked)
      BY <1>1 DEF IInv, Progress
    <2>2. ec' # "none"
      BY <1>3
    <2> QED
      BY <1>1, <1>6, <2>1, <2>2, GivenUp DEF Final
  <1> QED
    BY <1>7, <1>8 DEF IInv

\* A response is written that says what the properties want of it.
LEMMA Responds ==
  ASSUME IInv, NEW x \in Response, out' = Append(out, x), UNCHANGED <<cfg, asked>>,
         at \notin Final, x.id \in 1 .. Len(asked),
         at' = "ended" /\ ec' = "none" => ~x.keep,
         x.kind = "final" =>
            /\ x.id = Cardinality(Answered) + 1
            /\ asked[x.id].body <= body_limit
            /\ cfg.keepalive_requests \in 1 .. x.id => ~x.keep,
         x.kind = "413" => asked[x.id].body > body_limit
  PROVE  /\ AnsweredInOrder' /\ CloseAnnounced' /\ LargeRefused'
         /\ \A i \in 1 .. Len(out') : out'[i].id \in 1 .. Len(asked')
         /\ \A i \in 1 .. Len(out') : out'[i].keep \/ i = Len(out')
  <1> DEFINE n == Len(out)
  <1>1. /\ n \in Nat /\ Len(out') = n + 1 /\ out'[n + 1] = x
        /\ \A i \in 1 .. n : out'[i] = out[i]
        /\ out' \in Seq(Response)
    BY Written DEF IInv
  <1>2. AnsweredInOrder'
    BY Written DEF IInv
  <1>3. \A i \in 1 .. n : out[i].keep
    BY DEF IInv, KeptSoFar
  <1>4. \A i \in 1 .. Len(out') : i \in 1 .. n \/ i = n + 1
    BY <1>1
  <1>5. out' # <<>>
    BY <1>1
  <1>6. CloseAnnounced'
    BY <1>1, <1>3, <1>4, <1>5 DEF IInv, CloseAnnounced
  <1>7. LargeRefused'
    <2>1. body_limit' = body_limit
      BY DEF body_limit
    <2> QED
      BY <1>1, <1>4, <2>1 DEF IInv, LargeRefused
  <1>8. \A i \in 1 .. Len(out') : out'[i].id \in 1 .. Len(asked')
    BY <1>1, <1>4 DEF IInv, AnswersCounted
  <1> QED
    BY <1>1, <1>2, <1>3, <1>4, <1>6, <1>7, <1>8

\* The response "100 Continue" has been written.
LEMMA Write100Step ==
  ASSUME IInv, Write100
  PROVE  IInv'
  <1> DEFINE x == [kind |-> "100", id |-> req, keep |-> TRUE]
  <1>1. /\ at = "write_100" /\ out' = Append(out, x)
        /\ ec' = "none" /\ stage' = "write_100_continue"
        /\ UNCHANGED <<cfg, req, got, req_n>>
        /\ UNCHANGED <<net, asked, tosend, peer>>
        /\ ReadBodyOrHandle(asked[req], 0)
    BY DEF Write100, Proceed, client
  <1>2. TypeOK /\ Progress /\ Stream
    BY DEF IInv
  <1>3. req \in 1 .. Len(asked) /\ req_n = req /\ got = 0
    BY <1>1, <1>2 DEF TypeOK, Progress, Live, InRequest
  <1>4. asked[req].body \in Nat /\ body_limit \in Nat /\ body_limit' = body_limit
    BY <1>1, <1>2, <1>3, Types DEF body_limit
  <1>5. /\ timer' \in {"never", "armed", "expired"}
        /\ \/ at' = "handle" /\ 0 = asked[req].body
           \/ at' = "read_body" /\ 0 # asked[req].body
    BY <1>1, <1>2, GoesOn DEF TypeOK
  <1>6. x \in Response
    BY <1>2 DEF TypeOK, Response
  <1>7. x.kind = "100" /\ x.id = req /\ x.keep
    OBVIOUS
  <1>8. TypeOK'
    <2>1. out' \in Seq(Response)
      BY <1>1, <1>2, <1>6, Written
    <2> QED
      BY <1>1, <1>2, <1>5, <2>1 DEF TypeOK, Reads, Writes, Final, Errors, Stages
  <1>9. Progress'
    <2>1. /\ req' \in 0 .. Len(asked') /\ req' > 0 /\ req_n' = req'
          /\ asked' = <<>> => tosend' = 0
          /\ asked' # <<>> => tosend' <= asked'[Len(asked')].body
      BY <1>1, <1>2, <1>3 DEF Progress
    <2>2. /\ got' <= body_limit' /\ got' <= asked'[req'].body
          /\ at' \in {"read_header", "handle", "write_response"} =>
                got' = asked'[req'].body
          /\ at' = "read_body" => got' < asked'[req'].body
          /\ at' # "write_100" /\ at' # "write_413"
      BY <1>1, <1>3, <1>4, <1>5
    <2> QED
      BY <2>1, <2>2 DEF Progress
  <1>10. Stream'
    BY <1>1, <1>2, StreamKept DEF Live, InRequest
  <1>11. /\ AnsweredInOrder' /\ CloseAnnounced' /\ LargeRefused'
         /\ \A i \in 1 .. Len(out') : out'[i].id \in 1 .. Len(asked')
         /\ \A i \in 1 .. Len(out') : out'[i].keep \/ i = Len(out')
    <2>1. at \notin Final /\ at' # "ended"
      BY <1>1, <1>5 DEF Final
    <2> QED
      BY <1>1, <1>3, <1>6, <1>7, <2>1, Responds
  <1>12. AnswersCounted'
    <2>1. Cardinality(Answered') = req' - 1
      BY <1>1, <1>2, <1>6, <1>7, Written DEF IInv, AnswersCounted, InRequest
    <2>2. at' # "read_header"
      BY <1>5
    <2> QED
      BY <1>11, <2>1, <2>2 DEF AnswersCounted
  <1>13. KeptSoFar' /\ TimerOff' /\ SlowHandlerAnswered'
    <2>1. Len(out') = Len(out) + 1 /\ out'[Len(out) + 1] = x
      BY <1>1, <1>2, <1>6, Written
    <2>2. \A i \in 1 .. Len(out') : out'[i].keep
      BY <1>7, <1>11, <2>1
    <2> QED
      BY <1>1, <1>5, <2>2 DEF KeptSoFar, TimerOff, SlowHandlerAnswered, Final
  <1> QED
    BY <1>8, <1>9, <1>10, <1>11, <1>12, <1>13 DEF IInv

\* Where the response announces keep-alive, the next request is awaited.
LEMMA WriteResponseStep ==
  ASSUME IInv, WriteResponse
  PROVE  IInv'
  <1> DEFINE x == [kind |-> "final", id |-> req, keep |-> keepalive]
  <1>1. /\ at = "write_response" /\ out' = Append(out, x)
        /\ ec' = "none" /\ stage' = "none"
        /\ UNCHANGED <<cfg, req, got, req_n>>
        /\ UNCHANGED <<net, asked, tosend, peer>>
        /\ IF keepalive
           THEN at' = "read_header" /\ timer' = before_request_timeout(FALSE)
           ELSE at' = "ended" /\ UNCHANGED timer
    BY DEF WriteResponse, Proceed, client, LoopAgain
  <1>2. TypeOK /\ Progress /\ Stream
    BY DEF IInv
  <1>3. req \in 1 .. Len(asked) /\ req_n = req /\ got = asked[req].body /\ got <= body_limit
    BY <1>1, <1>2 DEF TypeOK, Progress, Live, InRequest
  <1>4. /\ asked[req].body \in Nat /\ body_limit \in Nat /\ body_limit' = body_limit
        /\ cfg.keepalive_requests \in Nat
    BY <1>1, <1>2, <1>3, Types DEF body_limit
  <1>5. keepalive \in BOOLEAN
    BY DEF keepalive
  <1>6. x \in Response /\ x.kind = "final" /\ x.id = req /\ x.keep = keepalive
    BY <1>2, <1>5 DEF TypeOK, Response
  <1>7. keepalive => ~(cfg.keepalive_requests \in 1 .. req)
    BY <1>3, <1>4 DEF keepalive
  <1>8. /\ timer' \in {"never", "armed", "expired"}
        /\ \/ at' = "read_header" /\ keepalive
           \/ at' = "ended" /\ ~keepalive
    <2>1. CASE keepalive
      BY <1>1, <2>1, Expiries
    <2>2. CASE ~keepalive
      BY <1>1, <1>2, <2>2 DEF TypeOK
    <2> QED
      BY <2>1, <2>2
  <1>9. TypeOK'
    <2>1. out' \in Seq(Response)
      BY <1>1, <1>2, <1>6, Written
    <2> QED
      BY <1>1, <1>2, <1>8, <2>1 DEF TypeOK, Reads, Writes, Final, Errors, Stages
  <1>10. Progress'
    <2>1. /\ req' \in 0 .. Len(asked') /\ req' > 0 /\ req_n' = req'
          /\ asked' = <<>> => tosend' = 0
          /\ asked' # <<>> => tosend' <= asked'[Len(asked')].body
      BY <1>1, <1>2, <1>3 DEF Progress
    <2>2. /\ got' <= body_limit' /\ got' <= asked'[req'].body
          /\ got' = asked'[req'].body
          /\ at' # "read_body" /\ at' # "write_100" /\ at' # "write_413"
      BY <1>1, <1>3, <1>4, <1>8
    <2> QED
      BY <2>1, <2>2 DEF Progress
  <1>11. Stream'
    BY <1>1, <1>2, StreamKept DEF Live, InRequest
  <1>12. Cardinality(Answered) = req - 1
    BY <1>1 DEF IInv, AnswersCounted, InRequest
  <1>13. /\ AnsweredInOrder' /\ CloseAnnounced' /\ LargeRefused'
         /\ \A i \in 1 .. Len(out') : out'[i].id \in 1 .. Len(asked')
         /\ \A i \in 1 .. Len(out') : out'[i].keep \/ i = Len(out')
    <2>1. at \notin Final /\ (at' = "ended" => ~x.keep)
      BY <1>1, <1>6, <1>8 DEF Final
    <2>2. x.id = Cardinality(Answered) + 1 /\ asked[x.id].body <= body_limit
      BY <1>3, <1>4, <1>6, <1>12
    <2>3. cfg.keepalive_requests \in 1 .. x.id => ~x.keep
      BY <1>6, <1>7
    <2> QED
      BY <1>1, <1>3, <1>6, <2>1, <2>2, <2>3, Responds
  <1>14. AnswersCounted'
    <2>1. Cardinality(Answered') = req'
      <3>1. Cardinality(Answered') = Cardinality(Answered) + 1
        BY <1>1, <1>2, <1>6, Written
      <3> QED
        BY <1>1, <1>3, <1>12, <3>1
    <2>2. at' \notin InRequest
      BY <1>8 DEF InRequest
    <2> QED
      BY <1>13, <2>1, <2>2 DEF AnswersCounted
  <1>15. KeptSoFar' /\ TimerOff' /\ SlowHandlerAnswered'
    <2>1. Len(out') = Len(out) + 1 /\ out'[Len(out) + 1] = x
      BY <1>1, <1>2, <1>6, Written
    <2>2. at' \notin Final => \A i \in 1 .. Len(out') : out'[i].keep
      BY <1>6, <1>8, <1>13, <2>1 DEF Final
    <2> QED
      BY <1>1, <1>8, <2>2 DEF KeptSoFar, TimerOff, SlowHandlerAnswered
  <1> QED
    BY <1>9, <1>10, <1>11, <1>13, <1>14, <1>15 DEF IInv

\* The response 413 has been written.
LEMMA Write413Step ==
  ASSUME IInv, Write413
  PROVE  IInv'
  <1> DEFINE x == [kind |-> "413", id |-> req, keep |-> FALSE]
  <1>1. /\ at = "write_413" /\ out' = Append(out, x) /\ at' = "ended"
        /\ UNCHANGED <<cfg, timer, req, got, req_n, ec, stage>>
        /\ UNCHANGED <<net, asked, tosend, peer>>
    BY DEF Write413, client
  <1>2. TypeOK /\ Progress /\ ec = "body_limit"
    BY <1>1 DEF IInv, KeptSoFar
  <1>3. req \in 1 .. Len(asked) /\ asked[req].body > body_limit
    BY <1>1, <1>2 DEF TypeOK, Progress
  <1>4. x \in Response /\ x.kind = "413" /\ x.id = req /\ ~x.keep
    BY <1>2 DEF TypeOK, Response
  <1>5. TypeOK'
    <2>1. out' \in Seq(Response)
      BY <1>1, <1>2, <1>4, Written
    <2> QED
      BY <1>1, <1>2, <2>1 DEF TypeOK, Final
  <1>6. Progress' /\ Stream'
    BY <1>1, <1>2 DEF Progress, Stream, Live, InRequest
  <1>7. /\ AnsweredInOrder' /\ CloseAnnounced' /\ LargeRefused'
        /\ \A i \in 1 .. Len(out') : out'[i].id \in 1 .. Len(asked')
    <2>1. at \notin Final
      BY <1>1 DEF Final
    <2> QED
      BY <1>1, <1>3, <1>4, <2>1, Responds
  <1>8. AnswersCounted'
    BY <1>1, <1>7 DEF AnswersCounted, InRequest
  <1>9. KeptSoFar' /\ TimerOff' /\ SlowHandlerAnswered'
    BY <1>1 DEF IInv, KeptSoFar, TimerOff, SlowHandlerAnswered, Final
  <1> QED
    BY <1>5, <1>6, <1>7, <1>8, <1>9 DEF IInv

------------------------------------------------------------------------------
(* Every step together.                                                    *)

\* The invariant holds for a new connection.
LEMMA Initial == Init => IInv
  <1> SUFFICES ASSUME Init PROVE IInv
    OBVIOUS
  <1>1. /\ cfg \in Configs /\ at = "read_header" /\ timer = before_request_timeout(TRUE)
        /\ req = 0 /\ got = 0 /\ req_n = 0 /\ ec = "none" /\ stage = "none"
        /\ net = <<>> /\ asked = <<>> /\ tosend = 0 /\ peer = "open" /\ out = <<>>
    BY DEF Init
  <1>2. TypeOK
    <2>1. req \in 0 .. MaxRequests /\ req_n \in 0 .. Len(asked) /\ Len(asked) <= MaxRequests
      BY <1>1, BoundsAssumption
    <2>2. timer \in {"never", "armed", "expired"}
      BY <1>1, Expiries
    <2>3. net \in Seq(Message) /\ asked \in Seq(Requests) /\ out \in Seq(Response)
      BY <1>1
    <2>4. /\ at \in Reads \cup Writes \cup Final \cup {"handle"}
          /\ ec \in Errors /\ stage \in Stages
      BY <1>1 DEF Reads, Errors, Stages
    <2> QED
      BY <1>1, <2>1, <2>2, <2>3, <2>4 DEF TypeOK
  <1>3. Progress
    BY <1>1, <1>2, Types DEF Progress
  <1>4. Stream
    BY <1>1 DEF Stream, Consumed, Sent, HeaderOf, PieceOf
  <1>5. AnswersCounted
    <2>1. Answered = {}
      BY <1>1 DEF Answered
    <2> QED
      BY <1>1, <2>1, FS_EmptySet DEF AnswersCounted, InRequest
  <1>6. KeptSoFar /\ TimerOff /\ SlowHandlerAnswered
    BY <1>1 DEF KeptSoFar, TimerOff, SlowHandlerAnswered
  <1>7. AnsweredInOrder /\ CloseAnnounced /\ LargeRefused
    BY <1>1 DEF AnsweredInOrder, CloseAnnounced, LargeRefused
  <1> QED
    BY <1>2, <1>3, <1>4, <1>5, <1>6, <1>7 DEF IInv

\* It depends on the variables only.
LEMMA Stuttering == IInv /\ UNCHANGED vars => IInv'
  <1> SUFFICES ASSUME IInv, UNCHANGED vars PROVE IInv'
    OBVIOUS
  <1>1. /\ UNCHANGED <<cfg, at, timer, req, got, req_n, ec, stage, out>>
        /\ UNCHANGED <<net, asked, tosend, peer>>
    BY DEF vars, server, client
  <1>2. TypeOK' /\ Progress' /\ Stream'
    BY <1>1, StreamKept DEF IInv, TypeOK, Progress, body_limit
  <1>3. AnsweredInOrder' /\ CloseAnnounced' /\ LargeRefused' /\ AnswersCounted'
    BY <1>1
    DEF IInv, AnsweredInOrder, CloseAnnounced, LargeRefused, AnswersCounted, Answered,
        body_limit
  <1>4. KeptSoFar' /\ TimerOff' /\ SlowHandlerAnswered'
    BY <1>1 DEF IInv, KeptSoFar, TimerOff, SlowHandlerAnswered
  <1> QED
    BY <1>2, <1>3, <1>4 DEF IInv

\* Every step keeps the invariant.
LEMMA Inductive == IInv /\ [Next]_vars => IInv'
  <1> SUFFICES ASSUME IInv, Next PROVE IInv'
    BY Stuttering
  <1>1. CASE ServerStep
    BY <1>1, ReadHeaderStep, HeaderRefusedStep, Write100Step, ReadBodyStep,
       BodyRefusedStep, HandledStep, HandlerThrowsStep, WriteResponseStep,
       Write413Step, FailStep
    DEF ServerStep
  <1>2. CASE ClientStep
    BY <1>2, SendHeaderStep, SendPieceStep, DisconnectStep DEF ClientStep
  <1>3. CASE TimerExpires
    BY <1>3, TimerExpiresStep
  <1> QED
    BY <1>1, <1>2, <1>3 DEF Next

\* The invariant holds in every state that is reached.
LEMMA Invariance == Spec => []IInv
  BY Initial, Inductive, PTL DEF Spec

------------------------------------------------------------------------------
(* The results.                                                            *)

\* The state of handle_connection() and of its stream keeps its type: in
\* particular every message in the stream is numbered within the bounds.
THEOREM ConnectionTyped == Spec => []TypeOK
  <1>1. IInv => TypeOK
    BY DEF IInv
  <1> QED
    BY <1>1, Invariance, PTL

\* expires_never() before a response is written keeps the timer that guarded
\* the reading of the request from cutting off the answer of a slow handler.
THEOREM SlowHandler == Spec => []SlowHandlerAnswered
  <1>1. IInv => SlowHandlerAnswered
    BY DEF IInv
  <1> QED
    BY <1>1, Invariance, PTL

\* Where async_read_header() starts, the next request starts in the stream: the
\* coroutine has consumed each body to its last piece.
THEOREM Framing == Spec => []FramingKept
  <1>1. IInv => FramingKept
    <2> SUFFICES ASSUME IInv, at = "read_header", net # <<>> PROVE IsHeader(net[1])
      BY DEF FramingKept
    <2>1. net[1] = HeaderOf(req + 1)
      BY NextMessage DEF IInv
    <2> QED
      BY <2>1 DEF HeaderOf, IsHeader
  <1> QED
    BY <1>1, Invariance, PTL

\* However requests are pipelined, the responses of handle_connection() come in
\* their order, one for each.
THEOREM InOrder == Spec => []AnsweredInOrder
  <1>1. IInv => AnsweredInOrder
    BY DEF IInv
  <1> QED
    BY <1>1, Invariance, PTL

\* The keep-alive flag of a response and what the loop does after it agree, and
\* keepalive_requests is neither exceeded nor cut short without notice.
THEOREM AnnouncesClose == Spec => []CloseAnnounced
  <1>1. IInv => CloseAnnounced
    BY DEF IInv
  <1> QED
    BY <1>1, Invariance, PTL

\* 413 is written for the bodies over the limit of the parser, whether they are
\* declared or found out while they are read, and for no others.
THEOREM RefusesLarge == Spec => []LargeRefused
  <1>1. IInv => LargeRefused
    BY DEF IInv
  <1> QED
    BY <1>1, Invariance, PTL
==============================================================================
