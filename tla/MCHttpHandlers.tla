---------------------------- MODULE MCHttpHandlers ----------------------------
(* Model-checking instance of HttpHandlers.                                  *)
EXTENDS HttpHandlers

R(target, type, accept, parses, reset, head) ==
    [target |-> target, content_type |-> type, accept |-> accept,
     parses |-> parses, reset |-> reset, head |-> head, body |-> 1]

\* Statistics read and reset; queries with every way of naming the format;
\* requests that cannot be parsed; the handlers without a format; HEAD.
MCRequests ==
    {R("/stat", "json", "absent", TRUE, TRUE, FALSE),
     R("/stat", "protobuf", "absent", TRUE, FALSE, FALSE),
     R("/db", "json", "any", TRUE, FALSE, FALSE),
     R("/db", "json", "protobuf", TRUE, FALSE, FALSE),
     R("/db", "protobuf", "any", TRUE, FALSE, FALSE),
     R("/db", "protobuf", "other", TRUE, FALSE, FALSE),
     R("/db", "json", "json", FALSE, FALSE, FALSE),
     R("/db", "absent", "json", TRUE, FALSE, FALSE),
     R("/echo", "other", "absent", TRUE, FALSE, TRUE),
     R("unknown", "absent", "any", TRUE, FALSE, FALSE)}
==============================================================================
