--------------------------- MODULE MCHttpConnection ---------------------------
(* Model-checking instance of HttpConnection.                                *)
EXTENDS HttpConnection

Cfg(idle, keep, n, h, b) ==
    [idle_timeout |-> idle, keepalive_timeout |-> keep,
     keepalive_requests |-> n, max_request_headers |-> h,
     max_request_body |-> b]

\* Each timeout with and without the other, with and without a request limit.
MCConfigs == {Cfg(TRUE, FALSE, 0, 1, 2), Cfg(FALSE, TRUE, 2, 0, 1),
              Cfg(TRUE, TRUE, 1, 0, 0)}

R(h, b, d, e, k) == [headers |-> h, body |-> b, declared |-> d, expect |-> e,
                     keep_alive |-> k]

\* No body, closing the connection; a body with Content-Length after
\* 100-continue; a chunked one; large headers; a body over the limits, declared
\* or not.
MCRequests == {R(1, 0, TRUE, FALSE, FALSE), R(1, 1, TRUE, TRUE, TRUE),
               R(1, 2, FALSE, FALSE, TRUE), R(2, 0, TRUE, FALSE, TRUE),
               R(1, 3, TRUE, TRUE, TRUE), R(1, 3, FALSE, TRUE, TRUE)}
==============================================================================
