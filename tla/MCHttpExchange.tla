--------------------------- MODULE MCHttpExchange ---------------------------
(* The messages with which TLC checks HttpExchange: with and without a     *)
(* body, bodies below and from the size that is sent by itself, headers    *)
(* that leave room for Content-Length (none or one), that do not (two),    *)
(* and after which the buffer has grown and has room again (three).        *)
EXTENDS HttpExchange

Request(method, headers, body) ==
  [method |-> method, headers |-> headers, body |-> body]
Reply(status, headers, body, manual) ==
  [status |-> status, headers |-> headers, body |-> body, manual |-> manual]

HttpRequests ==
  { Request("GET", 1, << >>), Request("HEAD", 0, << >>),
    Request("POST", 0, <<"x", "y">>), Request("POST", 2, <<"x">>) }
HttpReplies ==
  { Reply("200", 1, << >>, FALSE), Reply("204", 0, << >>, TRUE),
    Reply("200", 0, <<"x">>, FALSE), Reply("200", 0, <<"x", "y">>, FALSE),
    Reply("200", 3, <<"x", "y">>, TRUE) }
=============================================================================
