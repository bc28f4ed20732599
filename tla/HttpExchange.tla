---------------------------- MODULE HttpExchange ----------------------------
(***************************************************************************)
(* HTTP over one connection: a client encodes requests (HttpRequest of     *)
(* http_common.h) and may send several before an answer comes; the server  *)
(* decodes them (http_request_handler.h), and its do_message() fills in a  *)
(* response, which send() encodes; the client decodes those                *)
(* (http_response_handler.h).  The bytes arrive in order, in pieces of any *)
(* size.                                                                   *)
(*                                                                         *)
(* Room, FieldRoom and Big are the 1024, 32 and 1024 bytes of the code, in *)
(* tokens.                                                                 *)
(***************************************************************************)
EXTENDS HttpDecoder, ByteBuffer

CONSTANTS Room,          \* what the encoders reserve first
          FieldRoom,     \* what they reserve for Content-Length
          Big,           \* the body size from which it is sent by itself
          Requests, Replies,   \* the messages considered
          Cuts,          \* where a piece may end: bytes before the end
          MaxRequests    \* bound on the requests

ASSUME HttpAssumption ==
  /\ {Room, FieldRoom, Big, MaxRequests} \subseteq Nat /\ Cuts \subseteq Nat
  /\ \A m \in Requests : /\ m.method \in Methods /\ m.headers \in 0 .. 4
                         /\ m.method # "POST" => m.body = << >>
  /\ \A r \in Replies : /\ r.headers \in 0 .. 4 /\ r.manual \in BOOLEAN
                        /\ r.status = "204" => r.body = << >>

VARIABLES sent,      \* the requests sent (history)
          replies,   \* what do_message() answers to each
          to_server, to_client,      \* bytes under way
          server, client,            \* the decoders
          response_body,   \* body_ of the server's response_
          send_buffer,     \* the event loop's send buffer
          excuse           \* what has gone wrong (history)

vars == <<sent, replies, to_server, to_client, server, client,
          response_body, send_buffer, excuse>>

Init == /\ sent = << >> /\ replies = << >>
        /\ to_server = << >> /\ to_client = << >>
        /\ server = NewDecoder("server") /\ client = NewDecoder("client")
        /\ response_body = NewBuffer(Room) /\ send_buffer = NewBuffer(Room)
        /\ excuse = {}

-----------------------------------------------------------------------------
(* Encoding, into a buffer.                                                *)
Names == <<"a", "b", "c", "d">>
HeaderLine(i) == <<Names[i], ":", " ", "v", "\r", "\n">>
LengthLine(n) == <<"Content-Length", ":", " ", Numeral(n), "\r", "\n">>
CRLF == <<"\r", "\n">>

(* snprintf() behind the data, and data_end().                             *)
Printed(b, text) ==
  SetEnd([b EXCEPT !.cells = Overwrite(@, b.begin + DataSize(b), text)],
         DataSize(b) + Len(text))

Headers(b, n) == FoldLeft(LAMBDA buf, i : Write(buf, HeaderLine(i)), b,
                          [i \in 1 .. n |-> i])

StartOfMessage(b, line, headers) ==
  Headers(Printed(Reserve(ResetBuffer(b), Room), line), headers)

(* Content-Length: reserve() empties the buffer if it has to grow.         *)
LengthField(b, n) ==
  Printed(Reserve(b, DataSize(b) + FieldRoom), LengthLine(n) \o CRLF)
Overruns(b) == DataSize(b) + FieldRoom > BufferSize(b)

EncodedRequest(m) ==
  LET start == StartOfMessage(NewBuffer(Room),
                              <<m.method, " ", "/", " ", "HTTP/1.1", "\r", "\n">>,
                              m.headers)
      size == Len(m.body)
  IN  [ bytes |-> IF m.method # "HEAD" /\ size > 0
                  THEN DataOf(Write(LengthField(start, size), m.body))
                  ELSE DataOf(Write(Write(start, CRLF), m.body)),
        overrun |-> m.method # "HEAD" /\ size > 0 /\ Overruns(start) ]

(* HttpRequestHandler::send(): the answer to a method, with what is in the *)
(* body of the response, into the send buffer.                             *)
WithoutLength(status) == status = "204"

Encoded(buffer, method, reply, body) ==
  LET start == StartOfMessage(buffer,
                              <<"HTTP/1.1", " ", reply.status, " ", "reason", "\r", "\n">>,
                              reply.headers)
      size == DataSize(body)
      head == IF size > 0 THEN LengthField(start, size)
              ELSE IF method = "HEAD" \/ WithoutLength(reply.status)
              THEN Write(start, CRLF)
              ELSE Write(start, LengthLine(0) \o CRLF)
      whole == IF method # "HEAD" /\ size \in 1 .. Big - 1
               THEN Write(head, DataOf(body)) ELSE head
  IN  [ buffer |-> whole,
        apart |-> method # "HEAD" /\ size >= Big,   \* the body follows
        overrun |-> size > 0 /\ Overruns(start) ]

(* do_message() fills in the response and send() queues it; a big body is  *)
(* moved into the queue.  After an automatic reply the response is reset,  *)
(* after the handler's own one it is initialised, with a new buffer.       *)
Answer(state, method, reply) ==
  LET body == Write(state.body, reply.body)
      E == Encoded(state.buffer, method, reply, body)
      left == ResetBuffer(IF E.apart THEN Given(body) ELSE body)
  IN  [ buffer |-> E.buffer,
        bytes |-> state.bytes \o DataOf(E.buffer)
                    \o (IF E.apart THEN DataOf(body) ELSE << >>),
        body |-> IF reply.manual THEN Reserve(left, Room) ELSE left,
        excuse |-> state.excuse
                     \cup (IF E.overrun THEN {"overrun"} ELSE {})
                     \cup (IF ~state.body.owner THEN {"moved"} ELSE {})
                     \cup (IF method = "HEAD" /\ ~IsEmptyBuffer(body)
                           THEN {"head"} ELSE {}) ]

-----------------------------------------------------------------------------
SendRequest(m, reply) ==
  /\ Len(sent) < MaxRequests
  /\ sent' = Append(sent, m) /\ replies' = Append(replies, reply)
  /\ to_server' = to_server \o EncodedRequest(m).bytes
  /\ excuse' = IF EncodedRequest(m).overrun THEN excuse \cup {"overrun"} ELSE excuse
  /\ UNCHANGED <<to_client, server, client, response_body, send_buffer>>

Pieces(bytes) == { Len(bytes) - c : c \in Cuts \cap 0 .. Len(bytes) } \ {0}

(* handle_read() of the server: what is decoded is answered.               *)
ServerReceive(n) ==
  LET D == Decode(server, SubSeq(to_server, 1, n))
      new == [i \in 1 .. Len(D.messages) - Len(server.messages)
                |-> Len(server.messages) + i]
      answered == FoldLeft(LAMBDA state, k :
                             Answer(state, D.messages[k].word[1], replies[k]),
                           [buffer |-> send_buffer, body |-> response_body,
                            bytes |-> << >>, excuse |-> excuse], new)
  IN  /\ ~server.closed
      /\ to_server' = SubSeq(to_server, n + 1, Len(to_server))
      /\ server' = D
      /\ to_client' = to_client \o answered.bytes
      /\ send_buffer' = ResetBuffer(answered.buffer)
      /\ response_body' = answered.body
      /\ excuse' = answered.excuse
      /\ UNCHANGED <<sent, replies, client>>

ClientReceive(n) ==
  /\ ~client.closed
  /\ to_client' = SubSeq(to_client, n + 1, Len(to_client))
  /\ client' = Decode(client, SubSeq(to_client, 1, n))
  /\ UNCHANGED <<sent, replies, to_server, server, response_body, send_buffer, excuse>>

Next == \/ \E m \in Requests, reply \in Replies : SendRequest(m, reply)
        \/ \E n \in Pieces(to_server) : ServerReceive(n)
        \/ \E n \in Pieces(to_client) : ClientReceive(n)

Spec == Init /\ [][Next]_vars

-----------------------------------------------------------------------------
(* What the decoders should make of the messages.                          *)
HeaderSet(n) ==
  { << <<Names[i]>>, <<" ", "v">> >> : i \in 1 .. n }
Received(word, uri, n, length, size, body) ==
  [ word |-> <<word>>, uri |-> uri, body |-> body,
    headers |-> IF length
                THEN HeaderSet(n)
                       \cup { << <<"Content-Length">>, <<" ", Numeral(size)>> >> }
                ELSE HeaderSet(n) ]

ReceivedRequest(m) == Received(m.method, <<"/">>, m.headers, m.body # << >>,
                               Len(m.body), m.body)
ReceivedReply(m, r) ==
  Received(r.status, << >>, r.headers,
           r.body # << >> \/ (m.method # "HEAD" /\ ~WithoutLength(r.status)),
           Len(r.body), r.body)

TypeOK == /\ excuse \subseteq {"overrun", "moved", "head"}
          /\ Len(sent) <= MaxRequests /\ Len(replies) = Len(sent)
          /\ response_body.end <= BufferSize(response_body)

(* However the bytes are cut and however many requests are under way, the  *)
(* server decodes exactly the requests that were sent and the client, in   *)
(* the same order, the responses that do_message() gave, and neither       *)
(* closes the connection.  The exceptions are a header that leaves less    *)
(* room than Content-Length needs, which reserve() then drops, an answer   *)
(* after a big body was moved away, and the length in an answer to HEAD,   *)
(* which the response decoder takes for that of a body.                    *)
Exchanged ==
  /\ TypeOK
  /\ "overrun" \notin excuse =>
       /\ ~server.closed
       /\ IsPrefix(server.messages, [k \in DOMAIN sent |-> ReceivedRequest(sent[k])])
       /\ to_server = << >> => Len(server.messages) = Len(sent)
  /\ excuse = {} =>
       /\ ~client.closed
       /\ IsPrefix(client.messages,
                   [k \in DOMAIN sent |-> ReceivedReply(sent[k], replies[k])])
       /\ to_client = << >> => Len(client.messages) = Len(server.messages)

(* "== 0: automatic reply" (the comment at do_message()): the body that a  *)
(* handler has written is in the reply.                                    *)
ReplyBodies ==
  excuse \subseteq {"moved"} =>
    \A k \in DOMAIN client.messages : client.messages[k].body = replies[k].body
=============================================================================
