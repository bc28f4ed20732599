---------------------------- MODULE HttpDecoder ----------------------------
(***************************************************************************)
(* decode() of HttpRequestHandler and of HttpResponseHandler: the bytes of *)
(* a header go one by one through a state machine, those of a body are     *)
(* taken as they come.  The two differ in the first line only.             *)
(*                                                                         *)
(* A character is a token: a word, a number, or one of the characters that *)
(* separate them.  The decoder is a record, and "messages" are what it has *)
(* handed to do_message().                                                 *)
(***************************************************************************)
EXTENDS Naturals, Sequences, SequencesExt

CONSTANTS MaxHeader, MaxBody   \* max_header_length_ and max_body_length_

ASSUME HttpDecoderAssumption == MaxHeader \in Nat /\ MaxBody \in Nat

Methods == {"GET", "HEAD", "POST"}
Versions == {"HTTP/1.0", "HTTP/1.1"}
Numerals == <<"0", "1", "2", "3", "4", "5">>
Numeral(n) == Numerals[n + 1]

(* std::atoi() of a value, which skips the blanks before the number.       *)
Number(value) ==
  LET digits == SelectSeq(value, LAMBDA t : t # " ")
  IN  IF digits # << >> /\ digits[1] \in ToSet(Numerals)
      THEN (CHOOSE n \in 0 .. Len(Numerals) - 1 : Numeral(n) = digits[1])
      ELSE 0

FirstState(side) == IF side = "server" THEN "method" ELSE "version"

(* handle_open(), init() and reset()                                       *)
Fresh(side) ==
  [ state |-> FirstState(side), line |-> "normal", field1 |-> << >>,
    field2 |-> << >>, word |-> << >>, uri |-> << >>, headers |-> { },
    length |-> 0, body |-> << >>, count |-> 0 ]

NewDecoder(side) == [d |-> Fresh(side), messages |-> << >>, closed |-> FALSE,
                     skip |-> 0, side |-> side]

-----------------------------------------------------------------------------
(* Operators on a decoder D: its message in progress is D.d.               *)
Closed(D) == [D EXCEPT !.closed = TRUE]
Goto(D, state) == [D EXCEPT !.d.state = state]
Line(D, line) == [D EXCEPT !.d.line = line]
Push1(D, ch) == [D EXCEPT !.d.field1 = Append(@, ch)]

DecodedMessage(D) == [word |-> D.d.word, uri |-> D.d.uri,
                      headers |-> D.d.headers, body |-> D.d.body]

(* decode_reset(), for a do_message() that does not fail.                  *)
DecodeReset(D) == [D EXCEPT !.messages = Append(@, DecodedMessage(D)),
                            !.d = Fresh(D.side)]

(* Method and URI of a request.                                            *)
Method(D, ch) ==
  IF ch # " " THEN Push1(D, ch)
  ELSE IF D.d.field1 \in { <<m>> : m \in Methods }
  THEN [D EXCEPT !.d.word = D.d.field1, !.d.field1 = << >>, !.d.state = "uri"]
  ELSE Closed(D)

Uri(D, ch) == IF ch # " " THEN [D EXCEPT !.d.uri = Append(@, ch)]
              ELSE Goto(D, "version")

IsVersion(D) == D.d.field1 \in { <<v>> : v \in Versions }

(* Version and status of a response.                                       *)
ResponseVersion(D, ch) ==
  IF ch # " " THEN Push1(D, ch)
  ELSE IF IsVersion(D) THEN [D EXCEPT !.d.field1 = << >>, !.d.state = "status"]
  ELSE Closed(D)

Status(D, ch) ==
  IF ch # " " THEN Push1(D, ch)
  ELSE [D EXCEPT !.d.word = D.d.field1, !.d.state = "reason"]

-----------------------------------------------------------------------------
(* The end of a line: CR LF, and then another header or CR LF again.       *)
AfterCR(D, ch) == IF ch = "\n" THEN Line(D, "CRLF") ELSE Closed(D)

AfterCRLF(D, ch, field1) ==
  IF ch = "\r" THEN Line(D, "CRLFCR")
  ELSE [D EXCEPT !.d.field1 = Append(field1, ch), !.d.state = "field",
                 !.d.line = "normal"]

(* The last part of the first line: a request's version, a reason phrase.  *)
FirstLine(D, ch) ==
  CASE D.d.line = "normal" /\ ch # "\r" ->
         IF D.side = "server" THEN Push1(D, ch) ELSE D
    [] D.d.line = "normal" /\ ch = "\r" ->
         IF D.side = "client" THEN Line(D, "CR")
         ELSE IF IsVersion(D) THEN [Line(D, "CR") EXCEPT !.d.field1 = << >>]
         ELSE Closed(D)
    [] D.d.line = "CR" -> AfterCR(D, ch)
    [] D.d.line = "CRLF" -> AfterCRLF(D, ch, << >>)
    [] D.d.line = "CRLFCR" -> IF ch = "\n" THEN DecodeReset(D) ELSE Closed(D)

HeaderField(D, ch) ==
  IF ch # ":" THEN Push1(D, ch)
  ELSE [D EXCEPT !.d.state = "value", !.d.field2 = << >>]

(* update(): the length of the body, from the headers.                     *)
ContentLength(D) ==
  LET lengths == { h \in D.d.headers : h[1] = <<"Content-Length">> }
  IN  IF lengths = { } THEN 0 ELSE Number((CHOOSE h \in lengths : TRUE)[2])

HeadersEnd(D) ==
  IF ContentLength(D) = 0 THEN DecodeReset(D)
  ELSE IF ContentLength(D) > MaxBody THEN Closed(D)
  ELSE [D EXCEPT !.d.length = ContentLength(D), !.d.state = "body",
                 !.d.line = "normal"]

(* emplace() does not replace a header that is there.                      *)
AddHeader(D) ==
  [D EXCEPT !.d.headers = IF \E h \in @ : h[1] = D.d.field1 THEN @
                          ELSE @ \cup { <<D.d.field1, D.d.field2>> },
            !.d.field1 = << >>, !.d.field2 = << >>, !.d.line = "CR"]

HeaderValue(D, ch) ==
  CASE D.d.line = "normal" /\ ch # "\r" -> [D EXCEPT !.d.field2 = Append(@, ch)]
    [] D.d.line = "normal" /\ ch = "\r" -> AddHeader(D)
    [] D.d.line = "CR" -> AfterCR(D, ch)
    [] D.d.line = "CRLF" -> AfterCRLF(D, ch, D.d.field1)
    [] D.d.line = "CRLFCR" -> IF ch = "\n" THEN HeadersEnd(D) ELSE Closed(D)

HeaderChar(D, ch) ==
  LET state == D.d.state
      C == [D EXCEPT !.d.count = @ + 1]
  IN  IF C.d.count >= MaxHeader THEN Closed(C)
      ELSE CASE state = "method" -> Method(C, ch)
             [] state = "uri" -> Uri(C, ch)
             [] state = "version" /\ D.side = "client" -> ResponseVersion(C, ch)
             [] state = "status" -> Status(C, ch)
             [] state = "reason" \/ (state = "version" /\ D.side = "server") ->
                  FirstLine(C, ch)
             [] state = "field" -> HeaderField(C, ch)
             [] state = "value" -> HeaderValue(C, ch)

BodyByItself(D, rest) ==  \* mutant: what body_ has already is not counted
  LET need == IF Len(rest) < D.d.length THEN Len(rest) ELSE D.d.length
      B == [D EXCEPT !.d.body = @ \o SubSeq(rest, 1, need), !.skip = need - 1]
  IN  IF Len(B.d.body) >= D.d.length THEN DecodeReset(B) ELSE B

(* A body that is all there is taken from where it is, else its parts are  *)
(* gathered in body_; "skip" counts the bytes that have been taken.        *)
Body(D, rest) ==
  LET need == IF D.d.body = << >> /\ Len(rest) >= D.d.length THEN D.d.length
              ELSE IF Len(rest) < D.d.length - Len(D.d.body) THEN Len(rest)
              ELSE D.d.length - Len(D.d.body)
      B == [D EXCEPT !.d.body = @ \o SubSeq(rest, 1, need), !.skip = need - 1]
  IN  IF Len(B.d.body) = D.d.length THEN DecodeReset(B) ELSE B

(* decode() of the bytes that one call of recv() has returned.             *)
Decode(decoder, bytes) ==
  LET step(D, i) ==
        IF D.closed THEN D
        ELSE IF D.skip > 0 THEN [D EXCEPT !.skip = @ - 1]
        ELSE IF D.d.state = "body" THEN Body(D, SubSeq(bytes, i, Len(bytes)))
        ELSE HeaderChar(D, bytes[i])
  IN  FoldLeft(step, decoder, [i \in 1 .. Len(bytes) |-> i])
=============================================================================
