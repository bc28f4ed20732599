------------------------------ MODULE Decoders ------------------------------
(***************************************************************************)
(* Cutting the byte stream of a connection into messages:                  *)
(* decode() of FixedLengthMessageHandler and of LengthFieldMessageHandler. *)
(* The stream arrives in pieces of any size; what a call of decode() does  *)
(* not deliver it keeps in message_buffer_.                                *)
(*                                                                         *)
(* A byte is <<message, position, value>>, so that it is known where it    *)
(* belongs; a value has one of Radix values instead of 256, of which the   *)
(* upper half is negative as an int8_t.  The length field of a message     *)
(* counts the whole message.                                               *)
(***************************************************************************)
EXTENDS Naturals, Sequences, SequencesExt

CONSTANTS Radix,         \* values of a byte
          Fields,        \* length_field_length_
          Offsets,       \* length_field_offset_
          Lengths,       \* the lengths that peers send
          FixedLength,   \* message_length_ of the fixed length decoder
          MaxLength,     \* max_message_length_
          MaxMessages    \* bound on the messages sent

DecoderAssumption ==
  /\ {Radix, FixedLength, MaxLength, MaxMessages} \subseteq Nat \ {0}
  /\ Fields \subseteq {1, 2, 4} /\ Offsets \subseteq Nat /\ Lengths \subseteq Nat

VARIABLES decoder, field, offset, order,   \* the decoder's configuration
          lengths,          \* the lengths of the messages that are sent
          todo,             \* bytes that have not been received
          remain,           \* bytes that decode() has still to look at
          deciding,         \* whether decode() is running
          message_buffer, message_length,
          delivered,        \* the arguments of do_message() (history)
          closed            \* why decode() returned -1

config == <<decoder, field, offset, order, lengths>>
received == <<message_buffer, message_length, delivered, closed>>
vars == <<config, todo, remain, deciding, received>>

MinHeadLength == offset + field   \* update()

(* write_length_field_*() and read_length_field_*(): digit i of a length is *)
(* byte Place(i) of its field, the least significant one first in host     *)
(* order.  A one byte field, and one of two bytes in host order, is read   *)
(* as a signed number.                                                     *)
Digits(n) == LET n2 == n \div Radix   n3 == n2 \div Radix   n4 == n3 \div Radix
             IN  <<n % Radix, n2 % Radix, n3 % Radix, n4 % Radix>>
Number(d) == d[1] + Radix * (d[2] + Radix * (d[3] + Radix * d[4]))
Capacity == CASE field = 1 -> Radix
              [] field = 2 -> Radix * Radix
              [] field = 4 -> Radix * (Radix * (Radix * Radix))
Place(i) == IF order = "host" THEN i ELSE field + 1 - i
Signed == field = 1 \/ (field = 2 /\ order = "host")
TooLong == MaxLength + Radix   \* stands for a negative number as a uint_t

WriteLength(n, i) == Digits(n)[Place(i)]

ReadLengthField(bytes) ==
  LET digit(i) == IF i > field THEN 0 ELSE bytes[offset + Place(i)][3]
  IN  IF Signed /\ 2 * digit(field) >= Radix THEN TooLong
      ELSE Number([i \in 1 .. 4 |-> digit(i)])

(* The messages as they are sent; one that claims less than its head has   *)
(* its head all the same.                                                  *)
Size(n) == IF decoder = "fixed" THEN FixedLength
           ELSE IF n < MinHeadLength THEN MinHeadLength ELSE n
Message(k) ==
  [ i \in 1 .. Size(lengths[k]) |->
      << k, i, IF decoder = "length" /\ i \in offset + 1 .. offset + field
               THEN WriteLength(lengths[k], i - offset) ELSE 0 >> ]
Messages == [k \in 1 .. Len(lengths) |-> Message(k)]
Stream == FlattenSeq(Messages)

Init == /\ decoder \in {"fixed", "length"}
        /\ field \in Fields /\ offset \in Offsets /\ order \in {"host", "network"}
        /\ decoder = "fixed" =>
             field = 2 /\ offset = 0 /\ order = "host"
        /\ lengths \in UNION { [1 .. k -> IF decoder = "fixed" THEN {FixedLength}
                                         ELSE Lengths] : k \in 1 .. MaxMessages }
        /\ todo = Stream
        /\ remain = << >> /\ deciding = FALSE
        /\ message_buffer = << >> /\ message_length = 0
        /\ delivered = << >> /\ closed = "no"

-----------------------------------------------------------------------------
Take(s, n) == SubSeq(s, 1, n)
Drop(s, n) == SubSeq(s, n + 1, Len(s))

(* handle_read() has received n bytes and calls decode().                  *)
Receive(n) == /\ ~deciding /\ closed = "no"
              /\ remain' = Take(todo, n) /\ todo' = Drop(todo, n)
              /\ deciding' = TRUE
              /\ UNCHANGED <<config, received>>

DeliverKeeps(message, used) ==  \* mutant: message_buffer_ is not reset
  /\ delivered' = Append(delivered, message)
  /\ remain' = Drop(remain, used)
  /\ message_length' = 0
  /\ UNCHANGED <<message_buffer, closed>>

(* do_message() takes a message, or has the connection closed.             *)
Deliver(message, used) ==
  \/ /\ delivered' = Append(delivered, message)
     /\ remain' = Drop(remain, used)
     /\ message_buffer' = << >>
     /\ message_length' = 0
     /\ UNCHANGED closed
  \/ /\ closed' = "by_handler"
     /\ UNCHANGED <<delivered, remain, message_buffer, message_length>>

Keep == /\ message_buffer' = message_buffer \o remain
        /\ remain' = << >>
        /\ UNCHANGED <<message_length, delivered, closed>>

(* need_len is unsigned: a negative one is more than there ever is.        *)
Completes(length) == /\ length >= Len(message_buffer)
                     /\ Len(remain) >= length - Len(message_buffer)

Complete(length) ==
  LET need == length - Len(message_buffer)
  IN  Deliver(Take(message_buffer \o remain, length), need)

-----------------------------------------------------------------------------
(* FixedLengthMessageHandler: an empty buffer needs all of the message.    *)
DecodeFixed ==
  /\ decoder = "fixed"
  /\ IF Completes(FixedLength) THEN Complete(FixedLength) ELSE Keep

(***************************************************************************)
(* LengthFieldMessageHandler: the length is read from the bytes at hand,   *)
(* or from the buffer once it holds the head.                              *)
(***************************************************************************)
BadLength(n) == n > MaxLength \/ n = 0

CloseOn(n) == /\ closed' = "bad_length" /\ message_length' = n
              /\ UNCHANGED <<remain, message_buffer, delivered>>

(* Nothing is kept: read the length and go on with the message.            *)
DecodeHere ==
  LET n == IF message_length > 0 THEN message_length ELSE ReadLengthField(remain)
  IN  /\ message_buffer = << >>
      /\ IF message_length = 0 /\ Len(remain) < MinHeadLength THEN Keep
         ELSE IF message_length = 0 /\ BadLength(n) THEN CloseOn(n)
         ELSE IF Len(remain) >= n THEN Deliver(Take(remain, n), n)
         ELSE /\ message_buffer' = remain /\ remain' = << >>
              /\ message_length' = n
              /\ UNCHANGED <<delivered, closed>>

DecodeKeptHead ==
  LET need == MinHeadLength - Len(message_buffer)
      head == message_buffer \o Take(remain, need)
  IN  /\ message_buffer # << >> /\ message_length = 0
      /\ IF Len(remain) < need THEN Keep
         ELSE IF BadLength(ReadLengthField(head))
         THEN CloseOn(ReadLengthField(head))
         ELSE /\ message_buffer' = head /\ remain' = Drop(remain, need)
              /\ message_length' = ReadLengthField(head)
              /\ UNCHANGED <<delivered, closed>>

DecodeKeptMessage ==
  /\ message_buffer # << >> /\ message_length > 0
  /\ IF Completes(message_length) THEN Complete(message_length) ELSE Keep

DecodeLength == decoder = "length" /\ (DecodeHere \/ DecodeKeptHead \/ DecodeKeptMessage)

(* One turn of the loop; decode() returns when nothing remains.            *)
Decode == /\ deciding
          /\ DecodeFixed \/ DecodeLength
          /\ deciding' = (remain' # << >> /\ closed' = "no")
          /\ UNCHANGED <<config, todo>>

Next == Decode \/ \E n \in 1 .. Len(todo) : Receive(n)

Spec == Init /\ [][Next]_vars

-----------------------------------------------------------------------------
(* A length that the decoder accepts: not below the head, which is not     *)
(* checked, and one that the field can hold.                               *)
Legal(n) == \/ decoder = "fixed"
            \/ /\ n \in MinHeadLength .. MaxLength
               /\ IF Signed THEN 2 * n < Capacity ELSE n < Capacity
AllLegal == \A k \in DOMAIN lengths : Legal(lengths[k])

TypeOK == /\ Len(remain) + Len(todo) <= Len(Stream)
          /\ message_length \in Nat /\ deciding \in BOOLEAN
          /\ closed \in {"no", "by_handler", "bad_length"}

(* However the stream is cut, the handler gets exactly the messages that   *)
(* were sent, in order: what was delivered, kept, at hand and not yet      *)
(* received is the stream; and it is never closed for a legal length.      *)
Framed ==
  /\ TypeOK
  /\ AllLegal =>
       /\ IsPrefix(delivered, Messages)
       /\ FlattenSeq(delivered) \o message_buffer \o remain \o todo = Stream
       /\ closed # "bad_length"

(* A message is delivered by the call of decode() that gets its last byte, *)
(* unless it is nothing but a head that came in pieces: that one waits     *)
(* for the next byte of the stream.                                        *)
OnlyHead == decoder = "length" /\ message_length = MinHeadLength
Prompt ==
  AllLegal /\ ~deciding /\ closed = "no" /\ Len(delivered) < Len(lengths)
  => \/ Len(message_buffer) < Len(Messages[Len(delivered) + 1])
     \/ OnlyHead
=============================================================================
