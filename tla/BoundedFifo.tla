---------------------------- MODULE BoundedFifo ----------------------------
(***************************************************************************)
(* What every event queue of zrsocket promises to its one consumer: a      *)
(* bounded first-in first-out queue whose head the consumer's handler      *)
(* works on in place, and which leaves the queue when the handler returns. *)
(* SpscQueue and DoubleBufferQueue are shown to implement it.              *)
(***************************************************************************)
EXTENDS Naturals, Sequences

CONSTANTS Values,   \* the events that may be pushed
          Limit     \* how many events the queue may hold

VARIABLES queue,    \* the accepted events, oldest first
          handling  \* <<e>> while the handler runs on e, otherwise << >>

vars == <<queue, handling>>

TypeOK == /\ queue \in Seq(Values)
          /\ handling \in {<< >>} \cup { <<v>> : v \in Values }

Init == /\ queue = << >>
        /\ handling = << >>

(* push() returned 1. *)
Enqueue(v) == /\ Len(queue) < Limit
              /\ queue' = Append(queue, v)
              /\ UNCHANGED handling

(* The handler is called on the oldest event, which stays where it is. *)
Begin == /\ handling = << >>
         /\ queue # << >>
         /\ handling' = <<Head(queue)>>
         /\ UNCHANGED queue

(* The handler has returned: the event leaves the queue. *)
Finish == /\ handling # << >>
          /\ queue' = Tail(queue)
          /\ handling' = << >>

Next == \/ \E v \in Values : Enqueue(v)
        \/ Begin
        \/ Finish

Spec == Init /\ [][Next]_vars
=============================================================================
