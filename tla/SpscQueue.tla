----------------------------- MODULE SpscQueue -----------------------------
(***************************************************************************)
(* The single-producer single-consumer ring with monotone indexes:         *)
(* SPSCArrayLockfreeQueue (lockfree_queue.h), SPSCVolatileEventTypeQueue   *)
(* and SPSCAtomicEventTypeQueue (event_type_queue.h), which are the same   *)
(* algorithm over a vector, over volatile and over atomic indexes.         *)
(*                                                                         *)
(* Each step is one access to memory the two threads share, under          *)
(* sequential consistency.  The capacity is a power of two (init() rounds  *)
(* it up), so "index & (capacity - 1)" is index % Capacity.  The 64-bit    *)
(* indexes do not wrap: MaxPush bounds how many pushes are made.           *)
(***************************************************************************)
EXTENDS Integers, Sequences

CONSTANTS Values,    \* the events that may be pushed
          Capacity,  \* array_.size()
          MaxPush,   \* bound on the number of pushes
          Garbage    \* what an unwritten slot holds

ASSUME SpscAssumption == /\ Capacity \in Nat \ {0}
                         /\ MaxPush \in Nat
                         /\ Garbage \notin Values

VARIABLES array,        \* the slots
          read_index,   \* next index to read, stored by the consumer only
          write_index,  \* next index to write, stored by the producer only
          push_pc,      \* where the producer is in push()
          push_value,   \* the argument of the push in progress
          pop_pc        \* where the consumer is in pop(handler)

vars == <<array, read_index, write_index, push_pc, push_value, pop_pc>>
producerVars == <<push_pc, push_value>>

Offset(index) == index % Capacity

Init == /\ array = [i \in 0 .. Capacity - 1 |-> Garbage]
        /\ read_index = 0
        /\ write_index = 0
        /\ push_pc = "idle"
        /\ push_value = Garbage
        /\ pop_pc = "idle"

(* Mutations: the test of push() lets one event too many in; the slot is   *)
(* addressed by the incremented index; pop() takes from an empty queue, or *)
(* leaves the last event.                                                  *)
PushCheckOneTooMany(v) == /\ push_pc = "idle"
                          /\ write_index < MaxPush
                          /\ write_index - read_index <= Capacity
                          /\ push_pc' = "write"
                          /\ push_value' = v
                          /\ UNCHANGED <<array, read_index, write_index, pop_pc>>

PushWriteNextSlot == /\ push_pc = "write"
                     /\ array' = [array EXCEPT ![Offset(write_index + 1)] = push_value]
                     /\ push_pc' = "publish"
                     /\ UNCHANGED <<read_index, write_index, push_value, pop_pc>>

PopCheckWhenEmpty == /\ pop_pc = "idle"
                     /\ write_index >= read_index
                     /\ pop_pc' = "handle"
                     /\ UNCHANGED <<array, read_index, write_index, producerVars>>

PopCheckLeavesLast == /\ pop_pc = "idle"
                      /\ write_index > read_index + 1
                      /\ pop_pc' = "handle"
                      /\ UNCHANGED <<array, read_index, write_index, producerVars>>

(***************************************************************************)
(* push(value).  The producer's own index does not change under it, so the *)
(* test is one load of read_index_.  A full queue returns 0 and changes    *)
(* nothing.                                                                *)
(***************************************************************************)
PushCheck(v) == /\ push_pc = "idle"
                /\ write_index < MaxPush
                /\ write_index - read_index < Capacity
                /\ push_pc' = "write"
                /\ push_value' = v
                /\ UNCHANGED <<array, read_index, write_index, pop_pc>>

PushWrite == /\ push_pc = "write"
             /\ array' = [array EXCEPT ![Offset(write_index)] = push_value]
             /\ push_pc' = "publish"
             /\ UNCHANGED <<read_index, write_index, push_value, pop_pc>>

PushPublish == /\ push_pc = "publish"
               /\ write_index' = write_index + 1
               /\ push_pc' = "idle"
               /\ push_value' = Garbage
               /\ UNCHANGED <<array, read_index, pop_pc>>

(***************************************************************************)
(* pop(handler).  The handler runs on the slot itself between the two      *)
(* steps; the slot is given back by the store to read_index_.  An empty    *)
(* queue returns 0 and changes nothing.                                    *)
(***************************************************************************)
PopCheck == /\ pop_pc = "idle"
            /\ write_index > read_index
            /\ pop_pc' = "handle"
            /\ UNCHANGED <<array, read_index, write_index, producerVars>>

PopAdvance == /\ pop_pc = "handle"
              /\ read_index' = read_index + 1
              /\ pop_pc' = "idle"
              /\ UNCHANGED <<array, write_index, producerVars>>

Producer == (\E v \in Values : PushCheck(v)) \/ PushWrite \/ PushPublish
Consumer == PopCheck \/ PopAdvance

Next == Producer \/ Consumer

(* The consumer thread polls the queue and its handler returns. *)
Fairness == WF_vars(PushWrite \/ PushPublish) /\ WF_vars(Consumer)

Spec == Init /\ [][Next]_vars
FairSpec == Spec /\ Fairness

-----------------------------------------------------------------------------
(* Each variable holds values of its type.                                 *)
TypeOK == /\ array \in [0 .. Capacity - 1 -> Values \cup {Garbage}]
          /\ read_index \in Nat
          /\ write_index \in Nat
          /\ push_pc \in {"idle", "write", "publish"}
          /\ push_value \in Values \cup {Garbage}
          /\ pop_pc \in {"idle", "handle"}

(* Neither thread overtakes the other: size() lies between 0 and           *)
(* capacity() although each index is stored by one thread and tested by    *)
(* the other.                                                              *)
IndexesOK == /\ read_index <= write_index
             /\ write_index <= read_index + Capacity

(* No push writes the slot a handler is working on: push() and             *)
(* pop(handler) never touch one slot at the same time.                     *)
NoSlotRace == push_pc \in {"write", "publish"} /\ pop_pc = "handle"
                => Offset(write_index) # Offset(read_index)

(* What each thread's place in its call says of the indexes and slots: a    *)
(* push past its test still has room and, once it has written, its event   *)
(* in the slot; a pop past its test still has an event; and every slot     *)
(* between the indexes holds an event.                                     *)
IInv == /\ TypeOK
        /\ IndexesOK
        /\ push_pc # "idle" => /\ write_index < read_index + Capacity
                               /\ push_value \in Values
        /\ push_pc = "publish" => array[Offset(write_index)] = push_value
        /\ pop_pc = "handle" => read_index < write_index
        /\ \A i \in read_index .. write_index - 1 : array[Offset(i)] \in Values

(* The queue implements BoundedFifo: its events are the slots from         *)
(* read_index_ up to write_index_, and the handler sees the oldest one,    *)
(* unchanged for as long as it runs.                                       *)
Contents == [i \in 1 .. (write_index - read_index) |-> array[Offset(read_index + i - 1)]]
Handling == IF pop_pc = "handle" THEN <<array[Offset(read_index)]>> ELSE << >>

Fifo == INSTANCE BoundedFifo WITH queue <- Contents, handling <- Handling, Limit <- Capacity
ImplementsFifo == Fifo!Spec

(* Every event whose push returned 1 is handled: while the consumer polls, *)
(* the read index reaches every value the write index has had.             *)
EveryEventHandled == \A i \in 1 .. MaxPush : (write_index >= i) ~> (read_index >= i)
=============================================================================
