-------------------------- MODULE DoubleBufferQueue --------------------------
(***************************************************************************)
(* The double-buffer queue: producers append to the standby buffer under a *)
(* mutex, the one consumer reads the active buffer without it, and swaps   *)
(* the two under the mutex when the active buffer is empty.                *)
(* DoubleBufferEventTypeQueue (event_type_queue.h); DoublePointerSwapQueue *)
(* (lockfree_queue.h) and DoubleFixedLengthBuffer (lockfree.h) have the    *)
(* same shape.                                                             *)
(*                                                                         *)
(* A buffer is the sequence of its events: Buffer::push and Buffer::pop    *)
(* are the ring of SpscQueue with one thread at a time on each end.        *)
(***************************************************************************)
EXTENDS Naturals, Sequences

CONSTANTS Values,     \* the events that may be pushed
          Producers,  \* the threads that push
          Consumer,   \* the thread that pops
          Capacity,   \* capacity_ of each buffer
          None        \* the owner of a free mutex

ASSUME DoubleBufferAssumption == /\ Capacity \in Nat \ {0}
                                 /\ Consumer \notin Producers
                                 /\ None \notin Producers \cup {Consumer}

VARIABLES buf,         \* buf1_ and buf2_
          active_buf,  \* which of them the consumer reads
          standby_buf, \* which of them the producers fill
          mutex,       \* the thread that holds mutex_
          push_value,  \* per producer: the argument of the push() in progress
          pop_pc       \* where the consumer is

qvars == <<buf, active_buf, standby_buf, mutex, push_value, pop_pc>>
buffers == <<buf, active_buf, standby_buf>>

Buffers == {1, 2}

QInit == /\ buf = [b \in Buffers |-> << >>]
         /\ active_buf = 1
         /\ standby_buf = 2
         /\ mutex = None
         /\ push_value = [p \in Producers |-> << >>]
         /\ pop_pc = "idle"

(* push(event): take the mutex ...                                         *)
PushLock(p, v) == /\ push_value[p] = << >>
                  /\ mutex = None
                  /\ mutex' = p
                  /\ push_value' = [push_value EXCEPT ![p] = <<v>>]
                  /\ UNCHANGED <<buffers, pop_pc>>

Full == Len(buf[standby_buf]) >= Capacity

(* ... append to the standby buffer unless it is full, and release.        *)
PushUnlock(p) ==
  /\ mutex = p
  /\ buf' = IF Full THEN buf
            ELSE [buf EXCEPT ![standby_buf] = Append(@, push_value[p][1])]
  /\ mutex' = None
  /\ push_value' = [push_value EXCEPT ![p] = << >>]
  /\ UNCHANGED <<active_buf, standby_buf, pop_pc>>

(* pop(handler): the handler runs on the head of the active buffer, which  *)
(* moves on when the handler has returned.  On an empty buffer it returns  *)
(* nullptr.                                                                *)
PopBegin == /\ pop_pc = "idle"
            /\ buf[active_buf] # << >>
            /\ pop_pc' = "handle"
            /\ UNCHANGED <<buffers, mutex, push_value>>

PopEnd == /\ pop_pc = "handle"
          /\ buf' = [buf EXCEPT ![active_buf] = Tail(@)]
          /\ pop_pc' = "idle"
          /\ UNCHANGED <<active_buf, standby_buf, mutex, push_value>>

SwapLockAnyTime == /\ pop_pc = "idle"  \* mutant: with events left to read
                   /\ mutex = None
                   /\ mutex' = Consumer
                   /\ pop_pc' = "swap"
                   /\ UNCHANGED <<buffers, push_value>>

(* swap_buffer(), which the consumer calls only when pop() found nothing.  *)
SwapLock == /\ pop_pc = "idle"
            /\ buf[active_buf] = << >>
            /\ mutex = None
            /\ mutex' = Consumer
            /\ pop_pc' = "swap"
            /\ UNCHANGED <<buffers, push_value>>

SwapUnlock == /\ pop_pc = "swap"
              /\ IF buf[standby_buf] # << >>
                 THEN /\ active_buf' = standby_buf
                      /\ standby_buf' = active_buf
                 ELSE UNCHANGED <<active_buf, standby_buf>>
              /\ mutex' = None
              /\ pop_pc' = "idle"
              /\ UNCHANGED <<buf, push_value>>

QNext == \/ \E p \in Producers : \/ \E v \in Values : PushLock(p, v)
                                 \/ PushUnlock(p)
         \/ PopBegin \/ PopEnd \/ SwapLock \/ SwapUnlock

QSpec == QInit /\ [][QNext]_qvars

-----------------------------------------------------------------------------
QTypeOK == /\ buf \in [Buffers -> Seq(Values)]
           /\ active_buf \in Buffers
           /\ standby_buf \in Buffers
           /\ mutex \in Producers \cup {Consumer, None}
           /\ push_value \in [Producers -> {<< >>} \cup { <<v>> : v \in Values }]
           /\ pop_pc \in {"idle", "handle", "swap"}

(* The two pointers never meet, so no push is to the buffer being read; no *)
(* buffer exceeds its capacity; the mutex is held exactly by the thread    *)
(* between lock() and unlock(); and a swap finds the active buffer empty.  *)
QInv == /\ QTypeOK
        /\ active_buf # standby_buf
        /\ \A b \in Buffers : Len(buf[b]) <= Capacity
        /\ \A p \in Producers : push_value[p] # << >> <=> mutex = p
        /\ pop_pc = "swap" <=> mutex = Consumer
        /\ pop_pc = "swap" => buf[active_buf] = << >>
        /\ pop_pc = "handle" => buf[active_buf] # << >>

(* The queue implements BoundedFifo: the active buffer, then the standby   *)
(* one, in the order the pushes took the mutex, whatever swaps intervene.  *)
Contents == buf[active_buf] \o buf[standby_buf]
Handling == IF pop_pc = "handle" THEN <<Head(buf[active_buf])>> ELSE << >>

Fifo == INSTANCE BoundedFifo
          WITH queue <- Contents, handling <- Handling, Limit <- 2 * Capacity
ImplementsFifo == Fifo!Spec
=============================================================================
