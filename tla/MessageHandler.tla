--------------------------- MODULE MessageHandler ---------------------------
(***************************************************************************)
(* Sending on a connection (message_handler.h, with add_event() and        *)
(* delete_event() of epoll_event_loop.h): send() writes to the socket if   *)
(* nothing is queued, else appends to the standby queue and asks the event *)
(* loop for write events; the loop thread's handle_write() swaps the       *)
(* queues, writes the active one, and gives the write events up when both  *)
(* are empty.                                                              *)
(*                                                                         *)
(* A queue is the sequence of the bytes of its messages; how many of its   *)
(* messages go into one call of socket_sendv() is part of how many bytes   *)
(* that call takes, which the socket chooses.  Bytes are numbered in the   *)
(* order in which send() took the mutex.  The connection does not fail.    *)
(***************************************************************************)
EXTENDS Naturals, Sequences

CONSTANTS Senders,   \* the threads, or calls, of send()
          Modes,     \* the values of same_thread considered
          MsgSize,   \* bytes of a message
          MaxSends,  \* bound on the calls of send()
          None       \* the owner of a free mutex

MessageAssumption == /\ Modes \subseteq BOOLEAN
                     /\ MsgSize \in Nat \ {0}
                     /\ MaxSends \in Nat
                     /\ None \notin Senders

VARIABLES same_thread,   \* whether send() is only called by handlers in the
                         \* loop thread; never changes
          queue_active, queue_standby,
          mutex,         \* the sender that holds mutex_, or None
          event_mask,    \* whether event_mask_ has WRITE_EVENT_MASK
          epollout,      \* whether the epoll instance reports EPOLLOUT
          send_pc,       \* per sender: where send() is
          loop_pc,       \* where the loop thread is in handle_write()
          send_bytes,    \* result of the loop's socket_sendv()
          sent, wire     \* bytes accepted by send(); the socket's bytes (history)

queues == <<queue_active, queue_standby>>
mask == <<event_mask, epollout>>
vars == <<same_thread, queues, mutex, mask, send_pc, loop_pc, send_bytes, sent, wire>>

Init == /\ same_thread \in Modes
        /\ queue_active = << >> /\ queue_standby = << >>
        /\ mutex = None
        /\ event_mask = FALSE /\ epollout = FALSE
        /\ send_pc = [p \in Senders |-> "idle"]
        /\ loop_pc = "idle" /\ send_bytes = 0
        /\ sent = 0 /\ wire = << >>

Idle == loop_pc = "idle" /\ \A p \in Senders : send_pc[p] = "idle"

(* In the loop thread, one call ends before another thing is done.         *)
SenderRuns(p) == same_thread => /\ loop_pc = "idle"
                                /\ \A q \in Senders \ {p} : send_pc[q] = "idle"
LoopRuns == same_thread => \A p \in Senders : send_pc[p] = "idle"

SendStep(p, from, to) == /\ send_pc[p] = from
                         /\ send_pc' = [send_pc EXCEPT ![p] = to]
                         /\ UNCHANGED <<same_thread, loop_pc, send_bytes>>

LoopStep(from, to) == /\ LoopRuns
                      /\ loop_pc = from
                      /\ loop_pc' = to
                      /\ UNCHANGED <<same_thread, mutex, send_pc, sent>>

-----------------------------------------------------------------------------
(* send(): take the mutex; send_i() looks at both queues.                  *)
NextMessage == [i \in 1 .. MsgSize |-> sent + i]

SendLock(p) == /\ SenderRuns(p)
               /\ mutex = None /\ mutex' = p
               /\ sent < MsgSize * MaxSends
               /\ SendStep(p, "idle", "send_i")
               /\ UNCHANGED <<queues, mask, sent, wire>>

DirectTest(p) == /\ queue_standby = << >> /\ queue_active = << >>
                 /\ SendStep(p, "send_i", "direct")
                 /\ UNCHANGED <<queues, mutex, mask, sent, wire>>

(* The socket takes n bytes; what is left is queued.                       *)
SendDirect(p, n) ==
  /\ SendStep(p, "direct", IF n = MsgSize THEN "idle" ELSE "read_mask")
  /\ wire' = wire \o SubSeq(NextMessage, 1, n)
  /\ queue_standby' = queue_standby \o SubSeq(NextMessage, n + 1, MsgSize)
  /\ sent' = sent + MsgSize
  /\ mutex' = None
  /\ UNCHANGED <<queue_active, mask>>

(* direct_send is false, or something is queued already.                   *)
Enqueue(p) == /\ SendStep(p, "send_i", "read_mask")
              /\ queue_standby' = queue_standby \o NextMessage
              /\ sent' = sent + MsgSize
              /\ mutex' = None
              /\ UNCHANGED <<queue_active, mask, wire>>

(* add_event(WRITE): three steps, without a mutex.                         *)
AddReadMask(p) == /\ SendStep(p, "read_mask", IF event_mask THEN "idle" ELSE "add_ctl")
                  /\ UNCHANGED <<queues, mutex, mask, sent, wire>>

AddCtl(p) == /\ SendStep(p, "add_ctl", "add_mask")
             /\ epollout' = TRUE
             /\ UNCHANGED <<queues, mutex, event_mask, sent, wire>>

AddMask(p) == /\ SendStep(p, "add_mask", "idle")
              /\ event_mask' = TRUE
              /\ UNCHANGED <<queues, mutex, epollout, sent, wire>>

-----------------------------------------------------------------------------
(* The loop thread finds EPOLLOUT and calls handle_write().                *)
HandleWrite == /\ epollout
               /\ LoopStep("idle", IF queue_active = << >> THEN "swap" ELSE "sendv")
               /\ UNCHANGED <<queues, mask, send_bytes, wire>>

Swap == /\ mutex = None
        /\ queue_standby # << >>
        /\ LoopStep("swap", "sendv")
        /\ queue_active' = queue_standby /\ queue_standby' = queue_active
        /\ UNCHANGED <<mask, send_bytes, wire>>

NoData == /\ mutex = None
          /\ queue_standby = << >>
          /\ LoopStep("swap", "delete_event")
          /\ UNCHANGED <<queues, mask, send_bytes, wire>>

SendV(n) == /\ LoopStep("sendv", "pop")
            /\ wire' = wire \o SubSeq(queue_active, 1, n)
            /\ send_bytes' = n
            /\ UNCHANGED <<queues, mask>>

PopAll == /\ LoopStep("pop", "idle")  \* mutant: as if all had been taken
          /\ queue_active' = << >>
          /\ send_bytes' = 0
          /\ UNCHANGED <<queue_standby, mask, wire>>

(* What was written leaves the active queue, which send() reads with the   *)
(* mutex and this does not take.                                           *)
PopSent == /\ LoopStep("pop", "idle")
           /\ queue_active' = SubSeq(queue_active, send_bytes + 1, Len(queue_active))
           /\ send_bytes' = 0
           /\ UNCHANGED <<queue_standby, mask, wire>>

(* delete_event(WRITE), after the mutex was released.                      *)
DeleteReadMask == /\ LoopStep("delete_event", IF event_mask THEN "delete_ctl" ELSE "idle")
                  /\ UNCHANGED <<queues, mask, send_bytes, wire>>

DeleteCtl == /\ LoopStep("delete_ctl", "delete_mask")
             /\ epollout' = FALSE
             /\ UNCHANGED <<queues, event_mask, send_bytes, wire>>

DeleteMaskForgotten == /\ LoopStep("delete_mask", "idle")  \* mutant
                       /\ UNCHANGED <<queues, mask, send_bytes, wire>>

DeleteMask == /\ LoopStep("delete_mask", "idle")
              /\ event_mask' = FALSE
              /\ UNCHANGED <<queues, epollout, send_bytes, wire>>

Send(p) == \/ SendLock(p) \/ DirectTest(p) \/ Enqueue(p)
           \/ \E n \in 0 .. MsgSize : SendDirect(p, n)
           \/ AddReadMask(p) \/ AddCtl(p) \/ AddMask(p)

LoopThread == \/ HandleWrite \/ Swap \/ NoData
              \/ \E n \in 0 .. Len(queue_active) : SendV(n)
              \/ PopSent \/ DeleteReadMask \/ DeleteCtl \/ DeleteMask

Next == (\E p \in Senders : Send(p)) \/ LoopThread

Spec == Init /\ [][Next]_vars

-----------------------------------------------------------------------------
TypeOK == /\ same_thread \in Modes
          /\ queue_active \in Seq(Nat) /\ queue_standby \in Seq(Nat)
          /\ mutex \in Senders \cup {None}
          /\ event_mask \in BOOLEAN /\ epollout \in BOOLEAN
          /\ send_pc \in [Senders -> {"idle", "send_i", "direct", "read_mask",
                                      "add_ctl", "add_mask"}]
          /\ loop_pc \in {"idle", "swap", "sendv", "pop", "delete_event",
                          "delete_ctl", "delete_mask"}
          /\ send_bytes \in 0 .. Len(queue_active)

(* The bytes reach the socket in the order of the calls of send(), each    *)
(* once: a direct write never overtakes a queued message, although it is   *)
(* the loop thread, outside the mutex, that writes and empties the queue.  *)
InOrder ==
  /\ TypeOK
  /\ wire \o SubSeq(queue_active, send_bytes + 1, Len(queue_active)) \o queue_standby
       = [i \in 1 .. sent |-> i]

(* "Pushed to the send queue" and "no data to send" (the comments at       *)
(* SendResult and WriteResult): write events are given up when nothing is  *)
(* left to send, so that what is queued when all calls have returned is    *)
(* waiting for an EPOLLOUT and not for another send().                     *)
QueuedIsWatched == Idle /\ queue_active \o queue_standby # << >> => epollout

(* It holds if only handlers in the loop thread call send(); also, the     *)
(* mask kept in the handler then is the one the epoll instance has.        *)
LoopThreadSendsAreWatched ==
  same_thread => QueuedIsWatched /\ (Idle => event_mask = epollout)
=============================================================================
