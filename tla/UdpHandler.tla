----------------------------- MODULE UdpHandler -----------------------------
(***************************************************************************)
(* Sending datagrams (udpsource_handler.h): as MessageHandler's, with a    *)
(* message for several addresses, and in two builds, one with sendmmsg()   *)
(* for many datagrams in one call and one with a call for each.            *)
(*                                                                         *)
(* A datagram is <<m, a>>: message m, numbered in the order in which       *)
(* send() took the mutex, for its address a.  add_event() and              *)
(* delete_event() are one step each here (MessageHandler has them in       *)
(* their steps).  Once the handler is deleted nothing more is followed.    *)
(***************************************************************************)
EXTENDS Naturals, Sequences, SequencesExt, FiniteSets

CONSTANTS Senders,    \* the threads, or calls, of send()
          Addresses,  \* how many addresses a message may have
          Iovecs,     \* datagrams in one sendmmsg(): the loop's iovecs
          MaxSends,   \* bound on the calls of send()
          None        \* the owner of a free mutex

UdpAssumption == /\ Addresses \subseteq Nat \ {0} /\ 1 \in Addresses
                        /\ Iovecs \in Nat \ {0} /\ MaxSends \in Nat
                        /\ None \notin Senders

VARIABLES mmsg,          \* ZRSOCKET_HAVE_RECVSENDMMSG; never changes
          same_thread,   \* whether send() is only called by the loop thread's
                         \* handlers; never changes
          queue_active, queue_standby,   \* of [m, addrs]
          mutex, watched,                \* WRITE_EVENT_MASK is set
          call,          \* per sender: [at, m, addrs, range], its call of send();
                         \* range: of the overload for a range of addresses
          loop_pc, batch, retval,        \* handle_write() and its locals
          deleted,       \* delete_handler() was called
          sends, wire,   \* the addresses of each call; what was sent (history)
          lost, failed, partial   \* what went wrong (history)

queues == <<queue_active, queue_standby>>
config == <<mmsg, same_thread>>
history == <<lost, failed, partial>>
loop == <<loop_pc, batch, retval>>
vars == <<config, queues, mutex, watched, call, loop, deleted, sends, wire, history>>

NoCall == [at |-> "idle", m |-> 0, addrs |-> 0, range |-> FALSE]

Init == /\ mmsg \in BOOLEAN /\ same_thread \in BOOLEAN
        /\ queue_active = << >> /\ queue_standby = << >>
        /\ mutex = None /\ watched = FALSE
        /\ call = [p \in Senders |-> NoCall]
        /\ loop_pc = "idle" /\ batch = << >> /\ retval = 0
        /\ deleted = FALSE /\ sends = << >> /\ wire = << >>
        /\ lost = {} /\ failed = FALSE /\ partial = FALSE

Busy(p) == call[p].at # "idle"
Idle == loop_pc = "idle" /\ \A p \in Senders : ~Busy(p)
SenderRuns(p) == same_thread => loop_pc = "idle" /\ \A q \in Senders \ {p} : ~Busy(q)
LoopRuns == ~deleted /\ (same_thread => \A p \in Senders : ~Busy(p))

(* The datagrams of one buffer, and of a queue.                            *)
Datagrams(b) == [i \in 1 .. Len(b.addrs) |-> <<b.m, b.addrs[i]>>]
Queued(queue) == FlattenSeq([i \in 1 .. Len(queue) |-> Datagrams(queue[i])])

(* Addresses from the k-th on of the call's message, as a buffer.          *)
Buffer(c, k) == [m |-> c.m, addrs |-> [i \in 1 .. c.addrs - k + 1 |-> k + i - 1]]
Sent(c, k) == [i \in 1 .. k |-> <<c.m, i>>]

-----------------------------------------------------------------------------
At(p, from, to) == /\ ~deleted /\ call[p].at = from
                   /\ call' = [call EXCEPT ![p].at = to]
                   /\ UNCHANGED <<config, loop>>
Returned(p, from) == /\ ~deleted /\ call[p].at = from
                     /\ call' = [call EXCEPT ![p] = NoCall]
                     /\ UNCHANGED <<config, loop>>

(* The overload for a range may be called for one address as well.         *)
SendLock(p, n, range) ==
  /\ n > 1 => range
  /\ ~deleted /\ SenderRuns(p) /\ ~Busy(p) /\ Len(sends) < MaxSends
  /\ mutex = None /\ mutex' = p
  /\ sends' = Append(sends, n)
  /\ call' = [call EXCEPT ![p] = [at |-> "send_i", m |-> Len(sends'),
                                  addrs |-> n, range |-> range]]
  /\ UNCHANGED <<config, queues, watched, loop, deleted, wire, history>>

DirectTest(p) ==
  /\ queue_standby = << >> /\ queue_active = << >>
  /\ At(p, "send_i", "direct")
  /\ UNCHANGED <<queues, mutex, watched, deleted, sends, wire, history>>

(* direct_send is false, or something is queued: all addresses are queued. *)
(* The result is PUSH_QUEUE, or the number 0, which is the same.           *)
Enqueue(p) ==
  /\ At(p, "send_i", "add_event")
  /\ queue_standby' = Append(queue_standby, Buffer(call[p], 1))
  /\ mutex' = None
  /\ UNCHANGED <<queue_active, watched, deleted, sends, wire, history>>

(* All datagrams are sent.                                                 *)
DirectAll(p) ==
  /\ Returned(p, "direct")
  /\ wire' = wire \o Sent(call[p], call[p].addrs)
  /\ mutex' = None
  /\ UNCHANGED <<queues, watched, deleted, sends, history>>

(* The socket would block after k of them: the others are queued.  Without *)
(* a range that is PUSH_QUEUE; with one it is the result of sendmmsg(), -1 *)
(* for none, which send() takes for a failure, or the number sent, after   *)
(* which no write event is asked for.                                      *)
DirectSome(p, k) ==
  /\ k < call[p].addrs
  /\ IF ~call[p].range \/ (k = 0 /\ ~mmsg) THEN At(p, "direct", "add_event")
     ELSE IF k = 0 THEN At(p, "direct", "delete")
     ELSE Returned(p, "direct")
  /\ partial' = (partial \/ call[p].range)
  /\ wire' = wire \o Sent(call[p], k)
  /\ queue_standby' = Append(queue_standby, Buffer(call[p], k + 1))
  /\ mutex' = None
  /\ UNCHANGED <<queue_active, watched, deleted, sends, lost, failed>>

(* The socket fails: nothing is queued.  Without sendmmsg() the overload   *)
(* for a range returns the number sent.                                    *)
DirectFails(p, k) ==
  /\ k < call[p].addrs
  /\ mmsg => k = 0
  /\ IF ~call[p].range \/ mmsg THEN At(p, "direct", "delete")
     ELSE IF k = 0 THEN At(p, "direct", "add_event")
     ELSE Returned(p, "direct")
  /\ failed' = TRUE
  /\ wire' = wire \o Sent(call[p], k)
  /\ mutex' = None
  /\ UNCHANGED <<queues, watched, deleted, sends, lost, partial>>

AddEvent(p) == /\ Returned(p, "add_event")
               /\ watched' = TRUE
               /\ UNCHANGED <<queues, mutex, deleted, sends, wire, history>>

DeleteHandler(p) == /\ Returned(p, "delete")
                    /\ deleted' = TRUE
                    /\ UNCHANGED <<queues, mutex, watched, sends, wire, history>>

-----------------------------------------------------------------------------
(* handle_write().                                                         *)
LoopStep(from, to) ==
  /\ LoopRuns /\ loop_pc = from /\ loop_pc' = to
  /\ UNCHANGED <<config, mutex, call, sends>>

HandleWrite ==
  /\ watched
  /\ LoopStep("idle", IF queue_active = << >> THEN "swap" ELSE "send")
  /\ UNCHANGED <<queues, watched, batch, retval, deleted, wire, history>>

Swap == /\ mutex = None /\ queue_standby # << >>
        /\ LoopStep("swap", "send")
        /\ queue_active' = queue_standby /\ queue_standby' = queue_active
        /\ UNCHANGED <<watched, batch, retval, deleted, wire, history>>

NoDataUnread == /\ mutex = None  \* mutant: the standby queue is not looked at
                /\ LoopStep("swap", "delete_event")
                /\ UNCHANGED <<queues, watched, batch, retval, deleted, wire, history>>
NoData == /\ mutex = None /\ queue_standby = << >>
          /\ LoopStep("swap", "delete_event")
          /\ UNCHANGED <<queues, watched, batch, retval, deleted, wire, history>>

DeleteEvent == /\ LoopStep("delete_event", "idle")
               /\ watched' = FALSE
               /\ UNCHANGED <<queues, batch, retval, deleted, wire, history>>

(* The socket would block, or fails.                                       *)
Writes == mmsg \/ queue_active[1].addrs # << >>
WriteBlocks == /\ LoopStep("send", "idle") /\ Writes
               /\ UNCHANGED <<queues, watched, batch, retval, deleted, wire, history>>
WriteFails == /\ LoopStep("send", "idle") /\ Writes
              /\ deleted' = TRUE /\ failed' = TRUE
              /\ UNCHANGED <<queues, watched, batch, retval, wire, lost, partial>>

(* sendmmsg() takes the first n of a batch.                                *)
Batch == LET all == Queued(queue_active)
         IN  SubSeq(all, 1, IF Len(all) < Iovecs THEN Len(all) ELSE Iovecs)
SendMmsg(n) ==
  /\ mmsg /\ n <= Len(Batch)
  /\ LoopStep("send", "erase")
  /\ wire' = wire \o SubSeq(Batch, 1, n)
  /\ batch' = Batch /\ retval' = n
  /\ UNCHANGED <<queues, watched, deleted, history>>

(* "remain - addrs_size >= 0" is unsigned, and holds always: the whole     *)
(* queue is erased, also what was not in the batch or was not taken.       *)
EraseAll ==
  /\ LoopStep("erase", "idle")
  /\ lost' = lost \cup (ToSet(Queued(queue_active)) \ ToSet(SubSeq(batch, 1, retval)))
  /\ queue_active' = << >>
  /\ batch' = << >> /\ retval' = 0
  /\ UNCHANGED <<queue_standby, watched, deleted, wire, failed, partial>>

(* Without sendmmsg(): the first address of the first buffer.              *)
RestKept(b) == b  \* mutant: the address is not erased
RestOf(b) == [b EXCEPT !.addrs = Tail(b.addrs)]
SendTo ==
  /\ ~mmsg /\ LoopStep("send", "send") /\ Writes
  /\ wire' = Append(wire, Datagrams(queue_active[1])[1])
  /\ queue_active' = [queue_active EXCEPT ![1] = RestOf(@)]
  /\ UNCHANGED <<queue_standby, watched, batch, retval, deleted, history>>

PopFront ==
  /\ LoopStep("send", IF Len(queue_active) = 1 THEN "idle" ELSE "send") /\ ~Writes
  /\ queue_active' = Tail(queue_active)
  /\ UNCHANGED <<queue_standby, watched, batch, retval, deleted, wire, history>>

-----------------------------------------------------------------------------
Send(p) == \/ \E n \in Addresses, range \in BOOLEAN : SendLock(p, n, range)
           \/ DirectTest(p) \/ Enqueue(p) \/ DirectAll(p)
           \/ \E k \in 0 .. call[p].addrs : DirectSome(p, k) \/ DirectFails(p, k)
           \/ AddEvent(p) \/ DeleteHandler(p)

LoopThread == \/ HandleWrite \/ Swap \/ NoData \/ DeleteEvent
              \/ WriteBlocks \/ WriteFails \/ SendTo \/ PopFront
              \/ \E n \in 1 .. Iovecs : SendMmsg(n)
              \/ EraseAll

Next == (\E p \in Senders : Send(p)) \/ LoopThread

Spec == Init /\ [][Next]_vars

-----------------------------------------------------------------------------
TypeOK == /\ mutex \in Senders \cup {None}
          /\ loop_pc \in {"idle", "swap", "send", "erase", "delete_event"}
          /\ retval \in 0 .. Iovecs
          /\ \A p \in Senders :
               /\ call[p].at \in {"idle", "send_i", "direct", "add_event", "delete"}
               /\ mutex = p <=> call[p].at \in {"send_i", "direct"}

(* What is queued and not sent, and the messages still in send_i().        *)
Pending == { call[p].m : p \in { q \in Senders : mutex = q } }
Waiting == (IF loop_pc = "erase" THEN << >> ELSE Queued(queue_active))
             \o Queued(queue_standby)

(* Each datagram goes out at most once, those to one address in the order  *)
(* of the calls, and one that is still queued has not gone out: a direct   *)
(* send never overtakes the queue, which the loop empties without the      *)
(* mutex.  Until the socket fails, what was accepted is sent, queued or    *)
(* erased unsent, and only the build with sendmmsg() erases so.            *)
Accounted ==
  /\ TypeOK
  /\ LET all == wire \o Waiting
     IN  \A i, j \in DOMAIN all :
           i < j => all[i] # all[j] /\ (all[i][2] = all[j][2] => all[i][1] < all[j][1])
  /\ ~mmsg => lost = {}
  /\ ~failed => \A m \in DOMAIN sends \ Pending : \A a \in 1 .. sends[m] :
       <<m, a>> \in ToSet(wire \o Queued(queue_active) \o Queued(queue_standby)) \cup lost

(* "Pushed to the send queue" (SendResult): if the loop thread's handlers  *)
(* do the sending, what is queued when they have returned waits for a      *)
(* write event, and the handler is deleted only when the socket failed.    *)
(* Both fail after a message to a range of addresses of which not all were *)
(* taken, as send() misreads the number that send_i() returns.             *)
Watched ==
  /\ same_thread /\ ~partial /\ ~deleted /\ Idle => (Waiting # << >> => watched)
  /\ ~partial /\ deleted => failed
=============================================================================
