------------------------------ MODULE MCEvents ------------------------------
(***************************************************************************)
(* What the event loop's thread shares with the threads that call it: its  *)
(* event queue and wake-up, the send queues of a connection and of a UDP   *)
(* socket, and the receive threads of a UdpSource, each by itself: `part`  *)
(* says which of them takes its steps in a behaviour; the others stay as   *)
(* they begin.                                                             *)
(***************************************************************************)
EXTENDS EventLoop

CONSTANTS Senders, NoSender, Modes, MsgSize, MaxSends, Addresses, Iovecs,
          Threads, MaxOpens, MaxErrors

VARIABLE part  \* the component whose steps the behaviour takes

VARIABLES same_thread, queue_active, queue_standby, messages_mutex,
          event_mask, epollout, send_pc, messages_loop_pc, send_bytes, sent,
          wire
VARIABLES mmsg, udp_same_thread, udp_queue_active, udp_queue_standby,
          udp_mutex, watched, call, udp_loop_pc, batch, retval, deleted,
          sends, udp_wire, lost, failed, partial
VARIABLES source_mmsg, event_loop, is_recv_thread, handler, fd, in_loop,
          descriptors, threads, runs, closing, opens, errors

Messages == INSTANCE MessageHandler
      WITH None <- NoSender, mutex <- messages_mutex,
           loop_pc <- messages_loop_pc
Udp == INSTANCE UdpHandler
      WITH None <- NoSender, same_thread <- udp_same_thread,
           queue_active <- udp_queue_active,
           queue_standby <- udp_queue_standby, mutex <- udp_mutex,
           loop_pc <- udp_loop_pc, wire <- udp_wire
Source == INSTANCE UdpSource
      WITH mmsg <- source_mmsg

messagesVars == <<same_thread, queue_active, queue_standby, messages_mutex,
                  event_mask, epollout, send_pc, messages_loop_pc,
                  send_bytes, sent, wire>>
udpVars == <<mmsg, udp_same_thread, udp_queue_active, udp_queue_standby,
             udp_mutex, watched, call, udp_loop_pc, batch, retval, deleted,
             sends, udp_wire, lost, failed, partial>>
sourceVars == <<source_mmsg, event_loop, is_recv_thread, handler, fd,
                in_loop, descriptors, threads, runs, closing, opens, errors>>
allVars == <<part, vars, messagesVars, udpVars, sourceVars>>

(* The other components stay in one of their initial states.              *)
Still == Init /\ timed
MessagesStill == Messages!Init /\ same_thread
UdpStill == Udp!Init /\ mmsg /\ udp_same_thread
SourceStill == Source!Init /\ source_mmsg /\ event_loop /\ is_recv_thread

AllInit ==
  \/ /\ part = "queue" /\ MessagesStill /\ UdpStill /\ SourceStill /\ Init
  \/ /\ part = "messages" /\ Still /\ UdpStill /\ SourceStill
     /\ Messages!Init
  \/ /\ part = "udp" /\ Still /\ MessagesStill /\ SourceStill /\ Udp!Init
  \/ /\ part = "source" /\ Still /\ MessagesStill /\ UdpStill
     /\ Source!Init

AllNext ==
  \/ /\ part = "queue" /\ Next
     /\ UNCHANGED <<part, messagesVars, udpVars, sourceVars>>
  \/ /\ part = "messages" /\ Messages!Next
     /\ UNCHANGED <<part, vars, udpVars, sourceVars>>
  \/ /\ part = "udp" /\ Udp!Next
     /\ UNCHANGED <<part, vars, messagesVars, sourceVars>>
  \/ /\ part = "source" /\ Source!Next
     /\ UNCHANGED <<part, vars, messagesVars, udpVars>>

AllFairness ==
  /\ WF_vars(part = "queue" /\ LoopStep)
  /\ \A p \in Producers : WF_vars(part = "queue" /\ PushReturns(p))
  /\ \A p \in Callers : WF_vars(part = "queue" /\ Caller(p))
  /\ WF_vars(part = "queue" /\ JoinReturns)

AllSpec == AllInit /\ [][AllNext]_allVars /\ AllFairness

ASSUME EventsAssumption == /\ Messages!MessageAssumption
                           /\ Udp!UdpAssumption
                           /\ Source!UdpSourceAssumption

-----------------------------------------------------------------------------
(* The bytes of all messages reach the socket undivided and in order.      *)
InOrder == part = "messages" => Messages!InOrder

(* What the loop's own thread had to queue is watched for EPOLLOUT.        *)
LoopThreadSendsAreWatched ==
  part = "messages" => Messages!LoopThreadSendsAreWatched

(* Each UDP datagram goes out at most once and in order; what was accepted *)
(* is sent or queued, unless sendmmsg() erased it.                         *)
Accounted == part = "udp" => Udp!Accounted

(* What was queued for a UDP socket is watched for EPOLLOUT.               *)
Watched == part = "udp" => Udp!Watched

(* After close() of a UdpSource no thread receives.                        *)
ClosedIsQuiet == part = "source" => Source!ClosedIsQuiet
=============================================================================
