----------------------------- MODULE UdpSource -----------------------------
(***************************************************************************)
(* Opening and closing a UDP source (udpsource.h): its socket is read      *)
(* either by the event loop or by threads of its own, which recv_proc()    *)
(* runs, each blocked in recvmmsg() or recvfrom().                         *)
(*                                                                         *)
(* A thread is an object in threads_, with a state that stop() sets, and a *)
(* run of recv_proc(), which looks its object up by its index.  join()     *)
(* keeps the objects, and start() adds new ones.                           *)
(***************************************************************************)
EXTENDS Naturals, Sequences

CONSTANTS Threads,    \* recv_thread_num
          MaxOpens,   \* bound on the calls of open()
          MaxErrors   \* bound on the receive errors

UdpSourceAssumption ==
  Threads \in Nat \ {0} /\ MaxOpens \in Nat /\ MaxErrors \in Nat

NoFd == 0

VARIABLES mmsg,          \* ZRSOCKET_HAVE_RECVSENDMMSG; never changes
          event_loop,    \* set_interface() was called; never changes
          is_recv_thread,
          handler,       \* handler_ is set
          fd, in_loop,   \* of the handler; a descriptor is the number of its open()
          descriptors,   \* the open ones
          threads,       \* threads_: the states of the objects
          runs,          \* of recv_proc(): [index, fd, at]
          closing,       \* where close() is
          opens, errors  \* counts (errors also of datagrams without bytes)

vars == <<mmsg, event_loop, is_recv_thread, handler, fd, in_loop, descriptors,
          threads, runs, closing, opens, errors>>

Init == /\ mmsg \in BOOLEAN /\ event_loop \in BOOLEAN /\ is_recv_thread \in BOOLEAN
        /\ handler = FALSE /\ fd = NoFd /\ in_loop = FALSE /\ descriptors = {}
        /\ threads = << >> /\ runs = << >> /\ closing = "no"
        /\ opens = 0 /\ errors = 0

-----------------------------------------------------------------------------
(* open().                                                                 *)
MayOpen == ~handler /\ closing = "no" /\ opens < MaxOpens /\ opens' = opens + 1

(* With bind() and no event loop, threads receive.                         *)
Receiving(bind) == IF bind /\ ~event_loop THEN TRUE ELSE is_recv_thread

(* A failure, after which the descriptor is closed again: of the socket or *)
(* the address, before is_recv_thread_ is set; of bind(), handle_open() or *)
(* start(), after that; of add_handler(), when it was cleared.             *)
OpenFails ==
  /\ MayOpen
  /\ \E bind \in BOOLEAN :
       \/ is_recv_thread' \in {is_recv_thread, Receiving(bind)}
       \/ ~(bind /\ Receiving(bind)) /\ event_loop /\ is_recv_thread' = FALSE
  /\ fd' = NoFd
  /\ UNCHANGED <<mmsg, event_loop, handler, in_loop, descriptors,
                 threads, runs, closing, errors>>

(* start(): objects are appended; the indices begin at 0.                  *)
NewRuns == [i \in 1 .. Threads |-> [index |-> i, fd |-> NoFd, at |-> "begin"]]
OpenThreads ==
  /\ MayOpen /\ Receiving(TRUE)
  /\ is_recv_thread' = TRUE /\ handler' = TRUE
  /\ fd' = opens' /\ descriptors' = descriptors \cup {opens'}
  /\ threads' = threads \o [i \in 1 .. Threads |-> "RUNNING"]
  /\ runs' = runs \o NewRuns
  /\ UNCHANGED <<mmsg, event_loop, in_loop, closing, errors>>

(* Without threads: nothing to read without an event loop, else the        *)
(* handler is added to it (if that fails, OpenFails).                      *)
OpenInLoop(bind) ==
  /\ MayOpen /\ ~(bind /\ Receiving(bind))
  /\ handler' = TRUE /\ in_loop' = event_loop
  /\ is_recv_thread' = (is_recv_thread /\ ~event_loop)
  /\ fd' = opens' /\ descriptors' = descriptors \cup {opens'}
  /\ UNCHANGED <<mmsg, event_loop, threads, runs, closing, errors>>

-----------------------------------------------------------------------------
(* recv_proc().                                                            *)
RunStep(r, from, to) ==
  /\ runs[r].at = from /\ runs' = [runs EXCEPT ![r].at = to]
  /\ UNCHANGED <<mmsg, event_loop, is_recv_thread, handler, fd, in_loop,
                 descriptors, threads, closing, opens>>

Begin(r) == /\ runs[r].at = "begin"
            /\ runs' = [runs EXCEPT ![r] = [@ EXCEPT !.at = "test", !.fd = fd]]
            /\ UNCHANGED <<mmsg, event_loop, is_recv_thread, handler, fd, in_loop,
                           descriptors, threads, closing, opens, errors>>

TestState(r) ==
  /\ RunStep(r, "test", IF threads[runs[r].index] = "RUNNING" THEN "recv" ELSE "ended")
  /\ UNCHANGED errors

(* A closed descriptor is an error at once; a call that is blocked already *)
(* keeps its socket, and goes on when a datagram arrives.                  *)
Receive(r) ==
  /\ RunStep(r, "recv", IF runs[r].fd \in descriptors THEN "blocked" ELSE "ended")
  /\ UNCHANGED errors

Datagram(r) == /\ RunStep(r, "blocked", "handle_read") /\ UNCHANGED errors

(* An error ends the thread for good; so does, for recvfrom(), a datagram  *)
(* without any bytes.                                                      *)
ReceiveFails(r) == /\ errors < MaxErrors
                   /\ RunStep(r, "blocked", "ended")
                   /\ errors' = errors + 1
EmptyDatagram(r) == /\ errors < MaxErrors
                    /\ RunStep(r, "blocked", IF mmsg THEN "handle_read" ELSE "ended")
                    /\ errors' = IF mmsg THEN errors ELSE errors + 1

HandleRead(r) == /\ RunStep(r, "handle_read", "test") /\ UNCHANGED errors

RecvProc(r) == \/ Begin(r) \/ TestState(r) \/ Receive(r) \/ Datagram(r)
               \/ ReceiveFails(r) \/ EmptyDatagram(r) \/ HandleRead(r)

-----------------------------------------------------------------------------
(* close(): stop the threads, close the descriptor (handle_close(), or     *)
(* through delete_handler()), then join them.                              *)
Stop == /\ closing = "no" /\ handler
        /\ closing' = "close"
        /\ threads' = [i \in DOMAIN threads |->
                         IF threads[i] = "RUNNING" THEN "STOPPED" ELSE threads[i]]
        /\ UNCHANGED <<mmsg, event_loop, is_recv_thread, handler, fd, in_loop,
                       descriptors, runs, opens, errors>>

CloseFd == /\ closing = "close"
           /\ closing' = "join"
           /\ in_loop' = FALSE /\ fd' = NoFd /\ descriptors' = descriptors \ {fd}
           /\ UNCHANGED <<mmsg, event_loop, is_recv_thread, handler, threads,
                          runs, opens, errors>>

JoinedStates == [i \in DOMAIN threads |-> "JOINED"]
JoinDetached ==  \* mutant: the threads are not waited for
  /\ closing = "join" /\ closing' = "no" /\ handler' = FALSE
  /\ threads' = JoinedStates
  /\ UNCHANGED <<mmsg, event_loop, is_recv_thread, fd, in_loop, descriptors,
                 runs, opens, errors>>
Join ==
  /\ closing = "join" /\ \A r \in DOMAIN runs : runs[r].at = "ended"
  /\ closing' = "no" /\ handler' = FALSE
  /\ threads' = JoinedStates
  /\ UNCHANGED <<mmsg, event_loop, is_recv_thread, fd, in_loop, descriptors,
                 runs, opens, errors>>

Next == \/ OpenFails \/ OpenThreads \/ \E bind \in BOOLEAN : OpenInLoop(bind)
        \/ \E r \in DOMAIN runs : RecvProc(r)
        \/ Stop \/ CloseFd \/ Join

Spec == Init /\ [][Next]_vars

-----------------------------------------------------------------------------
TypeOK == /\ fd \in descriptors \cup {NoFd} /\ descriptors \subseteq 1 .. opens
          /\ closing \in {"no", "close", "join"}
          /\ \A i \in DOMAIN threads : threads[i] \in {"RUNNING", "STOPPED", "JOINED"}
          /\ \A r \in DOMAIN runs : runs[r].index \in DOMAIN threads

(* When close() has returned, also after an open() that failed, no         *)
(* descriptor is left open, no thread of the source is in handle_read() or *)
(* will be, and the loop does not know the handler; while it is open there *)
(* is one descriptor, and threads or the loop read it but never both.      *)
ClosedIsQuiet ==
  /\ TypeOK
  /\ ~handler => /\ descriptors = {} /\ ~in_loop
                 /\ \A r \in DOMAIN runs : runs[r].at = "ended"
  /\ handler /\ closing = "no" => descriptors = {fd} /\ fd # NoFd
  /\ in_loop => \A r \in DOMAIN runs : runs[r].at = "ended"
=============================================================================
