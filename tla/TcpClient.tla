------------------------------ MODULE TcpClient ------------------------------
(***************************************************************************)
(* The life of a TcpClient (tcpclient.h) in an EpollEventLoop: connect()   *)
(* with its ways to fail, the loop's handling of EPOLLOUT on a connecting  *)
(* socket, delete_handler() with free_handler(), which connects again if   *)
(* auto_connected_, and open() and close() by the user: in the loop thread *)
(* (from callbacks and events) or in a thread of its own.                  *)
(*                                                                         *)
(* connect() is the non-blocking one, without a local address to bind,     *)
(* unless the kernel connects at once.  The mutex of the loop makes        *)
(* add_handler() one step here; TcpServer looks inside.                    *)
(***************************************************************************)
EXTENDS Naturals, FiniteSets, FiniteSetsExt

CONSTANTS MaxConns,   \* bound on the sockets the client opens
          MaxOpens    \* bound on the calls of open()

ClientAssumption == MaxConns \in Nat \ {0} /\ MaxOpens \in Nat

None == 0
Conns == 1 .. MaxConns
Fds == 1 .. 3
Threads == {"loop", "user"}

VARIABLES caller,          \* who calls open() and close(): "loop", "user"
          source_state,    \* source_state_
          auto_connected,  \* auto_connected_
          h,               \* client_handler_: fd, in_event_loop, mask
          sock,            \* per descriptor: its connection, the kernel's table
          conn,            \* per connection: its state
          epoll,           \* per descriptor: the events asked for
          loop,            \* the loop thread: where it is, what was reported
          call,            \* per thread: where it is in which call
          fd,              \* per thread: the descriptor in its hands
          opens,           \* calls of open() so far
          refusal,         \* whether connect() has ended at once with an error
          reported         \* connections handle_connect() was called for

vars == <<caller, source_state, auto_connected, h, sock, conn, epoll, loop, call,
          fd, opens, refusal, reported>>
kernel == <<sock, conn, epoll>>
history == <<opens, refusal, reported>>

Init == /\ caller \in Threads
        /\ source_state = "closed"
        /\ auto_connected \in BOOLEAN
        /\ h = [fd |-> None, in_event_loop |-> FALSE, mask |-> {}]
        /\ sock = [f \in Fds |-> None]
        /\ conn = [c \in Conns |-> "none"]
        /\ epoll = [f \in Fds |-> {}]
        /\ loop = [pc |-> "wait", events |-> {}]
        /\ call = [t \in Threads |-> "none"]
        /\ fd = [t \in Threads |-> None]
        /\ opens = 0 /\ refusal = FALSE /\ reported = {}

-----------------------------------------------------------------------------
(* The network: a connection attempt is answered, a connection breaks.     *)
Answer(c, up) == /\ conn[c] = "connecting"
                 /\ conn' = [conn EXCEPT ![c] = IF up THEN "up" ELSE "failed"]
                 /\ UNCHANGED <<caller, source_state, auto_connected, h, sock, epoll,
                                loop, call, fd, history>>

Break(c) == /\ conn[c] = "up"
            /\ conn' = [conn EXCEPT ![c] = "failed"]
            /\ UNCHANGED <<caller, source_state, auto_connected, h, sock, epoll, loop,
                           call, fd, history>>

CloseFd(f) == /\ sock' = [sock EXCEPT ![f] = None]
              /\ epoll' = [epoll EXCEPT ![f] = {}]
              /\ conn' = IF sock[f] = None THEN conn
                         ELSE [conn EXCEPT ![sock[f]] = "closed"]

Goto(t, pc) == call' = [call EXCEPT ![t] = pc]

-----------------------------------------------------------------------------
(***************************************************************************)
(* connect(), called by open() and by free_handler().                      *)
(***************************************************************************)
Unused == { c \in Conns : conn[c] = "none" }

(* It does nothing unless source_state_ is CLOSED, also if another attempt *)
(* is in progress.  If no socket can be had, CONNECTING is left behind.    *)
ConnectNothing(t) ==
  /\ call[t] = "connect" /\ source_state # "closed"
  /\ Goto(t, "none")
  /\ UNCHANGED <<caller, source_state, auto_connected, h, kernel, loop, fd, history>>

NoSocket(t) ==
  /\ call[t] = "connect" /\ source_state = "closed"
  /\ source_state' = "connecting"
  /\ refusal' = TRUE
  /\ Goto(t, "none")
  /\ UNCHANGED <<caller, auto_connected, h, kernel, loop, fd, opens, reported>>

OpenSocket(t) ==
  /\ call[t] = "connect" /\ source_state = "closed"
  /\ Unused # {} /\ \E f \in Fds : sock[f] = None
  /\ LET f == Min({ g \in Fds : sock[g] = None })
         c == Min(Unused)
     IN  /\ sock' = [sock EXCEPT ![f] = c]
         /\ conn' = [conn EXCEPT ![c] = "opened"]
         /\ fd' = [fd EXCEPT ![t] = f]
  /\ source_state' = "connecting"
  /\ Goto(t, "start")
  /\ UNCHANGED <<caller, auto_connected, h, epoll, loop, history>>

(* socket_connect(): the connection is in progress, or stands at once; the *)
(* handler is initialised and opened.                                      *)
Start(t, at_once) ==
  /\ call[t] = "start" /\ sock[fd[t]] # None
  /\ conn' = [conn EXCEPT ![sock[fd[t]]] = IF at_once THEN "up" ELSE "connecting"]
  /\ source_state' = IF at_once THEN "connected" ELSE source_state
  /\ h' = [h EXCEPT !.fd = fd[t]]
  /\ Goto(t, IF at_once THEN "add_read" ELSE "add_write")
  /\ UNCHANGED <<caller, auto_connected, sock, epoll, loop, fd, history>>

(* Any other error of socket_connect(), or of handle_open() when fd_ has   *)
(* been set, which keeps its value: the client is closed, and nobody tries *)
(* again.                                                                  *)
StartFails(t, opened) ==
  /\ call[t] = "start"
  /\ refusal' = TRUE
  /\ h' = IF opened THEN [h EXCEPT !.fd = fd[t]] ELSE h
  /\ source_state' = "closed"
  /\ CloseFd(fd[t])
  /\ fd' = [fd EXCEPT ![t] = None]
  /\ Goto(t, "none")
  /\ UNCHANGED <<caller, auto_connected, loop, opens, reported>>

(* add_handler(): it refuses a handler that is in the loop already.  A     *)
(* connecting socket waits to become writable.                             *)
AddHandler(t) ==
  /\ call[t] \in {"add_read", "add_write"}
  /\ LET events == IF call[t] = "add_read" THEN {"read"} ELSE {"write"}
     IN  IF h.in_event_loop \/ h.fd = None \/ sock[h.fd] = None
         THEN /\ source_state' = "closed"
              /\ refusal' = TRUE
              /\ CloseFd(fd[t])
              /\ UNCHANGED h
         ELSE /\ epoll' = [epoll EXCEPT ![h.fd] = events]
              /\ h' = [h EXCEPT !.in_event_loop = TRUE, !.mask = events]
              /\ UNCHANGED <<source_state, sock, conn, refusal>>
  /\ fd' = [fd EXCEPT ![t] = None]
  /\ Goto(t, "none")
  /\ UNCHANGED <<caller, auto_connected, loop, opens, reported>>

Connect(t) == \/ ConnectNothing(t) \/ NoSocket(t) \/ OpenSocket(t)
              \/ \E b \in BOOLEAN : Start(t, b) \/ StartFails(t, b)
              \/ AddHandler(t)

-----------------------------------------------------------------------------
(***************************************************************************)
(* open() and close() by the user.                                         *)
(***************************************************************************)
(* In the loop thread they are called between two events, or by a callback *)
(* of this handler or of an earlier one of the batch.                      *)
MayCall == call[caller] = "none"

Open == /\ MayCall /\ opens < MaxOpens
        /\ opens' = opens + 1
        /\ Goto(caller, "connect")
        /\ UNCHANGED <<caller, source_state, auto_connected, h, kernel, loop, fd,
                       refusal, reported>>

Close == /\ MayCall /\ opens > 0
         /\ auto_connected' = FALSE
         /\ source_state' = "closed"
         /\ Goto(caller, "remove")
         /\ UNCHANGED <<caller, h, kernel, loop, fd, history>>

(* remove_handler(): epoll_ctl fails for a closed descriptor.              *)
Remove(t) ==
  /\ call[t] = "remove"
  /\ IF h.in_event_loop /\ h.fd # None /\ epoll[h.fd] # {}
     THEN /\ epoll' = [epoll EXCEPT ![h.fd] = {}]
          /\ h' = [h EXCEPT !.in_event_loop = FALSE, !.mask = {}]
     ELSE UNCHANGED <<epoll, h>>
  /\ Goto(t, "close")
  /\ UNCHANGED <<caller, source_state, auto_connected, sock, conn, loop, fd, history>>

(* client_handler_.close(), and handle_close() in delete_handler(): the    *)
(* test of fd_ and ::close(fd_), then fd_ = INVALID.                       *)
CloseSocket(t) ==
  /\ call[t] \in {"close", "handle_close"}
  /\ IF h.fd = None THEN UNCHANGED kernel ELSE CloseFd(h.fd)
  /\ Goto(t, IF call[t] = "close" THEN "forget" ELSE "handle_forget")
  /\ UNCHANGED <<caller, source_state, auto_connected, h, loop, fd, history>>

Forget(t) ==
  /\ call[t] \in {"forget", "handle_forget"}
  /\ h' = [h EXCEPT !.fd = None]
  /\ Goto(t, IF call[t] = "forget" THEN "none" ELSE "free")
  /\ UNCHANGED <<caller, source_state, auto_connected, kernel, loop, fd, history>>

-----------------------------------------------------------------------------
(***************************************************************************)
(* The loop thread.  EPOLLOUT is reported for a writable socket and for a  *)
(* failed one; of the bits reported the loop tests EPOLLIN and EPOLLOUT.   *)
(***************************************************************************)
Events(f) == CASE conn[sock[f]] = "up" -> epoll[f]
               [] conn[sock[f]] = "failed" -> epoll[f]
               [] OTHER -> {}

LoopGoesOn == call["loop"] = "none"

EpollWait == /\ loop.pc = "wait" /\ LoopGoesOn
             /\ \E f \in Fds :
                  /\ sock[f] # None /\ Events(f) # {}
                  /\ loop' = [pc |-> "in", events |-> Events(f)]
             /\ UNCHANGED <<caller, source_state, auto_connected, h, kernel, call, fd,
                            history>>

Broken == IF h.fd = None THEN TRUE
          ELSE IF sock[h.fd] = None THEN TRUE ELSE conn[sock[h.fd]] = "failed"

HandleRead ==
  /\ loop.pc = "in" /\ LoopGoesOn
  /\ IF "read" \in loop.events /\ Broken
     THEN Goto("loop", "delete") /\ loop' = [loop EXCEPT !.pc = "wait"]
     ELSE loop' = [loop EXCEPT !.pc = "out"] /\ UNCHANGED call
  /\ UNCHANGED <<caller, source_state, auto_connected, h, kernel, fd, history>>

(* EPOLLOUT: handle_write(), or the end of the connection attempt.  Bytes  *)
(* to write are not modelled: handle_write() deletes the write event.      *)
HandleWrite ==
  /\ loop.pc = "out" /\ LoopGoesOn
  /\ "write" \in loop.events => source_state # "connecting"
  /\ loop' = [loop EXCEPT !.pc = "wait"]
  /\ IF "write" \in loop.events /\ Broken THEN Goto("loop", "delete")
     ELSE UNCHANGED call
  /\ UNCHANGED <<caller, source_state, auto_connected, h, kernel, fd, history>>

ConnectedKeepsMask ==  \* mutant: without set_event()
  /\ loop.pc = "out" /\ LoopGoesOn
  /\ "write" \in loop.events /\ source_state = "connecting"
  /\ loop' = [loop EXCEPT !.pc = "wait"]
  /\ epoll' = [f \in Fds |-> epoll[f] \ {"write"}]
  /\ h' = [h EXCEPT !.mask = {}]
  /\ source_state' = "connected"
  /\ reported' = IF h.fd = None THEN reported ELSE reported \cup {sock[h.fd]}
  /\ UNCHANGED <<caller, auto_connected, sock, conn, call, fd, opens, refusal>>

(* set_event(READ), CONNECTED, handle_connect().                           *)
Connected ==
  /\ loop.pc = "out" /\ LoopGoesOn
  /\ "write" \in loop.events /\ source_state = "connecting"
  /\ loop' = [loop EXCEPT !.pc = "wait"]
  /\ IF h.in_event_loop /\ h.fd # None /\ epoll[h.fd] # {}
     THEN /\ epoll' = [epoll EXCEPT ![h.fd] = {"read"}]
          /\ h' = [h EXCEPT !.mask = {"read"}]
     ELSE UNCHANGED <<epoll, h>>
  /\ source_state' = "connected"
  /\ reported' = IF h.fd = None THEN reported ELSE reported \cup {sock[h.fd]}
  /\ UNCHANGED <<caller, auto_connected, sock, conn, call, fd, opens, refusal>>

(* delete_handler(): under the mutex ...                                   *)
DeleteHandler ==
  /\ call["loop"] = "delete"
  /\ IF h.in_event_loop /\ h.fd # None /\ epoll[h.fd] # {}
     THEN /\ epoll' = [epoll EXCEPT ![h.fd] = {}]
          /\ h' = [h EXCEPT !.in_event_loop = FALSE, !.mask = {}]
          /\ Goto("loop", "handle_close")
     ELSE Goto("loop", "none") /\ UNCHANGED <<epoll, h>>
  /\ UNCHANGED <<caller, source_state, auto_connected, sock, conn, loop, fd, history>>

FreeHandlerKeepsState ==  \* mutant: source_state_ stays CONNECTED
  /\ call["loop"] = "free"
  /\ Goto("loop", IF auto_connected THEN "connect" ELSE "none")
  /\ UNCHANGED <<caller, source_state, auto_connected, h, kernel, loop, fd, history>>

(* ... and free_handler(), which connects again.                           *)
FreeHandler ==
  /\ call["loop"] = "free"
  /\ source_state' = "closed"
  /\ Goto("loop", IF auto_connected THEN "connect" ELSE "none")
  /\ UNCHANGED <<caller, auto_connected, h, kernel, loop, fd, history>>

-----------------------------------------------------------------------------
Calls(t) == Connect(t) \/ Remove(t) \/ CloseSocket(t) \/ Forget(t)

LoopThread == \/ EpollWait \/ HandleRead \/ HandleWrite \/ Connected
              \/ DeleteHandler \/ FreeHandler \/ Calls("loop")

Next == \/ \E c \in Conns : Break(c) \/ \E up \in BOOLEAN : Answer(c, up)
        \/ Open \/ Close
        \/ LoopThread \/ Calls("user")

Spec == Init /\ [][Next]_vars

(* The threads run; no connection attempt has to be answered.              *)
Fairness == WF_vars(LoopThread) /\ WF_vars(Calls("user"))
FairSpec == Spec /\ Fairness

-----------------------------------------------------------------------------
TypeOK ==
  /\ source_state \in {"closed", "connecting", "connected"}
  /\ h.fd \in Fds \cup {None} /\ h.mask \subseteq {"read", "write"}
  /\ sock \in [Fds -> Conns \cup {None}]
  /\ conn \in [Conns -> {"none", "opened", "connecting", "up", "failed", "closed"}]
  /\ call \in [Threads -> {"none", "connect", "start", "add_read", "add_write",
                           "remove", "close", "forget", "delete", "handle_close",
                           "handle_forget", "free"}]
  /\ opens \in 0 .. MaxOpens

(* With all calls in the loop thread, whatever closes and opens in between *)
(* and however connect() ends: outside a call the client has at most one   *)
(* descriptor, the handler's, registered for what source_state_ says; and  *)
(* a client that is CLOSED has none.  No call with an old descriptor ever  *)
(* touches the next connection.                                            *)
OpenFds == { f \in Fds : sock[f] # None }
ClientConsistent ==
  /\ TypeOK
  /\ (caller = "loop" /\ call["loop"] = "none") =>
       /\ OpenFds = IF h.in_event_loop THEN {h.fd} ELSE {}
       /\ h.in_event_loop => epoll[h.fd] = h.mask
       /\ h.in_event_loop =>
            h.mask = CASE source_state = "connecting" -> {"write"}
                       [] source_state = "connected" -> {"read"}
                       [] source_state = "closed" -> {}

(* With auto_connected_ a connection that failed, or whose attempt failed, *)
(* is followed by a new attempt, unless connect() ended with an error at   *)
(* once: then free_handler() has ignored its result, and nobody tries      *)
(* again.                                                                  *)
Reconnects ==
  \A c \in Conns \ {MaxConns} :
    (caller = "loop" /\ auto_connected /\ conn[c] = "failed")
      ~> (refusal \/ ~auto_connected \/ conn[c + 1] # "none")

(* handle_connect() is called for connections that stand: epoll_event_loop *)
(* says "nonblock connect: tcpclient connect success" where it calls it.   *)
ConnectSuccess ==
  [][\A c \in reported' \ reported : conn[c] = "up"]_vars
=============================================================================
