------------------------------ MODULE TcpServer ------------------------------
(***************************************************************************)
(* The life of the connections of a TcpServer in an EpollEventLoop: accept *)
(* (tcpserver.h, tcpserver_handler.h), the pool the handlers come from     *)
(* (ZRSocketObjectPool), their registration, the batch of ready handlers   *)
(* the loop works through, and delete_handler(), which the loop calls when *)
(* a handler fails and other threads call when send() fails.               *)
(*                                                                         *)
(* Descriptors are numbers the kernel reuses, the lowest free one first;   *)
(* closing one ends its registration with epoll.  What is read and written *)
(* on a connection is in MessageHandler; here a connection is up or has    *)
(* failed.  One connection loop is modelled: an EventLoopGroup gives each  *)
(* handler to one of its loops.                                            *)
(***************************************************************************)
EXTENDS Naturals, Sequences, FiniteSets, SequencesExt, FiniteSetsExt

CONSTANTS MaxChunks, PerChunk,  \* max_chunk_size_ and per_chunk_size_
          MaxConns,             \* bound on the connections that arrive
          MaxFds                \* the limit of open descriptors

ASSUME ServerAssumption == /\ {MaxChunks, PerChunk, MaxConns, MaxFds} \subseteq Nat
                           /\ MaxChunks > 0 /\ PerChunk > 0

Handlers == 1 .. MaxChunks * PerChunk
Fds == 1 .. MaxFds
Conns == 1 .. MaxConns
Threads == {"loop", "sender"}   \* those that call delete_handler()
None == 0                       \* nullptr, ZRSOCKET_INVALID_SOCKET
Listener == Max(Handlers) + 1   \* server_handler_, in the batch of its loop

VARIABLES accepts,   \* who accepts: "thread" (accept_proc), "other_loop"
                     \* (accept_event_loop_) or "same_loop"; never changes
          free,      \* free_objects_, the next one to be taken last
          chunks,    \* object_chunks_.size()
          handler,   \* the EventHandler members
          sock,      \* per descriptor: its connection, the kernel's table
          epoll,     \* per descriptor: the handler registered for it
          conn,      \* per connection: its state
          acc,       \* the accepting thread: pc, fd, handler
          loop,      \* the loop thread: pc, the batch, the current handler
          del,       \* per thread: where it is in delete_handler()
          sender,    \* whether there is another thread that sends
          live,      \* handlers the application has seen opened, not closed
          excused    \* connections that gave a reason to be closed (history)

vars == <<accepts, free, chunks, handler, sock, epoll, conn, acc, loop, del,
          sender, live, excused>>
pool == <<free, chunks>>
kernel == <<sock, epoll, conn>>

Fresh == [fd |-> None, in_event_loop |-> FALSE, event_loop |-> FALSE,
          in_object_pool |-> TRUE, conn |-> None]

Init == /\ accepts \in {"thread", "other_loop", "same_loop"}
        /\ free = << >> /\ chunks = 0
        /\ handler = [h \in Handlers |-> Fresh]
        /\ sock = [f \in Fds |-> None] /\ epoll = [f \in Fds |-> None]
        /\ conn = [c \in Conns |-> "none"]
        /\ acc = [pc |-> "idle", fd |-> None, h |-> None]
        /\ loop = [pc |-> "wait", batch |-> {}, h |-> None]
        /\ del = [t \in Threads |-> [pc |-> "none", h |-> None]]
        /\ sender \in BOOLEAN
        /\ live = {} /\ excused = {}

-----------------------------------------------------------------------------
(* The network: a client connects, and a connection breaks.                *)
Arrive(c) == /\ conn[c] = "none"
             /\ \A b \in Conns : b < c => conn[b] # "none"
             /\ conn' = [conn EXCEPT ![c] = "queued"]
             /\ UNCHANGED <<accepts, pool, handler, sock, epoll, acc, loop, del,
                            sender, live, excused>>

Break(c) == /\ conn[c] = "up"
            /\ conn' = [conn EXCEPT ![c] = "failed"]
            /\ excused' = excused \cup {c}
            /\ UNCHANGED <<accepts, pool, handler, sock, epoll, acc, loop, del,
                           sender, live>>

Queued == { c \in Conns : conn[c] = "queued" }
FreeFds == { f \in Fds : sock[f] = None }

-----------------------------------------------------------------------------
(* ZRSocketObjectPool::pop() and push(), under the pool's mutex.           *)
Chunk(k) == [i \in 1 .. PerChunk |-> (k - 1) * PerChunk + i]
Grown == IF free = << >> /\ chunks < MaxChunks THEN Chunk(chunks + 1) ELSE free

PoolPop == /\ Grown # << >>
           /\ free' = Front(Grown)
           /\ chunks' = IF Grown = free THEN chunks ELSE chunks + 1

(* free_handler(handler)                                                   *)
FreeHandler(h) ==
  /\ free' = IF handler[h].in_object_pool THEN free ELSE Append(free, h)
  /\ UNCHANGED chunks
  /\ handler' = [handler EXCEPT ![h].in_object_pool = TRUE]

-----------------------------------------------------------------------------
(***************************************************************************)
(* Accepting: handle_read() of the TcpServerHandler in an event loop, or   *)
(* accept_proc() with handle_accept() in a thread of its own.              *)
(***************************************************************************)
MayAccept == IF accepts = "same_loop" THEN loop.pc = "accept" ELSE acc.pc = "idle"

Accept == /\ MayAccept /\ acc.pc = "idle"
          /\ Queued # {} /\ FreeFds # {}
          /\ LET c == Min(Queued)
                 f == Min(FreeFds)
             IN  /\ sock' = [sock EXCEPT ![f] = c]
                 /\ conn' = [conn EXCEPT ![c] = "up"]
                 /\ acc' = [acc EXCEPT !.pc = "alloc", !.fd = f]
          /\ UNCHANGED <<accepts, pool, handler, epoll, loop, del, sender, live,
                         excused>>

(* accept() fails: no connection is waiting, no descriptor is left, or the *)
(* call was interrupted.  A loop goes on to its next event, but            *)
(* accept_proc() ends, and nobody accepts any more.                        *)
AcceptEnds ==
  /\ MayAccept /\ acc.pc = "idle"
  /\ accepts # "other_loop"
  /\ acc' = [acc EXCEPT !.pc = IF accepts = "thread" THEN "ended" ELSE "idle"]
  /\ loop' = IF accepts = "same_loop" THEN [loop EXCEPT !.pc = "batch"] ELSE loop
  /\ UNCHANGED <<accepts, pool, handler, kernel, del, sender, live, excused>>

(* alloc_handler() and init().  event_loop_ is left as it was: it is null  *)
(* until add_handler() has run once for this handler.                      *)
AllocHandler ==
  /\ acc.pc = "alloc"
  /\ PoolPop
  /\ LET h == Last(Grown)
     IN  /\ handler' = [handler EXCEPT ![h] =
                          [@ EXCEPT !.fd = acc.fd, !.conn = sock[acc.fd],
                                    !.in_object_pool = FALSE]]
         /\ acc' = [acc EXCEPT !.pc = "open", !.h = h]
  /\ UNCHANGED <<accepts, kernel, loop, del, sender, live, excused>>

(* The pool is empty and may not grow: the connection is refused.          *)
AllocFails ==
  /\ acc.pc = "alloc"
  /\ Grown = << >>
  /\ excused' = excused \cup {sock[acc.fd]}
  /\ acc' = [acc EXCEPT !.pc = "close"]
  /\ UNCHANGED <<accepts, pool, handler, kernel, loop, del, sender, live>>

(* handle_open(), which may fail; the application knows the handler now.   *)
HandleOpen(ok) ==
  /\ acc.pc = "open"
  /\ acc' = [acc EXCEPT !.pc = IF ok THEN "add" ELSE "free"]
  /\ live' = IF ok THEN live \cup {acc.h} ELSE live
  /\ excused' = IF ok THEN excused ELSE excused \cup {handler[acc.h].conn}
  /\ UNCHANGED <<accepts, pool, handler, kernel, loop, del, sender>>

(* add_handler(): the mutex is taken and held until AddFlags, which makes  *)
(* what epoll_wait may already report known to the other threads.  It      *)
(* fails for a handler that is in a loop, and when epoll_ctl does.         *)
AddCtl ==
  /\ acc.pc = "add"
  /\ ~handler[acc.h].in_event_loop
  /\ epoll' = [epoll EXCEPT ![handler[acc.h].fd] = acc.h]
  /\ acc' = [acc EXCEPT !.pc = "flags"]
  /\ UNCHANGED <<accepts, pool, handler, sock, conn, loop, del, sender, live, excused>>

AddFails ==
  /\ acc.pc = "add"
  /\ acc' = [acc EXCEPT !.pc = "free"]
  /\ excused' = excused \cup {handler[acc.h].conn}
  /\ UNCHANGED <<accepts, pool, handler, kernel, loop, del, sender, live>>

AddFlags ==
  /\ acc.pc = "flags"
  /\ handler' = [handler EXCEPT ![acc.h] = [@ EXCEPT !.in_event_loop = TRUE,
                                                  !.event_loop = TRUE]]
  /\ acc' = [pc |-> "idle", fd |-> None, h |-> None]
  /\ UNCHANGED <<accepts, pool, kernel, loop, del, sender, live, excused>>

LoopMutexFree == acc.pc # "flags"

(* The failed handler goes back to the pool.  accept_proc() then closes    *)
(* the descriptor; handle_read() does not.                                 *)
AcceptFree ==
  /\ acc.pc = "free"
  /\ FreeHandler(acc.h)
  /\ acc' = IF accepts = "thread" THEN [acc EXCEPT !.pc = "close"]
            ELSE [pc |-> "idle", fd |-> None, h |-> None]
  /\ UNCHANGED <<accepts, kernel, loop, del, sender, live, excused>>

CloseFd(f) == /\ sock' = [sock EXCEPT ![f] = None]
              /\ epoll' = [epoll EXCEPT ![f] = None]
              /\ conn' = IF sock[f] = None THEN conn
                         ELSE [conn EXCEPT ![sock[f]] = "closed"]

AcceptClose ==
  /\ acc.pc = "close"
  /\ CloseFd(acc.fd)
  /\ acc' = [pc |-> "idle", fd |-> None, h |-> None]
  /\ UNCHANGED <<accepts, pool, handler, loop, del, sender, live, excused>>

-----------------------------------------------------------------------------
(* loop(): epoll_wait is level-triggered and reports handlers, each once.  *)
(* It reports every connection that has failed and those with data.        *)
Registered == { f \in Fds : epoll[f] # None }
Failed == { f \in Registered : conn[sock[f]] = "failed" }
Listening == IF accepts = "same_loop" /\ Queued # {} THEN {Listener} ELSE {}

EpollWait ==
  /\ loop.pc = "wait"
  /\ \E data \in SUBSET (Registered \ Failed) :
       LET batch == Listening \cup { epoll[f] : f \in Failed \cup data }
       IN  /\ batch # {}
           /\ loop' = [loop EXCEPT !.pc = "batch", !.batch = batch]
  /\ UNCHANGED <<accepts, pool, handler, kernel, acc, del, sender, live, excused>>

(* The handlers of the batch take their turn in any order.                 *)
NextReady(h) ==
  /\ loop.pc = "batch" /\ h \in loop.batch
  /\ loop' = [pc |-> IF h = Listener THEN "accept" ELSE "read",
              batch |-> loop.batch \ {h}, h |-> h]
  /\ UNCHANGED <<accepts, pool, handler, kernel, acc, del, sender, live, excused>>

BatchDone == /\ loop.pc = "batch" /\ loop.batch = {}
             /\ loop' = [loop EXCEPT !.pc = "wait", !.h = None]
             /\ UNCHANGED <<accepts, pool, handler, kernel, acc, del, sender, live,
                            excused>>

Broken(f) == (f # None /\ sock[f] # None) => conn[sock[f]] = "failed"

HandleReadIgnoresEnd(rejects) ==  \* mutant: recv() == 0 is not an error
  /\ loop.pc = "read"
  /\ handler[loop.h].event_loop
  /\ loop' = [loop EXCEPT !.pc = "batch"]
  /\ UNCHANGED <<accepts, pool, handler, kernel, acc, del, sender, live, excused>>

(* handle_read() on the descriptor the handler has now: it fails when the  *)
(* connection has, or when decode() rejects what was received.  With a     *)
(* null event_loop_ it has no receive buffer: the process crashes.         *)
HandleRead(rejects) ==
  /\ loop.pc = "read"
  /\ handler[loop.h].event_loop
  /\ LET f == handler[loop.h].fd
     IN  IF Broken(f) \/ rejects
         THEN /\ del' = [del EXCEPT !["loop"] = [pc |-> "lock", h |-> loop.h]]
              /\ loop' = [loop EXCEPT !.pc = "delete"]
              /\ excused' = IF rejects /\ ~Broken(f) THEN excused \cup {sock[f]}
                            ELSE excused
         ELSE /\ loop' = [loop EXCEPT !.pc = "batch"]
              /\ UNCHANGED <<del, excused>>
  /\ UNCHANGED <<accepts, pool, handler, kernel, acc, sender, live>>

Deleted == /\ loop.pc = "delete" /\ del["loop"].pc = "none"
           /\ loop' = [loop EXCEPT !.pc = "batch"]
           /\ UNCHANGED <<accepts, pool, handler, kernel, acc, del, sender, live,
                          excused>>

(* send() from another thread fails on the descriptor the handler has now, *)
(* releases the handler's mutex, and calls delete_handler().               *)
SendFails(h) ==
  /\ sender /\ h \in live
  /\ del["sender"].pc = "none"
  /\ handler[h].event_loop
  /\ Broken(handler[h].fd)
  /\ del' = [del EXCEPT !["sender"] = [pc |-> "lock", h |-> h]]
  /\ UNCHANGED <<accepts, pool, handler, kernel, acc, loop, sender, live, excused>>

-----------------------------------------------------------------------------
(* delete_handler(): the part under the mutex.  epoll_ctl fails for a      *)
(* descriptor that is not registered.                                      *)
DeleteUntested(t) ==  \* mutant: without the test of in_event_loop_
  /\ del[t].pc = "lock" /\ LoopMutexFree
  /\ LET h == del[t].h
         f == handler[h].fd
     IN  /\ del' = [del EXCEPT ![t].pc = "close"]
         /\ epoll' = IF f = None THEN epoll ELSE [epoll EXCEPT ![f] = None]
         /\ handler' = [handler EXCEPT ![h].in_event_loop = FALSE]
  /\ UNCHANGED <<accepts, pool, sock, conn, acc, loop, sender, live, excused>>

DeleteFreesFirst(t) ==  \* mutant: free_handler() before handle_close()
  /\ del[t].pc = "lock" /\ LoopMutexFree
  /\ LET h == del[t].h
         f == handler[h].fd
     IN  IF handler[h].in_event_loop /\ f \in Fds /\ epoll[f] # None
         THEN /\ del' = [del EXCEPT ![t].pc = "close"]
              /\ epoll' = [epoll EXCEPT ![f] = None]
              /\ free' = Append(free, h) /\ UNCHANGED chunks
              /\ handler' = [handler EXCEPT ![h] = [@ EXCEPT !.in_event_loop = FALSE,
                                                          !.in_object_pool = TRUE]]
         ELSE /\ del' = [del EXCEPT ![t].pc = "none"]
              /\ UNCHANGED <<epoll, handler, pool>>
  /\ UNCHANGED <<accepts, sock, conn, acc, loop, sender, live, excused>>

DeleteLocked(t) ==
  /\ del[t].pc = "lock" /\ LoopMutexFree
  /\ LET h == del[t].h
         f == handler[h].fd
     IN  IF handler[h].in_event_loop /\ f \in Fds /\ epoll[f] # None
         THEN /\ del' = [del EXCEPT ![t].pc = "close"]
              /\ epoll' = [epoll EXCEPT ![f] = None]
              /\ handler' = [handler EXCEPT ![h].in_event_loop = FALSE]
         ELSE /\ del' = [del EXCEPT ![t].pc = "none"]
              /\ UNCHANGED <<epoll, handler>>
  /\ UNCHANGED <<accepts, pool, sock, conn, acc, loop, sender, live, excused>>

(* ... handle_close(), after the mutex has been released: do_close(), and  *)
(* close(), which gives the descriptor back to the kernel ...              *)
DeleteClose(t) ==
  /\ del[t].pc = "close"
  /\ LET h == del[t].h
         f == handler[h].fd
     IN  /\ IF f = None THEN UNCHANGED kernel ELSE CloseFd(f)
         /\ live' = live \ {h}
  /\ del' = [del EXCEPT ![t].pc = "clear"]
  /\ UNCHANGED <<accepts, pool, handler, acc, loop, sender, excused>>

(* ... and forgets its number, which accept() may have got again by then.  *)
DeleteClear(t) ==
  /\ del[t].pc = "clear"
  /\ handler' = [handler EXCEPT ![del[t].h].fd = None]
  /\ del' = [del EXCEPT ![t].pc = "free"]
  /\ UNCHANGED <<accepts, pool, kernel, acc, loop, sender, live, excused>>

(* ... and source_->free_handler().                                        *)
DeleteFree(t) ==
  /\ del[t].pc = "free"
  /\ FreeHandler(del[t].h)
  /\ del' = [del EXCEPT ![t].pc = "none"]
  /\ UNCHANGED <<accepts, kernel, acc, loop, sender, live, excused>>

-----------------------------------------------------------------------------
DeleteHandler(t) == \/ DeleteLocked(t) \/ DeleteClose(t)
                    \/ DeleteClear(t) \/ DeleteFree(t)

Acceptor == \/ Accept \/ AcceptEnds \/ AllocHandler \/ AllocFails
            \/ \E ok \in BOOLEAN : HandleOpen(ok)
            \/ AddCtl \/ AddFails \/ AddFlags \/ AcceptFree \/ AcceptClose

LoopThread == \/ EpollWait \/ BatchDone \/ Deleted
              \/ \E h \in Handlers \cup {Listener} : NextReady(h)
              \/ \E r \in BOOLEAN : HandleRead(r)
              \/ DeleteHandler("loop")

Next == \/ \E c \in Conns : Arrive(c) \/ Break(c)
        \/ Acceptor \/ LoopThread
        \/ \E h \in Handlers : SendFails(h)
        \/ DeleteHandler("sender")

Spec == Init /\ [][Next]_vars

(* The operating system runs the threads that can run; connections need    *)
(* not arrive, break or be sent on.                                        *)
Fairness == /\ WF_vars(LoopThread) /\ WF_vars(Acceptor)
            /\ WF_vars(DeleteHandler("sender"))

FairSpec == Spec /\ Fairness

-----------------------------------------------------------------------------
TypeOK ==
  /\ free \in Seq(Handlers) /\ chunks \in 0 .. MaxChunks
  /\ sock \in [Fds -> Conns \cup {None}] /\ epoll \in [Fds -> Handlers \cup {None}]
  /\ conn \in [Conns -> {"none", "queued", "up", "failed", "closed"}]
  /\ acc.pc \in {"idle", "alloc", "open", "add", "flags", "free", "close", "ended"}
  /\ loop.pc \in {"wait", "batch", "accept", "read", "delete"}
  /\ live \subseteq Handlers /\ excused \subseteq Conns

(* A handler is in one place at a time, whatever threads delete it and     *)
(* however often: in the pool, with the accepting thread, in the loop, or  *)
(* with the one thread whose delete_handler() found it there.  What the    *)
(* flags say agrees with the list of the pool and with epoll.              *)
Pooled(h) == \E i \in DOMAIN free : free[i] = h
Closing(t, h) == del[t].h = h /\ del[t].pc \in {"close", "clear", "free"}
Places(h) ==
  { p \in {"pool", "accepting", "loop"} \cup Threads :
      \/ p = "pool" /\ Pooled(h)
      \/ p = "accepting" /\ acc.h = h /\ acc.pc \in {"open", "add", "flags", "free"}
      \/ p = "loop" /\ handler[h].in_event_loop
      \/ p \in Threads /\ Closing(p, h) }

OnePlace ==
  /\ TypeOK
  /\ IsInjective(free)
  /\ \A h \in 1 .. chunks * PerChunk :
       /\ Cardinality(Places(h)) = 1 \/ (acc.pc = "close" /\ acc.h = h)
       /\ handler[h].in_object_pool <=> Pooled(h)
       /\ handler[h].in_event_loop => epoll[handler[h].fd] = h

(* The descriptor a handler outside the pool works on is the one of its    *)
(* own connection: it has not been closed under it and given to another,   *)
(* except between the two steps of EventHandler::close().  When the loop   *)
(* accepts and closes itself the number stays unused in between.  With     *)
(* accept threads every open descriptor has such an owner; in a loop,      *)
(* handle_read() of the TcpServerHandler drops the descriptor when         *)
(* handle_open() or add_handler() fails.                                   *)
Clearing(t, h) == del[t].pc = "clear" /\ del[t].h = h
Owns(h, f) == /\ ~handler[h].in_object_pool /\ handler[h].fd = f
              /\ \A t \in Threads : ~Clearing(t, h)

DescriptorsOwned ==
  /\ \A h \in Handlers : \A f \in Fds : Owns(h, f) => sock[f] = handler[h].conn
  /\ accepts = "same_loop" =>
       \A h \in Handlers : Clearing("loop", h) =>
         handler[h].fd = None \/ sock[handler[h].fd] = None
  /\ accepts = "thread" =>
       \A f \in Fds : sock[f] # None =>
         acc.fd = f \/ \E h \in Handlers : Owns(h, f)

(* If only the loop thread deletes handlers, no connection is closed that  *)
(* neither broke nor was refused: an entry of the batch that is stale      *)
(* never reaches the next connection of its handler.                       *)
ClosedForCause == ~sender => \A c \in Conns : conn[c] = "closed" => c \in excused

(* handle_read() finds event_loop_ set if the handler was added by the     *)
(* loop's own thread.  Another thread registers it first.                  *)
Crashed == loop.pc = "read" /\ ~handler[loop.h].event_loop
LoopPointerSet == accepts = "same_loop" => ~Crashed

(* A registered connection that breaks is closed in the end.               *)
FailedIsClosed ==
  \A c \in Conns : (\E f \in Failed : sock[f] = c) ~> (conn[c] = "closed" \/ Crashed)
=============================================================================
