--------------------------- MODULE SelectEventLoop ---------------------------
(***************************************************************************)
(* The select() loop (select_event_loop.h) and the handlers registered     *)
(* with it.  The descriptor sets change at once, under mutex_; handlers_,  *)
(* which the loop goes through, changes only in the loop thread: add,      *)
(* delete and remove leave an operation behind in temp_handlers_standby_,  *)
(* which the next round of the loop applies, and a deleted handler is      *)
(* closed and freed only then.                                             *)
(*                                                                         *)
(* add_handler(), delete_handler() and remove_handler() are called by the  *)
(* loop thread (in callbacks) or by another one.  A call that add_handler()*)
(* refuses with max_size_ changes nothing and is left out.                 *)
(***************************************************************************)
EXTENDS Naturals, FiniteSets, FiniteSetsExt

CONSTANTS Handlers,   \* EventHandlers besides wakeup_handler_
          MaxFd,      \* descriptors are 1 .. MaxFd; 1 is wakeup_handler_'s
          MaxSize,    \* max_size_
          MaxAdds     \* bound on the calls of add_handler()

SelectAssumption == /\ 0 \notin Handlers
                           /\ {MaxFd, MaxSize, MaxAdds} \subseteq Nat /\ MaxFd > 1

None == 0
Wakeup == 0                     \* wakeup_handler_
All == Handlers \cup {Wakeup}
Fds == 1 .. MaxFd
Ops == {"ADD", "DEL", "REMOVE"}

VARIABLES caller,     \* who calls add, delete, remove: "loop" or "user"
          read, write,           \* fd_set_in_
          read_size, write_size, max_fd,
          out,                   \* fd_set_out_: read and write
          h,                     \* per handler: the EventHandler members
          standby, active,       \* temp_handlers_standby_, temp_handlers_active_
          handlers,              \* handlers_
          loop,                  \* the loop thread: pc, todo, ready, current
          wakeup_flag, notified, \* wakeup_flag_; its descriptor is readable
          wake,                  \* the user is about to call loop_wakeup()
          sock,                  \* per descriptor: the kernel's state
          adds,                  \* calls of add_handler()
          deleted,    \* handlers delete_handler() was called for, not freed yet
          clash,      \* whether emplace() has dropped an operation (history)
          unseen      \* handlers with a write event the loop has not seen (history)

fd_sets == <<read, write, read_size, write_size, max_fd>>
waking == <<wakeup_flag, notified, wake>>
vars == <<caller, fd_sets, out, h, standby, active, handlers, loop, waking, sock,
          adds, deleted, clash, unseen>>

(* After the constructor and open(), which adds wakeup_handler_.           *)
Init == /\ caller \in {"loop", "user"}
        /\ read = {1} /\ write = {} /\ read_size = 1 /\ write_size = 0 /\ max_fd = 1
        /\ out = [read |-> {}, write |-> {}]
        /\ h = [x \in All |-> IF x = Wakeup
                THEN [fd |-> 1, in_loop |-> TRUE, mask |-> {"read"}, pooled |-> FALSE,
                      connecting |-> FALSE]
                ELSE [fd |-> None, in_loop |-> FALSE, mask |-> {}, pooled |-> TRUE,
                      connecting |-> FALSE]]
        /\ standby = [x \in {Wakeup} |-> "ADD"] /\ active = << >>
        /\ handlers = {}
        /\ loop = [pc |-> "copy", todo |-> {}, ready |-> 0, current |-> None]
        /\ wakeup_flag = FALSE /\ notified = TRUE /\ wake = FALSE
        /\ sock = [f \in Fds |-> IF f = 1 THEN "event" ELSE "closed"]
        /\ adds = 0 /\ deleted = {} /\ clash = FALSE /\ unseen = {}

-----------------------------------------------------------------------------
(* The network.                                                            *)
Change(f, from, to) ==
  /\ sock[f] = from
  /\ sock' = [sock EXCEPT ![f] = to]
  /\ UNCHANGED <<caller, fd_sets, out, h, standby, active, handlers, loop, waking,
                 adds, deleted, clash, unseen>>

Network(f) == \/ Change(f, "quiet", "data") \/ Change(f, "quiet", "broken")
              \/ Change(f, "connecting", "quiet")

-----------------------------------------------------------------------------
(***************************************************************************)
(* The calls.  Another thread calls loop_wakeup() after it has let go of   *)
(* the mutex; in the loop thread that is no step of its own.               *)
(***************************************************************************)
(* The pool gives out the lowest of its handlers, which is a way to name   *)
(* them; a handler that was removed and closed may be added again.         *)
MayAdd(x) == /\ adds < MaxAdds
             /\ h[x].fd = None /\ ~h[x].in_loop /\ x \notin deleted
             /\ h[x].pooled => x = Min({ y \in Handlers : h[y].pooled })
             /\ \E f \in Fds : sock[f] = "closed"

MayCall == IF caller = "user" THEN ~wake ELSE loop.pc \in {"apply", "handle", "written"}

Notify == /\ wakeup_flag' = FALSE
          /\ notified' = (notified \/ wakeup_flag)
WakeNever == UNCHANGED waking  \* mutant: without loop_wakeup()
WakeLater == IF caller = "user" THEN wake' = TRUE /\ UNCHANGED <<wakeup_flag, notified>>
             ELSE Notify /\ UNCHANGED wake

LoopWakeup == /\ ~clash
              /\ wake /\ wake' = FALSE
              /\ Notify
              /\ UNCHANGED <<caller, fd_sets, out, h, standby, active, handlers, loop,
                             sock, adds, deleted, clash, unseen>>

(* temp_handlers_standby_->emplace(handler, op): it does nothing if the    *)
(* handler is there already.  From then on handlers_ is wrong (a handler   *)
(* that is gone stays in it, or one that was added never gets there), and  *)
(* what the loop does is not followed any further.                         *)
Emplace(x, op) ==
  IF x \in DOMAIN standby THEN UNCHANGED standby /\ clash' = TRUE
  ELSE /\ standby' = [y \in DOMAIN standby \cup {x} |-> IF y = x THEN op ELSE standby[y]]
       /\ UNCHANGED clash

KeptMaxFd(f) == max_fd  \* mutant: select() does not look at the descriptor
Raised(f) == IF max_fd < f THEN f ELSE max_fd

(* add_handler() of a handler that was initialised with a new descriptor:  *)
(* an accepted connection, or a client that is connecting.                 *)
AddHandler(x, events) ==
  /\ MayCall /\ MayAdd(x)
  /\ "read" \in events => read_size < MaxSize
  /\ "write" \in events => write_size < MaxSize
  /\ LET f == Min({ g \in Fds : sock[g] = "closed" })
     IN  /\ sock' = [sock EXCEPT ![f] = IF events = {"write"} THEN "connecting" ELSE "quiet"]
         /\ read' = IF "read" \in events THEN read \cup {f} ELSE read
         /\ write' = IF "write" \in events THEN write \cup {f} ELSE write
         /\ max_fd' = Raised(f)
         /\ h' = [h EXCEPT ![x] = [fd |-> f, in_loop |-> TRUE, mask |-> events,
                                   pooled |-> FALSE, connecting |-> events = {"write"}]]
  /\ read_size' = read_size + Cardinality(events \cap {"read"})
  /\ write_size' = write_size + Cardinality(events \cap {"write"})
  /\ Emplace(x, "ADD")
  /\ WakeLater
  /\ adds' = adds + 1
  /\ UNCHANGED <<caller, out, active, handlers, loop, deleted, unseen>>

(* What delete_handler() and remove_handler() have in common.              *)
Unregister(x) ==
  /\ read' = IF "read" \in h[x].mask THEN read \ {h[x].fd} ELSE read
  /\ write' = IF "write" \in h[x].mask THEN write \ {h[x].fd} ELSE write
  /\ read_size' = read_size - Cardinality(h[x].mask \cap {"read"})
  /\ write_size' = write_size - Cardinality(h[x].mask \cap {"write"})
  /\ max_fd' = IF max_fd = h[x].fd THEN max_fd - 1 ELSE max_fd
  /\ h' = [h EXCEPT ![x] = [@ EXCEPT !.in_loop = FALSE, !.mask = {}]]

DeleteHandler(x) ==
  /\ MayCall
  /\ h[x].in_loop
  /\ Unregister(x)
  /\ Emplace(x, "DEL")
  /\ deleted' = deleted \cup {x}
  /\ WakeLater
  /\ UNCHANGED <<caller, out, active, handlers, loop, sock, adds, unseen>>

(* remove_handler(), after which its owner closes the handler: it does not *)
(* wake the loop.                                                          *)
RemoveHandler(x) ==
  /\ MayCall
  /\ h[x].in_loop
  /\ Unregister(x)
  /\ Emplace(x, "REMOVE")
  /\ UNCHANGED <<caller, out, active, handlers, loop, waking, sock, adds, deleted, unseen>>

CloseRemoved(x) ==
  /\ MayCall
  /\ h[x].fd # None /\ ~h[x].in_loop /\ x \notin deleted
  /\ sock' = [sock EXCEPT ![h[x].fd] = "closed"]
  /\ h' = [h EXCEPT ![x].fd = None]
  /\ UNCHANGED <<caller, fd_sets, out, standby, active, handlers, loop, waking,
                 adds, deleted, clash, unseen>>

(* add_event(WRITE) of a send; it does not wake the loop either.           *)
AddEvent(x) ==
  /\ MayCall
  /\ h[x].in_loop /\ ~h[x].connecting /\ "write" \notin h[x].mask
  /\ write' = write \cup {h[x].fd}
  /\ write_size' = write_size + 1
  /\ h' = [h EXCEPT ![x].mask = @ \cup {"write"}]
  /\ unseen' = IF loop.pc \in {"apply", "select"} THEN unseen \cup {x} ELSE unseen
  /\ UNCHANGED <<caller, read, read_size, max_fd, out, standby, active, handlers,
                 loop, waking, sock, adds, deleted, clash>>

Calls == \E x \in Handlers : \/ AddHandler(x, {"read"}) \/ AddHandler(x, {"write"})
                             \/ DeleteHandler(x) \/ RemoveHandler(x)
                             \/ CloseRemoved(x) \/ AddEvent(x)

-----------------------------------------------------------------------------
(***************************************************************************)
(* loop(), without timeout.                                                *)
(***************************************************************************)
Goto(pc) == loop' = [loop EXCEPT !.pc = pc]

(* Under the mutex: the sets are copied and the maps swapped.              *)
Copy == /\ loop.pc = "copy"
        /\ out' = [read |-> read, write |-> write]
        /\ active' = standby /\ standby' = active
        /\ Goto("apply")
        /\ unseen' = {}
        /\ UNCHANGED <<caller, fd_sets, h, handlers, waking, sock, adds, deleted, clash>>

(* handlers_ after the operation.                                          *)
AppliedKeeps(x) ==  \* mutant: a deleted handler stays in handlers_
  IF active[x] = "REMOVE" THEN handlers \ {x} ELSE handlers \cup {x}
AppliedTo(x) == IF active[x] = "ADD" THEN handlers \cup {x} ELSE handlers \ {x}

Apply(x) ==
  /\ loop.pc = "apply" /\ x \in DOMAIN active
  /\ active' = [y \in DOMAIN active \ {x} |-> active[y]]
  /\ handlers' = AppliedTo(x)
  /\ IF active[x] = "DEL"
     THEN /\ sock' = IF h[x].fd = None THEN sock ELSE [sock EXCEPT ![h[x].fd] = "closed"]
          /\ h' = [h EXCEPT ![x] = [@ EXCEPT !.fd = None, !.pooled = TRUE]]
          /\ deleted' = deleted \ {x}
     ELSE UNCHANGED <<sock, h, deleted>>
  /\ UNCHANGED <<caller, fd_sets, out, standby, loop, waking, adds, clash, unseen>>

Applied == /\ loop.pc = "apply" /\ DOMAIN active = {}
           /\ Goto("select")
           /\ UNCHANGED <<caller, fd_sets, out, h, standby, active, handlers, waking,
                          sock, adds, deleted, clash, unseen>>

(* select(max_fd_ + 1), which fails (EBADF) if a descriptor of the sets    *)
(* has been closed meanwhile; and wakeup_flag_ = false.                    *)
Readable(f) == IF f = 1 THEN notified ELSE sock[f] \in {"data", "broken"}
Writable(f) == sock[f] \in {"quiet", "data", "broken"}
ReadyRead == { f \in out.read : f <= max_fd /\ Readable(f) }
ReadyWrite == { f \in out.write : f <= max_fd /\ Writable(f) }
Bad == \E f \in out.read \cup out.write : f <= max_fd /\ sock[f] = "closed"

Select ==
  /\ loop.pc = "select"
  /\ ~Bad /\ ReadyRead \cup ReadyWrite # {}
  /\ out' = [read |-> ReadyRead, write |-> ReadyWrite]
  /\ wakeup_flag' = FALSE
  /\ loop' = [pc |-> "handle", todo |-> handlers, current |-> None,
              ready |-> Cardinality(ReadyRead) + Cardinality(ReadyWrite)]
  /\ UNCHANGED <<caller, fd_sets, h, standby, active, handlers, notified, wake, sock,
                 adds, deleted, clash, unseen>>

SelectFails ==
  /\ loop.pc = "select"
  /\ Bad
  /\ wakeup_flag' = FALSE
  /\ loop' = [pc |-> "handle", todo |-> {}, current |-> None, ready |-> 0]
  /\ UNCHANGED <<caller, fd_sets, out, h, standby, active, handlers, notified, wake,
                 sock, adds, deleted, clash, unseen>>

(* FD_ISSET with fd_ = -1 reads whatever bit is there.                     *)
IsSet(x, bits) == IF h[x].fd = None THEN BOOLEAN ELSE {h[x].fd \in bits}

(* The next handler of handlers_, at its handle_read(), and, before or     *)
(* after that, at the test of its write bit.                               *)
IsNext(x) == loop.pc = "handle" /\ loop.ready > 0 /\ x \in loop.todo
AtRead(x) == IsNext(x) /\ TRUE \in IsSet(x, out.read)
PastRead(x) == \/ IsNext(x) /\ FALSE \in IsSet(x, out.read)
               \/ loop.pc = "written" /\ loop.current = x
AtWrite(x) == PastRead(x) /\ TRUE \in IsSet(x, out.write)

(* if (--ready <= 0) break                                                 *)
Proceed(x, pc) ==
  IF loop.ready = 1 THEN [pc |-> "end", todo |-> {}, ready |-> 0, current |-> None]
  ELSE [pc |-> pc, todo |-> loop.todo \ {x}, ready |-> loop.ready - 1,
        current |-> IF pc = "written" THEN x ELSE None]

Fails(x) == IF h[x].fd = None THEN TRUE ELSE sock[h[x].fd] = "broken"

Skip(x) == /\ PastRead(x) /\ FALSE \in IsSet(x, out.write)
           /\ loop' = [loop EXCEPT !.todo = @ \ {x}, !.pc = "handle", !.current = None]
           /\ UNCHANGED <<caller, fd_sets, out, h, standby, active, handlers, waking,
                          sock, adds, deleted, clash, unseen>>

(* handle_read(): the wake-up handler empties its descriptor.              *)
HandleRead(x) ==
  /\ AtRead(x) /\ ~Fails(x)
  /\ loop' = Proceed(x, "written")
  /\ notified' = IF x = Wakeup THEN FALSE ELSE notified
  /\ sock' = IF x # Wakeup /\ sock[h[x].fd] = "data"
             THEN [sock EXCEPT ![h[x].fd] = "quiet"] ELSE sock
  /\ UNCHANGED <<caller, fd_sets, out, h, standby, active, handlers, wakeup_flag, wake,
                 adds, deleted, clash, unseen>>

(* delete_handler() by the loop itself.                                    *)
DeleteFailed(x) ==
  IF h[x].in_loop
  THEN /\ Unregister(x) /\ Emplace(x, "DEL") /\ Notify
       /\ deleted' = deleted \cup {x}
  ELSE UNCHANGED <<fd_sets, h, standby, clash, wakeup_flag, notified, deleted>>

HandleFails(x) ==
  /\ AtRead(x) \/ (AtWrite(x) /\ ~h[x].connecting)
  /\ Fails(x)
  /\ DeleteFailed(x)
  /\ loop' = Proceed(x, "handle")
  /\ UNCHANGED <<caller, out, active, handlers, wake, sock, adds, unseen>>

(* handle_write() that has written everything: delete_event(WRITE).        *)
HandleWrite(x) ==
  /\ AtWrite(x) /\ ~h[x].connecting /\ ~Fails(x)
  /\ IF h[x].in_loop /\ "write" \in h[x].mask
     THEN /\ write' = write \ {h[x].fd}
          /\ write_size' = write_size - 1
          /\ h' = [h EXCEPT ![x].mask = @ \ {"write"}]
     ELSE UNCHANGED <<write, write_size, h>>
  /\ loop' = Proceed(x, "handle")
  /\ UNCHANGED <<caller, read, read_size, max_fd, out, standby, active, handlers,
                 waking, sock, adds, deleted, clash, unseen>>

(* A client has connected: set_event(READ), CONNECTED, handle_connect().   *)
(* set_event() records only the bits that it has set itself.               *)
Connected(x) ==
  /\ AtWrite(x) /\ h[x].connecting
  /\ IF h[x].in_loop
     THEN /\ read' = read \cup {h[x].fd}
          /\ read_size' = read_size + Cardinality({"read"} \ h[x].mask)
          /\ write' = IF "write" \in h[x].mask THEN write \ {h[x].fd} ELSE write
          /\ write_size' = write_size - Cardinality(h[x].mask \cap {"write"})
     ELSE UNCHANGED <<read, read_size, write, write_size>>
  /\ h' = [h EXCEPT ![x] =
                [@ EXCEPT !.mask = IF h[x].in_loop THEN {"read"} \ h[x].mask
                                   ELSE h[x].mask,
                          !.connecting = FALSE]]
  /\ loop' = Proceed(x, "handle")
  /\ UNCHANGED <<caller, max_fd, out, standby, active, handlers, waking, sock, adds,
                 deleted, clash, unseen>>

(* Events and timers are run, and wakeup_flag_ = true.                     *)
EndRound ==
  /\ loop.pc = "end" \/ (loop.pc = "handle" /\ loop.todo = {})
  /\ wakeup_flag' = TRUE
  /\ out' = [read |-> {}, write |-> {}]
  /\ loop' = [pc |-> "copy", todo |-> {}, ready |-> 0, current |-> None]
  /\ UNCHANGED <<caller, fd_sets, h, standby, active, handlers, notified, wake, sock,
                 adds, deleted, clash, unseen>>

LoopThread ==
  /\ ~clash
  /\ \/ Copy \/ Applied \/ Select \/ SelectFails \/ EndRound
     \/ \E x \in All : \/ Apply(x) \/ Skip(x) \/ HandleRead(x)
                       \/ HandleFails(x) \/ HandleWrite(x) \/ Connected(x)

Others == ~clash /\ (Calls \/ \E f \in Fds \ {1} : Network(f))

Next == Others \/ LoopWakeup \/ LoopThread

Spec == Init /\ [][Next]_vars

-----------------------------------------------------------------------------
TypeOK ==
  /\ read \subseteq Fds /\ write \subseteq Fds /\ max_fd \in Fds
  /\ out.read \subseteq Fds /\ out.write \subseteq Fds
  /\ DOMAIN standby \subseteq All /\ DOMAIN active \subseteq All
  /\ handlers \subseteq All
  /\ loop.pc \in {"copy", "apply", "select", "handle", "written", "end"}

(* Whoever adds, deletes, removes and closes handlers, in whatever order   *)
(* and in the middle of a round: the descriptor sets, the counters that    *)
(* limit them and the mask of every handler agree, every bit belongs to a  *)
(* registered handler and an open descriptor, select() looks at all of     *)
(* them, and once the recorded operations are applied handlers_ is the set *)
(* of registered handlers, until an operation is dropped.                  *)
Watching(e) == { x \in All : h[x].in_loop /\ e \in h[x].mask }
WillBeIn(x) == IF x \in DOMAIN standby THEN standby[x] = "ADD"
               ELSE IF x \in DOMAIN active THEN active[x] = "ADD"
               ELSE x \in handlers
SetsAgree ==
  /\ TypeOK
  /\ ~clash =>
       /\ read = { h[x].fd : x \in Watching("read") }
       /\ write = { h[x].fd : x \in Watching("write") }
       /\ read_size = Cardinality(read) /\ write_size = Cardinality(write)
       /\ \A f \in read \cup write : f <= max_fd /\ sock[f] # "closed"
       /\ \A x \in All : h[x].in_loop = WillBeIn(x)

(* A handler that delete_handler() was called for is not freed while the   *)
(* loop may still call it: handle_read() and handle_write() are called for *)
(* no handler that is back in its pool, also if another thread deletes it  *)
(* in the middle of the round.                                             *)
NeverFreed == \A x \in All : AtRead(x) \/ AtWrite(x) => ~h[x].pooled

(* When the loop sleeps in select() and no thread is about to wake it,     *)
(* there is nothing to do: no handler waits to be added, or to be closed   *)
(* and freed, no registered handler has anything to read, and none has     *)
(* anything to write, except for write events that add_event(), which does *)
(* not wake the loop, has added after the sets were copied: from another   *)
(* thread, or from a callback of handle_close().                           *)
Asleep == /\ loop.pc = "select" /\ ~clash /\ ~wake
          /\ ~Bad /\ ReadyRead \cup ReadyWrite = {}
SleepsWhenIdle ==
  Asleep =>
    /\ deleted = {} /\ \A x \in DOMAIN standby : standby[x] = "REMOVE"
    /\ \A x \in Handlers : h[x].in_loop =>
         /\ "read" \in h[x].mask => ~Readable(h[x].fd)
         /\ ("write" \in h[x].mask /\ x \notin unseen) => ~Writable(h[x].fd)
=============================================================================
