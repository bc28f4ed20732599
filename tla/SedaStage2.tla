----------------------------- MODULE SedaStage2 -----------------------------
(***************************************************************************)
(* A stage with shared queues (seda_stage2.h, seda_stage2_thread.h): the   *)
(* events are pushed under a mutex into one queue per priority, and each   *)
(* stage thread fetches a batch of them into a ring queue of its own       *)
(* (SPSCNormalEventTypeQueue), which it then works through.  close() stops *)
(* the threads one after the other by pushing a quit event into their own  *)
(* queue, from the closing thread and without a lock.                      *)
(*                                                                         *)
(* One slot of a ring queue stays free, which free_size() counts as free.  *)
(* The timed wait of an idle thread may end at any moment.                 *)
(***************************************************************************)
EXTENDS Naturals, Sequences, FiniteSets, SequencesExt, FiniteSetsExt

CONSTANTS Threads,     \* the stage threads, in the order they are stopped
          QueueSize,   \* queue_max_size, a power of 2
          BatchSizes,  \* batch_size_
          Powers,      \* the powers of 2, up to a bound
          MaxEvents    \* bound on the events pushed

Stage2Assumption == /\ Threads \in Nat \ {0}
                    /\ QueueSize \in Nat \ {0} /\ MaxEvents \in Nat
                    /\ BatchSizes \subseteq Nat \ {0}
                    /\ Powers \subseteq Nat \ {0, 1}
                    /\ \A b \in BatchSizes : \E r \in Powers : r > b

Workers == 1 .. Threads
Events == 1 .. MaxEvents     \* in the order of their push
QuitEvent == MaxEvents + 1
Nothing == 0
Queues == {"high", "low"}

VARIABLES is_priority, batch_size,
          shared,     \* high_priority_queue_ and low_priority_queue_
          lock,       \* who holds their mutexes
          pushed,     \* events pushed so far
          slots, read_index, write_index,  \* per worker: its event_queue_
          worker,     \* per worker: pc, and the variables of its calls
          closer,     \* the closing thread: pc, the worker it stops, its index
          handled,    \* per worker: the events it has handled, in order (history)
          urgent,     \* events pushed with high priority (history)
          lost,       \* events that were dropped on their way (history)
          excuse      \* why a quit event may not arrive (history)

rings == <<slots, read_index, write_index>>
config == <<is_priority, batch_size>>
vars == <<config, shared, lock, pushed, rings, worker, closer,
          handled, urgent, lost, excuse>>

(* init(batch_size + 1): the next power of 2.                              *)
RingSizeOfBatch == batch_size  \* mutant: init(batch_size)
RingSize == Min({ r \in Powers : r > batch_size })
After(i) == (i + 1) % RingSize

Init == /\ is_priority \in BOOLEAN /\ batch_size \in BatchSizes
        /\ shared = [q \in Queues |-> << >>]
        /\ lock = [q \in Queues |-> Nothing]
        /\ pushed = 0
        /\ slots = [w \in Workers |-> [i \in 0 .. RingSize - 1 |-> Nothing]]
        /\ read_index = [w \in Workers |-> 0]
        /\ write_index = [w \in Workers |-> 0]
        /\ worker = [w \in Workers |-> [pc |-> "pop", left |-> 0, at |-> 0,
                                        event |-> Nothing]]
        /\ closer = [pc |-> "idle", w |-> 1, at |-> 0]
        /\ handled = [w \in Workers |-> << >>]
        /\ urgent = {} /\ lost = {} /\ excuse = {}

-----------------------------------------------------------------------------
(* push_event() with a priority, by any thread.                            *)
Push(priority) ==
  LET q == IF is_priority /\ priority = "high" THEN "high" ELSE "low"
  IN  /\ pushed < MaxEvents
      /\ lock[q] = Nothing
      /\ Len(shared[q]) < QueueSize - 1
      /\ pushed' = pushed + 1
      /\ shared' = [shared EXCEPT ![q] = Append(@, pushed + 1)]
      /\ urgent' = IF q = "high" THEN urgent \cup {pushed + 1} ELSE urgent
      /\ UNCHANGED <<config, lock, rings, worker, closer, handled,
                     lost, excuse>>

-----------------------------------------------------------------------------
(***************************************************************************)
(* A stage thread.                                                         *)
(***************************************************************************)
Goto(w, pc) == worker' = [worker EXCEPT ![w].pc = pc]

Empty(w) == read_index[w] = write_index[w]
Full(w) == After(write_index[w]) = read_index[w]
Size(w) == (write_index[w] + RingSize - read_index[w]) % RingSize

(* pop() returns the address of the slot it has given back.                *)
PopLocal(w) ==
  /\ worker[w].pc = "pop" /\ ~Empty(w)
  /\ read_index' = [read_index EXCEPT ![w] = After(@)]
  /\ worker' = [worker EXCEPT ![w] = [@ EXCEPT !.pc = "handle", !.at = read_index[w],
                                        !.event = slots[w][read_index[w]]]]
  /\ UNCHANGED <<config, urgent, shared, lock, pushed, slots, write_index,
                 closer, handled, lost, excuse>>

(* The handler reads the slot.                                             *)
Handle(w) ==
  /\ worker[w].pc = "handle"
  /\ LET e == slots[w][worker[w].at] IN
     IF e = QuitEvent THEN Goto(w, "ended") /\ UNCHANGED handled
     ELSE /\ handled' = [handled EXCEPT ![w] = Append(@, e)]
          /\ worker' = [worker EXCEPT ![w] = [@ EXCEPT !.pc = "pop", !.event = Nothing]]
  /\ UNCHANGED <<config, urgent, shared, lock, pushed, rings, closer, lost,
                 excuse>>

(* pop_event(): the high priority queue, if there is one, and then the low *)
(* one.                                                                    *)
Fetch(w) ==
  /\ worker[w].pc = "pop" /\ Empty(w)
  /\ Goto(w, IF is_priority THEN "high" ELSE "low")
  /\ UNCHANGED <<config, urgent, shared, lock, pushed, rings, closer, handled,
                 lost, excuse>>

(* Where a thread is with a queue, and where it goes when that is done.    *)
Moves(q) == IF q = "high" THEN "move_high" ELSE "move_low"
Writes(q) == IF q = "high" THEN "write_high" ELSE "write_low"
AfterQueue(q) == IF q = "high" THEN "low" ELSE "pop"

(* The number of events to move is settled first.                          *)
Batch(w, q) == Min({Len(shared[q]), RingSize - Size(w), batch_size})

StartMoving(w, q) ==
  /\ worker[w].pc = q /\ lock[q] = Nothing
  /\ IF Batch(w, q) = 0 THEN Goto(w, AfterQueue(q)) /\ UNCHANGED lock
     ELSE /\ worker' = [worker EXCEPT ![w] = [@ EXCEPT !.pc = Moves(q),
                                                     !.left = Batch(w, q)]]
          /\ lock' = [lock EXCEPT ![q] = w]
  /\ UNCHANGED <<config, urgent, shared, pushed, rings, closer, handled, lost,
                 excuse>>

(* push_queue->push(pop()) fails if the queue is full; else the index it   *)
(* has read is where the event goes.                                       *)
Done(w, q) ==
  IF worker[w].left = 1
  THEN /\ worker' = [worker EXCEPT ![w] = [@ EXCEPT !.pc = AfterQueue(q), !.left = 0,
                                             !.event = Nothing]]
       /\ lock' = [lock EXCEPT ![q] = Nothing]
  ELSE /\ worker' = [worker EXCEPT ![w] = [@ EXCEPT !.pc = Moves(q),
                                             !.left = worker[w].left - 1,
                                             !.event = Nothing]]
       /\ UNCHANGED lock

Move(w, q) ==
  /\ worker[w].pc = Moves(q)
  /\ shared' = [shared EXCEPT ![q] = Tail(@)]
  /\ IF Full(w) THEN lost' = lost \cup {Head(shared[q])} /\ Done(w, q)
     ELSE /\ worker' = [worker EXCEPT ![w] = [@ EXCEPT !.pc = Writes(q),
                                                !.at = write_index[w],
                                                !.event = Head(shared[q])]]
          /\ UNCHANGED <<lost, lock>>
  /\ UNCHANGED <<config, urgent, pushed, rings, closer, handled, excuse>>

Write(w, q) ==
  /\ worker[w].pc = Writes(q)
  /\ slots' = [slots EXCEPT ![w][worker[w].at] = worker[w].event]
  /\ write_index' = [write_index EXCEPT ![w] = After(worker[w].at)]
  /\ Done(w, q)
  /\ excuse' = IF closer.pc = "push" /\ closer.w = w THEN excuse \cup {"race"}
               ELSE excuse
  /\ UNCHANGED <<config, urgent, shared, pushed, read_index, closer, handled, lost>>

Worker(w) == \/ PopLocal(w) \/ Handle(w) \/ Fetch(w)
             \/ \E q \in Queues : StartMoving(w, q) \/ Move(w, q) \/ Write(w, q)

-----------------------------------------------------------------------------
(***************************************************************************)
(* close(): stop(), which pushes the quit event, and join() of each thread.*)
(* It is a race if the thread writes to its queue between the two steps of *)
(* that push, or that push to the queue between the two steps of Move and  *)
(* Write.                                                                  *)
(***************************************************************************)
Moving(w) == worker[w].pc \in {"write_high", "write_low"}

StopBegin ==
  LET w == closer.w IN
  /\ closer.pc = "idle"
  /\ closer' = IF Full(w) THEN [closer EXCEPT !.pc = "join"]
               ELSE [closer EXCEPT !.pc = "push", !.at = write_index[w]]
  /\ excuse' = IF Full(w) THEN excuse \cup {"full"} ELSE excuse
  /\ UNCHANGED <<config, urgent, shared, lock, pushed, rings, worker, handled,
                 lost>>

StopForgets ==  \* mutant: the index is not advanced
  LET w == closer.w IN
  /\ closer.pc = "push"
  /\ slots' = [slots EXCEPT ![w][closer.at] = QuitEvent]
  /\ closer' = [closer EXCEPT !.pc = "join"]
  /\ UNCHANGED <<config, urgent, shared, lock, pushed, read_index, write_index,
                 worker, handled, lost, excuse>>

StopPush ==
  LET w == closer.w IN
  /\ closer.pc = "push"
  /\ slots' = [slots EXCEPT ![w][closer.at] = QuitEvent]
  /\ write_index' = [write_index EXCEPT ![w] = After(closer.at)]
  /\ closer' = [closer EXCEPT !.pc = "join"]
  /\ excuse' = IF Moving(w) THEN excuse \cup {"race"} ELSE excuse
  /\ UNCHANGED <<config, urgent, shared, lock, pushed, read_index, worker,
                 handled, lost>>

Join == /\ closer.pc = "join"
        /\ worker[closer.w].pc = "ended"
        /\ closer' = IF closer.w = Threads THEN [closer EXCEPT !.pc = "closed"]
                     ELSE [pc |-> "stop", w |-> closer.w + 1, at |-> 0]
        /\ UNCHANGED <<config, urgent, shared, lock, pushed, rings, worker,
                       handled, lost, excuse>>

StopNext == /\ closer.pc = "stop"
            /\ closer' = [closer EXCEPT !.pc = "idle"]
            /\ UNCHANGED <<config, urgent, shared, lock, pushed, rings, worker,
                           handled, lost, excuse>>

Closing == closer.pc # "idle" \/ closer.w > 1
ClosingThread == StopPush \/ Join \/ StopNext \/ (Closing /\ StopBegin)

Next == \/ \E p \in Queues : Push(p)
        \/ \E w \in Workers : Worker(w)
        \/ StopBegin \/ ClosingThread

Spec == Init /\ [][Next]_vars
FairSpec == Spec /\ WF_vars(ClosingThread) /\ \A w \in Workers : WF_vars(Worker(w))

-----------------------------------------------------------------------------
TypeOK ==
  /\ \A q \in Queues : /\ Len(shared[q]) < QueueSize
                       /\ lock[q] \in Workers \cup {Nothing}
  /\ slots \in [Workers -> [0 .. RingSize - 1 -> Events \cup {Nothing, QuitEvent}]]
  /\ {read_index, write_index} \subseteq [Workers -> 0 .. RingSize - 1]
  /\ closer.w \in Workers

(* The events in a worker's own queue, and all that are on their way.      *)
Local(w) == { slots[w][(read_index[w] + k) % RingSize] : k \in 0 .. Size(w) - 1 } \ {QuitEvent}
InHand(w) == IF worker[w].pc = "ended" THEN {} ELSE {worker[w].event} \ {Nothing, QuitEvent}
Parts == << Range(shared["high"]), Range(shared["low"]) >>
         \o [w \in Workers |-> Local(w)] \o [w \in Workers |-> InHand(w)]
         \o [w \in Workers |-> Range(handled[w])] \o << lost >>

(* With any number of pushers and stage threads, every event pushed is in  *)
(* exactly one place: a shared queue, a thread's queue or its hands,       *)
(* handled, or dropped; without priorities none is dropped, because the    *)
(* batch fits into the empty queue.  It holds as long as close() has not   *)
(* pushed its quit event in the middle of a push of the thread.            *)
EventsAccounted ==
  /\ TypeOK
  /\ "race" \notin excuse =>
       LET parts == Parts
       IN  /\ UNION Range(parts) = 1 .. pushed
           /\ \A i, j \in DOMAIN parts : i # j => parts[i] \cap parts[j] = {}
  /\ ~is_priority /\ ~Closing => lost = {}

(* A thread handles the events of one priority in the order of their push, *)
(* and the slot that a handler looks at has not been written again.        *)
InOrder ==
  "race" \notin excuse =>
    /\ \A w \in Workers : \A i, j \in DOMAIN handled[w] :
         (i < j /\ (handled[w][i] \in urgent <=> handled[w][j] \in urgent)) =>
            handled[w][i] < handled[w][j]
    /\ \A w \in Workers :
         worker[w].pc = "handle" => slots[w][worker[w].at] = worker[w].event

(* Once close() has begun it ends: every thread gets its quit event,       *)
(* unless its queue was full, or the thread was writing to it.             *)
Closes == Closing ~> (closer.pc = "closed" \/ excuse # {})
=============================================================================
