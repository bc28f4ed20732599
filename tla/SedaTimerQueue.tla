--------------------------- MODULE SedaTimerQueue ---------------------------
(***************************************************************************)
(* The timers of a stage thread (seda_timer_queue.cpp): SedaTimerQueue,    *)
(* whose timers have an interval each and whose active list is sorted, and *)
(* SedaLRUTimerQueue, whose timers share one interval and are appended.    *)
(* All calls are made by the stage thread, some of them by the handler     *)
(* that expire() runs for each timer.                                      *)
(*                                                                         *)
(* Callers cancel and update only timers they hold: set, and since then    *)
(* neither cancelled nor handed back by an expire event.  (expire() leaves *)
(* is_active_ set, so the queue itself would not refuse the call.)         *)
(***************************************************************************)
EXTENDS SedaTimerList

CONSTANTS PoolSize,     \* queue_max_size
          FreeList, ActiveList,  \* head_ of free_list_ and of active_list_
          Intervals,    \* the values of interval_ms given to set_timer()
          LruInterval,  \* interval_ms_ of an LRU queue
          MaxClock      \* bound on the clock

Pool == 1 .. PoolSize   \* pool_: the timers

TimerAssumption == /\ PoolSize \in Nat
                   /\ FreeList \notin Pool /\ ActiveList \notin Pool
                   /\ FreeList # ActiveList
                   /\ LruInterval \in Intervals
                   /\ Intervals \subseteq Nat \ {0}
                   /\ MaxClock \in Nat

VARIABLES lru,           \* which of the two queues this is; never changes
          links,         \* next_, prev_ and size_ of the lists
          end_clock_ms, interval_ms, is_active,  \* of each timer
          last_clock_ms,
          clock,         \* what OSApi::timestamp_ms() returns
          expire_pc,     \* "idle", "loop" in expire(), "handler" in its handler
          expire_clock,  \* current_clock_ms of that expire()
          asked,         \* per held timer: its interval; else 0 (history)
          due            \* ... and the time at which it should expire (history)

timers == <<end_clock_ms, interval_ms, is_active>>
expiring == <<expire_pc, expire_clock, last_clock_ms>>
held == <<asked, due>>
vars == <<lru, links, timers, expiring, clock, held>>

Nodes == Pool \cup {FreeList, ActiveList}
Held == { t \in Pool : asked[t] > 0 }

NoLinks == [next |-> [n \in Nodes |-> n], prev |-> [n \in Nodes |-> n],
            size |-> [l \in {FreeList, ActiveList} |-> 0]]

(* init() has pushed every timer of the pool to the back of the free list. *)
PoolLinks ==
  LET pushed[k \in 0 .. PoolSize] ==
        IF k = 0 THEN NoLinks ELSE PushBack(pushed[k - 1], FreeList, k)
  IN  pushed[PoolSize]

Init == /\ lru \in BOOLEAN
        /\ links = PoolLinks
        /\ end_clock_ms = [t \in Pool |-> 0]
        /\ interval_ms = [t \in Pool |-> 0]
        /\ is_active = [t \in Pool |-> FALSE]
        /\ last_clock_ms = 0
        /\ clock = 1
        /\ expire_pc = "idle" /\ expire_clock = 0
        /\ asked = [t \in Pool |-> 0] /\ due = [t \in Pool |-> 0]

-----------------------------------------------------------------------------
(***************************************************************************)
(* Inserting into the active list.  SedaTimerQueue goes back from the last *)
(* node to the first one that ends before the new timer.                   *)
(***************************************************************************)
InsertSorted(m, t, end) ==
  LET back == Backward(m, ActiveList)
      before == { i \in DOMAIN back : end > end_clock_ms[back[i]] }
  IN  IF before = {} THEN PushFront(m, ActiveList, t)
      ELSE InsertAfter(m, ActiveList,
                       back[CHOOSE i \in before : \A j \in before : i <= j], t)

InsertLruFront(m, t, end) ==  \* mutant: the wrong end of the list
  IF lru THEN PushFront(m, ActiveList, t) ELSE InsertSorted(m, t, end)

Insert(m, t, end) ==
  IF m.size[ActiveList] = 0 \/ lru THEN PushBack(m, ActiveList, t)
  ELSE InsertSorted(m, t, end)

CanCall == expire_pc \in {"idle", "handler"}

SetTimer(interval) ==
  /\ CanCall
  /\ links.size[FreeList] > 0
  /\ lru => interval = LruInterval
  /\ LET t == links.next[FreeList]
     IN  /\ links' = Insert(SetSelf(PopFront(links, FreeList), t), t, clock + interval)
         /\ interval_ms' = [interval_ms EXCEPT ![t] = interval]
         /\ end_clock_ms' = [end_clock_ms EXCEPT ![t] = clock + interval]
         /\ is_active' = [is_active EXCEPT ![t] = TRUE]
         /\ asked' = [asked EXCEPT ![t] = interval]
         /\ due' = [due EXCEPT ![t] = clock + interval]
  /\ UNCHANGED <<lru, expiring, clock>>

CancelLeavesLinked(t) ==  \* mutant: not removed from the active list
  /\ CanCall
  /\ t \in Held /\ is_active[t]
  /\ links' = PushFront(links, FreeList, t)
  /\ is_active' = [is_active EXCEPT ![t] = FALSE]
  /\ asked' = [asked EXCEPT ![t] = 0]
  /\ due' = [due EXCEPT ![t] = 0]
  /\ UNCHANGED <<lru, interval_ms, end_clock_ms, expiring, clock>>

(* remove() ends with timer->init().                                       *)
CancelTimer(t) ==
  /\ CanCall
  /\ t \in Held /\ is_active[t]
  /\ links' = PushFront(RemoveFrom(links, ActiveList, t), FreeList, t)
  /\ interval_ms' = [interval_ms EXCEPT ![t] = 0]
  /\ end_clock_ms' = [end_clock_ms EXCEPT ![t] = 0]
  /\ is_active' = [is_active EXCEPT ![t] = FALSE]
  /\ asked' = [asked EXCEPT ![t] = 0]
  /\ due' = [due EXCEPT ![t] = 0]
  /\ UNCHANGED <<lru, expiring, clock>>

(* The interval that end_clock_ms_ is computed from is read after remove() *)
(* has set it to zero.                                                     *)
UpdateTimer(t) ==
  /\ CanCall
  /\ t \in Held /\ is_active[t]
  /\ links' = Insert(RemoveFrom(links, ActiveList, t), t, clock)
  /\ interval_ms' = [interval_ms EXCEPT ![t] = 0]
  /\ end_clock_ms' = [end_clock_ms EXCEPT ![t] = clock]
  /\ is_active' = [is_active EXCEPT ![t] = TRUE]
  /\ due' = [due EXCEPT ![t] = clock + asked[t]]
  /\ UNCHANGED <<lru, expiring, clock, asked>>

-----------------------------------------------------------------------------
(* expire(current_clock_ms) with the present time.                         *)
ExpireBegin == /\ expire_pc = "idle"
               /\ clock > last_clock_ms
               /\ last_clock_ms' = clock
               /\ expire_clock' = clock
               /\ expire_pc' = "loop"
               /\ UNCHANGED <<lru, links, timers, clock, held>>

FrontDue == /\ links.size[ActiveList] > 0
            /\ expire_clock >= end_clock_ms[links.next[ActiveList]]

ExpireFront ==
  /\ expire_pc = "loop"
  /\ FrontDue
  /\ LET t == links.next[ActiveList]
     IN  /\ links' = PushFront(PopFront(links, ActiveList), FreeList, t)
         /\ asked' = [asked EXCEPT ![t] = 0]
         /\ due' = [due EXCEPT ![t] = 0]
  /\ expire_pc' = "handler"
  /\ UNCHANGED <<lru, timers, expire_clock, last_clock_ms, clock>>

HandlerReturns == /\ expire_pc = "handler"
                  /\ expire_pc' = "loop"
                  /\ UNCHANGED <<lru, links, timers, expire_clock, last_clock_ms,
                                 clock, held>>

ExpireEnd == /\ expire_pc = "loop"
             /\ ~FrontDue
             /\ expire_pc' = "idle"
             /\ UNCHANGED <<lru, links, timers, expire_clock, last_clock_ms,
                            clock, held>>

Tick == /\ clock < MaxClock
        /\ clock' = clock + 1
        /\ UNCHANGED <<lru, links, timers, expiring, held>>

Next == \/ \E interval \in Intervals : SetTimer(interval)
        \/ \E t \in Pool : CancelTimer(t) \/ UpdateTimer(t)
        \/ ExpireBegin \/ ExpireFront \/ HandlerReturns \/ ExpireEnd
        \/ Tick

Spec == Init /\ [][Next]_vars

-----------------------------------------------------------------------------
TypeOK == /\ lru \in BOOLEAN
          /\ links.next \in [Nodes -> Nodes] /\ links.prev \in [Nodes -> Nodes]
          /\ links.size \in [{FreeList, ActiveList} -> Nat]
          /\ end_clock_ms \in [Pool -> Nat] /\ interval_ms \in [Pool -> Nat]
          /\ is_active \in [Pool -> BOOLEAN]
          /\ expire_pc \in {"idle", "loop", "handler"}

NodesOf(list) == { Forward(links, list)[i] : i \in 1 .. links.size[list] }

(* Through any sequence of sets, cancels, updates and expirations, nested  *)
(* in a handler or not, both lists are well linked, the active list holds  *)
(* exactly the timers the program holds, and the free list all others: no  *)
(* timer leaks, is handed out twice, or expires after it was cancelled.    *)
ListsIntact == /\ TypeOK
               /\ WellLinked(links, ActiveList) /\ WellLinked(links, FreeList)
               /\ NodesOf(ActiveList) = Held
               /\ NodesOf(FreeList) = Pool \ Held
               /\ \A t \in Held : is_active[t]

(* When an expire() ends, every timer whose time had come has been handed  *)
(* to the handler: none is hidden behind a later one in the list, although *)
(* an updated timer has another end_clock_ms_ than it should.              *)
NoneLate == [][ExpireEnd => \A t \in Held : due[t] > expire_clock]_vars

(* "In an LRUTimerQueue the interval of all timers is fixed": a timer that *)
(* is active has the interval of its queue.  update_timer() breaks it.     *)
FixedInterval == lru => \A t \in Held : interval_ms[t] = LruInterval
=============================================================================
