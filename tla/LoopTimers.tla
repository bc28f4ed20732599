----------------------------- MODULE LoopTimers -----------------------------
(***************************************************************************)
(* The timers of an event loop (timer_queue.h, timer.h): one list per      *)
(* interval, in the order of arrival, worked through by the loop thread,   *)
(* which runs handle_timeout() after it has let go of the mutex and adds   *)
(* CYCLE timers again; and the wait of the loop, which min_interval()      *)
(* shortens.  Any thread adds and cancels timers; they are kept alive.     *)
(* The lists are those of SedaTimerList, whose code timer.h repeats.       *)
(* enabled_ is left out: nothing but a program that uses timers calls      *)
(* enabled(false).                                                         *)
(*                                                                         *)
(* Times are relative to the present, so that the clock has no end.        *)
(***************************************************************************)
EXTENDS SedaTimerList, Integers, FiniteSets, SequencesExt

CONSTANTS Timers,
          CycleTimers,   \* those with timer_type_ CYCLE
          Intervals,     \* interval_ of the timers that are added
          Timeout,       \* max_timeout_us_ of the loop, if it is not negative
          HasTimeout,    \* whether it is; -1 is the default
          MaxLag         \* bound on the time a reading of the clock gets old

ASSUME LoopTimersAssumption == /\ CycleTimers \subseteq Timers
                               /\ Intervals \subseteq Nat \ {0}
                               /\ Timeout \in Nat /\ HasTimeout \in BOOLEAN
                               /\ MaxLag \in Nat

max_timeout == IF HasTimeout THEN Timeout ELSE -1
Lists == Intervals \cup {0}    \* interval_timers_: each list by its interval
Nodes == Timers \cup Lists
Callers == {"user", "handler"} \* another thread, and handle_timeout()

VARIABLES links,       \* next_, prev_, size_
          interval, queued,   \* interval_, timer_queue_
          left,        \* expire_time_, as the time left
          keys,        \* the intervals that interval_timers_ has a list for
          timeout_timers, \* timeout_timers_
          loop,        \* the loop thread: pc, the age of its timestamp, its wait
          call,        \* what each caller is in, with the age of its timestamp
          silent,      \* timers cancelled with success, not added since (history)
          raced        \* an unlocked test of timer_queue_ was overtaken (history)

timer == <<links, interval, queued, left, keys>>
vars == <<timer, timeout_timers, loop, call, silent, raced>>

NoCall == [op |-> "none", t |-> 0, i |-> 0, age |-> 0]
Init == /\ links = [next |-> [n \in Nodes |-> n], prev |-> [n \in Nodes |-> n],
                    size |-> [l \in Lists |-> 0]]
        /\ interval = [t \in Timers |-> 0]
        /\ queued = [t \in Timers |-> FALSE]
        /\ left = [t \in Timers |-> 0]
        /\ keys = {} /\ timeout_timers = << >>
        /\ loop = [pc |-> "wait", lag |-> 0, wait |-> 0]
        /\ call = [c \in Callers |-> NoCall]
        /\ silent = {} /\ raced = FALSE

-----------------------------------------------------------------------------
(***************************************************************************)
(* Calls: another thread makes them at any time, and handle_timeout(),     *)
(* which the loop runs without the mutex.  interval() and the tests of     *)
(* cancel_timer() take no mutex either; what add_timer() and               *)
(* delete_timer() do under it is one step.                                 *)
(***************************************************************************)
Idle(c) == /\ call[c] = NoCall
           /\ c = "handler" => loop.pc = "handler"

Return(c) == call' = [call EXCEPT ![c] = NoCall]

(* interval(i) leaves a timer that is in a queue alone; add_timer() then   *)
(* reads the clock before it gets the mutex.                               *)
TestInterval(c, t, i) ==
  /\ Idle(c)
  /\ call' = [call EXCEPT ![c] =
                IF queued[t] THEN [op |-> "add", t |-> t, i |-> 0, age |-> 0]
                ELSE [op |-> "write", t |-> t, i |-> i, age |-> 0]]
  /\ UNCHANGED <<timer, timeout_timers, loop, silent, raced>>

(* The test may be old: the timer may have been added since.               *)
SetInterval(c) ==
  /\ call[c].op = "write"
  /\ interval' = [interval EXCEPT ![call[c].t] = call[c].i]
  /\ raced' = queued[call[c].t]
  /\ call' = [call EXCEPT ![c] = [@ EXCEPT !.op = "add", !.i = 0]]
  /\ UNCHANGED <<links, queued, left, keys, timeout_timers, loop, silent>>

Enqueue(t, age) ==
  /\ queued' = [queued EXCEPT ![t] = TRUE]
  /\ left' = [left EXCEPT ![t] = interval[t] - age]
  /\ keys' = keys \cup {interval[t]}
  /\ links' = PushBack(links, interval[t], t)

AddTimer(c) ==
  /\ call[c].op = "add"
  /\ LET t == call[c].t
     IN  IF queued[t] THEN Return(c) /\ UNCHANGED <<links, queued, left, keys, silent>>
         ELSE /\ Enqueue(t, call[c].age)
              /\ silent' = silent \ {t}
              /\ IF c = "handler" THEN Return(c)
                 ELSE call' = [call EXCEPT ![c] = [NoCall EXCEPT !.op = "wakeup"]]
  /\ UNCHANGED <<interval, timeout_timers, loop, raced>>

(* loop_wakeup(), after the mutex is unlocked; the loop's own thread finds *)
(* its flag down.                                                          *)
Wakeup(c) ==
  /\ call[c].op = "wakeup"
  /\ loop' = [loop EXCEPT !.wait = 0]
  /\ Return(c)
  /\ UNCHANGED <<timer, timeout_timers, silent, raced>>

(* cancel_timer() tests timer_queue_, and reads it again to call it.       *)
CancelTimer(c, t) ==
  /\ Idle(c)
  /\ queued[t]
  /\ call' = [call EXCEPT ![c] = [op |-> "cancel", t |-> t, i |-> 0, age |-> 0]]
  /\ UNCHANGED <<timer, timeout_timers, loop, silent, raced>>

DeleteInitFirst(t) ==  \* mutant: init() before the list is looked up
  /\ queued' = [queued EXCEPT ![t] = FALSE]
  /\ links' = RemoveFrom(links, 0, t)
  /\ interval' = [interval EXCEPT ![t] = 0]

(* timer_queue_ is set to null before the list of interval_ is looked up;  *)
(* remove() does nothing in an empty list and ends with timer->init().     *)
Delete(t) ==
  /\ queued' = [queued EXCEPT ![t] = FALSE]
  /\ links' = RemoveFrom(links, interval[t], t)
  /\ interval' = IF links.size[interval[t]] = 0 THEN interval
                 ELSE [interval EXCEPT ![t] = 0]

(* A write of interval() may fall between those lines, from a test before  *)
(* them or there.                                                          *)
MayWrite(c, t) == \E d \in Callers \ {c} :
                    Idle(d) \/ (call[d].op = "write" /\ call[d].t = t)

(* The second reading finds null if the timer has left the queue since the *)
(* test; if it leaves only after that, delete_timer() leaves it alone,     *)
(* also if its handler is about to be run.                                 *)
DeleteTimer(c) ==
  /\ call[c].op = "cancel"
  /\ LET t == call[c].t
     IN  IF queued[t]
         THEN /\ Delete(t)
              /\ left' = [left EXCEPT ![t] = 0]
              /\ silent' = IF Contains(timeout_timers, t) THEN silent ELSE silent \cup {t}
              /\ raced' \in {FALSE, MayWrite(c, t)}
         ELSE raced' \in BOOLEAN /\ UNCHANGED <<links, interval, queued, left, silent>>
  /\ Return(c)
  /\ UNCHANGED <<keys, timeout_timers, loop>>

Continue(c) == SetInterval(c) \/ AddTimer(c) \/ Wakeup(c) \/ DeleteTimer(c)

-----------------------------------------------------------------------------
(***************************************************************************)
(* The loop: it waits for max_timeout_us_ or for the smallest interval,    *)
(* whichever is less, and then reads the clock and runs what is due.       *)
(***************************************************************************)
WaitTime == LET m == IF keys = {} THEN -1 ELSE Min(keys)
            IN  IF m > 0 THEN Min({m, max_timeout}) ELSE max_timeout

StartWait == /\ loop.pc = "wait"
             /\ loop' = [pc |-> "waiting", lag |-> 0, wait |-> WaitTime]
             /\ UNCHANGED <<timer, timeout_timers, call, silent, raced>>

(* An event ends the wait; so do loop_wakeup() and the timeout.            *)
Event == /\ loop.pc = "waiting"
         /\ loop' = [loop EXCEPT !.wait = 0]
         /\ UNCHANGED <<timer, timeout_timers, call, silent, raced>>

Wake == /\ loop.pc = "waiting" /\ loop.wait = 0
        /\ loop' = [loop EXCEPT !.pc = "expire", !.lag = 0]
        /\ UNCHANGED <<timer, timeout_timers, call, silent, raced>>

(* Times are of interest down to -MaxLag.                                  *)
Tick == /\ loop.pc \in {"waiting", "wait"} \/ loop.lag < MaxLag
        /\ \A c \in Callers : call[c].op = "add" => call[c].age < MaxLag
        /\ left' = [t \in Timers |-> IF queued[t] THEN Max({left[t] - 1, -MaxLag})
                                     ELSE left[t]]
        /\ loop' = IF loop.pc = "waiting"
                   THEN [loop EXCEPT !.wait = IF @ > 0 THEN @ - 1 ELSE @]
                   ELSE IF loop.pc = "wait" THEN loop ELSE [loop EXCEPT !.lag = @ + 1]
        /\ call' = [c \in Callers |-> IF call[c].op = "add"
                                      THEN [call[c] EXCEPT !.age = @ + 1] ELSE call[c]]
        /\ UNCHANGED <<links, interval, queued, keys, timeout_timers, silent, raced>>

(* Under the mutex: of every list the timers that are due are taken from   *)
(* the front.                                                              *)
Ripe(f) == LET late == { k \in DOMAIN f : left[f[k]] > -loop.lag }
           IN  SubSeq(f, 1, IF late = {} THEN Len(f) ELSE Min(late) - 1)
DueOfFirst(l) ==  \* mutant: only the list of the least interval is looked at
  IF \E k \in keys : k < l THEN << >> ELSE Ripe(Forward(links, l))
Due(l) == Ripe(Forward(links, l))

AllDue == FoldSet(LAMBDA l, s : s \o Due(l), << >>, Lists)

Expire ==
  /\ loop.pc = "expire"
  /\ timeout_timers' = AllDue
  /\ queued' = [t \in Timers |-> queued[t] /\ \A k \in DOMAIN AllDue : AllDue[k] # t]
  /\ left' = [t \in Timers |-> IF queued'[t] THEN left[t] ELSE 0]
  /\ links' = FoldSet(LAMBDA l, m : FoldLeft(LAMBDA n, t : PopFront(n, l), m, Due(l)),
                      links, Lists)
  /\ loop' = [loop EXCEPT !.pc = "handle"]
  /\ UNCHANGED <<interval, keys, call, silent, raced>>

(* handle_timeout() of the next one, without the mutex.                    *)
HandleTimeout ==
  /\ loop.pc = "handle" /\ timeout_timers # << >>
  /\ loop' = [loop EXCEPT !.pc = "handler"]
  /\ UNCHANGED <<timer, timeout_timers, call, silent, raced>>

AddAlways(t) == Enqueue(t, loop.lag)  \* mutant: queued or not
AddAgain(t) == IF queued[t] THEN UNCHANGED <<links, queued, left, keys>>
               ELSE Enqueue(t, loop.lag)

(* A CYCLE timer is added again with the time at which the round began.    *)
HandlerReturns ==
  /\ loop.pc = "handler" /\ call["handler"] = NoCall
  /\ LET t == Head(timeout_timers)
     IN  /\ IF t \in CycleTimers THEN AddAgain(t) ELSE UNCHANGED <<links, queued, left, keys>>
         /\ silent' = IF t \in CycleTimers THEN silent \ {t} ELSE silent
  /\ timeout_timers' = Tail(timeout_timers)
  /\ loop' = [loop EXCEPT !.pc = "handle"]
  /\ UNCHANGED <<interval, call, raced>>

LoopEnd == /\ loop.pc = "handle" /\ timeout_timers = << >>
           /\ loop' = [pc |-> "wait", lag |-> 0, wait |-> 0]
           /\ UNCHANGED <<timer, timeout_timers, call, silent, raced>>

LoopThread == \/ StartWait \/ Wake \/ Expire \/ HandleTimeout \/ HandlerReturns
              \/ LoopEnd

(* After a race that nothing is promised about, no step is looked at.      *)
Next == /\ ~raced
        /\ \/ LoopThread \/ Tick \/ Event
           \/ \E c \in Callers : Continue(c)
           \/ \E c \in Callers, t \in Timers :
                \/ CancelTimer(c, t)
                \/ \E i \in Intervals : TestInterval(c, t, i)

Spec == Init /\ [][Next]_vars

(* The threads run, time passes, and a handler returns after finitely many *)
(* calls.                                                                  *)
Fairness == /\ WF_vars(~raced /\ LoopThread) /\ SF_vars(~raced /\ HandlerReturns)
            /\ WF_vars(~raced /\ Tick)
            /\ \A c \in Callers : WF_vars(~raced /\ Continue(c))
FairSpec == Spec /\ Fairness

-----------------------------------------------------------------------------
TypeOK ==
  /\ links.next \in [Nodes -> Nodes] /\ links.prev \in [Nodes -> Nodes]
  /\ interval \in [Timers -> Lists] /\ queued \in [Timers -> BOOLEAN]
  /\ left \in [Timers -> Int] /\ keys \subseteq Lists
  /\ loop.pc \in {"wait", "waiting", "expire", "handle", "handler"}
  /\ \A c \in Callers : call[c].op \in {"none", "write", "add", "wakeup", "cancel"}
  /\ silent \subseteq Timers /\ raced \in BOOLEAN

(* However timers are added, cancelled and run out, by the loop's thread   *)
(* in a handler or by another one, up to the first time that interval()    *)
(* writes to a timer added since it tested timer_queue_, or cancel_timer() *)
(* finds it null after its test: every list is well linked and holds       *)
(* exactly the queued timers of its interval.                              *)
OnLists(l) == { Forward(links, l)[k] : k \in 1 .. links.size[l] }
ListsHold == /\ TypeOK
             /\ ~raced => \A l \in Lists :
                  /\ WellLinked(links, l)
                  /\ OnLists(l) = { t \in Timers : queued[t] /\ interval[t] = l }

(* A timer that was cancelled while it was queued, and not taken out by    *)
(* the loop before that, does not run before it is added again; up to such *)
(* a race, after which delete_timer() may look in the wrong list.          *)
CancelledIsSilent ==
  [][HandleTimeout => Head(timeout_timers) \notin silent]_vars

(* A queued timer is run or cancelled, if the loop has a timeout and no    *)
(* such race comes first: it is never left in a list the loop no longer    *)
(* looks at, nor does the loop sleep past it.                              *)
Fires == \A t \in Timers : []<>(~queued[t] \/ raced)
=============================================================================
