------------------------------ MODULE EventLoop ------------------------------
(***************************************************************************)
(* The wake-up protocol of the event loop (epoll_event_loop.h; that of     *)
(* SelectEventLoop is the same): threads push events to the loop's         *)
(* DoubleBufferEventTypeQueue and wake the loop thread through             *)
(* wakeup_flag_ and an eventfd; loop() sleeps in epoll_wait, then handles  *)
(* what is ready, a bounded part of the queue, and its timers.             *)
(*                                                                         *)
(* Of the handlers in the loop only the NotifyHandler is modelled; the     *)
(* others may make epoll_wait return at any time.  The timers of the loop  *)
(* do not touch this state and are left out.                               *)
(***************************************************************************)
EXTENDS DoubleBufferQueue

CONSTANTS Stopper,   \* the thread that stops the loop
          Quit,      \* QuitEvent
          MaxCalls   \* bound on the calls of push_event()

ASSUME LoopAssumption == /\ Stopper \notin Producers \cup {Consumer, None}
                         /\ MaxCalls \in Nat

VARIABLES timed,        \* whether max_timeout_us_ >= 0; never changes
          thread_state, \* thread_.state(): "running", "stopped"
          loop_pc,      \* where the loop thread is
          ready,        \* whether epoll_wait returned the NotifyHandler
          times,        \* i in EventLoopQueue::loop()
          wakeup_flag,
          eventfd,      \* whether the counter of the eventfd is not zero
          call_pc,      \* per caller: where push_event() or the stopping is
          calls,        \* calls of push_event() so far
          accepted, handled  \* how many events (history)

loopVars == <<thread_state, loop_pc, ready, times>>
history == <<calls, accepted, handled>>
vars == <<qvars, timed, loopVars, wakeup_flag, eventfd, call_pc, history>>

Callers == Producers \cup {Stopper}

Init == /\ QInit
        /\ timed \in BOOLEAN
        /\ thread_state = "running"
        /\ loop_pc = "top" /\ ready = FALSE /\ times = 0
        /\ wakeup_flag = TRUE
        /\ eventfd = FALSE
        /\ call_pc = [p \in Callers |-> "idle"]
        /\ calls = 0 /\ accepted = 0 /\ handled = 0

-----------------------------------------------------------------------------
CallPush(p, v) ==
  /\ call_pc[p] = "idle"
  /\ calls < MaxCalls
  /\ PushLock(p, v)
  /\ calls' = calls + 1
  /\ call_pc' = [call_pc EXCEPT ![p] = "push"]
  /\ UNCHANGED <<timed, loopVars, wakeup_flag, eventfd, accepted, handled>>

PushReturns(p) ==
  /\ PushUnlock(p)
  /\ accepted' = IF Full THEN accepted ELSE accepted + 1
  /\ call_pc' = [call_pc EXCEPT ![p] = IF Full THEN "idle" ELSE "wakeup"]
  /\ UNCHANGED <<timed, loopVars, wakeup_flag, eventfd, calls, handled>>

StopAlone ==  \* mutant: without loop_wakeup()
  /\ call_pc[Stopper] = "idle"
  /\ thread_state' = "stopped"
  /\ call_pc' = [call_pc EXCEPT ![Stopper] = "join"]
  /\ UNCHANGED <<qvars, timed, loop_pc, ready, times, wakeup_flag, eventfd, history>>

(* loop_thread_stop(), followed by loop_wakeup() and loop_thread_join() as *)
(* in the examples: loop_thread_stop() alone wakes nobody.                 *)
Stop == /\ call_pc[Stopper] = "idle"
        /\ thread_state' = "stopped"
        /\ call_pc' = [call_pc EXCEPT ![Stopper] = "wakeup"]
        /\ UNCHANGED <<qvars, timed, loop_pc, ready, times, wakeup_flag, eventfd,
                       history>>

(* loop_wakeup(): if (wakeup_flag_.exchange(false)) ... notify().          *)
Returned(p) == IF p = Stopper THEN "join" ELSE "idle"

Exchange(p) ==
  /\ call_pc[p] = "wakeup"
  /\ wakeup_flag' = FALSE
  /\ call_pc' = [call_pc EXCEPT ![p] = IF wakeup_flag THEN "notify" ELSE Returned(p)]
  /\ UNCHANGED <<qvars, timed, loopVars, eventfd, history>>

NotifyWrite(p) ==
  /\ call_pc[p] = "notify"
  /\ eventfd' = TRUE
  /\ call_pc' = [call_pc EXCEPT ![p] = Returned(p)]
  /\ UNCHANGED <<qvars, timed, loopVars, wakeup_flag, history>>

JoinReturns == /\ call_pc[Stopper] = "join"
               /\ loop_pc = "ended"
               /\ call_pc' = [call_pc EXCEPT ![Stopper] = "joined"]
               /\ UNCHANGED <<qvars, timed, loopVars, wakeup_flag, eventfd, history>>

-----------------------------------------------------------------------------
(* while (thread.state() == RUNNING) loop(max_timeout_us_)                 *)
CheckState ==
  /\ loop_pc = "top"
  /\ loop_pc' = IF thread_state = "running" THEN "wait" ELSE "ended"
  /\ UNCHANGED <<qvars, timed, thread_state, ready, times, wakeup_flag, eventfd,
                 call_pc, history>>

EpollReturns ==
  /\ loop_pc = "wait"
  /\ ready' = eventfd
  /\ loop_pc' = "awake"
  /\ UNCHANGED <<qvars, timed, thread_state, times, wakeup_flag, eventfd, call_pc,
                 history>>

Notified == eventfd /\ EpollReturns    \* the NotifyHandler is ready
TimeoutForgotten == eventfd /\ EpollReturns  \* mutant: epoll_wait(..., -1)
TimedOut == timed /\ EpollReturns      \* the timeout is over
OtherReady == EpollReturns             \* another handler is ready

(* wakeup_flag_.store(false) comes before anything that was ready.         *)
Disarm == /\ loop_pc = "awake"
          /\ wakeup_flag' = FALSE
          /\ loop_pc' = "handlers"
          /\ UNCHANGED <<qvars, timed, thread_state, ready, times, eventfd, call_pc,
                         history>>

(* NotifyHandler::handle_read() resets the counter.                        *)
HandleReady == /\ loop_pc = "handlers"
               /\ eventfd' = IF ready THEN FALSE ELSE eventfd
               /\ loop_pc' = "queue"
               /\ times' = 0
               /\ UNCHANGED <<qvars, timed, thread_state, ready, wakeup_flag, call_pc,
                              history>>

(* EventLoopQueue::loop(capacity): at most capacity iterations, each a     *)
(* pop that handles an event or a swap; it ends early when both buffers    *)
(* are empty or the event was a quit event.                                *)
HandleBegin == /\ loop_pc = "queue" /\ times < Capacity
               /\ PopBegin
               /\ UNCHANGED <<timed, loopVars, wakeup_flag, eventfd, call_pc, history>>

HandleEnd == /\ loop_pc = "queue"
             /\ PopEnd
             /\ handled' = handled + 1
             /\ times' = times + 1
             /\ loop_pc' = IF Head(buf[active_buf]) = Quit THEN "arm" ELSE "queue"
             /\ UNCHANGED <<timed, thread_state, ready, wakeup_flag, eventfd, call_pc,
                            calls, accepted>>

SwapBegin == /\ loop_pc = "queue" /\ times < Capacity
             /\ SwapLock
             /\ UNCHANGED <<timed, loopVars, wakeup_flag, eventfd, call_pc, history>>

SwapEnd == /\ SwapUnlock
           /\ times' = times + 1
           /\ loop_pc' = IF active_buf' = active_buf THEN "arm" ELSE "queue"
           /\ UNCHANGED <<timed, thread_state, ready, wakeup_flag, eventfd, call_pc,
                          history>>

TimesUp == /\ loop_pc = "queue" /\ times = Capacity
           /\ loop_pc' = "arm"
           /\ UNCHANGED <<qvars, timed, thread_state, ready, times, wakeup_flag,
                          eventfd, call_pc, history>>

ArmForgotten ==  \* mutant: without wakeup_flag_.store(true)
  /\ loop_pc = "arm"
  /\ loop_pc' = "top"
  /\ UNCHANGED <<qvars, timed, thread_state, ready, times, wakeup_flag, eventfd,
                 call_pc, history>>

(* wakeup_flag_.store(true), and loop() returns without another look at    *)
(* the queue.                                                              *)
Arm == /\ loop_pc = "arm"
       /\ wakeup_flag' = TRUE
       /\ loop_pc' = "top"
       /\ UNCHANGED <<qvars, timed, thread_state, ready, times, eventfd, call_pc,
                      history>>

-----------------------------------------------------------------------------
Caller(p) == Exchange(p) \/ NotifyWrite(p)

LoopStep == \/ CheckState \/ Notified \/ TimedOut \/ Disarm \/ HandleReady
            \/ HandleBegin \/ HandleEnd \/ SwapBegin \/ SwapEnd \/ TimesUp \/ Arm

Next == \/ \E p \in Producers : \/ \E v \in Values : CallPush(p, v)
                                \/ PushReturns(p)
        \/ \E p \in Callers : Caller(p)
        \/ Stop \/ JoinReturns
        \/ LoopStep \/ OtherReady

(* Every thread that can run does; epoll_wait returns when the eventfd is  *)
(* ready or its timeout is over.  Nobody has to push or to stop the loop,  *)
(* and no other handler ever has to become ready.                          *)
Fairness == /\ WF_vars(LoopStep)
            /\ \A p \in Producers : WF_vars(PushReturns(p))
            /\ \A p \in Callers : WF_vars(Caller(p))
            /\ WF_vars(JoinReturns)

Spec == Init /\ [][Next]_vars /\ Fairness

-----------------------------------------------------------------------------
TypeOK ==
  /\ timed \in BOOLEAN /\ ready \in BOOLEAN
  /\ wakeup_flag \in BOOLEAN /\ eventfd \in BOOLEAN
  /\ thread_state \in {"running", "stopped"}
  /\ loop_pc \in {"top", "wait", "awake", "handlers", "queue", "arm", "ended"}
  /\ times \in 0 .. Capacity
  /\ call_pc \in [Callers -> {"idle", "push", "wakeup", "notify", "join", "joined"}]
  /\ calls \in 0 .. MaxCalls /\ accepted \in 0 .. calls /\ handled \in 0 .. accepted

(* While the loop sleeps, or is about to, a wake-up cannot be swallowed:   *)
(* either the next loop_wakeup() will write the eventfd, or it is written  *)
(* already, or a caller is about to.                                       *)
WakeupArmed ==
  /\ TypeOK
  /\ QInv
  /\ loop_pc \in {"top", "wait"} =>
       wakeup_flag \/ eventfd \/ \E p \in Callers : call_pc[p] = "notify"

(* With a timeout, every event that push_event() accepted is handled in    *)
(* the end, also if it was pushed after the loop's last look at the queue  *)
(* and before the flag was set, or was left over by the bounded number of  *)
(* iterations, unless the loop is stopped first.                           *)
EveryEventHandled ==
  \A n \in 1 .. MaxCalls : timed /\ accepted >= n ~> handled >= n \/ loop_pc = "ended"

(* Also without a timeout, a loop thread that is stopped and then woken    *)
(* ends, and the join returns: a wake-up that finds the flag cleared by    *)
(* the loop itself comes before the loop tests its thread's state.         *)
StopEnds == call_pc[Stopper] # "idle" ~> call_pc[Stopper] = "joined"
=============================================================================
