--------------------------- MODULE SedaStageThread ---------------------------
(***************************************************************************)
(* One thread of a stage (seda_stage_thread.h): it pops events from its    *)
(* DoubleBufferEventTypeQueue, runs the handler on each, and sleeps on a   *)
(* condition variable when both buffers are empty.  The threads that call  *)
(* push_event() wake it; one thread stops and joins it (SedaStage::close). *)
(*                                                                         *)
(* The queue's producers are the pushers and the closer; its consumer is   *)
(* the stage thread.  accepted and handled are history variables.          *)
(***************************************************************************)
EXTENDS DoubleBufferQueue

CONSTANTS Closer,   \* the thread that calls SedaStage::close()
          Quit,     \* SedaQuitEvent
          Signal,   \* timedwait_signal_
          MaxCalls  \* bound on the calls of push_event()

ASSUME StageAssumption == /\ Closer \in Producers
                          /\ Quit \in Values
                          /\ Signal \in BOOLEAN
                          /\ MaxCalls \in Nat

Pushers == Producers \ {Closer}
Events == Values \ {Quit}

VARIABLES stage_pc,       \* where thread_proc is
          timedwait_flag, \* timedwait_flag_
          call_pc,        \* per producer: where push_event() or close() is
          calls,          \* the number of calls of push_event() so far
          accepted, handled

history == <<accepted, handled>>
vars == <<qvars, stage_pc, timedwait_flag, call_pc, calls, history>>

Init == /\ QInit
        /\ stage_pc = "pop"
        /\ timedwait_flag = FALSE
        /\ call_pc = [p \in Producers |-> "idle"]
        /\ calls = 0
        /\ accepted = << >> /\ handled = << >>

-----------------------------------------------------------------------------
(***************************************************************************)
(* push_event(event), and close(): stop() and join().  That close() then   *)
(* deletes the stage thread, which no caller may be using by then, is not  *)
(* modelled.                                                               *)
(***************************************************************************)
CallPush(p, v) ==
  /\ call_pc[p] = "idle"
  /\ PushLock(p, v)
  /\ IF p = Closer THEN v = Quit /\ UNCHANGED calls
     ELSE v \in Events /\ calls < MaxCalls /\ calls' = calls + 1
  /\ call_pc' = [call_pc EXCEPT ![p] = "push"]
  /\ UNCHANGED <<stage_pc, timedwait_flag, history>>

(* The queue's push returns.  stop() ignores the result: it notifies even  *)
(* if the queue was full and has not taken the quit event.                 *)
PushReturns(p) ==
  /\ PushUnlock(p)
  /\ accepted' = IF Full THEN accepted ELSE accepted \o push_value[p]
  /\ call_pc' = [call_pc EXCEPT ![p] = IF p = Closer THEN "notify"
                                       ELSE IF Signal /\ ~Full THEN "load"
                                       ELSE "idle"]
  /\ UNCHANGED <<stage_pc, timedwait_flag, calls, handled>>

(* if (timedwait_flag_.load()) { timedwait_flag_.store(false);             *)
LoadFlag(p) ==
  /\ call_pc[p] = "load"
  /\ call_pc' = [call_pc EXCEPT ![p] = IF timedwait_flag THEN "store" ELSE "idle"]
  /\ UNCHANGED <<qvars, stage_pc, timedwait_flag, calls, history>>

StoreFlag(p) == /\ call_pc[p] = "store"
                /\ timedwait_flag' = FALSE
                /\ call_pc' = [call_pc EXCEPT ![p] = "notify"]
                /\ UNCHANGED <<qvars, stage_pc, calls, history>>

(* timedwait_condition_.notify_one(), without the mutex: it wakes a thread *)
(* that waits and does nothing for one that is about to wait.              *)
Notify(p) ==
  /\ call_pc[p] = "notify"
  /\ stage_pc' = IF stage_pc = "waiting" THEN "woken" ELSE stage_pc
  /\ call_pc' = [call_pc EXCEPT ![p] = IF p = Closer THEN "join" ELSE "idle"]
  /\ UNCHANGED <<qvars, timedwait_flag, calls, history>>

(* thread_.join() returns once thread_proc has.                            *)
JoinReturns == /\ call_pc[Closer] = "join"
               /\ stage_pc = "closed"
               /\ call_pc' = [call_pc EXCEPT ![Closer] = "joined"]
               /\ UNCHANGED <<qvars, stage_pc, timedwait_flag, calls, history>>

-----------------------------------------------------------------------------
(* thread_proc: event = event_queue.pop(stage_handler), not empty.         *)
HandleBegin == /\ stage_pc = "pop"
               /\ PopBegin
               /\ UNCHANGED <<stage_pc, timedwait_flag, call_pc, calls, history>>

HandleEndGoesOn ==  \* mutant: the quit event is an event like others
  /\ stage_pc = "pop"
  /\ PopEnd
  /\ handled' = Append(handled, Head(buf[active_buf]))
  /\ UNCHANGED <<stage_pc, timedwait_flag, call_pc, calls, accepted>>

(* The handler returns, also from the quit event, which ends the loop.  No *)
(* other thread writes the active buffer, so the type read through the     *)
(* returned pointer is the type of the event handled.                      *)
HandleEnd == /\ stage_pc = "pop"
             /\ PopEnd
             /\ LET event == Head(buf[active_buf])
                IN  /\ handled' = Append(handled, event)
                    /\ stage_pc' = IF event = Quit THEN "closed" ELSE "pop"
             /\ UNCHANGED <<timedwait_flag, call_pc, calls, accepted>>

(* pop() returned nullptr, or the wait is over: swap_buffer() is called.   *)
SwapBegin == /\ stage_pc \in {"pop", "swap"}
             /\ SwapLock
             /\ UNCHANGED <<stage_pc, timedwait_flag, call_pc, calls, history>>

SwapEndWaits ==  \* mutant: waits although the swap found events
  /\ SwapUnlock
  /\ stage_pc' = IF stage_pc = "pop" THEN "flag" ELSE "pop"
  /\ UNCHANGED <<timedwait_flag, call_pc, calls, history>>

(* The first swap decides whether to wait; the result of the one after the *)
(* wait is not used.                                                       *)
SwapEnd == /\ SwapUnlock
           /\ stage_pc' = IF stage_pc = "pop" /\ active_buf' = active_buf
                          THEN "flag" ELSE "pop"
           /\ UNCHANGED <<timedwait_flag, call_pc, calls, history>>

SetFlag == /\ stage_pc = "flag"
           /\ timedwait_flag' = TRUE
           /\ stage_pc' = "enter"
           /\ UNCHANGED <<qvars, call_pc, calls, history>>

Wait == /\ stage_pc = "enter"
        /\ stage_pc' = "waiting"
        /\ UNCHANGED <<qvars, timedwait_flag, call_pc, calls, history>>

TimeoutNever ==  \* mutant: wait() in place of wait_for()
  /\ stage_pc = "waiting" /\ ~Signal
  /\ stage_pc' = "woken"
  /\ UNCHANGED <<qvars, timedwait_flag, call_pc, calls, history>>

(* wait_for() returns by itself: its time is up, or it wakes spuriously.   *)
Timeout == /\ stage_pc = "waiting"
           /\ stage_pc' = "woken"
           /\ UNCHANGED <<qvars, timedwait_flag, call_pc, calls, history>>

ClearFlag == /\ stage_pc = "woken"
             /\ timedwait_flag' = FALSE
             /\ stage_pc' = "swap"
             /\ UNCHANGED <<qvars, call_pc, calls, history>>

-----------------------------------------------------------------------------
Caller(p) == \/ \E v \in Values : CallPush(p, v)
             \/ PushReturns(p) \/ LoadFlag(p) \/ StoreFlag(p) \/ Notify(p)

StageThread == \/ HandleBegin \/ HandleEnd \/ SwapBegin \/ SwapEnd
               \/ SetFlag \/ Wait \/ Timeout \/ ClearFlag

Next == (\E p \in Producers : Caller(p)) \/ JoinReturns \/ StageThread

Spec == Init /\ [][Next]_vars

(* The operating system runs every thread that can run, and wait_for()     *)
(* returns in the end.  Nobody is obliged to call push_event() or close(), *)
(* but a call that holds the mutex goes on.                                *)
Fairness == /\ WF_vars(StageThread)
            /\ \A p \in Producers : WF_vars(PushReturns(p))
            /\ WF_vars(JoinReturns) /\ WF_vars(Notify(Closer))

FairSpec == Spec /\ Fairness

-----------------------------------------------------------------------------
StageTypeOK ==
  /\ QTypeOK
  /\ stage_pc \in {"pop", "swap", "flag", "enter", "waiting", "woken", "closed"}
  /\ timedwait_flag \in BOOLEAN
  /\ call_pc \in [Producers ->
                    {"idle", "push", "load", "store", "notify", "join", "joined"}]
  /\ calls \in 0 .. MaxCalls
  /\ accepted \in Seq(Values) /\ handled \in Seq(Values)

(* "Only in the consumer thread and when active_buf_.empty()" is what      *)
(* swap_buffer() asks of its caller: from the swap that found nothing to   *)
(* the swap after the wait, the active buffer stays empty, whoever pushes, *)
(* and no handler runs.  With it the queue's own invariant holds for every *)
(* way the stage thread calls it.                                          *)
StageInv == /\ StageTypeOK
            /\ QInv
            /\ \A p \in Producers : call_pc[p] = "push" <=> mutex = p
            /\ stage_pc \notin {"pop", "closed"} => /\ buf[active_buf] = << >>
                                                    /\ pop_pc # "handle"
            /\ stage_pc \notin {"pop", "swap"} => pop_pc = "idle"
            /\ call_pc[Closer] = "joined" => stage_pc = "closed"

(* Nothing accepted is lost, duplicated or reordered on its way through    *)
(* the two buffers, and the thread has ended exactly when the last event   *)
(* it handled was the quit event.                                          *)
Accounted == /\ accepted = handled \o Contents
             /\ stage_pc = "closed" <=> \E i \in DOMAIN handled : handled[i] = Quit
             /\ \A i \in DOMAIN handled : handled[i] = Quit => i = Len(handled)

(* The stage thread is a mailbox: also when its wake-up is lost (the flag  *)
(* is not set yet, or the notification comes before the wait) an accepted  *)
(* event is handled, and close() returns if its quit event was accepted.   *)
MailboxState == IF call_pc[Closer] = "joined" THEN "joined"
                ELSE IF stage_pc = "closed" THEN "closed" ELSE "running"

StageMailbox == INSTANCE Mailbox WITH state <- MailboxState
ImplementsMailbox == StageMailbox!MSpec
=============================================================================
