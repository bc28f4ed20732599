------------------------------- MODULE MCLoops -------------------------------
(***************************************************************************)
(* The timers of an event loop and the handlers of the SelectEventLoop,    *)
(* each by itself: `part` says which of them takes its steps in a          *)
(* behaviour; the other stays as it begins.                                *)
(***************************************************************************)
EXTENDS LoopTimers

CONSTANTS Handlers, MaxFd, MaxSize, MaxAdds

VARIABLE part  \* the component whose steps the behaviour takes

VARIABLES caller, read, write, read_size, write_size, max_fd, out, h,
          standby, active, handlers, select_loop, wakeup_flag, notified,
          wake, sock, adds, deleted, clash, unseen

Select == INSTANCE SelectEventLoop
      WITH loop <- select_loop

selectVars == <<caller, read, write, read_size, write_size, max_fd, out, h,
                standby, active, handlers, select_loop, wakeup_flag,
                notified, wake, sock, adds, deleted, clash, unseen>>
allVars == <<part, vars, selectVars>>

(* The other components stay in one of their initial states.              *)
Still == Init
SelectStill == Select!Init /\ caller = "loop"

AllInit ==
  \/ /\ part = "timers" /\ SelectStill /\ Init
  \/ /\ part = "select" /\ Still /\ Select!Init

AllNext ==
  \/ /\ part = "timers" /\ Next
     /\ UNCHANGED <<part, selectVars>>
  \/ /\ part = "select" /\ Select!Next
     /\ UNCHANGED <<part, vars>>

AllFairness ==
  /\ WF_vars(part = "timers" /\ ~raced /\ LoopThread)
  /\ SF_vars(part = "timers" /\ ~raced /\ HandlerReturns)
  /\ WF_vars(part = "timers" /\ ~raced /\ Tick)
  /\ \A c \in Callers : WF_vars(part = "timers" /\ ~raced /\ Continue(c))

AllSpec == AllInit /\ [][AllNext]_allVars /\ AllFairness

ASSUME LoopsAssumption == Select!SelectAssumption

-----------------------------------------------------------------------------
(* The descriptor sets, counters and masks of the select loop agree.       *)
SetsAgree == part = "select" => Select!SetsAgree

(* The select loop calls no handler that is back in its pool.              *)
NeverFreed == part = "select" => Select!NeverFreed

(* The select loop does not sleep while there is something to do.          *)
SleepsWhenIdle == part = "select" => Select!SleepsWhenIdle
=============================================================================
