------------------------------ MODULE MCStages ------------------------------
(***************************************************************************)
(* A thread of a SedaStage and a whole SedaStage2, each by itself: `part`  *)
(* says which of them takes its steps in a behaviour; the other stays as   *)
(* it begins.                                                              *)
(***************************************************************************)
EXTENDS SedaStageThread

CONSTANTS Threads, QueueSize, BatchSizes, Powers, MaxEvents

VARIABLE part  \* the component whose steps the behaviour takes

VARIABLES is_priority, batch_size, shared, lock, pushed, slots, read_index,
          write_index, worker, closer, stage2_handled, urgent, lost, excuse

Stage2 == INSTANCE SedaStage2
      WITH handled <- stage2_handled

stage2Vars == <<is_priority, batch_size, shared, lock, pushed, slots,
                read_index, write_index, worker, closer, stage2_handled,
                urgent, lost, excuse>>
allVars == <<part, vars, stage2Vars>>

(* The other components stay in one of their initial states.              *)
Still == Init
Stage2Still == Stage2!Init /\ is_priority /\ batch_size = 1

AllInit ==
  \/ /\ part = "stage" /\ Stage2Still /\ Init
  \/ /\ part = "stage2" /\ Still /\ Stage2!Init

AllNext ==
  \/ /\ part = "stage" /\ Next
     /\ UNCHANGED <<part, stage2Vars>>
  \/ /\ part = "stage2" /\ Stage2!Next
     /\ UNCHANGED <<part, vars>>

AllFairness ==
  /\ WF_vars(part = "stage" /\ StageThread)
  /\ \A p \in Producers : WF_vars(part = "stage" /\ PushReturns(p))
  /\ WF_vars(part = "stage" /\ JoinReturns)
  /\ WF_vars(part = "stage" /\ Notify(Closer))
  /\ WF_stage2Vars(part = "stage2" /\ Stage2!ClosingThread)
  /\ \A w \in Stage2!Workers :
       WF_stage2Vars(part = "stage2" /\ Stage2!Worker(w))

AllSpec == AllInit /\ [][AllNext]_allVars /\ AllFairness

ASSUME StagesAssumption == Stage2!Stage2Assumption

-----------------------------------------------------------------------------
(* Every event of a SedaStage2 is in one place, handled, or dropped, and a *)
(* thread of it handles the events of a priority in order.                 *)
EventsInOrder ==
  part = "stage2" => Stage2!EventsAccounted /\ Stage2!InOrder

(* close() of a SedaStage2 ends.                                           *)
Closes == Stage2!Closes
=============================================================================
