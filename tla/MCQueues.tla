------------------------------ MODULE MCQueues ------------------------------
(***************************************************************************)
(* The ring queues (SpscQueue and the three of MultiQueue) and the double- *)
(* buffered log queue with its worker thread, each by itself: `part` says  *)
(* which of them takes its steps in a behaviour; the others stay as they   *)
(* begin.                                                                  *)
(***************************************************************************)
EXTENDS SpscQueue

CONSTANTS Producers, Consumers, MultiCapacity, MultiPush, Loggers,
          BufferSize, BlockSize, MaxLogs, MaxFailures

VARIABLE part  \* the component whose steps the behaviour takes

VARIABLES kind, multi_array, multi_read_index, multi_write_index,
          max_read_index, min_write_index, multi_push_pc, push_index,
          push_claim, multi_pop_pc, pop_index, pop_claim
VARIABLES log_kind, stores, active, standby, flag, notified, loggers,
          worker, state, written, accepted, pushed, failures, cut

SharedKinds == { k \in [mp : BOOLEAN, mc : BOOLEAN] : k.mp \/ k.mc }

Multi == INSTANCE MultiQueue
      WITH Kinds <- SharedKinds, Capacity <- MultiCapacity,
           MaxPush <- MultiPush, array <- multi_array,
           read_index <- multi_read_index, write_index <- multi_write_index,
           push_pc <- multi_push_pc, pop_pc <- multi_pop_pc
Log == INSTANCE LogWorker
      WITH kind <- log_kind

multiVars == <<kind, multi_array, multi_read_index, multi_write_index,
               max_read_index, min_write_index, multi_push_pc, push_index,
               push_claim, multi_pop_pc, pop_index, pop_claim>>
logVars == <<log_kind, stores, active, standby, flag, notified, loggers,
             worker, state, written, accepted, pushed, failures, cut>>
allVars == <<part, vars, multiVars, logVars>>

(* The other components stay in one of their initial states.              *)
Still == Init
MultiStill == Multi!Init /\ kind.mp /\ kind.mc
LogStill == Log!Init /\ log_kind = "sync" /\ stores

AllInit ==
  \/ /\ part = "spsc" /\ MultiStill /\ LogStill /\ Init
  \/ /\ part = "multi" /\ Still /\ LogStill /\ Multi!Init
  \/ /\ part = "log" /\ Still /\ MultiStill /\ Log!Init

AllNext ==
  \/ /\ part = "spsc" /\ Next
     /\ UNCHANGED <<part, multiVars, logVars>>
  \/ /\ part = "multi" /\ Multi!Next
     /\ UNCHANGED <<part, vars, logVars>>
  \/ /\ part = "log" /\ Log!Next
     /\ UNCHANGED <<part, vars, multiVars>>

AllFairness ==
  /\ WF_vars(part = "spsc" /\ (PushWrite \/ PushPublish))
  /\ WF_vars(part = "spsc" /\ Consumer)
  /\ WF_logVars(part = "log" /\ Log!Worker)
  /\ WF_logVars(part = "log" /\ Log!CloseNotify)
  /\ \A t \in Loggers : WF_logVars(part = "log" /\ Log!Push(t))

AllSpec == AllInit /\ [][AllNext]_allVars /\ AllFairness

ASSUME QueuesAssumption == Multi!MultiQueueAssumption /\ Log!LogAssumption

-----------------------------------------------------------------------------
(* The indexes of a queue with a shared end never pass or lap each other,  *)
(* and the published one lags the claimed one by exactly the calls in      *)
(* progress, which hold different indexes.                                 *)
IndexesAgree == part = "multi" => Multi!IndexesAgree

(* An event that no consumer has claimed is in its slot.                   *)
UnclaimedIntact == part = "multi" => Multi!UnclaimedIntact

(* What is logged reaches the appender whole and in the order of push(),   *)
(* whoever logs and however often writes fail, unless a write is short.    *)
BytesInOrder == part = "log" => Log!BytesInOrder

(* An accepted log reaches the appender in the end, and close() ends.      *)
Logged == Log!Logged
=============================================================================
