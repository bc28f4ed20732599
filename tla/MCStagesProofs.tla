--------------------------- MODULE MCStagesProofs ---------------------------
(***************************************************************************)
(* The thread of a SedaStage and the threads of a SedaStage2.              *)
(*                                                                         *)
(* SedaStageThread, for every number of pushers, every capacity and any    *)
(* number of calls: the stage thread uses its queue as the queue requires, *)
(* nothing that was accepted is lost, duplicated or reordered, and every   *)
(* step is one a mailbox may take.                                         *)
(*                                                                         *)
(* SedaStage2, for every number of stage threads and of events and every   *)
(* queue size: every event is in one place, and the threads handle those   *)
(* of one priority in the order of their push.  The argument follows all   *)
(* that a thread has ever taken from the shared queues (Taken): it ascends *)
(* for each priority, a thread's steps only move its elements from one     *)
(* part of it to the next, and what is still in a shared queue was pushed  *)
(* after all of it.                                                        *)
(***************************************************************************)
EXTENDS MCStages, DoubleBufferQueueProofs, WellFoundedInduction

(* Each step of the stage is a step of its queue or leaves the queue alone. *)
LEMMA StageUsesQueue == [Next]_vars => [QNext]_qvars
<1> SUFFICES ASSUME [Next]_vars
             PROVE  [QNext]_qvars
  OBVIOUS
<1>1. ASSUME NEW p \in Producers, NEW v \in Values, CallPush(p, v)
      PROVE  QNext
  BY <1>1 DEF CallPush, QNext
<1>2. ASSUME NEW p \in Producers, PushReturns(p)
      PROVE  QNext
  BY <1>2 DEF PushReturns, QNext
<1>3. ASSUME NEW p \in Producers, LoadFlag(p) \/ StoreFlag(p) \/ Notify(p)
      PROVE  UNCHANGED qvars
  BY <1>3 DEF LoadFlag, StoreFlag, Notify
<1>4. CASE JoinReturns
  BY <1>4 DEF JoinReturns
<1>5. CASE HandleBegin \/ HandleEnd \/ SwapBegin \/ SwapEnd
  BY <1>5 DEF HandleBegin, HandleEnd, SwapBegin, SwapEnd, QNext
<1>6. CASE SetFlag \/ Wait \/ Timeout \/ ClearFlag
  BY <1>6 DEF SetFlag, Wait, Timeout, ClearFlag
<1>7. CASE UNCHANGED vars
  BY <1>7 DEF vars
<1> QED BY <1>1, <1>2, <1>3, <1>4, <1>5, <1>6, <1>7 DEF Next, Caller, StageThread

(* The thread starts with an empty queue, before its first pop().          *)
LEMMA InitStageInv == Init => StageInv
<1> SUFFICES ASSUME Init
             PROVE  StageInv
  OBVIOUS
<1>1. QInv /\ QTypeOK
  BY InitQInv DEF Init, QInv
<1>2. accepted \in Seq(Values) /\ handled \in Seq(Values)
  BY EmptySeq DEF Init
<1>3. calls \in 0 .. MaxCalls
  BY StageAssumption DEF Init
<1>4. /\ stage_pc = "pop" /\ timedwait_flag = FALSE /\ pop_pc = "idle"
      /\ mutex = None /\ call_pc = [p \in Producers |-> "idle"]
  BY DEF Init, QInit
<1>5. \A p \in Producers : call_pc[p] # "push" /\ mutex # p
  BY <1>4, DoubleBufferAssumption
<1>6. call_pc[Closer] # "joined"
  BY <1>4, StageAssumption
<1>7. StageTypeOK
  BY <1>1, <1>2, <1>3, <1>4 DEF StageTypeOK
<1> QED BY <1>1, <1>4, <1>5, <1>6, <1>7 DEF StageInv

(* A push leaves the active buffer alone.                                  *)
LEMMA StandbyOnly ==
  ASSUME QInv, NEW p \in Producers, PushUnlock(p)
  PROVE  buf'[active_buf] = buf[active_buf]
BY DEF QInv, QTypeOK, PushUnlock

(* push_event() and close() hold the queue's mutex exactly while they are  *)
(* inside its push, and never touch the active buffer.                     *)
LEMMA CallerPreserves ==
  ASSUME StageInv, QInv', NEW p \in Producers, Caller(p)
  PROVE  StageInv'
<1> USE StageAssumption, DoubleBufferAssumption DEF StageInv, StageTypeOK, history
<1>1. QTypeOK'
  BY DEF QInv
<1>2. ASSUME NEW v \in Values, CallPush(p, v)
      PROVE  StageInv'
  BY <1>1, <1>2 DEF CallPush, PushLock, buffers, QInv
<1>3. CASE PushReturns(p)
  <2>1. /\ mutex = p /\ mutex' = None /\ p # None /\ call_pc[p] = "push"
        /\ pop_pc' = pop_pc /\ active_buf' = active_buf
        /\ buf'[active_buf] = buf[active_buf]
    <3>1. mutex = p /\ mutex' = None /\ pop_pc' = pop_pc /\ active_buf' = active_buf
      BY <1>3 DEF PushReturns, PushUnlock
    <3>2. p # None /\ call_pc[p] = "push"
      BY <3>1
    <3>3. buf'[active_buf] = buf[active_buf]
      BY <1>3, StandbyOnly DEF PushReturns
    <3> QED BY <3>1, <3>2, <3>3
  <2>2. accepted' \in Seq(Values)
    <3>1. push_value[p] \in Seq(Values)
      <4>1. push_value[p] \in {<< >>} \cup { <<v>> : v \in Values }
        BY DEF QTypeOK
      <4>2. CASE push_value[p] = << >>
        BY <4>2, EmptySeq
      <4>3. ASSUME NEW v \in Values, push_value[p] = <<v>>
            PROVE  push_value[p] \in Seq(Values)
        BY <4>3
      <4> QED BY <4>1, <4>2, <4>3
    <3>2. accepted \o push_value[p] \in Seq(Values)
      BY <3>1, ConcatProperties
    <3> QED BY <1>3, <3>2 DEF PushReturns
  <2>3. call_pc' \in [Producers ->
                       {"idle", "push", "load", "store", "notify", "join", "joined"}]
    BY <1>3 DEF PushReturns
  <2>4. \A q \in Producers : call_pc'[q] = "push" <=> mutex' = q
    BY <1>3, <2>1 DEF PushReturns
  <2>5. call_pc'[Closer] = "joined" => stage_pc' = "closed"
    BY <1>3, <2>1 DEF PushReturns
  <2> QED BY <1>1, <1>3, <2>1, <2>2, <2>3, <2>4, <2>5 DEF PushReturns
<1>4. CASE LoadFlag(p)
  BY <1>1, <1>4 DEF LoadFlag, qvars
<1>5. CASE StoreFlag(p)
  BY <1>1, <1>5 DEF StoreFlag, qvars
<1>6. CASE Notify(p)
  BY <1>1, <1>6 DEF Notify, qvars
<1> QED BY <1>2, <1>3, <1>4, <1>5, <1>6 DEF Caller

(* The stage thread leaves the active buffer alone from the swap that      *)
(* found nothing to the swap after the wait.                               *)
LEMMA ThreadPreserves ==
  ASSUME StageInv, QInv', JoinReturns \/ StageThread
  PROVE  StageInv'
<1> USE StageAssumption, DoubleBufferAssumption DEF StageInv, StageTypeOK, history
<1>1. QTypeOK'
  BY DEF QInv
<1>2. CASE JoinReturns
  BY <1>1, <1>2 DEF JoinReturns, qvars
<1>3. CASE HandleBegin
  BY <1>1, <1>3 DEF HandleBegin, PopBegin, buffers
<1>4. CASE HandleEnd
  <2>1. Head(buf[active_buf]) \in Values
    BY <1>4, HeadTailProperties DEF HandleEnd, PopEnd, QInv, QTypeOK
  <2>2. handled' \in Seq(Values)
    BY <1>4, <2>1, AppendProperties DEF HandleEnd
  <2> QED BY <1>1, <1>4, <2>2 DEF HandleEnd, PopEnd
<1>5. CASE SwapBegin
  BY <1>1, <1>5 DEF SwapBegin, SwapLock, buffers, QInv
<1>6. CASE SwapEnd
  <2>1. /\ pop_pc = "swap" /\ pop_pc' = "idle" /\ mutex = Consumer /\ mutex' = None
        /\ stage_pc \in {"pop", "swap"} /\ buf' = buf
    BY <1>6 DEF SwapEnd, SwapUnlock, QInv
  <2>2. active_buf' = active_buf => buf'[active_buf'] = << >>
    BY <2>1 DEF QInv
  <2> QED BY <1>1, <1>6, <2>1, <2>2 DEF SwapEnd, SwapUnlock
<1>7. CASE SetFlag
  BY <1>1, <1>7 DEF SetFlag, qvars
<1>8. CASE Wait
  BY <1>1, <1>8 DEF Wait, qvars
<1>9. CASE Timeout
  BY <1>1, <1>9 DEF Timeout, qvars
<1>10. CASE ClearFlag
  BY <1>1, <1>10 DEF ClearFlag, qvars
<1> QED BY <1>2, <1>3, <1>4, <1>5, <1>6, <1>7, <1>8, <1>9, <1>10 DEF StageThread

LEMMA NextStageInv == StageInv /\ [Next]_vars => StageInv'
<1> SUFFICES ASSUME StageInv, [Next]_vars
             PROVE  StageInv'
  OBVIOUS
<1>1. QInv'
  BY StageUsesQueue, NextQInv DEF StageInv
<1>2. CASE Next
  BY <1>1, <1>2, CallerPreserves, ThreadPreserves DEF Next
<1>3. CASE UNCHANGED vars
  BY <1>1, <1>3 DEF StageInv, StageTypeOK, QInv, vars, qvars, history
<1> QED BY <1>2, <1>3

(* swap_buffer() is called as its comment demands, by the consumer thread  *)
(* and with an empty active buffer, whoever pushes in the meantime.        *)
THEOREM StageInvariance == Spec => []StageInv
BY InitStageInv, NextStageInv, PTL DEF Spec
-----------------------------------------------------------------------------
(* Handing the first of the waiting events over to the handled ones.       *)
LEMMA MoveHead ==
  ASSUME NEW S, NEW h \in Seq(S), NEW c \in Seq(S), c # << >>
  PROVE  h \o c = Append(h, Head(c)) \o Tail(c)
<1>1. Head(c) \in S /\ Tail(c) \in Seq(S)
  BY HeadTailProperties
<1>2. c = <<Head(c)>> \o Tail(c)
  <2>1. Len(c) \in Nat \ {0}
    BY EmptySeq
  <2>2. <<Head(c)>> \in Seq(S) /\ Len(<<Head(c)>>) = 1 /\ <<Head(c)>>[1] = Head(c)
    BY <1>1
  <2>3. /\ <<Head(c)>> \o Tail(c) \in Seq(S)
        /\ Len(<<Head(c)>> \o Tail(c)) = 1 + Len(Tail(c))
        /\ \A i \in 1 .. 1 + Len(Tail(c)) : (<<Head(c)>> \o Tail(c))[i] =
              IF i <= 1 THEN <<Head(c)>>[i] ELSE Tail(c)[i - 1]
    BY <1>1, <2>2, ConcatProperties
  <2>4. /\ Len(Tail(c)) = Len(c) - 1
        /\ \A i \in 1 .. Len(Tail(c)) : Tail(c)[i] = c[i + 1]
        /\ Head(c) = c[1]
    BY HeadTailProperties
  <2>5. ASSUME NEW i \in 1 .. Len(c)
        PROVE  c[i] = (<<Head(c)>> \o Tail(c))[i]
    <3>1. CASE i = 1
      BY <2>1, <2>2, <2>3, <2>4, <3>1
    <3>2. CASE i # 1
      <4>1. i - 1 \in 1 .. Len(Tail(c)) /\ i \in 1 .. 1 + Len(Tail(c)) /\ ~(i <= 1)
        BY <2>1, <2>4, <3>2
      <4> QED BY <2>3, <2>4, <4>1
    <3> QED BY <3>1, <3>2
  <2> QED BY <2>1, <2>3, <2>4, <2>5, SeqEqual
<1>3. h \o c = (h \o <<Head(c)>>) \o Tail(c)
  BY <1>1, <1>2, ConcatAssociative, SMTT(60)
<1> QED BY <1>1, <1>3, AppendIsConcat

(* A push that finds room appends its argument to what waits.              *)
LEMMA PushContents ==
  ASSUME QInv, NEW p \in Producers, PushUnlock(p), ~Full
  PROVE  /\ Contents' = Contents \o push_value[p]
         /\ Contents \in Seq(Values) /\ push_value[p] \in Seq(Values)
<1>1. PICK v \in Values : push_value[p] = <<v>>
  BY DoubleBufferAssumption DEF QInv, QTypeOK, PushUnlock
<1>2. buf[active_buf] \in Seq(Values) /\ buf[standby_buf] \in Seq(Values)
  BY DEF QInv, QTypeOK
<1>3. /\ buf'[active_buf'] = buf[active_buf]
      /\ buf'[standby_buf'] = Append(buf[standby_buf], v)
  BY <1>1 DEF QInv, QTypeOK, PushUnlock
<1>4. Contents' = Append(Contents, v)
  <2> DEFINE a == buf[active_buf]
             b == buf[standby_buf]
  <2>1. a \in Seq(Values) /\ b \in Seq(Values)
    BY <1>2
  <2>2. Contents' = a \o Append(b, v)
    BY <1>3 DEF Contents
  <2>3. Contents = a \o b
    BY DEF Contents
  <2> HIDE DEF a, b
  <2>4. a \o Append(b, v) = Append(a \o b, v)
    BY <2>1, ConcatAppend
  <2> QED BY <2>2, <2>3, <2>4
<1>5. Contents \in Seq(Values)
  BY <1>2, ConcatProperties DEF Contents
<1>6. <<v>> \in Seq(Values) /\ Append(Contents, v) = Contents \o <<v>>
  BY <1>5, AppendIsConcat
<1> QED BY <1>1, <1>4, <1>5, <1>6

(* Nothing is handled or accepted, and the end of the thread has not come  *)
(* or gone: what was accounted for still is.                               *)
LEMMA AccountedUnchanged ==
  ASSUME Accounted, UNCHANGED <<accepted, handled, Contents>>,
         stage_pc' = "closed" <=> stage_pc = "closed"
  PROVE  Accounted'
BY DEF Accounted

(* What the accepted push appends to the queue it appends to the history.  *)
LEMMA PushAccounted ==
  ASSUME StageInv, Accounted, NEW p \in Producers, PushReturns(p)
  PROVE  Accounted'
<1>1. /\ QInv /\ PushUnlock(p) /\ handled \in Seq(Values)
      /\ UNCHANGED <<stage_pc, handled>>
  BY DEF StageInv, StageTypeOK, PushReturns
<1>2. CASE Full
  BY <1>1, <1>2, AccountedUnchanged DEF PushReturns, PushUnlock, Contents
<1>3. CASE ~Full
  <2>1. /\ Contents' = Contents \o push_value[p]
        /\ Contents \in Seq(Values) /\ push_value[p] \in Seq(Values)
    BY <1>1, <1>3, PushContents
  <2>2. accepted' = (handled \o Contents) \o push_value[p]
    BY <1>3 DEF PushReturns, Accounted
  <2>3. accepted' = handled' \o Contents'
    <3> DEFINE new == push_value[p]
    <3>0. new \in Seq(Values) /\ Contents \in Seq(Values) /\ handled \in Seq(Values)
      BY <1>1, <2>1
    <3> HIDE DEF new
    <3>1. (handled \o Contents) \o new = handled \o (Contents \o new)
      BY <3>0, ConcatAssociative
    <3>2. handled' = handled
      BY <1>1
    <3>3. Contents' = Contents \o push_value[p]
      BY <2>1
    <3> QED BY <2>2, <3>1, <3>2, <3>3, Zenon DEF new
  <2> QED BY <1>1, <2>3 DEF Accounted
<1> QED BY <1>2, <1>3

(* The event that leaves the queue is the one handled, and the quit event  *)
(* is the last one.                                                        *)
LEMMA HandleAccounted ==
  ASSUME StageInv, Accounted, HandleEnd
  PROVE  Accounted'
<1> DEFINE event == Head(buf[active_buf])
<1>1. /\ QInv /\ handled \in Seq(Values) /\ PopEnd
      /\ buf[active_buf] \in Seq(Values) /\ buf[standby_buf] \in Seq(Values)
      /\ buf[active_buf] # << >>
  BY DEF StageInv, StageTypeOK, HandleEnd, PopEnd, QInv, QTypeOK
<1>2. event \in Values
  BY <1>1, HeadTailProperties
<1>3. /\ handled' = Append(handled, event) /\ accepted' = accepted
      /\ stage_pc = "pop" /\ stage_pc' = IF event = Quit THEN "closed" ELSE "pop"
  BY DEF HandleEnd
<1>4. Contents # << >> /\ Head(Contents) = event /\ Contents' = Tail(Contents)
  <2>1. /\ buf'[active_buf'] = Tail(buf[active_buf])
        /\ buf'[standby_buf'] = buf[standby_buf]
    BY <1>1 DEF QInv, QTypeOK, PopEnd
  <2> QED BY <1>1, <2>1, ConcatHeadTail, ZenonT(60) DEF Contents
<1>5. Contents \in Seq(Values)
  BY <1>1, ConcatProperties DEF Contents
<1> HIDE DEF event
<1>6. accepted' = handled' \o Contents'
  BY <1>1, <1>3, <1>4, <1>5, MoveHead DEF Accounted
<1>7. /\ handled' \in Seq(Values) /\ Len(handled') = Len(handled) + 1
      /\ Len(handled) \in Nat
      /\ DOMAIN handled = 1 .. Len(handled) /\ DOMAIN handled' = 1 .. Len(handled')
      /\ \A i \in 1 .. Len(handled) : handled'[i] = handled[i]
      /\ handled'[Len(handled) + 1] = event
  BY <1>1, <1>2, <1>3, AppendProperties, LenProperties
<1>8. \A i \in 1 .. Len(handled) : handled[i] # Quit
  BY <1>3, <1>7 DEF Accounted
<1>9. \A i \in DOMAIN handled' : handled'[i] = Quit <=>
        i = Len(handled') /\ event = Quit
  <2> SUFFICES ASSUME NEW i \in 1 .. Len(handled) + 1
               PROVE  handled'[i] = Quit <=> i = Len(handled) + 1 /\ event = Quit
    BY <1>7
  <2>1. CASE i = Len(handled) + 1
    BY <1>7, <2>1
  <2>2. CASE i # Len(handled) + 1
    <3>1. i \in 1 .. Len(handled)
      BY <1>7, <2>2
    <3> QED BY <1>7, <1>8, <2>2, <3>1
  <2> QED BY <2>1, <2>2
<1>10. Len(handled') \in DOMAIN handled'
  BY <1>7
<1>11. stage_pc' = "closed" <=> event = Quit
  BY <1>3
<1> QED BY <1>6, <1>9, <1>10, <1>11 DEF Accounted

LEMMA NextAccounted == StageInv /\ Accounted /\ [Next]_vars => Accounted'
<1> SUFFICES ASSUME StageInv, Accounted, [Next]_vars
             PROVE  Accounted'
  OBVIOUS
<1>1. ASSUME NEW p \in Producers, Caller(p)
      PROVE  Accounted'
  <2>1. ASSUME NEW v \in Values, CallPush(p, v)
        PROVE  Accounted'
    BY <2>1, AccountedUnchanged DEF CallPush, PushLock, buffers, Contents, history
  <2>2. CASE PushReturns(p)
    BY <2>2, PushAccounted
  <2>3. CASE LoadFlag(p) \/ StoreFlag(p)
    BY <2>3, AccountedUnchanged DEF LoadFlag, StoreFlag, qvars, Contents, history
  <2>4. CASE Notify(p)
    BY <2>4, AccountedUnchanged DEF Notify, qvars, Contents, history
  <2> QED BY <1>1, <2>1, <2>2, <2>3, <2>4 DEF Caller
<1>2. CASE JoinReturns
  BY <1>2, AccountedUnchanged DEF JoinReturns, qvars, Contents, history
<1>3. CASE HandleBegin
  BY <1>3, AccountedUnchanged DEF HandleBegin, PopBegin, buffers, Contents, history
<1>4. CASE HandleEnd
  BY <1>4, HandleAccounted
<1>5. CASE SwapBegin
  BY <1>5, AccountedUnchanged DEF SwapBegin, SwapLock, buffers, Contents, history
<1>6. CASE SwapEnd
  <2>1. UNCHANGED Contents
    BY <1>6, SwapMaps DEF StageInv, SwapEnd, Fifo!vars
  <2>2. stage_pc # "closed" /\ stage_pc' # "closed"
    BY <1>6 DEF StageInv, SwapEnd, SwapUnlock
  <2> QED BY <1>6, <2>1, <2>2, AccountedUnchanged DEF SwapEnd, history
<1>7. CASE SetFlag \/ Wait \/ Timeout \/ ClearFlag
  BY <1>7, AccountedUnchanged
     DEF SetFlag, Wait, Timeout, ClearFlag, qvars, Contents, history
<1>8. CASE UNCHANGED vars
  BY <1>8, AccountedUnchanged DEF vars, qvars, Contents, history
<1> QED BY <1>1, <1>2, <1>3, <1>4, <1>5, <1>6, <1>7, <1>8 DEF Next, StageThread

(* Whatever threads push, whenever wake-ups are lost and whenever close()  *)
(* is called: the events accepted are those handled followed by those      *)
(* waiting, and the thread ends exactly with the quit event.               *)
THEOREM NothingLost == Spec => []Accounted
<1>1. Init => Accounted
  <2> SUFFICES ASSUME Init
               PROVE  Accounted
    OBVIOUS
  <2>1. << >> \o << >> = << >>
    BY ConcatEmptySeq, EmptySeq
  <2>2. Contents = << >>
    BY <2>1 DEF Init, QInit, Contents, Buffers
  <2>3. DOMAIN handled = {}
    BY DEF Init
  <2> QED BY <2>1, <2>2, <2>3 DEF Init, Accounted
<1> QED BY <1>1, NextAccounted, StageInvariance, PTL DEF Spec
-----------------------------------------------------------------------------
(* The stage's queue is a bounded FIFO however the stage thread and its    *)
(* callers use it: it is the queue of the queue's own theorem.             *)
THEOREM StageImplementsFifo == Spec => ImplementsFifo
<1>1. Init => QInit
  BY DEF Init
<1>2. Spec => QSpec
  BY <1>1, StageUsesQueue, PTL DEF Spec, QSpec
<1> QED BY <1>2, Refinement

(* Who has not joined and has no say in the thread's end changes nothing   *)
(* that a user of the mailbox sees.                                        *)
LEMMA MailboxUnchanged ==
  ASSUME UNCHANGED history,
         stage_pc' = "closed" <=> stage_pc = "closed",
         call_pc'[Closer] = "joined" <=> call_pc[Closer] = "joined"
  PROVE  UNCHANGED StageMailbox!mvars
BY DEF StageMailbox!mvars, MailboxState, history

(* An accepted push is an Accept of the mailbox, a refused one nothing.    *)
LEMMA PushReturnsMaps ==
  ASSUME StageInv, NEW p \in Producers, PushReturns(p)
  PROVE  [StageMailbox!MNext]_StageMailbox!mvars
<1>1. /\ QInv /\ PushUnlock(p) /\ handled' = handled /\ stage_pc' = stage_pc
      /\ accepted \in Seq(Values) /\ call_pc[p] = "push"
      /\ call_pc' = [call_pc EXCEPT ![p] = IF p = Closer THEN "notify"
                                           ELSE IF Signal /\ ~Full THEN "load"
                                           ELSE "idle"]
  BY DEF StageInv, StageTypeOK, PushReturns, PushUnlock
<1>2. call_pc'[Closer] = "joined" <=> call_pc[Closer] = "joined"
  BY <1>1, StageAssumption DEF StageInv, StageTypeOK
<1>3. MailboxState' = MailboxState
  BY <1>1, <1>2 DEF MailboxState
<1>4. CASE Full
  BY <1>1, <1>3, <1>4 DEF PushReturns, StageMailbox!mvars
<1>5. CASE ~Full
  <2>1. PICK v \in Values : push_value[p] = <<v>>
    BY <1>1, DoubleBufferAssumption DEF QInv, QTypeOK, PushUnlock
  <2>2. accepted' = Append(accepted, v)
    BY <1>1, <1>5, <2>1, AppendIsConcat DEF PushReturns
  <2>3. v \in Events \cup {Quit}
    BY DEF Events
  <2>4. StageMailbox!Accept
    BY <1>1, <1>3, <2>2, <2>3 DEF StageMailbox!Accept
  <2> QED BY <2>4 DEF StageMailbox!MNext
<1> QED BY <1>4, <1>5

(* The event the handler has run on is the oldest accepted event that was  *)
(* not handled yet.                                                        *)
LEMMA HandleEndMaps ==
  ASSUME StageInv, Accounted, HandleEnd
  PROVE  StageMailbox!Handle
<1> DEFINE event == Head(buf[active_buf])
<1>1. /\ QInv /\ PopEnd /\ handled \in Seq(Values)
      /\ buf[active_buf] \in Seq(Values) /\ buf[standby_buf] \in Seq(Values)
      /\ buf[active_buf] # << >>
  BY DEF StageInv, StageTypeOK, HandleEnd, PopEnd, QInv, QTypeOK
<1>2. /\ handled' = Append(handled, event) /\ accepted' = accepted
      /\ stage_pc = "pop" /\ stage_pc' = IF event = Quit THEN "closed" ELSE "pop"
      /\ call_pc' = call_pc
  BY DEF HandleEnd
<1>3. call_pc[Closer] # "joined"
  BY <1>2 DEF StageInv
<1>4. Contents \in Seq(Values) /\ Contents # << >> /\ Head(Contents) = event
  BY <1>1, ConcatProperties, ConcatHeadTail DEF Contents
<1> HIDE DEF event
<1>5. accepted = handled \o Contents
  BY DEF Accounted
<1>6. Len(Contents) \in Nat \ {0} /\ Contents[1] = event /\ Len(handled) \in Nat
  BY <1>1, <1>4, EmptySeq, HeadTailProperties, LenProperties
<1>7. /\ Len(accepted) = Len(handled) + Len(Contents)
      /\ \A i \in 1 .. Len(handled) + Len(Contents) :
            accepted[i] = IF i <= Len(handled) THEN handled[i]
                          ELSE Contents[i - Len(handled)]
  BY <1>1, <1>4, <1>5, ConcatProperties
<1>8. Len(handled) < Len(accepted) /\ accepted[Len(handled) + 1] = event
  <2>1. /\ Len(handled) + 1 \in 1 .. Len(handled) + Len(Contents)
        /\ ~(Len(handled) + 1 <= Len(handled))
        /\ (Len(handled) + 1) - Len(handled) = 1
    BY <1>6
  <2> QED BY <1>6, <1>7, <2>1
<1>9. MailboxState = "running"
  BY <1>2, <1>3 DEF MailboxState
<1>10. MailboxState' = IF event = Quit THEN "closed" ELSE "running"
  BY <1>2, <1>3 DEF MailboxState
<1> QED BY <1>2, <1>8, <1>9, <1>10 DEF StageMailbox!Handle

(* Join is the return of the closer's join() from an ended thread.         *)
LEMMA JoinMaps ==
  ASSUME StageInv, JoinReturns
  PROVE  StageMailbox!Join
<1>1. MailboxState = "closed" /\ MailboxState' = "joined"
  BY StageAssumption DEF JoinReturns, MailboxState, StageInv, StageTypeOK
<1> QED BY <1>1 DEF JoinReturns, history, StageMailbox!Join

(* The safety of ImplementsMailbox, for every number of pushers and every  *)
(* capacity: events are handled one by one in the order of acceptance,     *)
(* none after the quit event, and nobody returns from join() before it.    *)
THEOREM MailboxSafety == Spec => StageMailbox!MSafety
<1>1. Init => StageMailbox!MInit
  BY StageAssumption DEF Init, MailboxState, StageMailbox!MInit
<1>2. StageInv /\ Accounted /\ [Next]_vars
        => [StageMailbox!MNext]_StageMailbox!mvars
  <2> SUFFICES ASSUME StageInv, Accounted, [Next]_vars
               PROVE  [StageMailbox!MNext]_StageMailbox!mvars
    OBVIOUS
  <2> USE StageAssumption DEF StageInv, StageTypeOK
  <2>1. ASSUME NEW p \in Producers, Caller(p)
        PROVE  [StageMailbox!MNext]_StageMailbox!mvars
    <3>1. ASSUME NEW v \in Values, CallPush(p, v)
          PROVE  UNCHANGED StageMailbox!mvars
      BY <3>1, MailboxUnchanged DEF CallPush
    <3>2. CASE PushReturns(p)
      BY <3>2, PushReturnsMaps
    <3>3. CASE LoadFlag(p)
      BY <3>3, MailboxUnchanged DEF LoadFlag
    <3>4. CASE StoreFlag(p)
      BY <3>4, MailboxUnchanged DEF StoreFlag
    <3>5. CASE Notify(p)
      BY <3>5, MailboxUnchanged DEF Notify
    <3> QED BY <2>1, <3>1, <3>2, <3>3, <3>4, <3>5 DEF Caller
  <2>2. CASE JoinReturns
    BY <2>2, JoinMaps DEF StageMailbox!MNext
  <2>3. CASE HandleEnd
    BY <2>3, HandleEndMaps DEF StageMailbox!MNext
  <2>4. CASE HandleBegin \/ SwapBegin
    BY <2>4, MailboxUnchanged DEF HandleBegin, SwapBegin
  <2>5. CASE SwapEnd
    BY <2>5, MailboxUnchanged DEF SwapEnd, SwapUnlock
  <2>6. CASE SetFlag \/ Wait \/ Timeout \/ ClearFlag
    BY <2>6, MailboxUnchanged DEF SetFlag, Wait, Timeout, ClearFlag
  <2>7. CASE UNCHANGED vars
    BY <2>7, MailboxUnchanged DEF vars
  <2> QED BY <2>1, <2>2, <2>3, <2>4, <2>5, <2>6, <2>7 DEF Next, StageThread
<1> QED BY <1>1, <1>2, StageInvariance, NothingLost, PTL
        DEF Spec, StageMailbox!MSafety

-----------------------------------------------------------------------------
(***************************************************************************)
(* The inductive invariant of a SedaStage2.                                *)
(***************************************************************************)
R == Stage2!RingSize
Crew == Stage2!Workers
Marks == 0 .. MaxEvents + 1
Quit2 == Stage2!QuitEvent

Stage2Places == {"pop", "handle", "high", "low", "move_high", "move_low",
                 "write_high", "write_low", "ended"}
ThreadRecords == [pc : Stage2Places, left : Nat, at : Nat, event : Marks]
CloserRecords ==
  [pc : {"idle", "push", "join", "stop", "closed"}, w : Crew, at : Nat]

Stage2Types ==
  /\ is_priority \in BOOLEAN /\ batch_size \in BatchSizes
  /\ pushed \in 0 .. MaxEvents
  /\ shared \in [Stage2!Queues -> Seq(1 .. MaxEvents)]
  /\ \A q \in Stage2!Queues : Len(shared[q]) < QueueSize
  /\ lock \in [Stage2!Queues -> 0 .. Threads]
  /\ slots \in [Crew -> [0 .. R - 1 -> Marks]]
  /\ read_index \in [Crew -> 0 .. R - 1] /\ write_index \in [Crew -> 0 .. R - 1]
  /\ worker \in [Crew -> ThreadRecords] /\ \A w \in Crew : worker[w].at < R
  /\ closer \in CloserRecords /\ closer.at < R
  /\ closer.pc = "stop" => closer.w > 1
  /\ stage2_handled \in [Crew -> Seq(Marks)]
  /\ urgent \in SUBSET (1 .. pushed) /\ lost \in SUBSET (1 .. MaxEvents)
  /\ excuse \in SUBSET {"race", "full"}

(* Whoever moves events out of a queue holds its mutex, and has no more    *)
(* left to move than there are.                                            *)
MovesFrom(w, q) == worker[w].pc \in {Stage2!Moves(q), Stage2!Writes(q)}
LockInv ==
  \A w \in Crew, q \in Stage2!Queues : MovesFrom(w, q) =>
    /\ lock[q] = w /\ worker[w].left > 0
    /\ worker[w].pc = Stage2!Moves(q) => worker[w].left <= Len(shared[q])
    /\ worker[w].pc = Stage2!Writes(q) => worker[w].left - 1 <= Len(shared[q])

(* A shared queue holds, in the order of their push, all the events of its *)
(* priority from the first one in it.                                      *)
Belongs(e, q) == e \in urgent <=> q = "high"
SharedInv ==
  \A q \in Stage2!Queues :
    /\ \A i \in 1 .. Len(shared[q]) :
         shared[q][i] \in 1 .. pushed /\ Belongs(shared[q][i], q)
    /\ \A i, j \in 1 .. Len(shared[q]) : i < j => shared[q][i] < shared[q][j]
    /\ shared[q] # << >> =>
         \A e \in 1 .. pushed : Belongs(e, q) /\ e >= shared[q][1] =>
            \E i \in 1 .. Len(shared[q]) : shared[q][i] = e

(* What is between the indexes i and j of a ring of r slots, oldest first. *)
Filled(r, i, j) == IF i <= j THEN j - i ELSE j + r - i
Wraps(r, i) == IF i < r THEN i ELSE i - r
Between(r, s, i, j) == [k \in 1 .. Filled(r, i, j) |-> s[Wraps(r, i + k - 1)]]
Ring(w) == Between(R, slots[w], read_index[w], write_index[w])

(* The batch of a stage without priorities fits into the empty ring.       *)
Closing2 == Stage2!Closing
BatchInv ==
  /\ ~Closing2 => "race" \notin excuse
  /\ ~is_priority /\ ~Closing2 =>
       /\ lost = {}
       /\ \A w \in Crew :
            /\ worker[w].pc \notin {"high", "move_high", "write_high"}
            /\ worker[w].pc = "low" => read_index[w] = write_index[w]
            /\ worker[w].pc \in {"move_low", "write_low"} =>
                 Filled(R, read_index[w],
                   write_index[w]) + worker[w].left <= batch_size

(* The rest holds until the closing thread and a stage thread write to the *)
(* same ring at once.                                                      *)
NoRace == "race" \notin excuse

Writing(w) == worker[w].pc \in {"write_high", "write_low"}
Stopped(w) == closer.w > w \/ (closer.w = w /\ closer.pc \in {"join", "closed"})

RingInv ==
  /\ closer.pc = "push" => /\ closer.at = write_index[closer.w]
                           /\ ~Stage2!Full(closer.w)
  /\ \A w \in Crew :
       /\ Ring(w) \in Seq(1 .. pushed \cup {Quit2})
       /\ stage2_handled[w] \in Seq(1 .. pushed)
       /\ worker[w].pc = "ended" => worker[w].event = Quit2
       /\ worker[w].pc = "handle" =>
            /\ worker[w].event \in 1 .. pushed \cup {Quit2}
            /\ slots[w][worker[w].at] = worker[w].event
            /\ Stopped(w) \/ worker[w].at # write_index[w]
       /\ Writing(w) =>
            /\ worker[w].event \in 1 .. pushed
            /\ worker[w].at = write_index[w] /\ ~Stage2!Full(w)
       /\ worker[w].pc \in {"pop", "high", "low", "move_high", "move_low"} =>
            worker[w].event = 0

(* All that a thread has taken, in that order.                             *)
InHands(w) ==
  IF worker[w].pc \in {"handle", "ended"} THEN << worker[w].event >> ELSE << >>
Coming(w) == IF Writing(w) THEN << worker[w].event >> ELSE << >>
Taken(w) == stage2_handled[w] \o InHands(w) \o Ring(w) \o Coming(w)
Ascends(s, u) ==
  \A i, j \in 1 .. Len(s) :
    i < j /\ s[i] # Quit2 /\ s[j] # Quit2 /\ (s[i] \in u <=> s[j] \in u) =>
      s[i] < s[j]
OrderInv == \A w \in Crew : Ascends(Taken(w), urgent)

PlacesInv ==
  /\ UNION Stage2!Range(Stage2!Parts) = 1 .. pushed
  /\ \A i, j \in DOMAIN Stage2!Parts : i # j =>
       Stage2!Parts[i] \cap Stage2!Parts[j] = {}

Stage2Inv == /\ Stage2Types /\ LockInv /\ SharedInv /\ BatchInv
             /\ NoRace => RingInv /\ OrderInv /\ PlacesInv

-----------------------------------------------------------------------------
(* Rings of any number of slots above the size of a batch.                 *)
Sizes == Nat \ {0, 1}
USE DEF Sizes

Less == {ss \in Nat \X Nat : ss[1] < ss[2]}

LEMMA LessWF == IsWellFoundedOn(Less, Nat)
BY NatLessThanWellFounded DEF OpToRel, Less

LEMMA LeastExists ==
  ASSUME NEW T, T \subseteq Nat, T # {}
  PROVE  \E n \in T : \A m \in T : n <= m
<1>1. PICK n \in T : \A m \in T : ~(<<m, n>> \in Less)
  BY LessWF, WFMin
<1>2. \A m \in T : m < n => <<m, n>> \in Less
  BY DEF Less
<1>3. \A m \in T : n <= m
  <2> TAKE m \in T
  <2>1. ~(m < n)
    BY <1>1, <1>2
  <2> QED BY <2>1
<1> QED BY <1>3

LEMMA SizeOfBatch ==
  ASSUME NEW b \in BatchSizes
  PROVE  LET r == Stage2!Min({ p \in Powers : p > b }) IN
         r \in Sizes /\ b \in Nat \ {0} /\ b < r
<1> DEFINE T == { p \in Powers : p > b }
<1>1. b \in Nat \ {0} /\ T \subseteq Sizes /\ T # {}
  BY StagesAssumption DEF Stage2!Stage2Assumption
<1>2. T \subseteq Nat
  BY <1>1 DEF Sizes
<1> HIDE DEF T
<1>3. \E x \in T : \A y \in T : x <= y
  BY <1>1, <1>2, LeastExists
<1>4. Stage2!Min(T) \in T
  BY <1>3 DEF Stage2!Min
<1> QED BY <1>1, <1>4 DEF T

LEMMA RingSizes ==
  ASSUME batch_size \in BatchSizes
  PROVE  R \in Sizes /\ batch_size \in Nat \ {0} /\ batch_size < R
BY SizeOfBatch DEF R, Stage2!RingSize

(* A sum of two numbers below r, modulo r.                                 *)
LEMMA Remainder ==
  ASSUME NEW r \in Sizes, NEW n \in 0 .. 2 * r - 1
  PROVE  n % r = IF n < r THEN n ELSE n - r
<1> DEFINE q == n \div r
           m == n % r
<1>1. q \in Int /\ m \in 0 .. r - 1 /\ n = r * q + m
  OBVIOUS
<1>2. r \in Nat /\ r > 0
  OBVIOUS
<1> HIDE DEF q, m
<1>3. q = 0 \/ q = 1
  <2>1. CASE q <= -1
    <3>1. r * q <= -r
      BY <1>1, <1>2, <2>1
    <3> QED BY <3>1, <1>1, <1>2
  <2>2. CASE q >= 2
    <3>1. r * q >= 2 * r
      BY <1>1, <1>2, <2>2
    <3> QED BY <3>1, <1>1, <1>2
  <2> QED BY <1>1, <2>1, <2>2
<1>4. m = IF n < r THEN n ELSE n - r
  <2>1. CASE q = 0
    BY <1>1, <1>2, <2>1
  <2>2. CASE q = 1
    BY <1>1, <1>2, <2>2
  <2> QED BY <1>3, <2>1, <2>2
<1> QED BY <1>4 DEF m

LEMMA Next2 ==
  ASSUME NEW r \in Sizes, NEW i \in 0 .. r - 1
  PROVE  (i + 1) % r = Wraps(r, i + 1) /\ (i + 1) % r \in 0 .. r - 1
<1>1. i + 1 \in 0 .. 2 * r - 1
  OBVIOUS
<1>2. \A n \in 0 .. 2 * r - 1 : n % r = IF n < r THEN n ELSE n - r
  BY Remainder
<1>3. (i + 1) % r = IF i + 1 < r THEN i + 1 ELSE i + 1 - r
  BY <1>1, <1>2
<1> QED BY <1>3 DEF Wraps

(* The slots of a ring by the arithmetic of its queue are those between    *)
(* its indexes.                                                            *)
LEMMA SizeIsFilled ==
  ASSUME NEW r \in Sizes, NEW i \in 0 .. r - 1, NEW j \in 0 .. r - 1
  PROVE  (j + r - i) % r = Filled(r, i, j) /\ Filled(r, i, j) \in 0 .. r - 1
<1>1. j + r - i \in 0 .. 2 * r - 1
  OBVIOUS
<1>2. \A n \in 0 .. 2 * r - 1 : n % r = IF n < r THEN n ELSE n - r
  BY Remainder
<1>3. (j + r - i) % r = IF j + r - i < r THEN j + r - i ELSE j + r - i - r
  BY <1>1, <1>2
<1> QED BY <1>3 DEF Filled

LEMMA Wrapping ==
  ASSUME NEW r \in Sizes, NEW i \in 0 .. r - 1, NEW k \in 0 .. r - 1
  PROVE  (i + k) % r = Wraps(r, i + k) /\ Wraps(r, i + k) \in 0 .. r - 1
<1>1. i + k \in 0 .. 2 * r - 1
  OBVIOUS
<1>2. \A n \in 0 .. 2 * r - 1 : n % r = IF n < r THEN n ELSE n - r
  BY Remainder
<1>3. (i + k) % r = IF i + k < r THEN i + k ELSE i + k - r
  BY <1>1, <1>2
<1> QED BY <1>3 DEF Wraps

(* The elements of a sequence.                                             *)
Elements(s) == { s[k] : k \in DOMAIN s }

LEMMA BetweenSet ==
  ASSUME NEW r \in Sizes, NEW i \in 0 .. r - 1, NEW j \in 0 .. r - 1, NEW s
  PROVE  { s[(i + k) % r] :
           k \in 0 .. ((j + r - i) % r) - 1 } = Elements(Between(r, s, i, j))
<1>1. (j + r - i) % r = Filled(r, i, j) /\ Filled(r, i, j) \in 0 .. r - 1
  BY SizeIsFilled
<1> DEFINE n == Filled(r, i, j)
<1>2. \A k \in 0 .. n - 1 : (i + k) % r = Wraps(r, i + k)
  BY <1>1, Wrapping
<1>3. DOMAIN Between(r, s, i, j) = 1 .. n
  BY DEF Between
<1>4. \A k \in 0 .. n - 1 :
        k + 1 \in 1 .. n /\ Between(r, s, i, j)[k + 1] = s[Wraps(r, i + k)]
  <2> TAKE k \in 0 .. n - 1
  <2>1. k \in Int /\ k + 1 \in 1 .. n /\ i + (k + 1) - 1 = i + k
    BY <1>1
  <2> QED BY <2>1 DEF Between
<1>5. \A k \in 1 .. n : k - 1 \in 0 .. n - 1 /\ (k - 1) + 1 = k
  BY <1>1
<1> HIDE DEF n
<1>6. \A k \in 1 .. n : \E l \in 0 .. n - 1 : Between(r, s, i, j)[k] = s[(i + l) % r]
  BY <1>2, <1>4, <1>5
<1>7. \A l \in 0 .. n - 1 : \E k \in 1 .. n : Between(r, s, i, j)[k] = s[(i + l) % r]
  BY <1>2, <1>4
<1>8. (j + r - i) % r = n
  BY <1>1 DEF n
<1> DEFINE B == Between(r, s, i, j)
<1> HIDE DEF B
<1>10. DOMAIN B = 1 .. n
  BY <1>3 DEF B
<1>11. \A k \in 1 .. n : \E l \in 0 .. n - 1 : B[k] = s[(i + l) % r]
  BY <1>6 DEF B
<1>12. \A l \in 0 .. n - 1 : \E k \in 1 .. n : B[k] = s[(i + l) % r]
  BY <1>7 DEF B
<1>13. { s[(i + l) % r] : l \in 0 .. n - 1 } = { B[k] : k \in DOMAIN B }
  <2>1. ASSUME NEW x \in { s[(i + l) % r] : l \in 0 .. n - 1 }
        PROVE  x \in { B[k] : k \in DOMAIN B }
    BY <2>1, <1>10, <1>12
  <2>2. ASSUME NEW x \in { B[k] : k \in DOMAIN B }
        PROVE  x \in { s[(i + l) % r] : l \in 0 .. n - 1 }
    BY <2>2, <1>10, <1>11
  <2> QED BY <2>1, <2>2
<1> QED BY <1>8, <1>13 DEF B, Elements

Lead(e, s) == << e >> \o s
Put(s, e) == s \o << e >>

(* What a pop takes from a ring, and what a push puts into it.             *)
LEMMA BetweenSeq ==
  ASSUME NEW r \in Sizes, NEW i \in 0 .. r - 1, NEW j \in 0 .. r - 1,
         NEW s \in [0 .. r - 1 -> Marks]
  PROVE  /\ Between(r, s, i, j) \in Seq(Marks)
         /\ Len(Between(r, s, i, j)) = Filled(r, i, j)
         /\ \A k \in 1 .. Filled(r, i, j) : Between(r, s, i, j)[k] = s[Wraps(r,
              i + k - 1)]
<1> DEFINE n == Filled(r, i, j)
           B == Between(r, s, i, j)
<1>1. n \in 0 .. r - 1 /\ n \in Nat
  BY SizeIsFilled
<1>2. \A k \in 1 .. n : Wraps(r, i + k - 1) \in 0 .. r - 1
  <2> TAKE k \in 1 .. n
  <2>1. k - 1 \in 0 .. r - 1 /\ i + (k - 1) = i + k - 1
    BY <1>1
  <2> QED BY <2>1, Wrapping
<1>3. B = [k \in 1 .. n |-> s[Wraps(r, i + k - 1)]]
  BY DEF Between
<1> HIDE DEF n, B
<1>4. /\ DOMAIN B = 1 .. n
      /\ \A k \in 1 .. n : B[k] = s[Wraps(r, i + k - 1)] /\ B[k] \in Marks
  BY <1>2, <1>3
<1>5. B \in Seq(Marks) /\ Len(B) = n
  BY <1>1, <1>3, <1>4, LenProperties
<1> QED BY <1>4, <1>5 DEF n, B

LEMMA PopRing ==
  ASSUME NEW r \in Sizes, NEW i \in 0 .. r - 1, NEW j \in 0 .. r - 1,
         NEW s \in [0 .. r - 1 -> Marks], i # j
  PROVE  Between(r, s, i, j) = Lead(s[i], Between(r, s, Wraps(r, i + 1), j))
<1> DEFINE n == Filled(r, i, j)
           B == Between(r, s, i, j)
           h == Wraps(r, i + 1)
           C == Between(r, s, h, j)
<1> HIDE DEF n, B, h, C
<1>1. h = Wraps(r, i + 1) /\ h \in 0 .. r - 1
  BY Next2 DEF h
<1>2. n \in 1 .. r - 1 /\ Filled(r, h, j) = n - 1
  BY <1>1 DEF n, Filled, Wraps
<1>3. /\ B \in Seq(Marks) /\ Len(B) = n
      /\ \A k \in 1 .. n : B[k] = s[Wraps(r, i + k - 1)]
  <2>1. Between(r, s, i, j) \in Seq(Marks)
    BY BetweenSeq
  <2>2. Len(Between(r, s, i, j)) = Filled(r, i, j)
    BY BetweenSeq
  <2>3. \A k \in 1 .. Filled(r, i, j) : Between(r, s, i, j)[k] = s[Wraps(r,
          i + k - 1)]
    BY DEF Between
  <2> QED BY <2>1, <2>2, <2>3 DEF n, B
<1>4. /\ C \in Seq(Marks) /\ Len(C) = Filled(r, h, j)
      /\ \A k \in 1 .. Filled(r, h, j) : C[k] = s[Wraps(r, h + k - 1)]
  <2>1. Between(r, s, h, j) \in Seq(Marks)
    BY <1>1, BetweenSeq
  <2>2. Len(Between(r, s, h, j)) = Filled(r, h, j)
    BY <1>1, BetweenSeq
  <2>3. \A k \in 1 .. Filled(r, h, j) : Between(r, s, h, j)[k] = s[Wraps(r,
          h + k - 1)]
    BY DEF Between
  <2> QED BY <2>1, <2>2, <2>3 DEF C
<1>5. B[1] = s[i]
  BY <1>2, <1>3 DEF Wraps
<1>6. \A k \in 2 .. n : B[k] = C[k - 1]
  <2> TAKE k \in 2 .. n
  <2>1. Wraps(r, i + k - 1) = Wraps(r, h + (k - 1) - 1)
    BY <1>1, <1>2 DEF Wraps
  <2>2. k \in 1 .. n /\ k - 1 \in 1 .. n - 1
    BY <1>2
  <2>3. /\ B[k] = s[Wraps(r, i + k - 1)]
        /\ C[k - 1] = s[Wraps(r, h + (k - 1) - 1)]
    BY <2>2, <1>2, <1>3, <1>4
  <2> QED BY <2>1, <2>3
<1>7. s[i] \in Marks
  OBVIOUS
<1>8. B = << s[i] >> \o C
  <2>1. << s[i] >> \in Seq(Marks) /\ Len(<< s[i] >>) = 1
    BY <1>7
  <2>2. << s[i] >> \o C \in Seq(Marks) /\ Len(<< s[i] >> \o C) = n
    BY <2>1, <1>2, <1>4, ConcatProperties
  <2>3. \A k \in 1 .. n : B[k] = (<< s[i] >> \o C)[k]
    BY <1>2, <1>4, <1>5, <1>6, <2>1
  <2> QED BY <2>2, <2>3, <1>3, SeqEqual
<1> QED BY <1>8 DEF B, C, h, Lead

Pushed(r, s, j, e, t) ==
  /\ t \in [0 .. r - 1 -> Marks] /\ t[j] = e
  /\ \A k \in 0 .. r - 1 : k # j => t[k] = s[k]

(* A ring's contents with one event more.                                  *)
LEMMA AppendMark ==
  ASSUME NEW s \in Seq(Marks), NEW e \in Marks
  PROVE  /\ s \o << e >> \in Seq(Marks) /\ Len(s \o << e >>) = Len(s) + 1
         /\ \A k \in 1 .. Len(s) + 1 :
               (s \o << e >>)[k] = IF k <= Len(s) THEN s[k] ELSE e
<1>1. << e >> \in Seq(Marks) /\ Len(<< e >>) = 1 /\ << e >>[1] = e
  OBVIOUS
<1> DEFINE t == << e >>
<1> HIDE DEF t
<1>2. t \in Seq(Marks) /\ Len(t) = 1 /\ t[1] = e
  BY <1>1 DEF t
<1>3. /\ s \o t \in Seq(Marks) /\ Len(s \o t) = Len(s) + 1
      /\ \A k \in 1 .. Len(s) + 1 :
            (s \o t)[k] = IF k <= Len(s) THEN s[k] ELSE t[k - Len(s)]
  BY <1>2, ConcatProperties, SMTT(60)
<1>4. Len(s) \in Nat
  BY LenProperties
<1>5. \A k \in 1 .. Len(s) + 1 : (s \o t)[k] = IF k <= Len(s) THEN s[k] ELSE e
  BY <1>2, <1>3, <1>4
<1> QED BY <1>3, <1>5 DEF t

LEMMA PushRing ==
  ASSUME NEW r \in Sizes, NEW i \in 0 .. r - 1, NEW j \in 0 .. r - 1,
         NEW s \in [0 .. r - 1 -> Marks], NEW e \in Marks, Wraps(r, j + 1) # i,
         NEW t, Pushed(r, s, j, e, t)
  PROVE  Between(r, t, i, Wraps(r, j + 1))
           = Put(Between(r, s, i, j), e)
<1> DEFINE n == Filled(r, i, j)
           B == Between(r, s, i, j)
           h == Wraps(r, j + 1)
           C == Between(r, t, i, h)
<1> HIDE DEF n, B, C, h
<1>1. h = Wraps(r, j + 1) /\ h \in 0 .. r - 1
  BY Next2 DEF h
<1>2. n \in 0 .. r - 2 /\ Filled(r, i, h) = n + 1
  BY <1>1 DEF n, h, Filled, Wraps
<1>0. /\ t \in [0 .. r - 1 -> Marks] /\ t[j] = e
      /\ \A k \in 0 .. r - 1 : k # j => t[k] = s[k]
  BY DEF Pushed
<1>3. /\ B \in Seq(Marks) /\ Len(B) = n
      /\ \A k \in 1 .. n : B[k] = s[Wraps(r, i + k - 1)]
  <2>1. Between(r, s, i, j) \in Seq(Marks)
    BY BetweenSeq
  <2>2. Len(Between(r, s, i, j)) = Filled(r, i, j)
    BY BetweenSeq
  <2>3. \A k \in 1 .. Filled(r, i, j) : Between(r, s, i, j)[k] = s[Wraps(r,
          i + k - 1)]
    BY DEF Between
  <2> QED BY <2>1, <2>2, <2>3 DEF n, B
<1>4. /\ C \in Seq(Marks) /\ Len(C) = Filled(r, i, h)
      /\ \A k \in 1 .. Filled(r, i, h) : C[k] = t[Wraps(r, i + k - 1)]
  <2>1. Between(r, t, i, h) \in Seq(Marks)
    BY <1>0, <1>1, BetweenSeq
  <2>2. Len(Between(r, t, i, h)) = Filled(r, i, h)
    <3>1. Filled(r, i, h) \in Nat
      BY <1>1, <1>2
    <3>2. DOMAIN Between(r, t, i, h) = 1 .. Filled(r, i, h)
      BY DEF Between
    <3>3. \A k \in Nat : Between(r, t, i, h) \in Seq(Marks)
                        /\ DOMAIN Between(r, t, i, h) = 1 .. k =>
                             Len(Between(r, t, i, h)) = k
      OBVIOUS
    <3> QED BY <3>1, <3>2, <3>3, <2>1
  <2>3. \A k \in 1 .. Filled(r, i, h) : Between(r, t, i, h)[k] = t[Wraps(r,
          i + k - 1)]
    BY DEF Between
  <2> QED BY <2>1, <2>2, <2>3 DEF C
<1>5. C[n + 1] = e
  <2>1. Wraps(r, i + (n + 1) - 1) = j
    BY <1>1 DEF Wraps, Filled, n
  <2>2. n + 1 \in 1 .. n + 1
    BY <1>2
  <2>3. C[n + 1] = t[j]
    BY <2>1, <2>2, <1>2, <1>4
  <2> QED BY <2>3, <1>0
<1>6. \A k \in 1 .. n : C[k] = B[k]
  <2> TAKE k \in 1 .. n
  <2>1. Wraps(r, i + k - 1) # j /\ Wraps(r, i + k - 1) \in 0 .. r - 1
    BY <1>2 DEF Wraps, Filled, n, h
  <2>2. k \in 1 .. n + 1
    BY <1>2
  <2>3. C[k] = t[Wraps(r, i + k - 1)] /\ B[k] = s[Wraps(r, i + k - 1)]
    BY <2>2, <1>2, <1>3, <1>4
  <2> QED BY <2>1, <2>3, <1>0
<1>8. C = B \o << e >>
  <2>1. /\ B \o << e >> \in Seq(Marks) /\ Len(B \o << e >>) = n + 1
        /\ \A k \in 1 .. n + 1 : (B \o << e >>)[k] = IF k <= n THEN B[k] ELSE e
    BY <1>3, AppendMark, Zenon
  <2>2. \A k \in 1 .. n + 1 : C[k] = (B \o << e >>)[k]
    BY <1>2, <1>5, <1>6, <2>1, SMTT(60)
  <2>3. Len(C) = n + 1 /\ C \in Seq(Marks)
    BY <1>2, <1>4
  <2> QED BY <2>1, <2>2, <2>3, SeqEqual
<1> QED BY <1>8 DEF B, C, h, Put

-----------------------------------------------------------------------------
(* Sequences of events in order.                                           *)
LEMMA AscendsMore ==
  ASSUME NEW S, NEW s \in Seq(S), NEW u, NEW e \in S, S \subseteq Int, Ascends(s, u),
         e # Quit2 => \A i \in 1 .. Len(s) :
                        s[i] # Quit2 /\ (s[i] \in u <=> e \in u) => s[i] < e
  PROVE  Ascends(s \o << e >>, u)
<1> DEFINE t == s \o << e >>
           n == Len(s)
<1>1. << e >> \in Seq(S) /\ Len(<< e >>) = 1 /\ << e >>[1] = e
  OBVIOUS
<1>2. n \in Nat /\ Len(t) = n + 1
  BY <1>1, ConcatProperties, LenProperties
<1>3. \A i \in 1 .. n : t[i] = s[i]
  BY <1>1
<1>4. t[n + 1] = e
  BY <1>1
<1> HIDE DEF t
<1> SUFFICES ASSUME NEW i \in 1 .. n + 1, NEW j \in 1 .. n + 1, i < j, t[i] # Quit2,
                    t[j] # Quit2, t[i] \in u <=> t[j] \in u
             PROVE  t[i] < t[j]
  BY <1>2 DEF Ascends, t
<1>5. i \in 1 .. n /\ t[i] = s[i]
  BY <1>2, <1>3
<1>6. CASE j = n + 1
  BY <1>4, <1>5, <1>6
<1>7. CASE j \in 1 .. n
  BY <1>3, <1>5, <1>7 DEF Ascends
<1> QED BY <1>2, <1>6, <1>7

LEMMA AscendsStill ==
  ASSUME NEW S, NEW s \in Seq(S), NEW u, NEW v, Ascends(s, u),
         \A e \in S : e # Quit2 => (e \in u <=> e \in v)
  PROVE  Ascends(s, v)
<1>1. \A i \in 1 .. Len(s) : s[i] # Quit2 => (s[i] \in u <=> s[i] \in v)
  BY ElementOfSeq
<1> QED BY <1>1 DEF Ascends

LEMMA AppendConcat ==
  ASSUME NEW S, NEW s \in Seq(S), NEW e \in S
  PROVE  Append(s, e) = s \o << e >>
OBVIOUS

(* What a pop, the end of a handler and a write do to the events taken.    *)
LEMMA TakenByPop ==
  ASSUME NEW S, NEW h \in Seq(S), NEW r \in Seq(S), NEW e \in S
  PROVE  ((h \o << >>) \o (<< e >> \o r)) \o << >> = ((h \o << e >>) \o r) \o << >>
<1>1. << e >> \in Seq(S) /\ h \o << >> = h
  BY ConcatEmptySeq
<1> QED BY <1>1, ConcatAssociative

LEMMA TakenByHandle ==
  ASSUME NEW S, NEW h \in Seq(S), NEW r \in Seq(S), NEW e \in S
  PROVE  /\ Append(h, e) \in Seq(S)
         /\ ((h \o << e >>) \o r) \o << >> = ((Append(h, e) \o << >>) \o r) \o << >>
<1>1. << e >> \in Seq(S) /\ Append(h, e) = h \o << e >> /\ Append(h, e) \in Seq(S)
  OBVIOUS
<1>2. Append(h, e) \o << >> = Append(h, e)
  BY <1>1, ConcatEmptySeq
<1> QED BY <1>1, <1>2

LEMMA TakenByWrite ==
  ASSUME NEW S, NEW a \in Seq(S), NEW r \in Seq(S), NEW e \in S
  PROVE  /\ r \o << e >> \in Seq(S)
         /\ (a \o r) \o << e >> = (a \o (r \o << e >>)) \o << >>
<1>1. << e >> \in Seq(S) /\ r \o << e >> \in Seq(S)
  BY ConcatProperties
<1>2. (a \o (r \o << e >>)) \in Seq(S)
  BY <1>1, ConcatProperties
<1>3. (a \o (r \o << e >>)) \o << >> = a \o (r \o << e >>)
  BY <1>2, ConcatEmptySeq
<1>4. a \o (r \o << e >>) = (a \o r) \o << e >>
  BY <1>1, ConcatAssociative
<1> QED BY <1>1, <1>3, <1>4

-----------------------------------------------------------------------------
(* Events that are in one place each.                                      *)
Covers(P, D, U) == UNION { P[d] : d \in D } = U
Apart(P, D) == \A i, j \in D : i # j => P[i] \cap P[j] = {}

LEMMA EventMoves ==
  ASSUME NEW D, NEW P, NEW Q, NEW U, NEW a \in D, NEW b \in D, NEW e, a # b,
         Covers(P, D, U), Apart(P, D), e \in P[a],
         \A x : x \in Q[a] <=> x \in P[a] /\ x # e,
         \A x : x \in Q[b] <=> x \in P[b] \/ x = e,
         \A d \in D : d # a /\ d # b => Q[d] = P[d]
  PROVE  Covers(Q, D, U) /\ Apart(Q, D)
<1>1. \A d \in D : d # a => e \notin P[d]
  BY DEF Apart
<1>2. Apart(Q, D)
  <2> SUFFICES ASSUME NEW i \in D, NEW j \in D, i # j, NEW x, x \in Q[i], x \in Q[j]
               PROVE  FALSE
    BY DEF Apart
  <2>1. CASE x = e
    BY <2>1, <1>1
  <2>2. CASE x # e
    <3>1. x \in P[i] /\ x \in P[j]
      BY <2>2
    <3> QED BY <3>1 DEF Apart
  <2> QED BY <2>1, <2>2
<1>3. \A x : x \in UNION { Q[d] : d \in D } <=> x \in UNION { P[d] : d \in D }
  <2> TAKE x
  <2>1. CASE x = e
    <3>1. e \in Q[b]
      OBVIOUS
    <3> QED BY <2>1, <3>1
  <2>2. CASE x # e
    <3>1. \A d \in D : x \in Q[d] <=> x \in P[d]
      BY <2>2
    <3> QED BY <3>1
  <2> QED BY <2>1, <2>2
<1>4. UNION { Q[d] : d \in D } = UNION { P[d] : d \in D }
  BY <1>3
<1> QED BY <1>2, <1>4 DEF Covers

LEMMA EventArrives ==
  ASSUME NEW D, NEW P, NEW Q, NEW U, NEW b \in D, NEW e, e \notin U,
         Covers(P, D, U), Apart(P, D),
         \A x : x \in Q[b] <=> x \in P[b] \/ x = e,
         \A d \in D : d # b => Q[d] = P[d]
  PROVE  Covers(Q, D, U \cup {e}) /\ Apart(Q, D)
<1>1. \A d \in D : e \notin P[d]
  BY DEF Covers
<1>2. Apart(Q, D)
  <2> SUFFICES ASSUME NEW i \in D, NEW j \in D, i # j, NEW x, x \in Q[i], x \in Q[j]
               PROVE  FALSE
    BY DEF Apart
  <2>1. CASE x = e
    BY <2>1, <1>1
  <2>2. CASE x # e
    <3>1. x \in P[i] /\ x \in P[j]
      BY <2>2
    <3> QED BY <3>1 DEF Apart
  <2> QED BY <2>1, <2>2
<1>3. \A x : x \in UNION { Q[d] : d \in D } <=>
        x \in UNION { P[d] : d \in D } \/ x = e
  <2> TAKE x
  <2>1. CASE x = e
    <3>1. e \in Q[b]
      OBVIOUS
    <3> QED BY <2>1, <3>1
  <2>2. CASE x # e
    <3>1. \A d \in D : x \in Q[d] <=> x \in P[d]
      BY <2>2
    <3> QED BY <2>2, <3>1
  <2> QED BY <2>1, <2>2
<1> QED BY <1>2, <1>3 DEF Covers

(* The parts of a stage, by where they are in its sequence of parts.       *)
Sorted(P, n, hi, lo, f, g, h, l) ==
  /\ DOMAIN P = 1 .. 3 * n + 3
  /\ P[1] = hi /\ P[2] = lo /\ P[3 * n + 3] = l
  /\ \A w \in 1 .. n :
       P[2 + w] = f[w] /\ P[2 + n + w] = g[w] /\ P[2 + 2 * n + w] = h[w]

Joint(n, hi, lo, f, g, h, l) ==
  << hi, lo >> \o [w \in 1 .. n |-> f[w]] \o [w \in 1 .. n |-> g[w]]
    \o [w \in 1 .. n |-> h[w]] \o << l >>

LEMMA PartsAreSorted ==
  ASSUME NEW n \in Nat, NEW hi, NEW lo, NEW l,
         NEW f, NEW g, NEW h, DOMAIN f = 1 .. n, DOMAIN g = 1 .. n, DOMAIN h = 1 .. n
  PROVE  Sorted(Joint(n, hi, lo, f, g, h, l), n, hi, lo, f, g, h, l)
<1>1. PICK S : /\ {hi, lo, l} \subseteq S
               /\ \A w \in 1 .. n : f[w] \in S /\ g[w] \in S /\ h[w] \in S
  <2> DEFINE T == {hi, lo,
               l} \cup { f[w] : w \in 1 .. n } \cup { g[w] : w \in 1 .. n }
                    \cup { h[w] : w \in 1 .. n }
  <2>1. /\ {hi, lo, l} \subseteq T
        /\ \A w \in 1 .. n : f[w] \in T /\ g[w] \in T /\ h[w] \in T
    OBVIOUS
  <2> QED BY <2>1
<1> DEFINE a == << hi, lo >>
           b == [w \in 1 .. n |-> f[w]]
           c == [w \in 1 .. n |-> g[w]]
           d == [w \in 1 .. n |-> h[w]]
           e == << l >>
<1>2. /\ a \in Seq(S) /\ b \in Seq(S) /\ c \in Seq(S) /\ d \in Seq(S) /\ e \in Seq(S)
      /\ Len(a) = 2 /\ Len(b) = n /\ Len(c) = n /\ Len(d) = n /\ Len(e) = 1
  BY <1>1
<1>3. /\ a[1] = hi /\ a[2] = lo /\ e[1] = l
      /\ \A w \in 1 .. n : b[w] = f[w] /\ c[w] = g[w] /\ d[w] = h[w]
  OBVIOUS
<1> HIDE DEF a, b, c, d, e
<1> DEFINE p == a \o b
           q == p \o c
           r == q \o d
           s == r \o e
<1>4. /\ p \in Seq(S) /\ Len(p) = 2 + n
      /\ \A i \in 1 .. 2 + n : p[i] = IF i <= 2 THEN a[i] ELSE b[i - 2]
  <2>1. p \in Seq(S)
    BY <1>2, ConcatProperties, Zenon
  <2>2. Len(p) = Len(a) + Len(b)
    BY <1>2, ConcatProperties, Zenon
  <2>3. \A i \in 1 .. Len(a) + Len(b) :
          p[i] = IF i <= Len(a) THEN a[i] ELSE b[i - Len(a)]
    BY <1>2, ConcatProperties, Zenon
  <2> HIDE DEF p
  <2> QED BY <2>1, <2>2, <2>3, <1>2
<1> HIDE DEF p
<1>5. /\ q \in Seq(S) /\ Len(q) = 2 + 2 * n
      /\ \A i \in 1 .. 2 + 2 * n : q[i] = IF i <= 2 + n THEN p[i] ELSE c[i - (2 + n)]
  <2>1. q \in Seq(S)
    BY <1>2, <1>4, ConcatProperties, Zenon
  <2>2. Len(q) = Len(p) + Len(c)
    BY <1>2, <1>4, ConcatProperties, Zenon
  <2>3. \A i \in 1 .. Len(p) + Len(c) :
          q[i] = IF i <= Len(p) THEN p[i] ELSE c[i - Len(p)]
    BY <1>2, <1>4, ConcatProperties, Zenon
  <2> HIDE DEF q
  <2> QED BY <2>1, <2>2, <2>3, <1>2, <1>4
<1> HIDE DEF q
<1>6. /\ r \in Seq(S) /\ Len(r) = 2 + 3 * n
      /\ \A i \in 1 .. 2 + 3 * n :
           r[i] = IF i <= 2 + 2 * n THEN q[i] ELSE d[i - (2 + 2 * n)]
  <2>1. r \in Seq(S)
    BY <1>2, <1>5, ConcatProperties, Zenon
  <2>2. Len(r) = Len(q) + Len(d)
    BY <1>2, <1>5, ConcatProperties, Zenon
  <2>3. \A i \in 1 .. Len(q) + Len(d) :
          r[i] = IF i <= Len(q) THEN q[i] ELSE d[i - Len(q)]
    BY <1>2, <1>5, ConcatProperties, Zenon
  <2> HIDE DEF r
  <2> QED BY <2>1, <2>2, <2>3, <1>2, <1>5
<1> HIDE DEF r
<1>7. /\ s \in Seq(S) /\ Len(s) = 3 + 3 * n
      /\ \A i \in 1 .. 3 + 3 * n :
           s[i] = IF i <= 2 + 3 * n THEN r[i] ELSE e[i - (2 + 3 * n)]
  <2>1. s \in Seq(S)
    BY <1>2, <1>6, ConcatProperties, Zenon
  <2>2. Len(s) = Len(r) + Len(e)
    BY <1>2, <1>6, ConcatProperties, Zenon
  <2>3. \A i \in 1 .. Len(r) + Len(e) :
          s[i] = IF i <= Len(r) THEN r[i] ELSE e[i - Len(r)]
    BY <1>2, <1>6, ConcatProperties, Zenon
  <2> HIDE DEF s
  <2> QED BY <2>1, <2>2, <2>3, <1>2, <1>6
<1> HIDE DEF s
<1>8. DOMAIN s = 1 .. 3 * n + 3
  BY <1>7, LenProperties
<1>9. s[1] = hi /\ s[2] = lo /\ s[3 * n + 3] = l
  BY <1>3, <1>4, <1>5, <1>6, <1>7
<1>10. ASSUME NEW w \in 1 .. n
       PROVE  s[2 + w] = f[w] /\ s[2 + n + w] = g[w] /\ s[2 + 2 * n + w] = h[w]
  <2>1. s[2 + w] = b[w]
    BY <1>4, <1>5, <1>6, <1>7
  <2>2. s[2 + n + w] = c[w]
    BY <1>5, <1>6, <1>7, SMTT(60)
  <2>3. s[2 + 2 * n + w] = d[w]
    BY <1>6, <1>7
  <2> QED BY <2>1, <2>2, <2>3, <1>3
<1>11. Sorted(s, n, hi, lo, f, g, h, l)
  BY <1>8, <1>9, <1>10 DEF Sorted
<1> QED BY <1>11 DEF Joint, s, r, q, p, a, b, c, d, e

LEMMA EveryPart ==
  ASSUME NEW n \in Nat, NEW i \in 1 .. 3 * n + 3
  PROVE  \/ i \in {1, 2, 3 * n + 3}
         \/ \E w \in 1 .. n : i = 2 + w \/ i = 2 + n + w \/ i = 2 + 2 * n + w
<1>1. CASE i \in 3 .. 2 + n
  <2>1. i - 2 \in 1 .. n /\ i = 2 + (i - 2)
    BY <1>1
  <2> QED BY <2>1
<1>2. CASE i \in 3 + n .. 2 + 2 * n
  <2>1. i - 2 - n \in 1 .. n /\ i = 2 + n + (i - 2 - n)
    BY <1>2
  <2> QED BY <2>1
<1>3. CASE i \in 3 + 2 * n .. 2 + 3 * n
  <2>1. i - 2 - 2 * n \in 1 .. n /\ i = 2 + 2 * n + (i - 2 - 2 * n)
    BY <1>3
  <2> QED BY <2>1
<1>4. CASE i \in {1, 2, 3 * n + 3}
  BY <1>4
<1> QED BY <1>1, <1>2, <1>3, <1>4

-----------------------------------------------------------------------------
(* What the steps do to the records of the stage's threads.                *)
LEMMA UpdatedAt ==
  ASSUME NEW S, NEW T, NEW f \in [S -> T], NEW a \in S, NEW x \in T, NEW g,
         g = [f EXCEPT ![a] = x]
  PROVE  g \in [S -> T] /\ g[a] = x /\ \A b \in S : b # a => g[b] = f[b]
OBVIOUS

LEMMA GotoRecord ==
  ASSUME NEW r \in ThreadRecords, NEW p \in Stage2Places
  PROVE  /\ [r EXCEPT !.pc = p] \in ThreadRecords
         /\ [r EXCEPT !.pc = p].pc = p /\ [r EXCEPT !.pc = p].left = r.left
         /\ [r EXCEPT !.pc = p].at = r.at /\ [r EXCEPT !.pc = p].event = r.event
BY DEF ThreadRecords

LEMMA PopRecord ==
  ASSUME NEW r \in ThreadRecords, NEW p \in Stage2Places, NEW i \in Nat,
         NEW e \in Marks
  PROVE  LET s == [r EXCEPT !.pc = p, !.at = i, !.event = e] IN
         s \in ThreadRecords /\ s.pc = p /\ s.left = r.left /\ s.at = i /\ s.event = e
BY DEF ThreadRecords

LEMMA HandledRecord ==
  ASSUME NEW r \in ThreadRecords, NEW p \in Stage2Places, NEW e \in Marks
  PROVE  LET s == [r EXCEPT !.pc = p, !.event = e] IN
         /\ s \in ThreadRecords /\ s.pc = p /\ s.left = r.left
         /\ s.at = r.at /\ s.event = e
BY DEF ThreadRecords

LEMMA StartRecord ==
  ASSUME NEW r \in ThreadRecords, NEW p \in Stage2Places, NEW n \in Nat
  PROVE  LET s == [r EXCEPT !.pc = p, !.left = n] IN
         /\ s \in ThreadRecords /\ s.pc = p /\ s.left = n
         /\ s.at = r.at /\ s.event = r.event
BY DEF ThreadRecords

LEMMA DoneRecord ==
  ASSUME NEW r \in ThreadRecords, NEW p \in Stage2Places, NEW n \in Nat,
           NEW e \in Marks
  PROVE  LET s == [r EXCEPT !.pc = p, !.left = n, !.event = e] IN
         s \in ThreadRecords /\ s.pc = p /\ s.left = n /\ s.at = r.at /\ s.event = e
BY DEF ThreadRecords

(* The records of the threads after a step of thread w that changes only   *)
(* its own.                                                                *)
Only(w) ==
  /\ worker' \in [Crew -> ThreadRecords]
  /\ \A v \in Crew : v # w => worker'[v] = worker[v]
Becomes(w, p, n, i, e) ==
  /\ worker'[w].pc = p /\ worker'[w].left = n /\ worker'[w].at = i
  /\ worker'[w].event = e

LEMMA QueuePlaces ==
  ASSUME NEW q \in Stage2!Queues
  PROVE  /\ Stage2!Moves(q) \in Stage2Places /\ Stage2!Writes(q) \in Stage2Places
         /\ Stage2!AfterQueue(q) \in {"low", "pop"} /\ q \in Stage2Places
         /\ Stage2!AfterQueue(q) \in Stage2Places
BY DEF Stage2!Queues, Stage2!Moves, Stage2!Writes, Stage2!AfterQueue, Stage2Places

LEMMA Held ==
  ASSUME Stage2Types, NEW w \in Crew
  PROVE  /\ worker \in [Crew -> ThreadRecords] /\ worker[w] \in ThreadRecords
         /\ worker[w].pc \in Stage2Places /\ worker[w].left \in Nat
         /\ worker[w].at \in 0 .. R - 1 /\ worker[w].event \in Marks
         /\ read_index[w] \in 0 .. R - 1 /\ write_index[w] \in 0 .. R - 1
         /\ slots[w] \in [0 .. R - 1 -> Marks] /\ R \in Sizes
BY RingSizes DEF Stage2Types, ThreadRecords

LEMMA PopEffects ==
  ASSUME Stage2Types, NEW w \in Crew, Stage2!PopLocal(w)
  PROVE  /\ Only(w)
         /\ Becomes(w, "handle", worker[w].left, read_index[w],
              slots[w][read_index[w]])
<1> DEFINE x == [worker[w] EXCEPT !.pc = "handle", !.at = read_index[w],
                                  !.event = slots[w][read_index[w]]]
<1>1. worker' = [worker EXCEPT ![w] = x]
  BY DEF Stage2!PopLocal
<1>2. /\ worker[w] \in ThreadRecords /\ "handle" \in Stage2Places
      /\ read_index[w] \in Nat /\ slots[w][read_index[w]] \in Marks
  BY Held DEF Stage2Places
<1>3. /\ x \in ThreadRecords /\ x.pc = "handle" /\ x.left = worker[w].left
      /\ x.at = read_index[w] /\ x.event = slots[w][read_index[w]]
  <2>1. x \in ThreadRecords
    <3>1. ASSUME NEW e \in Marks
          PROVE  [worker[w] EXCEPT !.pc = "handle", !.at = read_index[w], !.event = e]
                   \in ThreadRecords
      BY <1>2, PopRecord
    <3> QED BY <1>2, <3>1
  <2>2. x.pc = "handle" /\ x.left = worker[w].left
    BY <1>2 DEF ThreadRecords
  <2>3. x.at = read_index[w] /\ x.event = slots[w][read_index[w]]
    BY <1>2 DEF ThreadRecords
  <2> QED BY <2>1, <2>2, <2>3
<1> HIDE DEF x
<1>4. /\ worker' \in [Crew -> ThreadRecords] /\ worker'[w] = x
      /\ \A v \in Crew : v # w => worker'[v] = worker[v]
  BY <1>1, <1>3, Held, UpdatedAt
<1> QED BY <1>3, <1>4 DEF Only, Becomes

LEMMA HandleEffects ==
  ASSUME Stage2Types, NEW w \in Crew, Stage2!Handle(w)
  PROVE  LET e == slots[w][worker[w].at] IN
         /\ Only(w) /\ e \in Marks
         /\ e = Quit2 =>
              /\ Becomes(w, "ended", worker[w].left, worker[w].at, worker[w].event)
              /\ stage2_handled' = stage2_handled
         /\ e # Quit2 => /\ Becomes(w, "pop", worker[w].left, worker[w].at, 0)
                         /\ stage2_handled' =
                              [stage2_handled EXCEPT ![w] = Append(@, e)]
<1> DEFINE e == slots[w][worker[w].at]
           x == [worker[w] EXCEPT !.pc = "ended"]
           y == [worker[w] EXCEPT !.pc = "pop", !.event = 0]
<1>0. e \in Marks
  BY Held
<1>1. /\ e = Quit2 => /\ worker' = [worker EXCEPT ![w] = x]
                      /\ stage2_handled' = stage2_handled
      /\ e # Quit2 => /\ worker' = [worker EXCEPT ![w] = y]
                      /\ stage2_handled' = [stage2_handled EXCEPT ![w] = Append(@, e)]
  BY DEF Stage2!Handle, Stage2!Goto, Stage2!Nothing, Quit2
<1>2. /\ worker[w] \in ThreadRecords /\ "ended" \in Stage2Places
      /\ "pop" \in Stage2Places /\ 0 \in Marks
  BY Held, StagesAssumption DEF Stage2Places, Marks, Stage2!Stage2Assumption
<1>3. /\ x \in ThreadRecords /\ x.pc = "ended" /\ x.left = worker[w].left
      /\ x.at = worker[w].at /\ x.event = worker[w].event
  BY <1>2, GotoRecord
<1>4. /\ y \in ThreadRecords /\ y.pc = "pop" /\ y.left = worker[w].left
      /\ y.at = worker[w].at /\ y.event = 0
  <2>1. y \in ThreadRecords
    BY <1>2, HandledRecord
  <2>2. y.pc = "pop" /\ y.left = worker[w].left
    BY <1>2 DEF ThreadRecords
  <2>3. y.at = worker[w].at /\ y.event = 0
    BY <1>2 DEF ThreadRecords
  <2> QED BY <2>1, <2>2, <2>3
<1> HIDE DEF x, y, e
<1>5. CASE e = Quit2
  <2>1. /\ worker' \in [Crew -> ThreadRecords] /\ worker'[w] = x
        /\ \A v \in Crew : v # w => worker'[v] = worker[v]
    BY <1>1, <1>3, <1>5, Held, UpdatedAt
  <2> QED BY <1>0, <1>1, <1>3, <1>5, <2>1 DEF Only, Becomes, e
<1>6. CASE e # Quit2
  <2>1. /\ worker' \in [Crew -> ThreadRecords] /\ worker'[w] = y
        /\ \A v \in Crew : v # w => worker'[v] = worker[v]
    BY <1>1, <1>4, <1>6, Held, UpdatedAt
  <2> QED BY <1>0, <1>1, <1>4, <1>6, <2>1 DEF Only, Becomes, e
<1> QED BY <1>5, <1>6

LEMMA GotoEffects ==
  ASSUME Stage2Types, NEW w \in Crew, NEW p \in Stage2Places, Stage2!Goto(w, p)
  PROVE  Only(w) /\ Becomes(w, p, worker[w].left, worker[w].at, worker[w].event)
<1> DEFINE x == [worker[w] EXCEPT !.pc = p]
<1>1. worker' = [worker EXCEPT ![w] = x]
  BY DEF Stage2!Goto
<1>3. /\ x \in ThreadRecords /\ x.pc = p /\ x.left = worker[w].left
      /\ x.at = worker[w].at /\ x.event = worker[w].event
  BY Held, GotoRecord
<1> HIDE DEF x
<1>4. /\ worker' \in [Crew -> ThreadRecords] /\ worker'[w] = x
      /\ \A v \in Crew : v # w => worker'[v] = worker[v]
  BY <1>1, <1>3, Held, UpdatedAt
<1> QED BY <1>3, <1>4 DEF Only, Becomes

LEMMA MinOfThree ==
  ASSUME NEW a \in Nat, NEW b \in Nat, NEW c \in Nat
  PROVE  LET m == Stage2!Min({a, b, c}) IN
         m \in {a, b, c} /\ m <= a /\ m <= b /\ m <= c
<1>1. \E m \in {a, b, c} : \A y \in {a, b, c} : m =< y
  <2>1. CASE a <= b /\ a <= c
    BY <2>1
  <2>2. CASE b <= a /\ b <= c
    BY <2>2
  <2>3. CASE c <= a /\ c <= b
    BY <2>3
  <2> QED BY <2>1, <2>2, <2>3
<1> QED BY <1>1 DEF Stage2!Min

LEMMA BatchSize ==
  ASSUME Stage2Types, NEW w \in Crew, NEW q \in Stage2!Queues
  PROVE  LET n == Stage2!Batch(w, q) IN
         n \in Nat /\ n <= Len(shared[q]) /\ n <= batch_size
<1>1. Stage2!Size(w) \in 0 .. R - 1
  BY Held, SizeIsFilled DEF Stage2!Size, R
<1>2. /\ Len(shared[q]) \in Nat /\ R - Stage2!Size(w) \in Nat /\ batch_size \in Nat
  <2>1. Len(shared[q]) \in Nat
    <3>1. shared[q] \in Seq(1 .. MaxEvents)
      BY DEF Stage2Types
    <3> QED BY <3>1, LenProperties
  <2>2. R - Stage2!Size(w) \in Nat
    BY <1>1, Held
  <2>3. batch_size \in Nat
    BY RingSizes DEF Stage2Types
  <2> QED BY <2>1, <2>2, <2>3
<1> QED BY <1>2, MinOfThree DEF Stage2!Batch, R

LEMMA StartEffects ==
  ASSUME Stage2Types, NEW w \in Crew, NEW q \in Stage2!Queues,
           Stage2!StartMoving(w, q)
  PROVE  LET n == Stage2!Batch(w, q) IN
         /\ Only(w)
         /\ n = 0 => /\ Becomes(w, Stage2!AfterQueue(q), worker[w].left, worker[w].at,
                                worker[w].event)
                     /\ lock' = lock
         /\ n # 0 => /\ Becomes(w, Stage2!Moves(q), n, worker[w].at, worker[w].event)
                     /\ lock' = [lock EXCEPT ![q] = w]
<1> DEFINE n == Stage2!Batch(w, q)
           x == [worker[w] EXCEPT !.pc = Stage2!Moves(q), !.left = n]
<1>1. /\ n = 0 => Stage2!Goto(w, Stage2!AfterQueue(q)) /\ lock' = lock
      /\ n # 0 => worker' = [worker EXCEPT ![w] = x] /\ lock' = [lock EXCEPT ![q] = w]
  BY DEF Stage2!StartMoving
<1>2. n \in Nat
  BY BatchSize
<1>3. /\ x \in ThreadRecords /\ x.pc = Stage2!Moves(q) /\ x.left = n
      /\ x.at = worker[w].at /\ x.event = worker[w].event
  <2>1. x \in ThreadRecords
    BY <1>2, Held, QueuePlaces, StartRecord
  <2>2. x.pc = Stage2!Moves(q) /\ x.left = n
    BY <1>2, Held, QueuePlaces DEF ThreadRecords
  <2>3. x.at = worker[w].at /\ x.event = worker[w].event
    BY <1>2, Held, QueuePlaces DEF ThreadRecords
  <2> QED BY <2>1, <2>2, <2>3
<1> HIDE DEF x, n
<1>4. CASE n = 0
  BY <1>1, <1>4, GotoEffects, QueuePlaces DEF n
<1>5. CASE n # 0
  <2>1. /\ worker' \in [Crew -> ThreadRecords] /\ worker'[w] = x
        /\ \A v \in Crew : v # w => worker'[v] = worker[v]
    BY <1>1, <1>3, <1>5, Held, UpdatedAt
  <2> QED BY <1>1, <1>3, <1>5, <2>1 DEF Only, Becomes, n
<1> QED BY <1>4, <1>5

LEMMA DoneEffects ==
  ASSUME Stage2Types, NEW w \in Crew, NEW q \in Stage2!Queues, Stage2!Done(w, q),
         worker[w].left > 0
  PROVE  LET n == worker[w].left IN
         /\ Only(w)
         /\ n = 1 => /\ Becomes(w, Stage2!AfterQueue(q), 0, worker[w].at, 0)
                     /\ lock' = [lock EXCEPT ![q] = 0]
         /\ n # 1 => /\ Becomes(w, Stage2!Moves(q), n - 1, worker[w].at, 0)
                     /\ lock' = lock
<1> DEFINE n == worker[w].left
           x == [worker[w] EXCEPT !.pc = Stage2!AfterQueue(q), !.left = 0,
             !.event = 0]
           y == [worker[w] EXCEPT !.pc = Stage2!Moves(q), !.left = n - 1, !.event = 0]
<1>1. /\ n = 1 => worker' = [worker EXCEPT ![w] = x] /\ lock' = [lock EXCEPT ![q] = 0]
      /\ n # 1 => worker' = [worker EXCEPT ![w] = y] /\ lock' = lock
  BY DEF Stage2!Done, Stage2!Nothing
<1>2. n - 1 \in Nat /\ 0 \in Nat /\ 0 \in Marks /\ worker[w] \in ThreadRecords
  BY Held, StagesAssumption DEF Marks, Stage2!Stage2Assumption
<1>3. /\ x \in ThreadRecords /\ x.pc = Stage2!AfterQueue(q) /\ x.left = 0
      /\ x.at = worker[w].at /\ x.event = 0
  <2>1. x \in ThreadRecords
    BY <1>2, QueuePlaces, DoneRecord
  <2>2. x.pc = Stage2!AfterQueue(q) /\ x.left = 0
    BY <1>2, QueuePlaces DEF ThreadRecords
  <2>3. x.at = worker[w].at /\ x.event = 0
    BY <1>2, QueuePlaces DEF ThreadRecords
  <2> QED BY <2>1, <2>2, <2>3
<1>4. /\ y \in ThreadRecords /\ y.pc = Stage2!Moves(q) /\ y.left = n - 1
      /\ y.at = worker[w].at /\ y.event = 0
  <2>1. y \in ThreadRecords
    BY <1>2, QueuePlaces, DoneRecord
  <2>2. y.pc = Stage2!Moves(q) /\ y.left = n - 1
    BY <1>2, QueuePlaces DEF ThreadRecords
  <2>3. y.at = worker[w].at /\ y.event = 0
    BY <1>2, QueuePlaces DEF ThreadRecords
  <2> QED BY <2>1, <2>2, <2>3
<1> HIDE DEF x, y
<1>5. CASE n = 1
  <2>1. /\ worker' \in [Crew -> ThreadRecords] /\ worker'[w] = x
        /\ \A v \in Crew : v # w => worker'[v] = worker[v]
    BY <1>1, <1>3, <1>5, Held, UpdatedAt
  <2> QED BY <1>1, <1>3, <1>5, <2>1 DEF Only, Becomes
<1>6. CASE n # 1
  <2>1. /\ worker' \in [Crew -> ThreadRecords] /\ worker'[w] = y
        /\ \A v \in Crew : v # w => worker'[v] = worker[v]
    BY <1>1, <1>4, <1>6, Held, UpdatedAt
  <2> QED BY <1>1, <1>4, <1>6, <2>1 DEF Only, Becomes
<1> QED BY <1>5, <1>6

(* An event is taken out of its shared queue: it is dropped if the ring is *)
(* full, and else on its way to the slot it goes to.                       *)
LEMMA MoveEffects ==
  ASSUME Stage2Types, LockInv, NEW w \in Crew, NEW q \in Stage2!Queues,
           Stage2!Move(w, q)
  PROVE  LET n == worker[w].left
             e == Head(shared[q])
         IN
         /\ Only(w) /\ lock[q] = w /\ n > 0 /\ n <= Len(shared[q])
         /\ shared[q] # << >> /\ e \in 1 .. MaxEvents
         /\ shared' = [shared EXCEPT ![q] = Tail(shared[q])]
         /\ Stage2!Full(w) => /\ lost' = lost \cup {e} /\ Stage2!Done(w, q)
         /\ ~Stage2!Full(w) =>
              /\ Becomes(w, Stage2!Writes(q), n, write_index[w], e)
              /\ lost' = lost /\ lock' = lock
<1> DEFINE n == worker[w].left
           e == Head(shared[q])
           x == [worker[w] EXCEPT !.pc = Stage2!Writes(q), !.at = write_index[w],
             !.event = e]
<1>1. /\ shared' = [shared EXCEPT ![q] = Tail(shared[q])]
      /\ Stage2!Full(w) => /\ lost' = lost \cup {e} /\ Stage2!Done(w, q)
      /\ ~Stage2!Full(w) =>
           worker' = [worker EXCEPT ![w] = x] /\ lost' = lost /\ lock' = lock
  BY DEF Stage2!Move, Stage2Types
<1>2. worker[w].pc = Stage2!Moves(q)
  BY DEF Stage2!Move
<1>3. lock[q] = w /\ n > 0 /\ n <= Len(shared[q])
  BY <1>2 DEF LockInv, MovesFrom
<1>4. shared[q] # << >> /\ e \in 1 .. MaxEvents
  <2>1. shared[q] \in Seq(1 .. MaxEvents)
    BY DEF Stage2Types
  <2>2. Len(shared[q]) \in Nat /\ Len(shared[q]) # 0
    BY <2>1, <1>3, Held, LenProperties
  <2> QED BY <2>1, <2>2, EmptySeq, HeadTailProperties
<1>5. CASE Stage2!Full(w)
  <2>1. Only(w)
    BY <1>1, <1>3, <1>5, DoneEffects
  <2> QED BY <2>1, <1>1, <1>3, <1>4, <1>5
<1>6. CASE ~Stage2!Full(w)
  <2>1. /\ x \in ThreadRecords /\ x.pc = Stage2!Writes(q) /\ x.left = n
        /\ x.at = write_index[w] /\ x.event = e
    <3>1. write_index[w] \in Nat
      BY Held
    <3>2. e \in Marks
      BY <1>4, StagesAssumption DEF Marks, Stage2!Stage2Assumption
    <3>3. worker[w] \in ThreadRecords /\ Stage2!Writes(q) \in Stage2Places
      BY Held, QueuePlaces
    <3> HIDE DEF e
    <3>4. x \in ThreadRecords
      BY <3>1, <3>2, <3>3, PopRecord
    <3>5. x.pc = Stage2!Writes(q) /\ x.left = n
      BY <3>1, <3>2, <3>3 DEF ThreadRecords
    <3>6. x.at = write_index[w] /\ x.event = e
      BY <3>1, <3>2, <3>3 DEF ThreadRecords
    <3> QED BY <3>4, <3>5, <3>6
  <2> HIDE DEF x
  <2>2. /\ worker' \in [Crew -> ThreadRecords] /\ worker'[w] = x
        /\ \A v \in Crew : v # w => worker'[v] = worker[v]
    BY <1>1, <1>6, <2>1, Held, UpdatedAt
  <2> QED BY <2>1, <2>2, <1>1, <1>3, <1>4, <1>6 DEF Only, Becomes
<1> QED BY <1>5, <1>6

-----------------------------------------------------------------------------
(* Steps that leave a part of the invariant's variables alone.             *)
LEMMA LockInvFrame == LockInv /\ UNCHANGED <<worker, lock, shared>> => LockInv'
BY DEF LockInv, MovesFrom

LEMMA SharedInvFrame == SharedInv /\ UNCHANGED <<shared, pushed, urgent>> =>
    SharedInv'
BY DEF SharedInv, Belongs

LEMMA OrderInvFrame ==
  OrderInv /\ UNCHANGED <<stage2_handled, worker, slots, read_index, write_index,
                          batch_size, urgent>> => OrderInv'
BY DEF OrderInv, Taken, InHands, Coming, Writing, Ring, R, Stage2!RingSize

LEMMA PartsFrame ==
  UNCHANGED <<shared, slots, read_index, write_index, batch_size, worker,
    stage2_handled,
              lost>> => UNCHANGED Stage2!Parts
<1> SUFFICES ASSUME UNCHANGED <<shared, slots, read_index, write_index,
                      batch_size, worker,
                                stage2_handled, lost>>
             PROVE  UNCHANGED Stage2!Parts
  OBVIOUS
<1>1. ASSUME NEW w \in Crew
      PROVE  /\ Stage2!Local(w)' = Stage2!Local(w)
             /\ Stage2!InHand(w)' = Stage2!InHand(w)
             /\ Stage2!Range(stage2_handled[w])' = Stage2!Range(stage2_handled[w])
  BY DEF Stage2!Local, Stage2!Size, Stage2!RingSize, Stage2!InHand
<1> QED BY <1>1 DEF Stage2!Parts, Crew

LEMMA PlacesInvFrame ==
  PlacesInv /\ UNCHANGED <<shared, slots, read_index, write_index, batch_size, worker,
                           stage2_handled, lost, pushed>> => PlacesInv'
BY PartsFrame DEF PlacesInv

LEMMA PartsSame ==
  ASSUME UNCHANGED <<shared, lost>>,
         \A w \in Crew : /\ Stage2!Local(w)' = Stage2!Local(w)
                         /\ Stage2!InHand(w)' = Stage2!InHand(w)
                         /\ stage2_handled'[w] = stage2_handled[w]
  PROVE  UNCHANGED Stage2!Parts
<1>1. \A w \in Crew :
        Stage2!Range(stage2_handled[w])' = Stage2!Range(stage2_handled[w])
  BY DEF Stage2!Range
<1> QED BY <1>1 DEF Stage2!Parts, Crew

(* A thread's own events are those of its ring, before and after a step.   *)
LEMMA LocalIsRing ==
  ASSUME Stage2Types, Stage2Types', NEW w \in Crew
  PROVE  /\ Stage2!Local(w) = Elements(Ring(w)) \ {Quit2}
         /\ Stage2!Local(w)' = Elements(Ring(w)') \ {Quit2}
<1>1. /\ R \in Sizes /\ read_index[w] \in 0 .. R - 1 /\ write_index[w] \in 0 .. R - 1
  BY Held
<1>2. /\ R' \in Sizes /\ read_index'[w] \in 0 .. R' - 1
      /\ write_index'[w] \in 0 .. R' - 1
  <2>1. /\ batch_size' \in BatchSizes
        /\ read_index' \in [Crew -> 0 .. R' - 1]
        /\ write_index' \in [Crew -> 0 .. R' - 1]
    BY DEF Stage2Types
  <2>2. R' \in Sizes
    BY <2>1, SizeOfBatch DEF R, Stage2!RingSize
  <2> QED BY <2>1, <2>2
<1>3. Stage2!Local(w) = { slots[w][(read_index[w] + k) % R] :
                            k \in 0 .. ((write_index[w] + R - read_index[w]) % R) - 1 } \ {Quit2}
  BY DEF Stage2!Local, Stage2!Size, R, Quit2
<1>4. Stage2!Local(w)' = { slots'[w][(read_index'[w] + k) % R'] :
                            k \in 0 .. ((write_index'[w] + R' - read_index'[w]) % R') - 1 } \ {Quit2}
  BY DEF Stage2!Local, Stage2!Size, R, Quit2
<1>5. { slots[w][(read_index[w] + k) % R] :
          k \in 0 .. ((write_index[w] + R - read_index[w]) % R) - 1 } = Elements(Ring(w))
  <2>1. { slots[w][(read_index[w] + k) % R] :
            k \in 0 .. ((write_index[w] + R - read_index[w]) % R) - 1 }
          = Elements(Between(R, slots[w], read_index[w], write_index[w]))
    BY <1>1, BetweenSet
  <2> QED BY <2>1 DEF Ring
<1>6. { slots'[w][(read_index'[w] + k) % R'] :
          k \in 0 .. ((write_index'[w] + R' - read_index'[w]) % R') - 1 } = Elements(Ring(w)')
  <2>1. { slots'[w][(read_index'[w] + k) % R'] :
            k \in 0 .. ((write_index'[w] + R' - read_index'[w]) % R') - 1 }
          = Elements(Between(R', slots'[w], read_index'[w], write_index'[w]))
    BY <1>2, BetweenSet
  <2> QED BY <2>1 DEF Ring
<1> QED BY <1>3, <1>4, <1>5, <1>6

LEMMA LocalIsRingNow ==
  ASSUME Stage2Types, NEW w \in Crew
  PROVE  Stage2!Local(w) = Elements(Ring(w)) \ {Quit2}
<1>1. /\ R \in Sizes /\ read_index[w] \in 0 .. R - 1 /\ write_index[w] \in 0 .. R - 1
  BY Held
<1>2. Stage2!Local(w) = { slots[w][(read_index[w] + k) % R] :
                            k \in 0 .. ((write_index[w] + R - read_index[w]) % R) - 1 } \ {Quit2}
  BY DEF Stage2!Local, Stage2!Size, R, Quit2
<1>3. { slots[w][(read_index[w] + k) % R] :
          k \in 0 .. ((write_index[w] + R - read_index[w]) % R) - 1 }
        = Elements(Between(R, slots[w], read_index[w], write_index[w]))
  BY <1>1, BetweenSet
<1> QED BY <1>2, <1>3 DEF Ring

LEMMA ElementsSeq ==
  ASSUME NEW S, NEW s \in Seq(S), NEW e \in S, NEW x
  PROVE  /\ Elements(s) \subseteq S
         /\ x \in Elements(s \o << e >>) <=> x \in Elements(s) \/ x = e
         /\ x \in Elements(<< e >> \o s) <=> x \in Elements(s) \/ x = e
<1>1. /\ << e >> \in Seq(S) /\ Len(<< e >>) = 1 /\ << e >>[1] = e /\ Len(s) \in Nat
      /\ DOMAIN s = 1 .. Len(s)
  OBVIOUS
<1>2. /\ s \o << e >> \in Seq(S) /\ DOMAIN (s \o << e >>) = 1 .. Len(s) + 1
      /\ \A i \in 1 .. Len(s) : (s \o << e >>)[i] = s[i]
      /\ (s \o << e >>)[Len(s) + 1] = e
  BY <1>1
<1>3. /\ << e >> \o s \in Seq(S) /\ DOMAIN (<< e >> \o s) = 1 .. Len(s) + 1
      /\ (<< e >> \o s)[1] = e
      /\ \A i \in 2 .. Len(s) + 1 : (<< e >> \o s)[i] = s[i - 1]
  BY <1>1
<1>4. Elements(s) \subseteq S
  BY <1>1, ElementOfSeq DEF Elements
<1> DEFINE t == s \o << e >>
           u == << e >> \o s
<1> HIDE DEF t, u
<1>5. x \in Elements(t) <=> x \in Elements(s) \/ x = e
  <2>1. ASSUME x \in Elements(t)
        PROVE  x \in Elements(s) \/ x = e
    <3>1. PICK i \in 1 .. Len(s) + 1 : x = t[i]
      BY <2>1, <1>2 DEF Elements, t
    <3>2. CASE i = Len(s) + 1
      BY <3>1, <3>2, <1>2 DEF t
    <3>3. CASE i \in 1 .. Len(s)
      BY <3>1, <3>3, <1>1, <1>2 DEF t, Elements
    <3> QED BY <3>1, <3>2, <3>3, <1>1
  <2>2. Len(s) + 1 \in 1 .. Len(s) + 1 /\ \A i \in 1 .. Len(s) : i \in 1 .. Len(s) + 1
    BY <1>1
  <2>3. x \in Elements(s) \/ x = e => x \in Elements(t)
    BY <2>2, <1>1, <1>2 DEF Elements, t
  <2> QED BY <2>1, <2>3
<1>6. x \in Elements(u) <=> x \in Elements(s) \/ x = e
  <2>1. ASSUME x \in Elements(u)
        PROVE  x \in Elements(s) \/ x = e
    <3>1. PICK i \in 1 .. Len(s) + 1 : x = u[i]
      BY <2>1, <1>3 DEF Elements, u
    <3>2. CASE i = 1
      BY <3>1, <3>2, <1>3 DEF u
    <3>3. CASE i \in 2 .. Len(s) + 1
      <4>1. i - 1 \in 1 .. Len(s)
        BY <3>3, <1>1
      <4> QED BY <3>1, <3>3, <4>1, <1>1, <1>3 DEF u, Elements
    <3> QED BY <3>1, <3>2, <3>3, <1>1
  <2>2. /\ 1 \in 1 .. Len(s) + 1
        /\ \A i \in 1 .. Len(s) : /\ i + 1 \in 2 .. Len(s) + 1
                                  /\ i + 1 \in 1 .. Len(s) + 1 /\ i + 1 - 1 = i
    BY <1>1
  <2>3. ASSUME x \in Elements(s)
        PROVE  x \in Elements(u)
    <3>1. PICK i \in 1 .. Len(s) : x = s[i]
      BY <2>3, <1>1 DEF Elements
    <3>2. u[i + 1] = s[i] /\ i + 1 \in 1 .. Len(s) + 1
      BY <2>2, <1>3 DEF u
    <3> QED BY <3>1, <3>2, <1>3 DEF Elements, u
  <2>4. x = e => x \in Elements(u)
    BY <2>2, <1>3 DEF Elements, u
  <2> QED BY <2>1, <2>3, <2>4
<1> QED BY <1>4, <1>5, <1>6 DEF t, u

(* The events a thread has taken are real, or quit events.                 *)
Live == 1 .. pushed \cup {Quit2}

LEMMA LiveElements ==
  ASSUME NEW s \in Seq(Live), NEW e \in Live
  PROVE  /\ \A x : x \in Elements(s \o << e >>) <=> x \in Elements(s) \/ x = e
         /\ \A x : x \in Elements(<< e >> \o s) <=> x \in Elements(s) \/ x = e
<1> DEFINE S == Live
<1>1. s \in Seq(S) /\ e \in S
  OBVIOUS
<1> HIDE DEF S
<1>2. ASSUME NEW x
      PROVE  /\ x \in Elements(s \o << e >>) <=> x \in Elements(s) \/ x = e
             /\ x \in Elements(<< e >> \o s) <=> x \in Elements(s) \/ x = e
  BY <1>1, ElementsSeq, ZenonT(60)
<1> QED BY <1>2

LEMMA TakenSeq ==
  ASSUME Stage2Types, RingInv, NEW w \in Crew
  PROVE  /\ stage2_handled[w] \in Seq(Live) /\ InHands(w) \in Seq(Live)
         /\ stage2_handled[w] \o InHands(w) \in Seq(Live)
         /\ Ring(w) \in Seq(Live) /\ Coming(w) \in Seq(Live)
         /\ (stage2_handled[w] \o InHands(w)) \o Ring(w) \in Seq(Live)
         /\ Taken(w) \in Seq(Live) /\ Live \subseteq Int
<1>1. stage2_handled[w] \in Seq(Live)
  <2>1. stage2_handled[w] \in Seq(1 .. pushed) /\ 1 .. pushed \subseteq Live
    BY DEF RingInv, Live
  <2> QED BY <2>1, SeqMonotonic
<1>2. worker[w].pc \in {"handle", "ended"} => worker[w].event \in Live
  BY DEF RingInv, Live
<1>3. InHands(w) \in Seq(Live)
  BY <1>2, EmptySeq DEF InHands
<1>4. Ring(w) \in Seq(Live)
  BY DEF RingInv, Live
<1>5. Coming(w) \in Seq(Live)
  <2>1. Writing(w) => worker[w].event \in Live
    BY DEF RingInv, Live
  <2> QED BY <2>1, EmptySeq DEF Coming
<1>6. stage2_handled[w] \o InHands(w) \in Seq(Live)
  BY <1>1, <1>3, ConcatProperties
<1>7. (stage2_handled[w] \o InHands(w)) \o Ring(w) \in Seq(Live)
  BY <1>4, <1>6, ConcatProperties
<1>8. Taken(w) \in Seq(Live)
  BY <1>5, <1>7, ConcatProperties DEF Taken
<1>9. Live \subseteq Int
  BY StagesAssumption DEF Live, Quit2, Stage2!QuitEvent, Stage2!Stage2Assumption
<1> QED BY <1>1, <1>3, <1>4, <1>5, <1>6, <1>7, <1>8, <1>9

LEMMA RingPushed ==
  ASSUME Stage2Types, batch_size' = batch_size, NEW w \in Crew, NEW e \in Marks,
         ~Stage2!Full(w), read_index'[w] = read_index[w],
         write_index'[w] = Stage2!After(write_index[w]),
         slots'[w] = [slots[w] EXCEPT ![write_index[w]] = e]
  PROVE  Ring(w)' = Put(Ring(w), e)
<1>0. \E r \in Sizes : \E i, j \in 0 .. r - 1 : \E s \in [0 .. r - 1 -> Marks] :
        r = R /\ i = read_index[w] /\ j = write_index[w] /\ s = slots[w]
  <2>1. /\ R \in Sizes /\ read_index[w] \in 0 .. R - 1
        /\ write_index[w] \in 0 .. R - 1
        /\ slots[w] \in [0 .. R - 1 -> Marks]
    BY Held
  <2> QED BY <2>1, Zenon
<1> PICK r \in Sizes : \E i, j \in 0 .. r - 1 : \E s \in [0 .. r - 1 -> Marks] :
      r = R /\ i = read_index[w] /\ j = write_index[w] /\ s = slots[w]
  BY <1>0, Zenon
<1> PICK i \in 0 .. r - 1, j \in 0 .. r - 1, s \in [0 .. r - 1 -> Marks] :
      r = R /\ i = read_index[w] /\ j = write_index[w] /\ s = slots[w]
  BY Zenon
<1>1. (j + 1) % r = Wraps(r, j + 1)
  BY Next2
<1>2. Wraps(r, j + 1) # i /\ write_index'[w] = Wraps(r, j + 1)
  BY <1>1 DEF Stage2!Full, Stage2!After, R
<1> DEFINE t == [s EXCEPT ![j] = e]
<1>3. t \in [0 .. r - 1 -> Marks] /\ t[j] = e /\ \A k \in 0 .. r - 1 : k # j => t[k] = s[k]
  OBVIOUS
<1>4. slots'[w] = t
  OBVIOUS
<1> HIDE DEF t
<1>5. Between(r, t, i, Wraps(r, j + 1)) = Put(Between(r, s, i, j), e)
  <2>1. Pushed(r, s, j, e, t)
    BY <1>3 DEF Pushed
  <2> QED BY <2>1, <1>2, PushRing, SMTT(60)
<1>6. R' = r
  BY DEF R, Stage2!RingSize
<1>7. Ring(w)' = Between(r, t, i, Wraps(r, j + 1)) /\ Ring(w) = Between(r, s, i, j)
  BY <1>2, <1>4, <1>6 DEF Ring
<1> QED BY <1>5, <1>7

LEMMA RingPopped ==
  ASSUME Stage2Types, batch_size' = batch_size, NEW w \in Crew, ~Stage2!Empty(w),
         read_index'[w] = Stage2!After(read_index[w]),
           write_index'[w] = write_index[w],
         slots'[w] = slots[w]
  PROVE  Ring(w) = Lead(slots[w][read_index[w]], Ring(w)')
<1>0. \E r \in Sizes : \E i, j \in 0 .. r - 1 : \E s \in [0 .. r - 1 -> Marks] :
        r = R /\ i = read_index[w] /\ j = write_index[w] /\ s = slots[w]
  <2>1. /\ R \in Sizes /\ read_index[w] \in 0 .. R - 1
        /\ write_index[w] \in 0 .. R - 1
        /\ slots[w] \in [0 .. R - 1 -> Marks]
    BY Held
  <2> QED BY <2>1, Zenon
<1> PICK r \in Sizes : \E i, j \in 0 .. r - 1 : \E s \in [0 .. r - 1 -> Marks] :
      r = R /\ i = read_index[w] /\ j = write_index[w] /\ s = slots[w]
  BY <1>0, Zenon
<1> PICK i \in 0 .. r - 1, j \in 0 .. r - 1, s \in [0 .. r - 1 -> Marks] :
      r = R /\ i = read_index[w] /\ j = write_index[w] /\ s = slots[w]
  BY Zenon
<1>1. (i + 1) % r = Wraps(r, i + 1)
  BY Next2
<1>2. i # j /\ read_index'[w] = Wraps(r, i + 1)
  BY <1>1 DEF Stage2!Empty, Stage2!After, R
<1>5. Between(r, s, i, j) = Lead(s[i], Between(r, s, Wraps(r, i + 1), j))
  BY <1>2, PopRing
<1>6. R' = r
  BY DEF R, Stage2!RingSize
<1>7. Ring(w)' = Between(r, s, Wraps(r, i + 1), j) /\ Ring(w) = Between(r, s, i, j)
  BY <1>2, <1>6 DEF Ring
<1> QED BY <1>5, <1>7

-----------------------------------------------------------------------------
(* The parts of the stage before and after a step.                         *)
Last == 3 * Threads + 3
LocalAt(w) == 2 + w
HandAt(w) == 2 + Threads + w
DoneAt(w) == 2 + 2 * Threads + w

LEMMA PartsSorted ==
  /\ Sorted(Stage2!Parts, Threads,
            Stage2!Range(shared["high"]), Stage2!Range(shared["low"]),
            [w \in Crew |-> Stage2!Local(w)], [w \in Crew |-> Stage2!InHand(w)],
            [w \in Crew |-> Stage2!Range(stage2_handled[w])], lost)
  /\ Sorted(Stage2!Parts', Threads,
            Stage2!Range(shared'["high"]), Stage2!Range(shared'["low"]),
            [w \in Crew |-> Stage2!Local(w)'], [w \in Crew |-> Stage2!InHand(w)'],
            [w \in Crew |-> Stage2!Range(stage2_handled'[w])], lost')
<1>1. Threads \in Nat
  BY StagesAssumption DEF Stage2!Stage2Assumption
<1> DEFINE f == [w \in Crew |-> Stage2!Local(w)]
           g == [w \in Crew |-> Stage2!InHand(w)]
           h == [w \in Crew |-> Stage2!Range(stage2_handled[w])]
           f2 == [w \in Crew |-> Stage2!Local(w)']
           g2 == [w \in Crew |-> Stage2!InHand(w)']
           h2 == [w \in Crew |-> Stage2!Range(stage2_handled'[w])]
<1>2. /\ DOMAIN f = 1 .. Threads /\ DOMAIN g = 1 .. Threads /\ DOMAIN h = 1 .. Threads
      /\ DOMAIN f2 = 1 .. Threads /\ DOMAIN g2 = 1 .. Threads
      /\ DOMAIN h2 = 1 .. Threads
  BY DEF Crew, Stage2!Workers
<1>3. Stage2!Parts = Joint(Threads, Stage2!Range(shared["high"]),
                           Stage2!Range(shared["low"]), f, g, h, lost)
  BY DEF Stage2!Parts, Joint, Crew, Stage2!Workers
<1>4. Stage2!Parts' = Joint(Threads, Stage2!Range(shared'["high"]),
                            Stage2!Range(shared'["low"]), f2, g2, h2, lost')
  BY DEF Stage2!Parts, Joint, Crew, Stage2!Workers, Stage2!Range
<1> HIDE DEF f, g, h, f2, g2, h2
<1>5. Sorted(Stage2!Parts, Threads, Stage2!Range(shared["high"]),
             Stage2!Range(shared["low"]), f, g, h, lost)
  BY <1>1, <1>2, <1>3, PartsAreSorted
<1>6. Sorted(Stage2!Parts', Threads, Stage2!Range(shared'["high"]),
             Stage2!Range(shared'["low"]), f2, g2, h2, lost')
  BY <1>1, <1>2, <1>4, PartsAreSorted
<1> QED BY <1>5, <1>6 DEF f, g, h, f2, g2, h2

(* The parts other than those at a and b are the same.                     *)
SamePartsBut(a, b) ==
  /\ 1 \notin {a, b} => shared'["high"] = shared["high"]
  /\ 2 \notin {a, b} => shared'["low"] = shared["low"]
  /\ Last \notin {a, b} => lost' = lost
  /\ \A w \in Crew :
       /\ LocalAt(w) \notin {a, b} => Stage2!Local(w)' = Stage2!Local(w)
       /\ HandAt(w) \notin {a, b} => Stage2!InHand(w)' = Stage2!InHand(w)
       /\ DoneAt(w) \notin {a, b} => stage2_handled'[w] = stage2_handled[w]

LEMMA PartsAt ==
  /\ DOMAIN Stage2!Parts = 1 .. Last /\ DOMAIN Stage2!Parts' = 1 .. Last
  /\ Stage2!Parts[1] = Stage2!Range(shared["high"])
  /\ Stage2!Parts[2] = Stage2!Range(shared["low"])
  /\ Stage2!Parts'[1] = Stage2!Range(shared'["high"])
  /\ Stage2!Parts'[2] = Stage2!Range(shared'["low"])
  /\ Stage2!Parts[Last] = lost /\ Stage2!Parts'[Last] = lost'
  /\ \A w \in Crew :
       /\ Stage2!Parts[LocalAt(w)] = Stage2!Local(w)
       /\ Stage2!Parts'[LocalAt(w)] = Stage2!Local(w)'
       /\ Stage2!Parts[HandAt(w)] = Stage2!InHand(w)
       /\ Stage2!Parts'[HandAt(w)] = Stage2!InHand(w)'
       /\ Stage2!Parts[DoneAt(w)] = Stage2!Range(stage2_handled[w])
       /\ Stage2!Parts'[DoneAt(w)] = Stage2!Range(stage2_handled'[w])
<1>1. Crew = 1 .. Threads
  BY DEF Crew, Stage2!Workers
<1> QED BY <1>1, PartsSorted DEF Sorted, Last, LocalAt, HandAt, DoneAt, Stage2!Range

LEMMA PartAnywhere ==
  ASSUME NEW i \in 1 .. Last
  PROVE  \/ i \in {1, 2, Last}
         \/ \E w \in Crew : i = LocalAt(w) \/ i = HandAt(w) \/ i = DoneAt(w)
BY EveryPart, StagesAssumption
   DEF Last, LocalAt, HandAt, DoneAt, Crew, Stage2!Workers, Stage2!Stage2Assumption

LEMMA PlacesHere ==
  ASSUME NEW w \in Crew
  PROVE  /\ LocalAt(w) \in 1 .. Last /\ HandAt(w) \in 1 .. Last
         /\ DoneAt(w) \in 1 .. Last
         /\ 1 \in 1 .. Last /\ 2 \in 1 .. Last /\ Last \in 1 .. Last
         /\ 1 # 2 /\ 1 # Last /\ 2 # Last /\ LocalAt(w) \notin {1, 2, Last}
         /\ HandAt(w) \notin {1, 2, Last} /\ DoneAt(w) \notin {1, 2, Last}
         /\ \A v \in Crew : /\ LocalAt(v) = LocalAt(w) => v = w
                            /\ HandAt(v) = HandAt(w) => v = w
                            /\ DoneAt(v) = DoneAt(w) => v = w
                            /\ LocalAt(v) # HandAt(w) /\ LocalAt(v) # DoneAt(w)
                            /\ HandAt(v) # DoneAt(w)
                            /\ HandAt(v) # LocalAt(w) /\ DoneAt(v) # LocalAt(w)
                            /\ DoneAt(v) # HandAt(w)
BY StagesAssumption
   DEF Last, LocalAt, HandAt, DoneAt, Crew, Stage2!Workers, Stage2!Stage2Assumption

LEMMA SameParts ==
  ASSUME NEW a, NEW b, SamePartsBut(a, b), NEW i \in 1 .. Last, i # a, i # b
  PROVE  Stage2!Parts'[i] = Stage2!Parts[i]
<1>1. CASE i = 1
  BY <1>1, PartsAt DEF SamePartsBut
<1>2. CASE i = 2
  BY <1>2, PartsAt DEF SamePartsBut
<1>3. CASE i = Last
  BY <1>3, PartsAt DEF SamePartsBut
<1>4. ASSUME NEW w \in Crew, i = LocalAt(w)
      PROVE  Stage2!Parts'[i] = Stage2!Parts[i]
  BY <1>4, PartsAt DEF SamePartsBut
<1>5. ASSUME NEW w \in Crew, i = HandAt(w)
      PROVE  Stage2!Parts'[i] = Stage2!Parts[i]
  BY <1>5, PartsAt DEF SamePartsBut
<1>6. ASSUME NEW w \in Crew, i = DoneAt(w)
      PROVE  Stage2!Parts'[i] = Stage2!Parts[i]
  BY <1>6, PartsAt DEF SamePartsBut
<1> QED BY <1>1, <1>2, <1>3, <1>4, <1>5, <1>6, PartAnywhere

LEMMA PlacesInvIs ==
  /\ PlacesInv <=> /\ Covers(Stage2!Parts, 1 .. Last, 1 .. pushed)
                   /\ Apart(Stage2!Parts, 1 .. Last)
  /\ PlacesInv' <=> /\ Covers(Stage2!Parts', 1 .. Last, 1 .. pushed')
                    /\ Apart(Stage2!Parts', 1 .. Last)
BY PartsAt DEF PlacesInv, Covers, Apart, Stage2!Range

LEMMA OneMoves ==
  ASSUME PlacesInv, pushed' = pushed, NEW a \in 1 .. Last, NEW b \in 1 .. Last, a # b,
         NEW e, e \in Stage2!Parts[a], SamePartsBut(a, b),
         \A x : x \in Stage2!Parts'[a] <=> x \in Stage2!Parts[a] /\ x # e,
         \A x : x \in Stage2!Parts'[b] <=> x \in Stage2!Parts[b] \/ x = e
  PROVE  PlacesInv'
<1>1. \A i \in 1 .. Last : i # a /\ i # b => Stage2!Parts'[i] = Stage2!Parts[i]
  BY SameParts
<1>2. Covers(Stage2!Parts, 1 .. Last, 1 .. pushed) /\ Apart(Stage2!Parts, 1 .. Last)
  BY PlacesInvIs
<1>3. Covers(Stage2!Parts', 1 .. Last, 1 .. pushed) /\ Apart(Stage2!Parts', 1 .. Last)
  BY <1>1, <1>2, EventMoves
<1> QED BY <1>3, PlacesInvIs

LEMMA NoneMoves ==
  ASSUME PlacesInv, pushed' = pushed, SamePartsBut(0, 0)
  PROVE  PlacesInv'
<1>1. \A i \in 1 .. Last : Stage2!Parts'[i] = Stage2!Parts[i]
  BY SameParts
<1> QED BY <1>1, PlacesInvIs DEF Covers, Apart

LEMMA OneArrives ==
  ASSUME PlacesInv, pushed \in Nat, pushed' = pushed + 1, NEW b \in 1 .. Last,
         SamePartsBut(b, b),
         \A x : x \in Stage2!Parts'[b] <=> x \in Stage2!Parts[b] \/ x = pushed + 1
  PROVE  PlacesInv'
<1>1. \A i \in 1 .. Last : i # b => Stage2!Parts'[i] = Stage2!Parts[i]
  BY SameParts
<1>2. Covers(Stage2!Parts, 1 .. Last, 1 .. pushed) /\ Apart(Stage2!Parts, 1 .. Last)
  BY PlacesInvIs
<1>3. /\ pushed + 1 \notin 1 .. pushed
      /\ 1 .. pushed + 1 = (1 .. pushed) \cup {pushed + 1}
  OBVIOUS
<1>4. Covers(Stage2!Parts', 1 .. Last, (1 .. pushed) \cup {pushed + 1})
      /\ Apart(Stage2!Parts', 1 .. Last)
  BY <1>1, <1>2, <1>3, EventArrives
<1> QED BY <1>3, <1>4, PlacesInvIs

LEMMA AscendsLast ==
  ASSUME NEW S, NEW a \in Seq(S), NEW b \in Seq(S), NEW u, Ascends(a \o b, u)
  PROVE  Ascends(a, u) /\ Ascends(b, u)
<1> DEFINE t == a \o b
           n == Len(a)
           m == Len(b)
<1>1. /\ n \in Nat /\ m \in Nat /\ Len(t) = n + m
      /\ \A i \in 1 .. n + m : t[i] = IF i <= n THEN a[i] ELSE b[i - n]
  BY ConcatProperties, LenProperties
<1> HIDE DEF t
<1>2. \A i, j \in 1 .. n + m :
        i < j /\ t[i] # Quit2 /\ t[j] # Quit2 /\ (t[i] \in u <=> t[j] \in u) =>
          t[i] < t[j]
  BY <1>1 DEF Ascends, t
<1>3. \A i \in 1 .. n : i \in 1 .. n + m /\ t[i] = a[i]
  BY <1>1
<1>4. ASSUME NEW i \in 1 .. m
      PROVE  n + i \in 1 .. n + m /\ t[n + i] = b[i]
  <2>1. n + i \in 1 .. n + m /\ ~(n + i <= n) /\ (n + i) - n = i
    BY <1>1
  <2> HIDE DEF n, m
  <2>2. t[n + i] = b[(n + i) - n]
    BY <1>1, <2>1
  <2> QED BY <2>1, <2>2
<1>5. Ascends(a, u)
  BY <1>2, <1>3 DEF Ascends
<1>6. ASSUME NEW i \in 1 .. m, NEW j \in 1 .. m, i < j, b[i] # Quit2, b[j] # Quit2,
             b[i] \in u <=> b[j] \in u
      PROVE  b[i] < b[j]
  <2>1. n + i < n + j
    BY <1>1, <1>6
  <2> QED BY <2>1, <1>2, <1>4, <1>6
<1>7. Ascends(b, u)
  BY <1>6 DEF Ascends
<1> QED BY <1>5, <1>7

(* No event is twice in a sequence that ascends.                           *)
LEMMA LeadOnce ==
  ASSUME NEW S, NEW s \in Seq(S), NEW e \in S, NEW u, Ascends(Lead(e, s), u),
         e # Quit2, e \in Int
  PROVE  e \notin Elements(s)
<1> SUFFICES ASSUME NEW i \in 1 .. Len(s), s[i] = e
             PROVE  FALSE
  BY LenProperties DEF Elements
<1> DEFINE t == Lead(e, s)
<1>1. << e >> \in Seq(S) /\ Len(<< e >>) = 1 /\ << e >>[1] = e /\ Len(s) \in Nat
  BY LenProperties
<1>2. Len(t) = Len(s) + 1 /\ t[1] = e /\ t[i + 1] = s[i]
  BY <1>1 DEF Lead
<1>3. 1 \in 1 .. Len(t) /\ i + 1 \in 1 .. Len(t) /\ 1 < i + 1
  BY <1>1, <1>2
<1> HIDE DEF t
<1>4. t[1] < t[i + 1]
  BY <1>2, <1>3 DEF Ascends, t
<1> QED BY <1>2, <1>4

LEMMA LeadSeq ==
  ASSUME NEW S, NEW T, NEW s \in Seq(T), NEW e, Lead(e, s) \in Seq(S), e \in T
  PROVE  e \in S /\ s \in Seq(S)
<1>1. << e >> \in Seq(T) /\ Len(<< e >>) = 1 /\ << e >>[1] = e /\ Len(s) \in Nat
  BY LenProperties
<1>2. /\ Len(Lead(e, s)) = Len(s) + 1 /\ Lead(e, s)[1] = e
      /\ \A i \in 1 .. Len(s) : Lead(e, s)[i + 1] = s[i]
  BY <1>1 DEF Lead
<1>3. \A i \in 1 .. Len(s) + 1 : Lead(e, s)[i] \in S
  BY <1>2, ElementOfSeq
<1>4. 1 \in 1 .. Len(s) + 1 /\ \A i \in 1 .. Len(s) : i + 1 \in 1 .. Len(s) + 1
  BY <1>1
<1>5. e \in S /\ \A i \in 1 .. Len(s) : s[i] \in S
  BY <1>2, <1>3, <1>4
<1> QED BY <1>1, <1>5

LEMMA ElementsJoin ==
  ASSUME NEW S, NEW a \in Seq(S), NEW b \in Seq(S), NEW i \in 1 .. Len(a \o b)
  PROVE  (a \o b)[i] \in Elements(a) \/ (a \o b)[i] \in Elements(b)
<1>1. /\ Len(a) \in Nat /\ Len(b) \in Nat /\ Len(a \o b) = Len(a) + Len(b)
      /\ DOMAIN a = 1 .. Len(a) /\ DOMAIN b = 1 .. Len(b)
  BY ConcatProperties, LenProperties
<1>2. CASE i <= Len(a)
  <2>1. i \in 1 .. Len(a) /\ (a \o b)[i] = a[i]
    BY <1>1, <1>2
  <2> QED BY <2>1, <1>1 DEF Elements
<1>3. CASE i > Len(a)
  <2>1. i - Len(a) \in 1 .. Len(b) /\ (a \o b)[i] = b[i - Len(a)]
    BY <1>1, <1>3
  <2> QED BY <2>1, <1>1 DEF Elements
<1> QED BY <1>1, <1>2, <1>3

(* Every event a thread has taken is in one of its parts.                  *)
LEMMA TakenParts ==
  ASSUME Stage2Types, RingInv, NEW w \in Crew, NEW i \in 1 .. Len(Taken(w)),
         Taken(w)[i] # Quit2
  PROVE  /\ Taken(w)[i] \in 1 .. pushed
         /\ \/ Taken(w)[i] \in Elements(stage2_handled[w])
            \/ Taken(w)[i] \in Elements(Ring(w))
            \/ Taken(w)[i] \in Stage2!InHand(w)
<1> DEFINE a == stage2_handled[w]
           b == InHands(w)
           c == Ring(w)
           d == Coming(w)
           x == Taken(w)[i]
<1>1. /\ a \in Seq(Live) /\ b \in Seq(Live) /\ a \o b \in Seq(Live) /\ c \in Seq(Live)
      /\ d \in Seq(Live) /\ (a \o b) \o c \in Seq(Live) /\ Taken(w) \in Seq(Live)
  BY TakenSeq
<1>2. x \in Live
  BY <1>1, ElementOfSeq
<1>3. x \in 1 .. pushed
  BY <1>2 DEF Live
<1>4. x \in Elements((a \o b) \o c) \/ x \in Elements(d)
  BY <1>1, ElementsJoin DEF Taken
<1>5. x \in Elements((a \o b) \o c) => x \in Elements(a \o b) \/ x \in Elements(c)
  BY <1>1, ElementsJoin, LenProperties, SMTT(60) DEF Elements
<1>6. x \in Elements(a \o b) => x \in Elements(a) \/ x \in Elements(b)
  BY <1>1, ElementsJoin, LenProperties, SMTT(60) DEF Elements
<1>7. 0 \notin 1 .. pushed
  OBVIOUS
<1>8. x \in Elements(b) => x \in Stage2!InHand(w)
  <2> SUFFICES ASSUME x \in Elements(b)
               PROVE  x \in Stage2!InHand(w)
    OBVIOUS
  <2>1. worker[w].pc \in {"handle", "ended"} /\ x = worker[w].event
    BY DEF Elements, InHands
  <2>2. worker[w].pc # "ended"
    BY <2>1 DEF RingInv
  <2> QED BY <2>1, <2>2, <1>3, <1>7 DEF Stage2!InHand, Stage2!Nothing, Quit2
<1>9. x \in Elements(d) => x \in Stage2!InHand(w)
  <2> SUFFICES ASSUME x \in Elements(d)
               PROVE  x \in Stage2!InHand(w)
    OBVIOUS
  <2>1. Writing(w) /\ x = worker[w].event
    BY DEF Elements, Coming
  <2> QED BY <2>1, <1>3, <1>7 DEF Stage2!InHand, Stage2!Nothing, Quit2, Writing
<1> QED BY <1>3, <1>4, <1>5, <1>6, <1>8, <1>9

(* They were pushed before all that are left of their priority.            *)
LEMMA TakenBefore ==
  ASSUME Stage2Types, SharedInv, RingInv, PlacesInv, NEW w \in Crew,
         NEW q \in Stage2!Queues, shared[q] # << >>, NEW i \in 1 .. Len(Taken(w)),
         Taken(w)[i] # Quit2, Belongs(Taken(w)[i], q)
  PROVE  Taken(w)[i] < shared[q][1]
<1> DEFINE x == Taken(w)[i]
           p == IF q = "high" THEN 1 ELSE 2
<1>1. /\ x \in 1 .. pushed
      /\ \/ x \in Elements(stage2_handled[w])
         \/ x \in Elements(Ring(w))
         \/ x \in Stage2!InHand(w)
  BY TakenParts
<1>2. Stage2!Local(w) = Elements(Ring(w)) \ {Quit2}
  BY LocalIsRingNow
<1>3. \E k \in {LocalAt(w), HandAt(w), DoneAt(w)} : x \in Stage2!Parts[k]
  BY <1>1, <1>2, PartsAt DEF Elements, Stage2!Range
<1>4. p \in 1 .. Last /\ Stage2!Parts[p] = Stage2!Range(shared[q])
  BY PartsAt, PlacesHere DEF Stage2!Queues
<1>5. x \notin Stage2!Range(shared[q])
  <2>1. PICK k \in {LocalAt(w), HandAt(w), DoneAt(w)} : x \in Stage2!Parts[k]
    BY <1>3
  <2>2. k \in 1 .. Last /\ k # p
    BY PlacesHere
  <2>3. Stage2!Parts[k] \cap Stage2!Parts[p] = {}
    BY <2>2, <1>4, PlacesInvIs DEF Apart
  <2> QED BY <2>1, <2>3, <1>4
<1>6. shared[q] \in Seq(1 .. MaxEvents)
  BY DEF Stage2Types
<1>7. shared[q][1] \in Int /\ DOMAIN shared[q] = 1 .. Len(shared[q])
  <2>1. Len(shared[q]) \in Nat \ {0} /\ DOMAIN shared[q] = 1 .. Len(shared[q])
    BY <1>6, EmptySeq, LenProperties
  <2>2. 1 \in 1 .. Len(shared[q])
    BY <2>1
  <2>3. shared[q][1] \in 1 .. MaxEvents
    BY <1>6, <2>2, ElementOfSeq
  <2> QED BY <2>1, <2>3, StagesAssumption DEF Stage2!Stage2Assumption
<1>8. x >= shared[q][1] => \E j \in 1 .. Len(shared[q]) : shared[q][j] = x
  BY <1>1 DEF SharedInv
<1>9. x \in Int
  BY <1>1
<1> QED BY <1>5, <1>7, <1>8, <1>9 DEF Stage2!Range

-----------------------------------------------------------------------------
(***************************************************************************)
(* The stage threads.  A step of one of them leaves the others as they are.*)
(***************************************************************************)
ThreadRing(w) ==
  /\ Ring(w) \in Seq(1 .. pushed \cup {Quit2})
  /\ stage2_handled[w] \in Seq(1 .. pushed)
  /\ worker[w].pc = "ended" => worker[w].event = Quit2
  /\ worker[w].pc = "handle" =>
       /\ worker[w].event \in 1 .. pushed \cup {Quit2}
       /\ slots[w][worker[w].at] = worker[w].event
       /\ Stopped(w) \/ worker[w].at # write_index[w]
  /\ Writing(w) =>
       /\ worker[w].event \in 1 .. pushed
       /\ worker[w].at = write_index[w] /\ ~Stage2!Full(w)
  /\ worker[w].pc \in {"pop", "high", "low", "move_high", "move_low"} =>
       worker[w].event = 0
CloserRing ==
  closer.pc = "push" => closer.at = write_index[closer.w] /\ ~Stage2!Full(closer.w)

LEMMA RingInvIs ==
  /\ RingInv <=> CloserRing /\ \A w \in Crew : ThreadRing(w)
  /\ RingInv' <=> CloserRing' /\ \A w \in Crew : ThreadRing(w)'
BY DEF RingInv, ThreadRing, CloserRing

Alike(w) ==
  /\ worker'[w] = worker[w] /\ slots'[w] = slots[w]
  /\ read_index'[w] = read_index[w] /\ write_index'[w] = write_index[w]
  /\ stage2_handled'[w] = stage2_handled[w]

LEMMA OtherThreads ==
  ASSUME UNCHANGED <<batch_size, pushed, closer>>, NEW w \in Crew, Alike(w)
  PROVE  /\ Ring(w)' = Ring(w) /\ Taken(w)' = Taken(w)
         /\ Stage2!Local(w)' = Stage2!Local(w) /\ Stage2!InHand(w)' = Stage2!InHand(w)
         /\ ThreadRing(w) => ThreadRing(w)'
         /\ Stage2!Full(w)' = Stage2!Full(w)
<1>1. R' = R
  BY DEF R, Stage2!RingSize
<1>2. Ring(w)' = Ring(w)
  BY <1>1 DEF Alike, Ring
<1>3. /\ InHands(w)' = InHands(w) /\ Coming(w)' = Coming(w)
      /\ Writing(w)' = Writing(w) /\ Stopped(w)' = Stopped(w)
  BY DEF Alike, InHands, Coming, Writing, Stopped
<1>4. Taken(w)' = Taken(w)
  BY <1>2, <1>3 DEF Taken, Alike
<1>5. Stage2!Local(w)' = Stage2!Local(w)
  BY DEF Alike, Stage2!Local, Stage2!Size, Stage2!RingSize
<1>6. Stage2!InHand(w)' = Stage2!InHand(w)
  BY DEF Alike, Stage2!InHand
<1>7. Stage2!Full(w)' = Stage2!Full(w)
  BY DEF Alike, Stage2!Full, Stage2!After, Stage2!RingSize
<1>8. ThreadRing(w) => ThreadRing(w)'
  BY <1>2, <1>3, <1>7 DEF ThreadRing, Alike
<1> QED BY <1>2, <1>4, <1>5, <1>6, <1>7, <1>8

(* What is to be shown of a step of thread w.                              *)
LEMMA OneThread ==
  ASSUME UNCHANGED <<batch_size, pushed, closer, urgent>>, RingInv, OrderInv,
         NEW w \in Crew, \A v \in Crew : v # w => Alike(v),
         closer \in CloserRecords,
         ThreadRing(w)', Ascends(Taken(w)', urgent),
         closer.pc = "push" /\ closer.w = w =>
           write_index'[w] = write_index[w] /\ ~Stage2!Full(w)'
  PROVE  RingInv' /\ OrderInv'
<1>1. \A v \in Crew : v # w =>
        /\ Taken(v)' = Taken(v) /\ (ThreadRing(v) => ThreadRing(v)')
        /\ Stage2!Full(v)' = Stage2!Full(v)
  BY OtherThreads
<1>2. CloserRing'
  <2> SUFFICES ASSUME closer.pc = "push"
               PROVE  closer.at = write_index'[closer.w] /\ ~(Stage2!Full(closer.w))'
    BY DEF CloserRing
  <2> PICK v \in Crew : v = closer.w
    BY DEF CloserRecords
  <2>1. closer.at = write_index[v] /\ ~Stage2!Full(v)
    BY RingInvIs DEF CloserRing
  <2>2. (Stage2!Full(closer.w))' = Stage2!Full(v)'
    BY DEF Stage2!Full, Stage2!After, Stage2!RingSize
  <2>3. CASE v = w
    BY <2>1, <2>2, <2>3
  <2>4. CASE v # w
    BY <2>1, <2>2, <2>4, <1>1 DEF Alike
  <2> QED BY <2>3, <2>4
<1>3. RingInv'
  BY <1>1, <1>2, RingInvIs
<1>4. OrderInv'
  <2> SUFFICES ASSUME NEW v \in Crew
               PROVE  Ascends(Taken(v)', urgent')
    BY DEF OrderInv
  <2>1. Ascends(Taken(v), urgent)
    BY DEF OrderInv
  <2> QED BY <2>1, <1>1
<1> QED BY <1>3, <1>4

(* The quit event of a thread is not one of the stage's events.            *)
LEMMA QuitApart ==
  Stage2Types => /\ Quit2 \in Marks /\ Quit2 \notin 1 .. pushed /\ 0 \in Marks
                 /\ Live \subseteq Marks /\ 0 \notin Live /\ MaxEvents \in Nat
                 /\ pushed \in Nat
                 /\ 0 # Quit2
BY StagesAssumption
   DEF Stage2Types, Quit2, Stage2!QuitEvent, Marks, Live, Stage2!Stage2Assumption

(* A step of a thread that leaves the rings' writers alone.                *)
LEMMA PopLocalKeeps ==
  ASSUME Stage2Inv, NEW w \in Crew, Stage2!PopLocal(w)
  PROVE  Stage2Inv'
<1> DEFINE e == slots[w][read_index[w]]
<1>0. Stage2Types /\ LockInv /\ SharedInv /\ BatchInv
  BY DEF Stage2Inv
<1>1. /\ UNCHANGED <<is_priority, batch_size, shared, lock, pushed, slots,
           write_index,
                     closer, stage2_handled, lost, urgent, excuse>>
      /\ worker[w].pc = "pop" /\ ~Stage2!Empty(w)
      /\ read_index' = [read_index EXCEPT ![w] = Stage2!After(read_index[w])]
  BY DEF Stage2!PopLocal, Stage2!config
<1>2. Only(w) /\ Becomes(w, "handle", worker[w].left, read_index[w], e)
  BY <1>0, PopEffects
<1>3. R' = R
  BY <1>1 DEF R, Stage2!RingSize
<1>4. /\ read_index[w] \in 0 .. R - 1 /\ write_index[w] \in 0 .. R - 1 /\ R \in Sizes
      /\ slots[w] \in [0 .. R - 1 -> Marks] /\ read_index[w] \in 0 .. R - 1 /\ e \in Marks
  BY <1>0, Held
<1>5. /\ read_index' \in [Crew -> 0 .. R - 1]
      /\ read_index'[w] = Stage2!After(read_index[w])
      /\ \A v \in Crew : v # w => read_index'[v] = read_index[v]
  <2>1. Stage2!After(read_index[w]) \in 0 .. R - 1
    BY <1>4, Next2 DEF Stage2!After, R
  <2>2. read_index \in [Crew -> 0 .. R - 1]
    BY <1>0 DEF Stage2Types
  <2> QED BY <1>1, <2>1, <2>2, UpdatedAt
<1> HIDE DEF e
<1>6. Stage2Types'
  <2>1. worker'[w].at < R
    BY <1>2, <1>4 DEF Becomes
  <2>2. \A v \in Crew : worker'[v].at < R
    BY <1>0, <1>2, <2>1 DEF Only, Stage2Types
  <2> QED BY <1>0, <1>1, <1>2, <1>3, <1>5, <2>2 DEF Stage2Types, Only
<1>7. LockInv'
  <2>1. \A q \in Stage2!Queues : ~MovesFrom(w, q)'
    BY <1>2 DEF MovesFrom, Becomes, Stage2!Moves, Stage2!Writes
  <2> QED BY <1>0, <1>1, <1>2, <2>1 DEF LockInv, MovesFrom, Only
<1>8. SharedInv'
  BY <1>0, <1>1, SharedInvFrame
<1>9. BatchInv'
  BY <1>0, <1>1, <1>2, <1>3, <1>5
     DEF BatchInv, Closing2, Stage2!Closing, Only, Becomes
<1> SUFFICES ASSUME NoRace
             PROVE  RingInv' /\ OrderInv' /\ PlacesInv'
  BY <1>1, <1>6, <1>7, <1>8, <1>9 DEF Stage2Inv, NoRace
<1>10. RingInv /\ OrderInv /\ PlacesInv
  BY DEF Stage2Inv
<1>11. \A v \in Crew : v # w => Alike(v)
  BY <1>1, <1>2, <1>5 DEF Alike, Only
<1>12. Ring(w) = Lead(e, Ring(w)')
  <2>1. write_index'[w] = write_index[w] /\ slots'[w] = slots[w]
    BY <1>1
  <2> QED BY <1>0, <1>1, <1>5, <2>1, RingPopped DEF e
<1>13. Ring(w)' \in Seq(Marks) /\ Ring(w) \in Seq(Live)
  <2>1. Ring(w)' \in Seq(Marks)
    <3>1. /\ read_index'[w] \in 0 .. R - 1 /\ write_index'[w] \in 0 .. R - 1
          /\ slots'[w] = slots[w]
      BY <1>1, <1>4, <1>5
    <3>2. Ring(w)' = Between(R, slots[w], read_index'[w], write_index'[w])
      BY <1>3, <3>1 DEF Ring
    <3>3. Between(R, slots[w], read_index'[w], write_index'[w]) \in Seq(Marks)
      BY <3>1, <1>4, BetweenSeq, Zenon
    <3> QED BY <3>2, <3>3
  <2>2. Ring(w) \in Seq(Live)
    BY <1>0, <1>10, TakenSeq
  <2> QED BY <2>1, <2>2
<1>14. e \in Live /\ Ring(w)' \in Seq(Live)
  <2>1. Lead(e, Ring(w)') \in Seq(Live)
    BY <1>12, <1>13
  <2> HIDE DEF e
  <2> QED BY <2>1, <1>13, <1>4, LeadSeq
<1>15. ThreadRing(w)
  BY <1>10, RingInvIs
<1>16. ThreadRing(w)'
  <2>1. slots'[w][worker'[w].at] = worker'[w].event /\ worker'[w].at # write_index'[w]
    BY <1>1, <1>2 DEF Becomes, e, Stage2!Empty
  <2>2. ~Writing(w)'
    BY <1>2 DEF Writing, Becomes
  <2> QED BY <1>1, <1>2, <1>14, <1>15, <2>1, <2>2 DEF ThreadRing, Live, Becomes
<1>17. /\ stage2_handled[w] \in Seq(Live) /\ Taken(w) \in Seq(Live)
       /\ InHands(w) = << >> /\ Coming(w) = << >> /\ InHands(w)' = << e >>
       /\ Coming(w)' = << >>
  <2>1. stage2_handled[w] \in Seq(Live) /\ Taken(w) \in Seq(Live)
    BY <1>0, <1>10, TakenSeq
  <2>2. InHands(w) = << >> /\ Coming(w) = << >>
    BY <1>1 DEF InHands, Coming, Writing
  <2>3. InHands(w)' = << e >> /\ Coming(w)' = << >>
    BY <1>2 DEF InHands, Coming, Writing, Becomes
  <2> QED BY <2>1, <2>2, <2>3
<1>18. Taken(w)' = Taken(w)
  <2>1. Taken(w) = ((stage2_handled[w] \o << >>) \o (<< e >> \o Ring(w)')) \o << >>
    BY <1>12, <1>17 DEF Taken, Lead
  <2>2. Taken(w)' = ((stage2_handled[w] \o << e >>) \o Ring(w)') \o << >>
    BY <1>1, <1>17 DEF Taken
  <2>3. ((stage2_handled[w] \o << >>) \o (<< e >> \o Ring(w)')) \o << >>
          = ((stage2_handled[w] \o << e >>) \o Ring(w)') \o << >>
    <3>1. ASSUME NEW h \in Seq(Live), NEW r \in Seq(Live), NEW x \in Live
          PROVE  ((h \o << >>) \o (<< x >> \o r)) \o << >> = ((h \o << x >>) \o r) \o << >>
      BY TakenByPop
    <3> QED BY <1>14, <1>17, <3>1
  <2> QED BY <2>1, <2>2, <2>3
<1>19. Ascends(Taken(w), urgent)
  BY <1>10 DEF OrderInv
<1>20. RingInv' /\ OrderInv'
  <2>1. closer.pc = "push" /\ closer.w = w =>
          write_index'[w] = write_index[w] /\ ~Stage2!Full(w)'
    <3> SUFFICES ASSUME closer.pc = "push" /\ closer.w = w
                 PROVE  ~Stage2!Full(w)'
      BY <1>1
    <3>1. read_index[w] # write_index[w]
      BY <1>1 DEF Stage2!Empty
    <3>2. (write_index[w] + 1) % R # (read_index[w] + 1) % R
      <4>1. ASSUME NEW r \in Sizes, NEW i \in 0 .. r - 1, NEW j \in 0 .. r - 1, i # j
            PROVE  (i + 1) % r # (j + 1) % r
        <5>1. (i + 1) % r = Wraps(r, i + 1)
          BY Next2
        <5>2. (j + 1) % r = Wraps(r, j + 1)
          BY Next2
        <5> QED BY <4>1, <5>1, <5>2 DEF Wraps
      <4> QED BY <3>1, <1>4, <4>1
    <3>3. Stage2!Full(w)' <=> (write_index[w] + 1) % R = (read_index[w] + 1) % R
      BY <1>1, <1>3, <1>5 DEF Stage2!Full, Stage2!After, R
    <3> QED BY <3>2, <3>3
  <2>2. closer \in CloserRecords
    BY <1>0 DEF Stage2Types
  <2> QED BY <1>1, <1>10, <1>11, <1>16, <1>18, <1>19, <2>1, <2>2, OneThread
<1>21. PlacesInv'
  <2>1. /\ Stage2!Local(w) = Elements(Ring(w)) \ {Quit2}
        /\ Stage2!Local(w)' = Elements(Ring(w)') \ {Quit2}
    BY <1>0, <1>6, LocalIsRing
  <2>2. \A x : x \in Elements(Ring(w)) <=> x \in Elements(Ring(w)') \/ x = e
    BY <1>12, <1>14, LiveElements, ZenonT(40) DEF Lead
  <2>3. worker[w].event = 0 /\ Stage2!InHand(w) = {}
    BY <1>1, <1>15 DEF ThreadRing, Stage2!InHand, Stage2!Nothing
  <2>4. Stage2!InHand(w)' = {e} \ {0, Quit2}
    BY <1>2 DEF Becomes, Stage2!InHand, Stage2!Nothing, Quit2
  <2>5. \A v \in Crew : v # w => /\ Stage2!Local(v)' = Stage2!Local(v)
                                 /\ Stage2!InHand(v)' = Stage2!InHand(v)
    BY <1>1, <1>11, OtherThreads
  <2>6. CASE e = Quit2
    <3>1. Stage2!InHand(w)' = Stage2!InHand(w)
      BY <2>3, <2>4, <2>6
    <3>2. Stage2!Local(w)' = Stage2!Local(w)
      BY <2>1, <2>2, <2>6
    <3>3. SamePartsBut(0, 0)
      BY <1>1, <2>5, <3>1, <3>2 DEF SamePartsBut
    <3> QED BY <1>1, <1>10, <3>3, NoneMoves
  <2>7. CASE e # Quit2
    <3>1. e # 0 /\ e \in Int
      BY <1>0, <1>14, <2>7, QuitApart DEF Live
    <3>2. e \notin Elements(Ring(w)')
      <4>1. /\ Ring(w) \in Seq(Live) /\ stage2_handled[w] \in Seq(Live)
            /\ << >> \in Seq(Live)
        BY <1>13, <1>17, EmptySeq
      <4>2. /\ Taken(w) = ((stage2_handled[w] \o << >>) \o Ring(w)) \o << >>
            /\ stage2_handled[w] \o << >> \in Seq(Live)
            /\ (stage2_handled[w] \o << >>) \o Ring(w) \in Seq(Live)
        BY <1>17, <4>1, ConcatProperties DEF Taken
      <4>3. Ascends((stage2_handled[w] \o << >>) \o Ring(w), urgent)
        BY <4>1, <4>2, <1>19, AscendsLast
      <4>4. Ascends(Ring(w), urgent)
        BY <4>1, <4>2, <4>3, AscendsLast
      <4>5. Ascends(Lead(e, Ring(w)'), urgent)
        BY <4>4, <1>12
      <4> QED BY <4>5, <1>14, <2>7, <3>1, LeadOnce
    <3>3. /\ \A x : x \in Stage2!Local(w)' <=> x \in Stage2!Local(w) /\ x # e
          /\ \A x : x \in Stage2!InHand(w)' <=> x \in Stage2!InHand(w) \/ x = e
          /\ e \in Stage2!Local(w)
      BY <2>1, <2>2, <2>3, <2>4, <2>7, <3>1, <3>2
    <3> DEFINE a == LocalAt(w)
               b == HandAt(w)
    <3>4. /\ a \in 1 .. Last /\ b \in 1 .. Last /\ a # b
          /\ \A v \in Crew : v # w => LocalAt(v) # a /\ HandAt(v) # b
      BY PlacesHere
    <3>5. SamePartsBut(a, b)
      <4>1. \A v \in Crew : /\ LocalAt(v) \notin {a, b} => v # w
                            /\ HandAt(v) \notin {a, b} => v # w
        OBVIOUS
      <4>2. shared' = shared /\ lost' = lost /\ stage2_handled' = stage2_handled
        BY <1>1
      <4> HIDE DEF a, b
      <4> QED BY <4>1, <4>2, <2>5 DEF SamePartsBut
    <3>6. /\ Stage2!Parts[a] = Stage2!Local(w) /\ Stage2!Parts'[a] = Stage2!Local(w)'
          /\ Stage2!Parts[b] = Stage2!InHand(w)
          /\ Stage2!Parts'[b] = Stage2!InHand(w)'
      BY PartsAt
    <3> HIDE DEF a, b
    <3> QED BY <1>1, <1>10, <3>3, <3>4, <3>5, <3>6, OneMoves
  <2> QED BY <2>6, <2>7
<1> QED BY <1>20, <1>21

LEMMA HandleKeeps ==
  ASSUME Stage2Inv, NEW w \in Crew, Stage2!Handle(w)
  PROVE  Stage2Inv'
<1> DEFINE e == slots[w][worker[w].at]
<1>0. Stage2Types /\ LockInv /\ SharedInv /\ BatchInv
  BY DEF Stage2Inv
<1>1. /\ UNCHANGED <<is_priority, batch_size, shared, lock, pushed, slots, read_index,
                     write_index, closer, lost, urgent, excuse>>
      /\ worker[w].pc = "handle"
  BY DEF Stage2!Handle, Stage2!config, Stage2!rings
<1>2. /\ Only(w) /\ e \in Marks
      /\ e = Quit2 =>
           /\ Becomes(w, "ended", worker[w].left, worker[w].at, worker[w].event)
           /\ stage2_handled' = stage2_handled
      /\ e # Quit2 => /\ Becomes(w, "pop", worker[w].left, worker[w].at, 0)
                      /\ stage2_handled' =
                           [stage2_handled EXCEPT ![w] = Append(stage2_handled[w], e)]
  BY <1>0, HandleEffects
<1>3. R' = R
  BY <1>1 DEF R, Stage2!RingSize
<1> HIDE DEF e
<1>4. /\ stage2_handled' \in [Crew -> Seq(Marks)]
      /\ \A v \in Crew : v # w => stage2_handled'[v] = stage2_handled[v]
      /\ e = Quit2 => stage2_handled'[w] = stage2_handled[w]
      /\ e # Quit2 => stage2_handled'[w] = Append(stage2_handled[w], e)
  <2>1. stage2_handled \in [Crew -> Seq(Marks)] /\ stage2_handled[w] \in Seq(Marks)
    BY <1>0 DEF Stage2Types
  <2>2. CASE e = Quit2
    BY <1>2, <2>1, <2>2
  <2>3. CASE e # Quit2
    <3>1. Append(stage2_handled[w], e) \in Seq(Marks)
      BY <2>1, <1>2
    <3> PICK x \in Seq(Marks) : x = Append(stage2_handled[w], e)
      BY <3>1
    <3>2. stage2_handled' = [stage2_handled EXCEPT ![w] = x]
      BY <1>2, <2>3
    <3>3. /\ stage2_handled' \in [Crew -> Seq(Marks)] /\ stage2_handled'[w] = x
          /\ \A v \in Crew : v # w => stage2_handled'[v] = stage2_handled[v]
      BY <2>1, <3>2, UpdatedAt
    <3> QED BY <2>3, <3>3
  <2> QED BY <2>2, <2>3
<1>5. worker'[w].at = worker[w].at /\ worker'[w].pc \in {"ended", "pop"}
  BY <1>2 DEF Becomes
<1>6. Stage2Types'
  <2>1. \A v \in Crew : worker'[v].at < R
    BY <1>0, <1>2, <1>5 DEF Only, Stage2Types
  <2> QED BY <1>0, <1>1, <1>2, <1>3, <1>4, <2>1 DEF Stage2Types, Only
<1>7. LockInv'
  <2>1. \A q \in Stage2!Queues : ~MovesFrom(w, q)'
    BY <1>5 DEF MovesFrom, Stage2!Moves, Stage2!Writes
  <2> QED BY <1>0, <1>1, <1>2, <2>1 DEF LockInv, MovesFrom, Only
<1>8. SharedInv'
  BY <1>0, <1>1, SharedInvFrame
<1>9. BatchInv'
  BY <1>0, <1>1, <1>2, <1>3, <1>5 DEF BatchInv, Closing2, Stage2!Closing, Only
<1> SUFFICES ASSUME NoRace
             PROVE  RingInv' /\ OrderInv' /\ PlacesInv'
  BY <1>1, <1>6, <1>7, <1>8, <1>9 DEF Stage2Inv, NoRace
<1>10. RingInv /\ OrderInv /\ PlacesInv
  BY DEF Stage2Inv
<1>11. \A v \in Crew : v # w => Alike(v)
  BY <1>1, <1>2, <1>4 DEF Alike, Only
<1>12. ThreadRing(w) /\ worker[w].event = e /\ e \in Live
  <2>1. ThreadRing(w)
    BY <1>10, RingInvIs
  <2> QED BY <2>1, <1>1 DEF ThreadRing, e, Live
<1>13. Ring(w)' = Ring(w) /\ Stage2!Full(w)' = Stage2!Full(w)
  BY <1>1, <1>3 DEF Ring, Stage2!Full, Stage2!After, Stage2!RingSize
<1>14. e # Quit2 => e \in 1 .. pushed
  BY <1>12 DEF Live
<1>15. ThreadRing(w)'
  <2>1. ~Writing(w)'
    BY <1>5 DEF Writing
  <2>2. stage2_handled'[w] \in Seq(1 .. pushed)
    <3>1. stage2_handled[w] \in Seq(1 .. pushed)
      BY <1>12 DEF ThreadRing
    <3>2. CASE e = Quit2
      BY <1>4, <3>1, <3>2
    <3>3. CASE e # Quit2
      <4>1. ASSUME NEW h \in Seq(1 .. pushed), NEW x \in 1 .. pushed
            PROVE  Append(h, x) \in Seq(1 .. pushed)
        OBVIOUS
      <4>2. e \in 1 .. pushed /\ stage2_handled'[w] = Append(stage2_handled[w], e)
        BY <1>4, <1>14, <3>3
      <4> QED BY <3>1, <4>1, <4>2
    <3> QED BY <3>2, <3>3
  <2>3. Ring(w)' \in Seq(1 .. pushed' \cup {Quit2})
    BY <1>1, <1>12, <1>13 DEF ThreadRing
  <2>4. /\ worker'[w].pc = "ended" => worker'[w].event = Quit2
        /\ worker'[w].pc = "pop" => worker'[w].event = 0
    BY <1>2, <1>12 DEF Becomes
  <2> QED BY <1>1, <1>5, <2>1, <2>2, <2>3, <2>4 DEF ThreadRing
<1>16. /\ stage2_handled[w] \in Seq(Live) /\ Ring(w) \in Seq(Live)
       /\ InHands(w) = << e >> /\ Coming(w) = << >> /\ Coming(w)' = << >>
       /\ e = Quit2 => InHands(w)' = << e >>
       /\ e # Quit2 => InHands(w)' = << >>
  <2>1. stage2_handled[w] \in Seq(Live) /\ Ring(w) \in Seq(Live)
    BY <1>0, <1>10, TakenSeq
  <2>2. InHands(w) = << e >> /\ Coming(w) = << >> /\ Coming(w)' = << >>
    BY <1>1, <1>5, <1>12 DEF InHands, Coming, Writing
  <2>3. e = Quit2 => InHands(w)' = << e >>
    BY <1>2, <1>12 DEF InHands, Becomes
  <2>4. e # Quit2 => InHands(w)' = << >>
    BY <1>2 DEF InHands, Becomes
  <2> QED BY <2>1, <2>2, <2>3, <2>4
<1>17. Taken(w)' = Taken(w)
  <2>1. Taken(w) = ((stage2_handled[w] \o << e >>) \o Ring(w)) \o << >>
    BY <1>16 DEF Taken
  <2>2. CASE e = Quit2
    <3>1. Taken(w)' = ((stage2_handled[w] \o << e >>) \o Ring(w)) \o << >>
      BY <1>4, <1>13, <1>16, <2>2 DEF Taken
    <3> QED BY <2>1, <3>1
  <2>3. CASE e # Quit2
    <3>1. Taken(w)' = ((Append(stage2_handled[w], e) \o << >>) \o Ring(w)) \o << >>
      BY <1>4, <1>13, <1>16, <2>3 DEF Taken
    <3>2. ASSUME NEW h \in Seq(Live), NEW r \in Seq(Live), NEW x \in Live
          PROVE  ((h \o << x >>) \o r) \o << >> = ((Append(h,
                   x) \o << >>) \o r) \o << >>
      BY TakenByHandle
    <3> QED BY <1>12, <1>16, <2>1, <3>1, <3>2
  <2> QED BY <2>2, <2>3
<1>18. RingInv' /\ OrderInv'
  <2>1. Ascends(Taken(w), urgent) /\ closer \in CloserRecords
    BY <1>0, <1>10 DEF OrderInv, Stage2Types
  <2>2. closer.pc = "push" /\ closer.w = w =>
          write_index'[w] = write_index[w] /\ ~Stage2!Full(w)'
    BY <1>1, <1>10, <1>13, RingInvIs DEF CloserRing
  <2> QED BY <1>1, <1>10, <1>11, <1>15, <1>17, <2>1, <2>2, OneThread
<1>19. PlacesInv'
  <2>1. Stage2!Local(w)' = Stage2!Local(w)
    BY <1>1 DEF Stage2!Local, Stage2!Size, Stage2!RingSize
  <2>2. \A v \in Crew : v # w => /\ Stage2!Local(v)' = Stage2!Local(v)
                                 /\ Stage2!InHand(v)' = Stage2!InHand(v)
    BY <1>1, <1>11, OtherThreads
  <2>3. Stage2!InHand(w) = {e} \ {0, Quit2}
    BY <1>1, <1>12 DEF Stage2!InHand, Stage2!Nothing, Quit2
  <2>4. Stage2!InHand(w)' = {}
    BY <1>2 DEF Becomes, Stage2!InHand, Stage2!Nothing, Quit2
  <2>5. CASE e = Quit2
    <3>1. Stage2!InHand(w)' = Stage2!InHand(w) /\ stage2_handled' = stage2_handled
      BY <1>2, <2>3, <2>4, <2>5
    <3>2. SamePartsBut(0, 0)
      BY <1>1, <2>1, <2>2, <3>1 DEF SamePartsBut
    <3> QED BY <1>1, <1>10, <3>2, NoneMoves
  <2>6. CASE e # Quit2
    <3>1. e # 0 /\ e \in Live /\ stage2_handled[w] \in Seq(Live)
      BY <1>0, <1>12, <1>16, QuitApart
    <3>2. \A x : x \in Stage2!Range(stage2_handled'[w]) <=>
                   x \in Stage2!Range(stage2_handled[w]) \/ x = e
      <4>1. stage2_handled'[w] = stage2_handled[w] \o << e >>
        <5>1. ASSUME NEW h \in Seq(Live), NEW x \in Live
              PROVE  Append(h, x) = h \o << x >>
          BY AppendConcat
        <5> QED BY <1>4, <2>6, <3>1, <5>1
      <4>2. \A x : x \in Elements(stage2_handled[w] \o << e >>) <=>
                     x \in Elements(stage2_handled[w]) \/ x = e
        <5>1. e \in Live /\ stage2_handled[w] \in Seq(Live)
          BY <3>1
        <5> QED BY <5>1, LiveElements, ZenonT(40)
      <4> QED BY <4>1, <4>2 DEF Stage2!Range, Elements
    <3>3. /\ \A x : x \in Stage2!InHand(w)' <=> x \in Stage2!InHand(w) /\ x # e
          /\ e \in Stage2!InHand(w)
      BY <2>3, <2>4, <2>6, <3>1
    <3> DEFINE a == HandAt(w)
               b == DoneAt(w)
    <3>4. /\ a \in 1 .. Last /\ b \in 1 .. Last /\ a # b
      BY PlacesHere
    <3>5. SamePartsBut(a, b)
      <4>1. \A v \in Crew : /\ HandAt(v) \notin {a, b} => v # w
                            /\ DoneAt(v) \notin {a, b} => v # w
        OBVIOUS
      <4> HIDE DEF a, b
      <4> QED BY <1>1, <1>4, <4>1, <2>1, <2>2 DEF SamePartsBut
    <3>6. /\ Stage2!Parts[a] = Stage2!InHand(w)
          /\ Stage2!Parts'[a] = Stage2!InHand(w)'
          /\ Stage2!Parts[b] = Stage2!Range(stage2_handled[w])
          /\ Stage2!Parts'[b] = Stage2!Range(stage2_handled'[w])
      BY PartsAt
    <3> HIDE DEF a, b
    <3> QED BY <1>1, <1>10, <3>2, <3>3, <3>4, <3>5, <3>6, OneMoves
  <2> QED BY <2>5, <2>6
<1> QED BY <1>18, <1>19

(* A thread goes from one place to another with empty hands.               *)
Idle == {"pop", "high", "low", "move_high", "move_low"}

LEMMA QuietRing ==
  ASSUME UNCHANGED <<batch_size, pushed, slots, read_index, write_index, closer,
                     stage2_handled, urgent>>,
         Stage2Types, RingInv, OrderInv,
         NEW w \in Crew, \A v \in Crew : v # w => worker'[v] = worker[v],
         worker[w].pc \in Idle, worker'[w].pc \in Idle, worker'[w].event = 0
  PROVE  /\ RingInv' /\ OrderInv' /\ stage2_handled'[w] = stage2_handled[w]
         /\ Stage2!Local(w)' = Stage2!Local(w) /\ Stage2!InHand(w)' = Stage2!InHand(w)
         /\ \A v \in Crew : v # w => /\ Stage2!Local(v)' = Stage2!Local(v)
                                     /\ Stage2!InHand(v)' = Stage2!InHand(v)
<1>1. \A v \in Crew : v # w => Alike(v)
  BY DEF Alike
<1>2. R' = R
  BY DEF R, Stage2!RingSize
<1>3. Ring(w)' = Ring(w) /\ Stage2!Full(w)' = Stage2!Full(w)
  BY <1>2 DEF Ring, Stage2!Full, Stage2!After, Stage2!RingSize
<1>4. ThreadRing(w) /\ ~Writing(w) /\ ~Writing(w)' /\ worker[w].event = 0
  BY RingInvIs DEF Writing, Idle, ThreadRing
<1>5. ThreadRing(w)'
  BY <1>3, <1>4 DEF ThreadRing, Idle
<1>6. InHands(w)' = InHands(w) /\ Coming(w)' = Coming(w)
  BY <1>4 DEF InHands, Coming, Idle
<1>7. Taken(w)' = Taken(w)
  BY <1>3, <1>6 DEF Taken
<1>8. RingInv' /\ OrderInv'
  <2>1. Ascends(Taken(w), urgent) /\ closer \in CloserRecords
    BY DEF OrderInv, Stage2Types
  <2>2. closer.pc = "push" /\ closer.w = w =>
          write_index'[w] = write_index[w] /\ ~Stage2!Full(w)'
    BY <1>3, RingInvIs DEF CloserRing
  <2> QED BY <1>1, <1>5, <1>7, <2>1, <2>2, OneThread
<1>9. Stage2!Local(w)' = Stage2!Local(w) /\ Stage2!InHand(w)' = Stage2!InHand(w)
  BY <1>4 DEF Stage2!Local, Stage2!Size, Stage2!RingSize, Stage2!InHand, Idle
<1>10. \A v \in Crew : v # w => /\ Stage2!Local(v)' = Stage2!Local(v)
                                /\ Stage2!InHand(v)' = Stage2!InHand(v)
  BY <1>1, OtherThreads
<1> QED BY <1>8, <1>9, <1>10

LEMMA QuietStep ==
  ASSUME UNCHANGED <<batch_size, shared, pushed, slots, read_index, write_index,
           closer,
                     stage2_handled, lost, urgent>>,
         Stage2Types, RingInv, OrderInv, PlacesInv,
         NEW w \in Crew, \A v \in Crew : v # w => worker'[v] = worker[v],
         worker[w].pc \in Idle, worker'[w].pc \in Idle,
         worker'[w].event = worker[w].event
  PROVE  RingInv' /\ OrderInv' /\ PlacesInv'
<1>1. worker'[w].event = 0
  BY RingInvIs DEF ThreadRing, Idle
<1>2. /\ RingInv' /\ OrderInv'
      /\ \A v \in Crew : /\ Stage2!Local(v)' = Stage2!Local(v)
                         /\ Stage2!InHand(v)' = Stage2!InHand(v)
  BY <1>1, QuietRing
<1>3. SamePartsBut(0, 0)
  BY <1>2 DEF SamePartsBut
<1> QED BY <1>2, <1>3, NoneMoves

LEMMA FetchKeeps ==
  ASSUME Stage2Inv, NEW w \in Crew, Stage2!Fetch(w)
  PROVE  Stage2Inv'
<1> DEFINE p == IF is_priority THEN "high" ELSE "low"
<1>0. Stage2Types /\ LockInv /\ SharedInv /\ BatchInv
  BY DEF Stage2Inv
<1>1. /\ UNCHANGED <<is_priority, batch_size, shared, lock, pushed, slots, read_index,
                     write_index, closer, stage2_handled, lost, urgent, excuse>>
      /\ worker[w].pc = "pop" /\ read_index[w] = write_index[w] /\ Stage2!Goto(w, p)
  BY DEF Stage2!Fetch, Stage2!config, Stage2!rings, Stage2!Empty
<1>2. Only(w) /\ Becomes(w, p, worker[w].left, worker[w].at, worker[w].event)
  <2>1. p \in Stage2Places
    BY DEF Stage2Places
  <2> HIDE DEF p
  <2> QED BY <1>0, <1>1, <2>1, GotoEffects
<1>3. R' = R
  BY <1>1 DEF R, Stage2!RingSize
<1>4. Stage2Types'
  <2>1. \A v \in Crew : worker'[v].at < R
    BY <1>0, <1>2 DEF Only, Becomes, Stage2Types
  <2> QED BY <1>0, <1>1, <1>2, <1>3, <2>1 DEF Stage2Types, Only
<1>5. LockInv'
  <2>1. \A q \in Stage2!Queues : ~MovesFrom(w, q)'
    BY <1>2 DEF MovesFrom, Becomes, Stage2!Moves, Stage2!Writes
  <2> QED BY <1>0, <1>1, <1>2, <2>1 DEF LockInv, MovesFrom, Only
<1>6. SharedInv'
  BY <1>0, <1>1, SharedInvFrame
<1>7. BatchInv'
  BY <1>0, <1>1, <1>2, <1>3 DEF BatchInv, Closing2, Stage2!Closing, Only, Becomes
<1>8. NoRace => RingInv' /\ OrderInv' /\ PlacesInv'
  BY <1>0, <1>1, <1>2, QuietStep DEF Stage2Inv, Only, Becomes, Idle
<1> QED BY <1>1, <1>4, <1>5, <1>6, <1>7, <1>8 DEF Stage2Inv, NoRace

LEMMA StartMovingKeeps ==
  ASSUME Stage2Inv, NEW w \in Crew, NEW q \in Stage2!Queues, Stage2!StartMoving(w, q)
  PROVE  Stage2Inv'
<1> DEFINE n == Stage2!Batch(w, q)
<1>0. Stage2Types /\ LockInv /\ SharedInv /\ BatchInv
  BY DEF Stage2Inv
<1>1. /\ UNCHANGED <<is_priority, batch_size, shared, pushed, slots, read_index,
                     write_index, closer, stage2_handled, lost, urgent, excuse>>
      /\ worker[w].pc = q /\ lock[q] = 0
  BY DEF Stage2!StartMoving, Stage2!config, Stage2!rings, Stage2!Nothing
<1>2. /\ Only(w)
      /\ n = 0 => /\ Becomes(w, Stage2!AfterQueue(q), worker[w].left, worker[w].at,
                             worker[w].event)
                  /\ lock' = lock
      /\ n # 0 => /\ Becomes(w, Stage2!Moves(q), n, worker[w].at, worker[w].event)
                  /\ lock' = [lock EXCEPT ![q] = w]
  BY <1>0, StartEffects
<1>3. n \in Nat /\ n <= Len(shared[q]) /\ n <= batch_size
  BY <1>0, BatchSize
<1> HIDE DEF n
<1>4. R' = R
  BY <1>1 DEF R, Stage2!RingSize
<1>5. /\ lock' \in [Stage2!Queues -> 0 .. Threads]
      /\ \A p \in Stage2!Queues : p # q => lock'[p] = lock[p]
      /\ n # 0 => lock'[q] = w
  <2>1. lock \in [Stage2!Queues -> 0 .. Threads] /\ w \in 0 .. Threads
    BY <1>0, StagesAssumption
       DEF Stage2Types, Crew, Stage2!Workers, Stage2!Stage2Assumption
  <2>2. CASE n = 0
    BY <1>2, <2>1, <2>2
  <2>3. CASE n # 0
    BY <1>2, <2>1, <2>3, UpdatedAt
  <2> QED BY <2>2, <2>3
<1>6. Stage2Types'
  <2>1. worker'[w].at = worker[w].at
    BY <1>2 DEF Becomes
  <2>2. \A v \in Crew : worker'[v].at < R
    BY <1>0, <1>2, <2>1 DEF Only, Stage2Types
  <2> QED BY <1>0, <1>1, <1>2, <1>4, <1>5, <2>2 DEF Stage2Types, Only
<1>7. w # 0
  BY DEF Crew, Stage2!Workers
<1>8. LockInv'
  <2> SUFFICES ASSUME NEW v \in Crew, NEW p \in Stage2!Queues, MovesFrom(v, p)'
               PROVE  /\ lock'[p] = v /\ worker'[v].left > 0
                      /\ worker'[v].pc = Stage2!Moves(p) =>
                           worker'[v].left <= Len(shared'[p])
                      /\ worker'[v].pc = Stage2!Writes(p) =>
                           worker'[v].left - 1 <= Len(shared'[p])
    BY DEF LockInv
  <2>1. CASE v # w
    <3>1. MovesFrom(v, p) /\ worker'[v] = worker[v]
      BY <1>2, <2>1 DEF Only, MovesFrom
    <3>2. lock[p] = v /\ v # 0
      BY <1>0, <3>1 DEF LockInv, Crew, Stage2!Workers
    <3>3. p # q
      BY <1>1, <3>2
    <3> QED BY <1>0, <1>1, <1>5, <3>1, <3>2, <3>3 DEF LockInv
  <2>2. CASE v = w
    <3>1. worker'[w].pc \in {Stage2!AfterQueue(q), Stage2!Moves(q)}
      BY <1>2 DEF Becomes
    <3>2. /\ p = q /\ worker'[w].pc = Stage2!Moves(q)
          /\ Stage2!Moves(q) # Stage2!Writes(q)
          /\ Stage2!Moves(q) # Stage2!AfterQueue(q)
      BY <2>2, <3>1 DEF MovesFrom, Stage2!Moves, Stage2!Writes, Stage2!AfterQueue,
                        Stage2!Queues
    <3>3. n # 0 /\ worker'[w].left = n
      BY <1>2, <3>2 DEF Becomes
    <3> QED BY <1>1, <1>3, <1>5, <2>2, <3>2, <3>3
  <2> QED BY <2>1, <2>2
<1>9. SharedInv'
  BY <1>0, <1>1, SharedInvFrame
<1>10. BatchInv'
  <2> SUFFICES ASSUME ~is_priority, ~Closing2, NEW v \in Crew
               PROVE  /\ worker'[v].pc \notin {"high", "move_high", "write_high"}
                      /\ worker'[v].pc = "low" => read_index[v] = write_index[v]
                      /\ worker'[v].pc \in {"move_low", "write_low"} =>
                           Filled(R, read_index[v], write_index[v]) + worker'[v].left
                             <= batch_size
    BY <1>0, <1>1, <1>4 DEF BatchInv, Closing2, Stage2!Closing
  <2>1. CASE v # w
    BY <1>0, <1>2, <2>1 DEF BatchInv, Only
  <2>2. CASE v = w
    <3>1. q = "low" /\ read_index[w] = write_index[w]
      BY <1>0, <1>1 DEF BatchInv, Stage2!Queues
    <3>2. Filled(R, read_index[w], write_index[w]) = 0
      BY <1>0, <3>1, Held DEF Filled
    <3>3. n = 0 => worker'[w].pc = "pop"
      BY <1>2, <3>1 DEF Becomes, Stage2!AfterQueue
    <3>4. n # 0 => worker'[w].pc = "move_low" /\ worker'[w].left = n
      BY <1>2, <3>1 DEF Becomes, Stage2!Moves
    <3> QED BY <1>3, <2>2, <3>2, <3>3, <3>4
  <2> QED BY <2>1, <2>2
<1>11. NoRace => RingInv' /\ OrderInv' /\ PlacesInv'
  <2>1. /\ worker[w].pc \in Idle /\ worker'[w].pc \in Idle
        /\ worker'[w].event = worker[w].event
    BY <1>1, <1>2 DEF Idle, Becomes, Stage2!AfterQueue, Stage2!Moves, Stage2!Queues
  <2> QED BY <1>0, <1>1, <1>2, <2>1, QuietStep DEF Stage2Inv, Only
<1> QED BY <1>1, <1>6, <1>8, <1>9, <1>10, <1>11 DEF Stage2Inv, NoRace

(* The ring of a stage and its batch.                                      *)
LEMMA RingOfBatch ==
  Stage2Types => R \in Nat /\ batch_size \in Nat \ {0} /\ batch_size <= R - 1
BY RingSizes DEF Stage2Types, Sizes

LEMMA FullIsFilled ==
  ASSUME Stage2Types, NEW w \in Crew
  PROVE  LET n == Filled(R, read_index[w], write_index[w]) IN
         /\ n \in Nat
         /\ Stage2!Full(w) => n = R - 1
         /\ ~Stage2!Full(w) =>
              Filled(R, read_index[w], Stage2!After(write_index[w])) = n + 1
<1>1. ASSUME NEW r \in Sizes, NEW i \in 0 .. r - 1, NEW j \in 0 .. r - 1
      PROVE  /\ Filled(r, i, j) \in Nat
             /\ (j + 1) % r = i => Filled(r, i, j) = r - 1
             /\ (j + 1) % r # i => Filled(r, i, (j + 1) % r) = Filled(r, i, j) + 1
  <2>1. (j + 1) % r = IF j + 1 < r THEN j + 1 ELSE j + 1 - r
    BY Next2 DEF Wraps
  <2> QED BY <2>1 DEF Filled
<1>2. read_index[w] \in 0 .. R - 1 /\ write_index[w] \in 0 .. R - 1 /\ R \in Sizes
  BY Held
<1>3. /\ Stage2!Full(w) <=> (write_index[w] + 1) % R = read_index[w]
      /\ Stage2!After(write_index[w]) = (write_index[w] + 1) % R
  BY DEF Stage2!Full, Stage2!After, R
<1> QED BY <1>1, <1>2, <1>3

(* After the last event of a batch, or before the next one.                *)
LEMMA DoneKeeps ==
  ASSUME Stage2Types, LockInv, NEW w \in Crew, NEW q \in Stage2!Queues,
         MovesFrom(w, q), Stage2!Done(w, q),
         \A p \in Stage2!Queues : p # q => shared'[p] = shared[p],
         Len(shared'[q]) \in Nat, worker[w].left - 1 <= Len(shared'[q])
  PROVE  /\ LockInv' /\ Only(w) /\ worker'[w].at = worker[w].at
         /\ lock' \in [Stage2!Queues -> 0 .. Threads]
         /\ worker'[w].event = 0
         /\ worker'[w].pc \in {Stage2!AfterQueue(q), Stage2!Moves(q)}
         /\ worker'[w].pc = Stage2!Moves(q) => worker'[w].left = worker[w].left - 1
<1>1. lock[q] = w /\ worker[w].left > 0 /\ worker[w].left \in Nat
  BY Held DEF LockInv
<1>2. LET n == worker[w].left IN
      /\ Only(w)
      /\ n = 1 => /\ Becomes(w, Stage2!AfterQueue(q), 0, worker[w].at, 0)
                  /\ lock' = [lock EXCEPT ![q] = 0]
      /\ n # 1 => /\ Becomes(w, Stage2!Moves(q), n - 1, worker[w].at, 0)
                  /\ lock' = lock
  BY <1>1, DoneEffects
<1>3. /\ worker'[w].at = worker[w].at /\ worker'[w].event = 0
      /\ worker[w].left = 1 => worker'[w].pc = Stage2!AfterQueue(q)
      /\ worker[w].left # 1 => /\ worker'[w].pc = Stage2!Moves(q)
                               /\ worker'[w].left = worker[w].left - 1
  BY <1>2 DEF Becomes
<1>4. /\ lock' \in [Stage2!Queues -> 0 .. Threads]
      /\ \A p \in Stage2!Queues : p # q => lock'[p] = lock[p]
      /\ worker[w].left # 1 => lock'[q] = w
  <2>1. lock \in [Stage2!Queues -> 0 .. Threads] /\ 0 \in 0 .. Threads
    BY StagesAssumption DEF Stage2Types, Stage2!Stage2Assumption
  <2>2. CASE worker[w].left = 1
    BY <1>2, <2>1, <2>2, UpdatedAt
  <2>3. CASE worker[w].left # 1
    BY <1>1, <1>2, <2>1, <2>3
  <2> QED BY <2>2, <2>3
<1>5. /\ Stage2!Moves(q) # Stage2!Writes(q) /\ Stage2!Moves(q) # Stage2!AfterQueue(q)
      /\ \A p \in Stage2!Queues :
           /\ Stage2!AfterQueue(q) \notin {Stage2!Moves(p), Stage2!Writes(p)}
           /\ p # q => Stage2!Moves(q) \notin {Stage2!Moves(p), Stage2!Writes(p)}
  BY DEF Stage2!Moves, Stage2!Writes, Stage2!AfterQueue, Stage2!Queues
<1>6. LockInv'
  <2> SUFFICES ASSUME NEW v \in Crew, NEW p \in Stage2!Queues, MovesFrom(v, p)'
               PROVE  /\ lock'[p] = v /\ worker'[v].left > 0
                      /\ worker'[v].pc = Stage2!Moves(p) =>
                           worker'[v].left <= Len(shared'[p])
                      /\ worker'[v].pc = Stage2!Writes(p) =>
                           worker'[v].left - 1 <= Len(shared'[p])
    BY DEF LockInv
  <2>1. CASE v # w
    <3>1. MovesFrom(v, p) /\ worker'[v] = worker[v]
      BY <1>2, <2>1 DEF Only, MovesFrom
    <3>2. lock[p] = v
      BY <3>1 DEF LockInv
    <3>3. p # q
      BY <1>1, <2>1, <3>2
    <3>4. lock'[p] = v /\ shared'[p] = shared[p]
      BY <1>4, <3>2, <3>3
    <3> QED BY <3>1, <3>4 DEF LockInv
  <2>2. CASE v = w
    <3>1. worker'[w].pc \in {Stage2!Moves(p), Stage2!Writes(p)}
      BY <2>2 DEF MovesFrom
    <3>2. worker[w].left # 1 /\ p = q /\ worker'[w].pc = Stage2!Moves(q)
      BY <1>3, <1>5, <3>1
    <3> QED BY <1>1, <1>3, <1>4, <1>5, <2>2, <3>2
  <2> QED BY <2>1, <2>2
<1> QED BY <1>2, <1>3, <1>4, <1>5, <1>6

(* A queue without its oldest event.                                       *)
LEMMA TailIs ==
  ASSUME NEW S, NEW s \in Seq(S), s # << >>
  PROVE  /\ Len(s) \in Nat \ {0} /\ Tail(s) \in Seq(S) /\ Len(Tail(s)) = Len(s) - 1
         /\ Head(s) = s[1] /\ \A i \in 1 .. Len(s) - 1 : Tail(s)[i] = s[i + 1]
BY EmptySeq, LenProperties, HeadTailProperties

LEMMA TailElements ==
  ASSUME NEW S, NEW s \in Seq(S), s # << >>, S \subseteq Int,
         \A i, j \in 1 .. Len(s) : i < j => s[i] < s[j]
  PROVE  \A x : x \in Stage2!Range(Tail(s)) <=> x \in Stage2!Range(s) /\ x # Head(s)
<1>1. /\ Len(s) \in Nat \ {0} /\ Tail(s) \in Seq(S) /\ Len(Tail(s)) = Len(s) - 1
      /\ Head(s) = s[1] /\ \A i \in 1 .. Len(s) - 1 : Tail(s)[i] = s[i + 1]
  BY TailIs
<1>2. /\ DOMAIN s = 1 .. Len(s) /\ DOMAIN Tail(s) = 1 .. Len(s) - 1
      /\ \A i \in 1 .. Len(s) : s[i] \in Int
  BY <1>1, LenProperties, ElementOfSeq
<1>3. \A i \in 1 .. Len(s) : i # 1 => s[i] # s[1]
  BY <1>1, <1>2
<1>4. \A x : x \in Stage2!Range(Tail(s)) => x \in Stage2!Range(s) /\ x # Head(s)
  <2> SUFFICES ASSUME NEW i \in 1 .. Len(s) - 1
               PROVE  Tail(s)[i] \in Stage2!Range(s) /\ Tail(s)[i] # Head(s)
    BY <1>2 DEF Stage2!Range
  <2>1. i + 1 \in 1 .. Len(s) /\ i + 1 # 1
    BY <1>1
  <2> QED BY <1>1, <1>2, <1>3, <2>1 DEF Stage2!Range
<1>5. \A x : x \in Stage2!Range(s) /\ x # Head(s) => x \in Stage2!Range(Tail(s))
  <2> SUFFICES ASSUME NEW i \in 1 .. Len(s), s[i] # Head(s)
               PROVE  s[i] \in Stage2!Range(Tail(s))
    BY <1>2 DEF Stage2!Range
  <2>1. i - 1 \in 1 .. Len(s) - 1 /\ (i - 1) + 1 = i
    BY <1>1
  <2>2. Tail(s)[i - 1] = s[i]
    BY <1>1, <2>1
  <2> QED BY <1>2, <2>1, <2>2 DEF Stage2!Range
<1> QED BY <1>4, <1>5

(* What SharedInv says of one queue.                                       *)
Ordered(q) ==
  /\ \A i \in 1 .. Len(shared[q]) :
       shared[q][i] \in 1 .. pushed /\ Belongs(shared[q][i], q)
  /\ \A i, j \in 1 .. Len(shared[q]) : i < j => shared[q][i] < shared[q][j]
  /\ shared[q] # << >> =>
       \A e \in 1 .. pushed : Belongs(e, q) /\ e >= shared[q][1] =>
          \E i \in 1 .. Len(shared[q]) : shared[q][i] = e

LEMMA TailShared ==
  ASSUME Stage2Types, SharedInv, NEW q \in Stage2!Queues, shared[q] # << >>,
         UNCHANGED <<pushed, urgent>>,
         shared' = [shared EXCEPT ![q] = Tail(shared[q])]
  PROVE  /\ SharedInv' /\ shared' \in [Stage2!Queues -> Seq(1 .. MaxEvents)]
         /\ shared'[q] = Tail(shared[q]) /\ Len(shared'[q]) = Len(shared[q]) - 1
         /\ \A p \in Stage2!Queues : p # q => shared'[p] = shared[p]
         /\ \A p \in Stage2!Queues : Len(shared'[p]) < QueueSize
         /\ shared[q][1] \in 1 .. pushed /\ Belongs(shared[q][1], q)
         /\ \A x : x \in Stage2!Range(shared'[q]) <=>
                     x \in Stage2!Range(shared[q]) /\ x # shared[q][1]
<1> DEFINE s == shared[q]
           t == shared'[q]
<1>1. /\ s \in Seq(1 .. MaxEvents) /\ MaxEvents \in Nat /\ QueueSize \in Nat
      /\ pushed \in Nat
      /\ shared \in [Stage2!Queues -> Seq(1 .. MaxEvents)]
  BY StagesAssumption DEF Stage2Types, Stage2!Stage2Assumption
<1>2. /\ Len(s) \in Nat \ {0} /\ Tail(s) \in Seq(1 .. MaxEvents)
      /\ Len(Tail(s)) = Len(s) - 1 /\ Head(s) = s[1]
      /\ \A i \in 1 .. Len(s) - 1 : Tail(s)[i] = s[i + 1]
  BY <1>1, TailIs
<1>3. /\ shared' \in [Stage2!Queues -> Seq(1 .. MaxEvents)] /\ t = Tail(s)
      /\ \A p \in Stage2!Queues : p # q => shared'[p] = shared[p]
  BY <1>1, <1>2, UpdatedAt
<1>4. /\ \A i \in 1 .. Len(s) : s[i] \in 1 .. pushed /\ Belongs(s[i], q)
      /\ \A i, j \in 1 .. Len(s) : i < j => s[i] < s[j]
      /\ \A e \in 1 .. pushed : Belongs(e, q) /\ e >= s[1] =>
           \E i \in 1 .. Len(s) : s[i] = e
  BY DEF SharedInv
<1>5. 1 \in 1 .. Len(s)
  BY <1>2
<1>6. \A x : x \in Stage2!Range(t) <=> x \in Stage2!Range(s) /\ x # s[1]
  <2>1. 1 .. MaxEvents \subseteq Int
    OBVIOUS
  <2> HIDE DEF s, t
  <2>2. \A x : x \in Stage2!Range(Tail(s)) <=> x \in Stage2!Range(s) /\ x # Head(s)
    BY <1>1, <1>4, <2>1, TailElements DEF s
  <2> QED BY <1>2, <1>3, <2>2
<1>7. \A p \in Stage2!Queues : Len(shared'[p]) < QueueSize
  <2>1. \A p \in Stage2!Queues : Len(shared[p]) < QueueSize
    BY DEF Stage2Types
  <2>2. Len(s) < QueueSize
    BY <2>1
  <2>3. Len(t) < QueueSize
    BY <1>1, <1>2, <1>3, <2>2
  <2> QED BY <1>3, <2>1, <2>3
<1> HIDE DEF s, t
<1>8. \A i \in 1 .. Len(t) : i + 1 \in 1 .. Len(s) /\ t[i] = s[i + 1]
  BY <1>2, <1>3
<1>9. /\ \A i \in 1 .. Len(t) : t[i] \in 1 .. pushed /\ Belongs(t[i], q)
      /\ \A i, j \in 1 .. Len(t) : i < j => t[i] < t[j]
      /\ t # << >> => \A e \in 1 .. pushed : Belongs(e, q) /\ e >= t[1] =>
                        \E i \in 1 .. Len(t) : t[i] = e
  <2>1. \A i \in 1 .. Len(t) : t[i] \in 1 .. pushed /\ Belongs(t[i], q)
    BY <1>4, <1>8
  <2>2. ASSUME NEW i \in 1 .. Len(t), NEW j \in 1 .. Len(t), i < j
        PROVE  t[i] < t[j]
    <3>1. i + 1 < j + 1
      BY <2>2, <1>2, <1>3
    <3> QED BY <1>4, <1>8, <3>1
  <2>3. ASSUME t # << >>, NEW e \in 1 .. pushed, Belongs(e, q), e >= t[1]
        PROVE  \E i \in 1 .. Len(t) : t[i] = e
    <3>1. 1 \in 1 .. Len(t) /\ 2 \in 1 .. Len(s) /\ t[1] = s[2]
      <4>1. Len(t) \in Nat \ {0}
        BY <2>3, <1>2, <1>3, TailIs
      <4> QED BY <4>1, <1>8, <1>2, <1>3
    <3>2. s[1] < s[2] /\ s[1] \in Int /\ s[2] \in Int
      BY <1>4, <1>5, <3>1
    <3>3. e > s[1]
      BY <2>3, <3>1, <3>2
    <3>4. PICK k \in 1 .. Len(s) : s[k] = e
      BY <1>4, <2>3, <3>2, <3>3
    <3>5. k # 1
      BY <3>2, <3>3, <3>4
    <3>6. k - 1 \in 1 .. Len(t) /\ (k - 1) + 1 = k
      BY <1>2, <1>3, <3>5
    <3> QED BY <1>8, <3>4, <3>6
  <2> QED BY <2>1, <2>2, <2>3
<1>10. SharedInv'
  <2>1. pushed' = pushed /\ \A e, p : Belongs(e, p)' <=> Belongs(e, p)
    BY DEF Belongs
  <2>2. ASSUME NEW p \in Stage2!Queues
        PROVE  /\ \A i \in 1 .. Len(shared'[p]) :
                    shared'[p][i] \in 1 .. pushed /\ Belongs(shared'[p][i], p)
               /\ \A i, j \in 1 .. Len(shared'[p]) :
                    i < j => shared'[p][i] < shared'[p][j]
               /\ shared'[p] # << >> =>
                    \A e \in 1 .. pushed : Belongs(e, p) /\ e >= shared'[p][1] =>
                      \E i \in 1 .. Len(shared'[p]) : shared'[p][i] = e
    <3>1. CASE p = q
      BY <1>9, <3>1 DEF t
    <3>2. CASE p # q
      BY <1>3, <3>2 DEF SharedInv
    <3> QED BY <3>1, <3>2
  <2>3. ASSUME NEW p \in Stage2!Queues
        PROVE  Ordered(p)'
    BY <2>1, <2>2 DEF Ordered
  <2> QED BY <2>3 DEF SharedInv, Ordered
<1> QED BY <1>1, <1>2, <1>3, <1>4, <1>5, <1>6, <1>7, <1>10 DEF s, t

LEMMA MoveKeeps ==
  ASSUME Stage2Inv, NEW w \in Crew, NEW q \in Stage2!Queues, Stage2!Move(w, q)
  PROVE  Stage2Inv'
<1> DEFINE e == shared[q][1]
           n == worker[w].left
<1>0. Stage2Types /\ LockInv /\ SharedInv /\ BatchInv
  BY DEF Stage2Inv
<1>1. /\ UNCHANGED <<is_priority, batch_size, pushed, slots, read_index, write_index,
                     closer, stage2_handled, urgent, excuse>>
      /\ worker[w].pc = Stage2!Moves(q)
  BY DEF Stage2!Move, Stage2!config, Stage2!rings
<1>2. /\ Only(w) /\ lock[q] = w /\ n > 0 /\ n <= Len(shared[q])
      /\ shared[q] # << >> /\ e \in 1 .. MaxEvents
      /\ shared' = [shared EXCEPT ![q] = Tail(shared[q])]
      /\ Stage2!Full(w) => lost' = lost \cup {e} /\ Stage2!Done(w, q)
      /\ ~Stage2!Full(w) =>
           /\ Becomes(w, Stage2!Writes(q), n, write_index[w], e)
           /\ lost' = lost /\ lock' = lock
  <2>1. shared[q] \in Seq(1 .. MaxEvents)
    BY <1>0 DEF Stage2Types
  <2>2. shared[q] # << >>
    BY <1>0, MoveEffects
  <2>3. Head(shared[q]) = shared[q][1]
    BY <2>1, <2>2, TailIs
  <2> QED BY <1>0, <2>3, MoveEffects
<1>3. /\ SharedInv' /\ shared' \in [Stage2!Queues -> Seq(1 .. MaxEvents)]
      /\ Len(shared'[q]) = Len(shared[q]) - 1
      /\ \A p \in Stage2!Queues : p # q => shared'[p] = shared[p]
      /\ \A p \in Stage2!Queues : Len(shared'[p]) < QueueSize
      /\ e \in 1 .. pushed /\ Belongs(e, q)
      /\ \A x : x \in Stage2!Range(shared'[q]) <=>
           x \in Stage2!Range(shared[q]) /\ x # e
  BY <1>0, <1>1, <1>2, TailShared
<1>4. R' = R
  BY <1>1 DEF R, Stage2!RingSize
<1>5. /\ read_index[w] \in 0 .. R - 1 /\ write_index[w] \in 0 .. R - 1 /\ R \in Sizes
      /\ worker[w].at \in 0 .. R - 1 /\ n \in Nat /\ Len(shared[q]) \in Nat
      /\ Len(shared'[q]) \in Nat
  <2>1. shared[q] \in Seq(1 .. MaxEvents) /\ shared'[q] \in Seq(1 .. MaxEvents)
    BY <1>0, <1>3 DEF Stage2Types
  <2> QED BY <1>0, <2>1, Held, LenProperties
<1> HIDE DEF e, n
<1>6. /\ Stage2!Moves(q) # Stage2!Writes(q) /\ Stage2!Moves(q) # Stage2!AfterQueue(q)
      /\ Stage2!Moves(q) \in Idle /\ Stage2!AfterQueue(q) \in Idle
      /\ Stage2!Writes(q) \in {"write_high", "write_low"}
      /\ \A p \in Stage2!Queues : p # q => /\ Stage2!Writes(q) # Stage2!Moves(p)
                                           /\ Stage2!Writes(q) # Stage2!Writes(p)
                                           /\ Stage2!Moves(q) # Stage2!Moves(p)
  BY DEF Stage2!Moves, Stage2!Writes, Stage2!AfterQueue, Stage2!Queues, Idle
<1>7. MovesFrom(w, q)
  BY <1>1 DEF MovesFrom
<1>8. CASE Stage2!Full(w)
  <2>1. /\ LockInv' /\ worker'[w].at = worker[w].at /\ worker'[w].event = 0
        /\ lock' \in [Stage2!Queues -> 0 .. Threads]
        /\ worker'[w].pc \in {Stage2!AfterQueue(q), Stage2!Moves(q)}
    <3>1. Len(shared'[q]) \in Nat /\ worker[w].left - 1 <= Len(shared'[q])
      BY <1>2, <1>3, <1>5 DEF n
    <3> QED BY <1>0, <1>2, <1>3, <1>7, <1>8, <3>1, DoneKeeps
  <2>2. lost' = lost \cup {e}
    BY <1>2, <1>8
  <2>3. Stage2Types'
    <3>1. \A v \in Crew : worker'[v].at < R
      BY <1>0, <1>2, <2>1 DEF Only, Stage2Types
    <3>2. lost' \in SUBSET (1 .. MaxEvents)
      BY <1>0, <1>2, <2>2 DEF Stage2Types
    <3> QED BY <1>0, <1>1, <1>2, <1>3, <1>4, <2>1, <3>1, <3>2 DEF Stage2Types, Only
  <2>4. is_priority \/ Closing2
    <3> SUFFICES ASSUME ~is_priority, ~Closing2
                 PROVE  FALSE
      OBVIOUS
    <3>1. worker[w].pc = "move_low"
      BY <1>0, <1>1 DEF BatchInv, Stage2!Moves, Stage2!Queues
    <3>2. Filled(R, read_index[w], write_index[w]) + n <= batch_size
      BY <1>0, <3>1 DEF BatchInv, n
    <3>3. Filled(R, read_index[w], write_index[w]) = R - 1
      BY <1>0, <1>8, FullIsFilled
    <3> QED BY <1>0, <1>2, <1>5, <3>2, <3>3, RingOfBatch
  <2>5. BatchInv'
    BY <1>0, <1>1, <2>4 DEF BatchInv, Closing2, Stage2!Closing
  <2>6. ASSUME NoRace
        PROVE  RingInv' /\ OrderInv' /\ PlacesInv'
    <3>1. RingInv /\ OrderInv /\ PlacesInv
      BY <2>6 DEF Stage2Inv
    <3>2. worker[w].pc \in Idle /\ worker'[w].pc \in Idle
      BY <1>1, <1>6, <2>1
    <3>3. /\ RingInv' /\ OrderInv'
          /\ \A v \in Crew : /\ Stage2!Local(v)' = Stage2!Local(v)
                             /\ Stage2!InHand(v)' = Stage2!InHand(v)
      BY <1>0, <1>1, <1>2, <2>1, <3>1, <3>2, QuietRing DEF Only
    <3> PICK a \in 1 .. Last : a = IF q = "high" THEN 1 ELSE 2
      BY PlacesHere
    <3>4. /\ a # Last /\ Last \in 1 .. Last /\ a \in {1, 2}
          /\ Stage2!Parts[a] = Stage2!Range(shared[q])
          /\ Stage2!Parts'[a] = Stage2!Range(shared'[q])
          /\ Stage2!Parts[Last] = lost /\ Stage2!Parts'[Last] = lost'
      BY PlacesHere, PartsAt DEF Stage2!Queues
    <3>5. SamePartsBut(a, Last)
      <4>1. 1 # a => q # "high"
        OBVIOUS
      <4>2. 2 # a => q # "low"
        OBVIOUS
      <4> QED BY <1>1, <1>3, <3>3, <4>1, <4>2 DEF SamePartsBut, Stage2!Queues
    <3>6. e \in Stage2!Range(shared[q])
      <4>1. shared[q] \in Seq(1 .. MaxEvents) /\ 1 \in 1 .. Len(shared[q])
        BY <1>0, <1>2, <1>5 DEF Stage2Types
      <4> QED BY <4>1, LenProperties DEF e, Stage2!Range
    <3>7. PlacesInv'
      BY <1>1, <1>3, <2>2, <3>1, <3>4, <3>5, <3>6, OneMoves
    <3> QED BY <3>3, <3>7
  <2> QED BY <1>1, <1>3, <2>1, <2>3, <2>5, <2>6 DEF Stage2Inv, NoRace
<1>9. CASE ~Stage2!Full(w)
  <2>1. /\ worker'[w].pc = Stage2!Writes(q) /\ worker'[w].left = n
        /\ worker'[w].at = write_index[w] /\ worker'[w].event = e
        /\ lost' = lost /\ lock' = lock
    BY <1>2, <1>9 DEF Becomes
  <2>2. Stage2Types'
    <3>1. worker'[w].at < R
      BY <1>5, <2>1
    <3>2. \A v \in Crew : worker'[v].at < R
      BY <1>0, <1>2, <3>1 DEF Only, Stage2Types
    <3> QED BY <1>0, <1>1, <1>2, <1>3, <1>4, <2>1, <3>2 DEF Stage2Types, Only
  <2>3. LockInv'
    <3> SUFFICES ASSUME NEW v \in Crew, NEW p \in Stage2!Queues, MovesFrom(v, p)'
                 PROVE  /\ lock'[p] = v /\ worker'[v].left > 0
                        /\ worker'[v].pc = Stage2!Moves(p) =>
                             worker'[v].left <= Len(shared'[p])
                        /\ worker'[v].pc = Stage2!Writes(p) =>
                             worker'[v].left - 1 <= Len(shared'[p])
      BY DEF LockInv
    <3>1. CASE v # w
      <4>1. MovesFrom(v, p) /\ worker'[v] = worker[v]
        BY <1>2, <3>1 DEF Only, MovesFrom
      <4>2. lock[p] = v
        BY <1>0, <4>1 DEF LockInv
      <4>3. p # q
        BY <1>2, <3>1, <4>2
      <4> QED BY <1>0, <1>3, <2>1, <4>1, <4>2, <4>3 DEF LockInv
    <3>2. CASE v = w
      <4>1. p = q
        BY <1>6, <2>1, <3>2 DEF MovesFrom
      <4> QED BY <1>2, <1>3, <1>5, <1>6, <2>1, <3>2, <4>1
    <3> QED BY <3>1, <3>2
  <2>4. BatchInv'
    <3> SUFFICES ASSUME ~is_priority, ~Closing2, NEW v \in Crew
                 PROVE  /\ worker'[v].pc \notin {"high", "move_high", "write_high"}
                        /\ worker'[v].pc = "low" => read_index[v] = write_index[v]
                        /\ worker'[v].pc \in {"move_low", "write_low"} =>
                             Filled(R, read_index[v],
                               write_index[v]) + worker'[v].left
                               <= batch_size
      BY <1>0, <1>1, <1>4, <2>1 DEF BatchInv, Closing2, Stage2!Closing
    <3>1. CASE v # w
      BY <1>0, <1>2, <3>1 DEF BatchInv, Only
    <3>2. CASE v = w
      <4>1. q = "low" /\ worker[w].pc = "move_low"
        BY <1>0, <1>1 DEF BatchInv, Stage2!Moves, Stage2!Queues
      <4>2. worker'[w].pc = "write_low" /\ worker'[w].left = worker[w].left
        BY <2>1, <4>1 DEF Stage2!Writes, n
      <4> QED BY <1>0, <3>2, <4>1, <4>2 DEF BatchInv
    <3> QED BY <3>1, <3>2
  <2>5. ASSUME NoRace
        PROVE  RingInv' /\ OrderInv' /\ PlacesInv'
    <3>1. RingInv /\ OrderInv /\ PlacesInv
      BY <2>5 DEF Stage2Inv
    <3>2. \A v \in Crew : v # w => Alike(v)
      BY <1>1, <1>2 DEF Alike, Only
    <3>3. Ring(w)' = Ring(w) /\ Stage2!Full(w)' = Stage2!Full(w)
      BY <1>1, <1>4 DEF Ring, Stage2!Full, Stage2!After, Stage2!RingSize
    <3>4. ThreadRing(w) /\ worker[w].pc \in Idle /\ worker[w].event = 0
      BY <1>1, <1>6, <3>1, RingInvIs DEF ThreadRing, Idle
    <3>5. /\ ~Writing(w) /\ Writing(w)'
          /\ worker'[w].pc \notin Idle \cup {"ended", "handle"}
      BY <1>6, <2>1, <3>4 DEF Writing, Idle
    <3>6. ThreadRing(w)'
      <4>1. Ring(w)' \in Seq(1 .. pushed' \cup {Quit2})
        BY <1>1, <3>3, <3>4 DEF ThreadRing
      <4>2. stage2_handled'[w] \in Seq(1 .. pushed')
        BY <1>1, <3>4 DEF ThreadRing
      <4>3. /\ worker'[w].event \in 1 .. pushed'
            /\ worker'[w].at = write_index'[w] /\ ~Stage2!Full(w)'
        BY <1>1, <1>3, <1>9, <2>1, <3>3
      <4> QED BY <4>1, <4>2, <4>3, <3>5 DEF ThreadRing, Idle
    <3>7. /\ stage2_handled[w] \in Seq(Live) /\ Ring(w) \in Seq(Live)
          /\ Taken(w) \in Seq(Live)
          /\ (stage2_handled[w] \o InHands(w)) \o Ring(w) \in Seq(Live)
          /\ Live \subseteq Int
      BY <1>0, <3>1, TakenSeq
    <3>8. Taken(w)' = Taken(w) \o << e >>
      <4>1. /\ InHands(w) = << >> /\ InHands(w)' = << >> /\ Coming(w) = << >>
            /\ Coming(w)' = << e >>
        BY <2>1, <3>4, <3>5 DEF InHands, Coming, Idle
      <4>2. Taken(w) = (stage2_handled[w] \o InHands(w)) \o Ring(w)
        BY <3>7, <4>1, ConcatEmptySeq DEF Taken
      <4>3. Taken(w)' = ((stage2_handled[w] \o InHands(w)) \o Ring(w)) \o << e >>
        BY <1>1, <3>3, <4>1 DEF Taken
      <4> QED BY <4>2, <4>3
    <3>9. Ascends(Taken(w) \o << e >>, urgent)
      <4>1. ASSUME NEW i \in 1 .. Len(Taken(w)), Taken(w)[i] # Quit2,
                   Taken(w)[i] \in urgent <=> e \in urgent
            PROVE  Taken(w)[i] < e
        <5>1. Belongs(Taken(w)[i], q)
          BY <1>3, <4>1 DEF Belongs
        <5> QED BY <1>0, <1>2, <3>1, <4>1, <5>1, TakenBefore DEF e
      <4>2. e \in Live /\ Ascends(Taken(w), urgent)
        BY <1>3, <3>1 DEF Live, OrderInv
      <4> QED BY <3>7, <4>1, <4>2, AscendsMore
    <3>10. RingInv' /\ OrderInv'
      <4>1. closer \in CloserRecords /\ Ascends(Taken(w)', urgent)
        BY <1>0, <3>8, <3>9 DEF Stage2Types
      <4>2. closer.pc = "push" /\ closer.w = w =>
              write_index'[w] = write_index[w] /\ ~Stage2!Full(w)'
        BY <1>1, <1>9, <3>3
      <4> QED BY <1>1, <3>1, <3>2, <3>6, <4>1, <4>2, OneThread
    <3>11. PlacesInv'
      <4>1. \A v \in Crew : Stage2!Local(v)' = Stage2!Local(v)
        BY <1>1 DEF Stage2!Local, Stage2!Size, Stage2!RingSize
      <4>2. \A v \in Crew : v # w => Stage2!InHand(v)' = Stage2!InHand(v)
        BY <1>1, <3>2, OtherThreads
      <4>3. e # 0 /\ e # Quit2
        BY <1>0, <1>3, QuitApart
      <4>4. Stage2!InHand(w) = {} /\ Stage2!InHand(w)' = {e}
        BY <2>1, <3>4, <3>5, <4>3 DEF Stage2!InHand, Stage2!Nothing, Quit2
      <4> PICK a \in 1 .. Last : a = IF q = "high" THEN 1 ELSE 2
        BY PlacesHere
      <4> PICK b \in 1 .. Last : b = HandAt(w)
        BY PlacesHere
      <4>5. /\ a # b /\ a \in {1, 2}
            /\ Stage2!Parts[a] = Stage2!Range(shared[q])
            /\ Stage2!Parts'[a] = Stage2!Range(shared'[q])
            /\ Stage2!Parts[b] = Stage2!InHand(w)
            /\ Stage2!Parts'[b] = Stage2!InHand(w)'
        BY PlacesHere, PartsAt DEF Stage2!Queues
      <4>6. SamePartsBut(a, b)
        <5>1. (1 # a => q # "high") /\ (2 # a => q # "low")
          OBVIOUS
        <5>2. \A v \in Crew : HandAt(v) # b => v # w
          OBVIOUS
        <5> QED BY <1>1, <1>3, <2>1, <4>1, <4>2, <5>1, <5>2
                   DEF SamePartsBut, Stage2!Queues
      <4>7. e \in Stage2!Range(shared[q])
        <5>1. shared[q] \in Seq(1 .. MaxEvents) /\ 1 \in 1 .. Len(shared[q])
          BY <1>0, <1>2, <1>5 DEF Stage2Types
        <5> QED BY <5>1, LenProperties DEF e, Stage2!Range
      <4>8. /\ \A x : x \in Stage2!Parts'[a] <=> x \in Stage2!Parts[a] /\ x # e
            /\ \A x : x \in Stage2!Parts'[b] <=> x \in Stage2!Parts[b] \/ x = e
            /\ e \in Stage2!Parts[a] /\ pushed' = pushed
        BY <1>1, <1>3, <4>4, <4>5, <4>7
      <4> QED BY <3>1, <4>5, <4>6, <4>8, OneMoves
    <3> QED BY <3>10, <3>11
  <2> QED BY <1>1, <1>3, <2>2, <2>3, <2>4, <2>5 DEF Stage2Inv, NoRace
<1> QED BY <1>8, <1>9

LEMMA WriteKeeps ==
  ASSUME Stage2Inv, NEW w \in Crew, NEW q \in Stage2!Queues, Stage2!Write(w, q)
  PROVE  Stage2Inv'
<1> DEFINE e == worker[w].event
           i == worker[w].at
<1>0. Stage2Types /\ LockInv /\ SharedInv /\ BatchInv
  BY DEF Stage2Inv
<1>1. /\ UNCHANGED <<is_priority, batch_size, shared, pushed, read_index,
                     closer, stage2_handled, urgent, lost>>
      /\ worker[w].pc = Stage2!Writes(q) /\ Stage2!Done(w, q)
      /\ excuse' = IF closer.pc = "push" /\ closer.w = w THEN excuse \cup {"race"}
                   ELSE excuse
  BY DEF Stage2!Write, Stage2!config
<1>2. /\ read_index[w] \in 0 .. R - 1 /\ write_index[w] \in 0 .. R - 1 /\ R \in Sizes
      /\ i \in 0 .. R - 1 /\ i \in 0 .. R - 1 /\ e \in Marks /\ worker[w].left \in Nat
      /\ slots[w] \in [0 .. R - 1 -> Marks]
  BY <1>0, Held
<1>3. /\ slots' \in [Crew -> [0 .. R - 1 -> Marks]]
      /\ slots'[w] = [slots[w] EXCEPT ![i] = e]
      /\ \A v \in Crew : v # w => slots'[v] = slots[v]
  <2>1. slots' = [slots EXCEPT ![w] = [slots[w] EXCEPT ![i] = e]]
    BY DEF Stage2!Write
  <2>2. slots \in [Crew -> [0 .. R - 1 -> Marks]]
    BY <1>0 DEF Stage2Types
  <2>3. [slots[w] EXCEPT ![i] = e] \in [0 .. R - 1 -> Marks]
    BY <1>2
  <2> QED BY <2>1, <2>2, <2>3, UpdatedAt
<1>4. /\ write_index' \in [Crew -> 0 .. R - 1] /\ write_index'[w] = Stage2!After(i)
      /\ \A v \in Crew : v # w => write_index'[v] = write_index[v]
  <2>1. write_index' = [write_index EXCEPT ![w] = Stage2!After(i)]
    BY DEF Stage2!Write
  <2>2. Stage2!After(i) \in 0 .. R - 1
    BY <1>2, Next2 DEF Stage2!After, R
  <2>3. write_index \in [Crew -> 0 .. R - 1]
    BY <1>0 DEF Stage2Types
  <2> QED BY <2>1, <2>2, <2>3, UpdatedAt
<1>5. R' = R
  BY <1>1 DEF R, Stage2!RingSize
<1>6. MovesFrom(w, q)
  BY <1>1 DEF MovesFrom
<1>7. /\ LockInv' /\ Only(w) /\ worker'[w].at = i
      /\ lock' \in [Stage2!Queues -> 0 .. Threads] /\ worker'[w].event = 0
      /\ worker'[w].pc \in {Stage2!AfterQueue(q), Stage2!Moves(q)}
      /\ worker'[w].pc = Stage2!Moves(q) => worker'[w].left = worker[w].left - 1
  <2>1. shared[q] \in Seq(1 .. MaxEvents) /\ shared' = shared
    BY <1>0, <1>1 DEF Stage2Types
  <2>2. Len(shared[q]) \in Nat /\ worker[w].left - 1 <= Len(shared[q])
    BY <1>0, <1>1, <1>6, <2>1, LenProperties DEF LockInv
  <2> QED BY <1>0, <1>1, <1>6, <2>1, <2>2, DoneKeeps
<1> HIDE DEF e, i
<1>8. Stage2Types'
  <2>0. worker'[w].at < R
    BY <1>2, <1>7
  <2>1. \A v \in Crew : worker'[v].at < R
    BY <1>0, <1>7, <2>0 DEF Only, Stage2Types
  <2>2. excuse' \in SUBSET {"race", "full"}
    BY <1>0, <1>1 DEF Stage2Types
  <2> QED BY <1>0, <1>1, <1>3, <1>4, <1>5, <1>7, <2>1, <2>2 DEF Stage2Types, Only
<1>9. SharedInv'
  BY <1>0, <1>1, SharedInvFrame
<1>10. NoRace' => NoRace /\ ~(closer.pc = "push" /\ closer.w = w)
  BY <1>1 DEF NoRace
<1>11. NoRace => /\ RingInv /\ OrderInv /\ PlacesInv /\ ThreadRing(w) /\ Writing(w)
                 /\ i = write_index[w] /\ ~Stage2!Full(w) /\ e \in 1 .. pushed
                 /\ (closer.pc = "push" => CloserRing)
  <2> SUFFICES ASSUME NoRace
               PROVE  /\ RingInv /\ OrderInv /\ PlacesInv /\ ThreadRing(w)
                      /\ Writing(w)
                      /\ i = write_index[w] /\ ~Stage2!Full(w) /\ e \in 1 .. pushed
                      /\ (closer.pc = "push" => CloserRing)
    OBVIOUS
  <2>1. RingInv /\ OrderInv /\ PlacesInv /\ ThreadRing(w) /\ CloserRing
    BY RingInvIs DEF Stage2Inv
  <2>2. Writing(w)
    BY <1>1 DEF Writing, Stage2!Writes
  <2> QED BY <2>1, <2>2 DEF ThreadRing, i, e
<1>12. BatchInv'
  <2>1. ~Closing2' => "race" \notin excuse'
    BY <1>0, <1>1 DEF BatchInv, Closing2, Stage2!Closing
  <2>2. ASSUME ~is_priority, ~Closing2, NEW v \in Crew
        PROVE  /\ worker'[v].pc \notin {"high", "move_high", "write_high"}
               /\ worker'[v].pc = "low" => read_index[v] = write_index'[v]
               /\ worker'[v].pc \in {"move_low", "write_low"} =>
                    Filled(R, read_index[v], write_index'[v]) + worker'[v].left
                      <= batch_size
    <3>1. CASE v # w
      BY <1>0, <1>4, <1>7, <2>2, <3>1 DEF BatchInv, Only
    <3>2. CASE v = w
      <4>1. q = "low" /\ worker[w].pc = "write_low"
        BY <1>0, <1>1, <2>2 DEF BatchInv, Stage2!Writes, Stage2!Queues
      <4>2. Filled(R, read_index[w], write_index[w]) + worker[w].left <= batch_size
        BY <1>0, <2>2, <4>1 DEF BatchInv
      <4>3. NoRace
        BY <1>0, <2>2 DEF BatchInv, NoRace
      <4>4. write_index'[w] = Stage2!After(write_index[w]) /\ ~Stage2!Full(w)
        BY <1>4, <1>11, <4>3
      <4>5. /\ Filled(R, read_index[w], write_index[w]) \in Nat
            /\ Filled(R, read_index[w], write_index'[w])
                 = Filled(R, read_index[w], write_index[w]) + 1
        BY <1>0, <4>4, FullIsFilled
      <4>6. worker'[w].pc \in {"pop", "move_low"}
        BY <1>7, <4>1 DEF Stage2!AfterQueue, Stage2!Moves
      <4>7. worker'[w].pc = "move_low" => worker'[w].left = worker[w].left - 1
        BY <1>7, <4>1 DEF Stage2!Moves
      <4>8. batch_size \in Nat
        BY <1>0, RingSizes DEF Stage2Types
      <4>9. worker'[w].pc = "move_low" =>
              Filled(R, read_index[w], write_index'[w]) + worker'[w].left <= batch_size
        BY <1>2, <4>2, <4>5, <4>7, <4>8
      <4> QED BY <3>2, <4>6, <4>9
    <3> QED BY <3>1, <3>2
  <2>3. Closing2' = Closing2
    BY <1>1 DEF Closing2, Stage2!Closing
  <2> QED BY <1>0, <1>1, <1>5, <2>1, <2>2, <2>3 DEF BatchInv
<1> SUFFICES ASSUME NoRace, ~(closer.pc = "push" /\ closer.w = w)
             PROVE  RingInv' /\ OrderInv' /\ PlacesInv'
  BY <1>7, <1>8, <1>9, <1>10, <1>12 DEF Stage2Inv
<1>13. \A v \in Crew : v # w => Alike(v)
  BY <1>1, <1>3, <1>4, <1>7 DEF Alike, Only
<1>14. Ring(w)' = Put(Ring(w), e)
  <2>1. /\ read_index'[w] = read_index[w]
        /\ write_index'[w] = Stage2!After(write_index[w])
        /\ slots'[w] = [slots[w] EXCEPT ![write_index[w]] = e]
    BY <1>1, <1>3, <1>4, <1>11
  <2> QED BY <1>0, <1>1, <1>2, <1>11, <2>1, RingPushed
<1>15. /\ stage2_handled[w] \in Seq(Live) /\ Ring(w) \in Seq(Live)
       /\ stage2_handled[w] \o InHands(w) \in Seq(Live) /\ e \in Live
  BY <1>0, <1>11, TakenSeq DEF Live
<1>16. Ring(w)' = Ring(w) \o << e >> /\ Ring(w)' \in Seq(Live)
  <2>1. Ring(w)' = Ring(w) \o << e >>
    BY <1>14 DEF Put
  <2>2. ASSUME NEW a \in Seq(Live), NEW x \in Live
        PROVE  a \o << x >> \in Seq(Live)
    OBVIOUS
  <2> QED BY <1>15, <2>1, <2>2
<1>17. worker'[w].pc \in Idle /\ ~Writing(w)'
  BY <1>7 DEF Stage2!AfterQueue, Stage2!Moves, Idle, Writing
<1>18. ThreadRing(w)'
  <2>1. Ring(w)' \in Seq(1 .. pushed' \cup {Quit2})
    BY <1>1, <1>16 DEF Live
  <2>2. stage2_handled'[w] \in Seq(1 .. pushed')
    BY <1>1, <1>11 DEF ThreadRing
  <2> QED BY <1>7, <1>17, <2>1, <2>2 DEF ThreadRing, Idle
<1>19. Taken(w)' = Taken(w)
  <2>1. /\ InHands(w) = << >> /\ InHands(w)' = << >>
        /\ Coming(w) = << e >> /\ Coming(w)' = << >>
    BY <1>11, <1>17 DEF InHands, Coming, Writing, Idle, e
  <2> DEFINE a == stage2_handled[w] \o InHands(w)
  <2>2. Taken(w) = (a \o Ring(w)) \o << e >>
    BY <2>1 DEF Taken
  <2>3. Taken(w)' = (a \o (Ring(w) \o << e >>)) \o << >>
    BY <1>1, <1>16, <2>1 DEF Taken
  <2>4. ASSUME NEW b \in Seq(Live), NEW r \in Seq(Live), NEW x \in Live
        PROVE  (b \o r) \o << x >> = (b \o (r \o << x >>)) \o << >>
    BY TakenByWrite
  <2>5. (a \o Ring(w)) \o << e >> = (a \o (Ring(w) \o << e >>)) \o << >>
    BY <1>15, <2>4
  <2> QED BY <2>2, <2>3, <2>5
<1>20. RingInv' /\ OrderInv'
  <2>1. Ascends(Taken(w)', urgent) /\ closer \in CloserRecords
    BY <1>0, <1>11, <1>19 DEF OrderInv, Stage2Types
  <2> QED BY <1>1, <1>11, <1>13, <1>18, <2>1, OneThread
<1>21. PlacesInv'
  <2>1. /\ Stage2!Local(w) = Elements(Ring(w)) \ {Quit2}
        /\ Stage2!Local(w)' = Elements(Ring(w)') \ {Quit2}
    BY <1>0, <1>8, LocalIsRing
  <2>2. \A x : x \in Elements(Ring(w)') <=> x \in Elements(Ring(w)) \/ x = e
    BY <1>15, <1>16, LiveElements, ZenonT(40)
  <2>3. e # 0 /\ e # Quit2
    BY <1>0, <1>11, QuitApart
  <2>4. Stage2!InHand(w) = {e} /\ Stage2!InHand(w)' = {}
    BY <1>7, <1>11, <2>3 DEF Stage2!InHand, Stage2!Nothing, Quit2, Writing, e
  <2>5. \A v \in Crew : v # w => /\ Stage2!Local(v)' = Stage2!Local(v)
                                 /\ Stage2!InHand(v)' = Stage2!InHand(v)
    BY <1>1, <1>13, OtherThreads
  <2> PICK a \in 1 .. Last : a = HandAt(w)
    BY PlacesHere
  <2> PICK b \in 1 .. Last : b = LocalAt(w)
    BY PlacesHere
  <2>6. /\ a # b
        /\ Stage2!Parts[a] = Stage2!InHand(w) /\ Stage2!Parts'[a] = Stage2!InHand(w)'
        /\ Stage2!Parts[b] = Stage2!Local(w) /\ Stage2!Parts'[b] = Stage2!Local(w)'
    BY PlacesHere, PartsAt
  <2>7. SamePartsBut(a, b)
    <3>1. \A v \in Crew : /\ HandAt(v) # a => v # w
                          /\ LocalAt(v) # b => v # w
      OBVIOUS
    <3> QED BY <1>1, <2>5, <3>1 DEF SamePartsBut
  <2>8. /\ \A x : x \in Stage2!Parts'[a] <=> x \in Stage2!Parts[a] /\ x # e
        /\ \A x : x \in Stage2!Parts'[b] <=> x \in Stage2!Parts[b] \/ x = e
        /\ e \in Stage2!Parts[a] /\ pushed' = pushed
    BY <1>1, <2>1, <2>2, <2>3, <2>4, <2>6
  <2> QED BY <1>11, <2>6, <2>7, <2>8, OneMoves
<1> QED BY <1>20, <1>21

-----------------------------------------------------------------------------
(* A push puts the next event behind those of its priority.                *)
LEMMA PushKeeps ==
  ASSUME Stage2Inv, NEW priority \in Stage2!Queues, Stage2!Push(priority)
  PROVE  Stage2Inv'
<1> PICK q \in Stage2!Queues :
         q = IF is_priority /\ priority = "high" THEN "high" ELSE "low"
  BY DEF Stage2!Queues
<1> DEFINE e == pushed + 1
           Now(x, p) == x \in urgent' <=> p = "high"
<1>0. Stage2Types /\ LockInv /\ SharedInv /\ BatchInv
  BY DEF Stage2Inv
<1>1. /\ UNCHANGED <<is_priority, batch_size, lock, slots, read_index,
           write_index, worker,
                     closer, stage2_handled, lost, excuse>>
      /\ pushed < MaxEvents /\ Len(shared[q]) < QueueSize - 1 /\ pushed' = e
      /\ shared' = [shared EXCEPT ![q] = Append(shared[q], e)]
      /\ urgent' = IF q = "high" THEN urgent \cup {e} ELSE urgent
  BY DEF Stage2!Push, Stage2!config, Stage2!rings
<1>2. /\ pushed \in Nat /\ MaxEvents \in Nat /\ QueueSize \in Nat
      /\ e \in 1 .. MaxEvents
      /\ e \notin 1 .. pushed /\ 1 .. pushed' = 1 .. pushed \cup {e}
  BY <1>0, <1>1, StagesAssumption, SMTT(60) DEF Stage2Types, Stage2!Stage2Assumption
<1>3. /\ shared[q] \in Seq(1 .. MaxEvents) /\ Len(shared[q]) \in Nat
      /\ shared \in [Stage2!Queues -> Seq(1 .. MaxEvents)]
  BY <1>0, LenProperties DEF Stage2Types
<1>4. /\ Append(shared[q], e) \in Seq(1 .. MaxEvents)
      /\ Len(Append(shared[q], e)) = Len(shared[q]) + 1
      /\ \A i \in 1 .. Len(shared[q]) : Append(shared[q], e)[i] = shared[q][i]
      /\ Append(shared[q], e)[Len(shared[q]) + 1] = e
  BY <1>2, <1>3, AppendProperties
<1> DEFINE s == shared[q]
           t == Append(shared[q], e)
<1>5. /\ shared' \in [Stage2!Queues -> Seq(1 .. MaxEvents)] /\ shared'[q] = t
      /\ \A p \in Stage2!Queues : p # q => shared'[p] = shared[p]
  <2> PICK x \in Seq(1 .. MaxEvents) : x = t
    BY <1>4
  <2>1. shared' = [shared EXCEPT ![q] = x]
    BY <1>1
  <2> HIDE DEF t
  <2> QED BY <1>3, <2>1, UpdatedAt
<1>6. R' = R
  BY <1>1 DEF R, Stage2!RingSize
<1>7. urgent \in SUBSET (1 .. pushed)
  BY <1>0 DEF Stage2Types
<1>8. /\ \A x, p : x # e => (Now(x, p) <=> Belongs(x, p))
      /\ Now(e, q) /\ \A p \in Stage2!Queues : p # q => ~Now(e, p)
      /\ urgent' \in SUBSET (1 .. pushed')
  <2>1. e \notin urgent
    BY <1>2, <1>7
  <2>2. \A x, p : x # e => (Now(x, p) <=> Belongs(x, p))
    BY <1>1 DEF Belongs
  <2>3. Now(e, q)
    BY <1>1, <2>1 DEF Stage2!Queues
  <2>4. \A p \in Stage2!Queues : p # q => ~Now(e, p)
    BY <2>3 DEF Stage2!Queues
  <2>5. urgent' \in SUBSET (1 .. pushed')
    BY <1>1, <1>2, <1>7
  <2> QED BY <2>2, <2>3, <2>4, <2>5
<1> HIDE DEF s, t, e, Now
<1>9. Stage2Types'
  <2>1. \A p \in Stage2!Queues : Len(shared'[p]) < QueueSize
    <3>1. Len(shared'[q]) < QueueSize
      BY <1>1, <1>2, <1>3, <1>4, <1>5 DEF t
    <3> QED BY <1>0, <1>5, <3>1 DEF Stage2Types
  <2>2. pushed' \in 0 .. MaxEvents
    BY <1>1, <1>2
  <2> QED BY <1>0, <1>1, <1>5, <1>6, <1>8, <2>1, <2>2 DEF Stage2Types
<1>10. LockInv'
  <2>1. \A p \in Stage2!Queues : /\ Len(shared[p]) \in Nat /\ Len(shared'[p]) \in Nat
                                 /\ Len(shared[p]) <= Len(shared'[p])
    <3>1. ASSUME NEW p \in Stage2!Queues, p # q
          PROVE  shared'[p] = shared[p] /\ Len(shared[p]) \in Nat
      BY <1>3, <1>5, <3>1, LenProperties
    <3>2. Len(shared[q]) <= Len(shared'[q]) /\ Len(shared'[q]) \in Nat
      BY <1>3, <1>4, <1>5 DEF t
    <3> QED BY <1>3, <3>1, <3>2
  <2>2. \A v \in Crew : worker[v].left \in Nat
    BY <1>0, Held
  <2>3. \A v \in Crew, p \in Stage2!Queues : MovesFrom(v, p)' <=> MovesFrom(v, p)
    BY <1>1 DEF MovesFrom
  <2> SUFFICES ASSUME NEW v \in Crew, NEW p \in Stage2!Queues, MovesFrom(v, p)
               PROVE  /\ lock[p] = v /\ worker[v].left > 0
                      /\ worker[v].pc = Stage2!Moves(p) =>
                           worker[v].left <= Len(shared'[p])
                      /\ worker[v].pc = Stage2!Writes(p) =>
                           worker[v].left - 1 <= Len(shared'[p])
    BY <1>1, <2>3 DEF LockInv
  <2>4. /\ lock[p] = v /\ worker[v].left > 0
        /\ worker[v].pc = Stage2!Moves(p) => worker[v].left <= Len(shared[p])
        /\ worker[v].pc = Stage2!Writes(p) => worker[v].left - 1 <= Len(shared[p])
    BY <1>0 DEF LockInv
  <2> QED BY <2>1, <2>2, <2>4
<1>11. SharedInv'
  <2>1. /\ \A i \in 1 .. Len(s) : s[i] \in 1 .. pushed /\ Belongs(s[i], q)
        /\ \A i, j \in 1 .. Len(s) : i < j => s[i] < s[j]
        /\ s # << >> => \A x \in 1 .. pushed : Belongs(x, q) /\ x >= s[1] =>
                          \E i \in 1 .. Len(s) : s[i] = x
    BY <1>0 DEF SharedInv, s
  <2>2. /\ t \in Seq(1 .. MaxEvents) /\ Len(t) = Len(s) + 1 /\ Len(s) \in Nat
        /\ t[Len(s) + 1] = e /\ \A i \in 1 .. Len(s) : t[i] = s[i]
    BY <1>3, <1>4 DEF s, t
  <2>3. ASSUME NEW i \in 1 .. Len(t)
        PROVE  t[i] \in 1 .. pushed' /\ Now(t[i], q)
    <3>1. CASE i = Len(s) + 1
      BY <1>2, <1>8, <2>2, <3>1
    <3>2. CASE i # Len(s) + 1
      <4>1. i \in 1 .. Len(s) /\ t[i] = s[i]
        BY <2>2, <3>2
      <4>2. s[i] \in 1 .. pushed /\ Belongs(s[i], q)
        BY <2>1, <4>1
      <4>3. s[i] # e /\ s[i] \in 1 .. pushed'
        BY <1>2, <4>2
      <4> QED BY <1>8, <4>1, <4>2, <4>3
    <3> QED BY <3>1, <3>2
  <2>4. \A i, j \in 1 .. Len(t) : i < j => t[i] < t[j]
    <3> SUFFICES ASSUME NEW i \in 1 .. Len(t), NEW j \in 1 .. Len(t), i < j
                 PROVE  t[i] < t[j]
      OBVIOUS
    <3>1. i \in 1 .. Len(s) /\ t[i] = s[i] /\ s[i] < e
      BY <1>2, <2>1, <2>2, SMTT(60) DEF e
    <3>2. CASE j = Len(s) + 1
      BY <2>2, <3>1, <3>2
    <3>3. CASE j # Len(s) + 1
      BY <2>1, <2>2, <3>1, <3>3, SMTT(60)
    <3> QED BY <3>2, <3>3
  <2>5. ASSUME NEW x \in 1 .. pushed', Now(x, q), x >= t[1]
        PROVE  \E i \in 1 .. Len(t) : t[i] = x
    <3>1. CASE x = e
      BY <2>2, <3>1
    <3>2. CASE x # e
      <4>1. x \in 1 .. pushed /\ Belongs(x, q)
        BY <1>2, <1>8, <2>5, <3>2
      <4>2. s # << >>
        <5> SUFFICES ASSUME Len(s) = 0
                     PROVE  FALSE
          BY <1>3, EmptySeq DEF s
        <5>1. t[1] = e
          BY <2>2
        <5> QED BY <1>2, <2>5, <4>1, <5>1 DEF e
      <4>3. Len(s) \in Nat \ {0}
        BY <1>3, <4>2, TailIs DEF s
      <4>4. t[1] = s[1] /\ s[1] \in 1 .. pushed
        BY <2>1, <2>2, <4>3
      <4>5. PICK k \in 1 .. Len(s) : s[k] = x
        BY <2>1, <2>5, <4>1, <4>2, <4>4
      <4>6. k \in 1 .. Len(t) /\ t[k] = x
        BY <2>2, <4>5
      <4> QED BY <4>6
    <3> QED BY <3>1, <3>2
  <2>6. ASSUME NEW p \in Stage2!Queues
        PROVE  /\ \A i \in 1 .. Len(shared'[p]) :
                    shared'[p][i] \in 1 .. pushed' /\ Now(shared'[p][i], p)
               /\ \A i, j \in 1 .. Len(shared'[p]) :
                    i < j => shared'[p][i] < shared'[p][j]
               /\ shared'[p] # << >> =>
                    \A x \in 1 .. pushed' : Now(x, p) /\ x >= shared'[p][1] =>
                      \E i \in 1 .. Len(shared'[p]) : shared'[p][i] = x
    <3>1. CASE p = q
      BY <1>5, <2>3, <2>4, <2>5, <3>1
    <3>2. CASE p # q
      <4>1. shared'[p] = shared[p]
        BY <1>5, <3>2
      <4>2. /\ \A i \in 1 .. Len(shared[p]) :
                 shared[p][i] \in 1 .. pushed /\ Belongs(shared[p][i], p)
            /\ \A i, j \in 1 .. Len(shared[p]) : i < j => shared[p][i] < shared[p][j]
            /\ shared[p] # << >> =>
                 \A x \in 1 .. pushed : Belongs(x, p) /\ x >= shared[p][1] =>
                   \E i \in 1 .. Len(shared[p]) : shared[p][i] = x
        BY <1>0 DEF SharedInv
      <4>3. \A x \in 1 .. pushed : x # e
        BY <1>2
      <4>4. \A x \in 1 .. pushed' : Now(x, p) => x \in 1 .. pushed /\ Belongs(x, p)
        BY <1>2, <1>8, <3>2
      <4>5. \A i \in 1 .. Len(shared[p]) :
              shared[p][i] \in 1 .. pushed' /\ Now(shared[p][i], p)
        BY <1>2, <1>8, <4>2, <4>3
      <4> QED BY <4>1, <4>2, <4>4, <4>5
    <3> QED BY <3>1, <3>2
  <2>7. \A x, p : Belongs(x, p)' <=> Now(x, p)
    BY DEF Belongs, Now
  <2> QED BY <2>6, <2>7 DEF SharedInv
<1>12. BatchInv'
  BY <1>0, <1>1, <1>6 DEF BatchInv, Closing2, Stage2!Closing
<1> SUFFICES ASSUME NoRace
             PROVE  RingInv' /\ OrderInv' /\ PlacesInv'
  BY <1>1, <1>9, <1>10, <1>11, <1>12 DEF Stage2Inv, NoRace
<1>13. RingInv /\ OrderInv /\ PlacesInv
  BY DEF Stage2Inv
<1>14. \A v \in Crew : /\ Ring(v)' = Ring(v) /\ Stage2!Full(v)' = Stage2!Full(v)
                       /\ Taken(v)' = Taken(v) /\ Stage2!Local(v)' = Stage2!Local(v)
                       /\ Stage2!InHand(v)' = Stage2!InHand(v)
                       /\ Stopped(v)' = Stopped(v) /\ Writing(v)' = Writing(v)
  <2> TAKE v \in Crew
  <2>1. Ring(v)' = Ring(v) /\ Stage2!Full(v)' = Stage2!Full(v)
    BY <1>1, <1>6 DEF Ring, Stage2!Full, Stage2!After, Stage2!RingSize
  <2>2. Stopped(v)' = Stopped(v) /\ Writing(v)' = Writing(v)
    BY <1>1 DEF Stopped, Writing
  <2>3. Taken(v)' = Taken(v)
    BY <1>1, <2>1, <2>2 DEF Taken, InHands, Coming
  <2>4. Stage2!Local(v)' = Stage2!Local(v) /\ Stage2!InHand(v)' = Stage2!InHand(v)
    BY <1>1 DEF Stage2!Local, Stage2!Size, Stage2!RingSize, Stage2!InHand
  <2> QED BY <2>1, <2>2, <2>3, <2>4
<1>15. RingInv'
  <2>1. ASSUME NEW v \in Crew
        PROVE  ThreadRing(v)'
    <3>1. ThreadRing(v)
      BY <1>13, RingInvIs
    <3>2. 1 .. pushed \subseteq 1 .. pushed'
      BY <1>2
    <3>3. /\ Ring(v)' \in Seq(1 .. pushed' \cup {Quit2})
          /\ stage2_handled'[v] \in Seq(1 .. pushed')
      <4>1. /\ Ring(v) \in Seq(1 .. pushed \cup {Quit2})
            /\ stage2_handled[v] \in Seq(1 .. pushed)
        BY <3>1 DEF ThreadRing
      <4>2. ASSUME NEW r \in Seq(1 .. pushed \cup {Quit2})
            PROVE  r \in Seq(1 .. pushed' \cup {Quit2})
        BY <3>2
      <4>3. ASSUME NEW S, NEW T, S \subseteq T, NEW r \in Seq(S)
            PROVE  r \in Seq(T)
        BY <4>3
      <4>4. stage2_handled[v] \in Seq(1 .. pushed')
        BY <3>2, <4>1, <4>3, Zenon
      <4> QED BY <1>1, <1>14, <4>1, <4>2, <4>4
    <3> QED BY <1>1, <1>14, <3>1, <3>2, <3>3 DEF ThreadRing
  <2>2. CloserRing'
    <3> SUFFICES ASSUME closer.pc = "push"
                 PROVE  closer.at = write_index[closer.w] /\ ~Stage2!Full(closer.w)'
      BY <1>1 DEF CloserRing
    <3> PICK v \in Crew : v = closer.w
      BY <1>0 DEF Stage2Types, CloserRecords
    <3>1. closer.at = write_index[v] /\ ~Stage2!Full(v)
      BY <1>13, RingInvIs DEF CloserRing
    <3>2. Stage2!Full(closer.w)' = Stage2!Full(v)'
      BY <1>1 DEF Stage2!Full, Stage2!After, Stage2!RingSize
    <3> QED BY <1>14, <3>1, <3>2
  <2> QED BY <2>1, <2>2, RingInvIs
<1>16. OrderInv'
  <2> SUFFICES ASSUME NEW v \in Crew
               PROVE  Ascends(Taken(v)', urgent')
    BY DEF OrderInv
  <2>1. Ascends(Taken(v), urgent) /\ Taken(v) \in Seq(Live)
    BY <1>0, <1>13, TakenSeq DEF OrderInv
  <2>2. \A x \in Live : x # Quit2 => (x \in urgent <=> x \in urgent')
    BY <1>1, <1>2 DEF Live
  <2>3. Ascends(Taken(v), urgent')
    BY <2>1, <2>2, AscendsStill
  <2> QED BY <1>14, <2>3
<1>17. PlacesInv'
  <2> PICK w \in Crew : TRUE
    BY StagesAssumption DEF Crew, Stage2!Workers, Stage2!Stage2Assumption
  <2> PICK b \in 1 .. Last : b = IF q = "high" THEN 1 ELSE 2
    BY PlacesHere
  <2>1. /\ b \in {1, 2} /\ b # Last /\ Stage2!Parts[b] = Stage2!Range(shared[q])
        /\ Stage2!Parts'[b] = Stage2!Range(shared'[q])
    BY PlacesHere, PartsAt DEF Stage2!Queues
  <2>2. SamePartsBut(b, b)
    <3>1. (1 # b => q # "high") /\ (2 # b => q # "low")
      OBVIOUS
    <3> QED BY <1>1, <1>5, <1>14, <3>1 DEF SamePartsBut, Stage2!Queues
  <2>3. \A x : x \in Stage2!Range(shared'[q]) <=>
          x \in Stage2!Range(shared[q]) \/ x = e
    <3>1. ASSUME NEW h \in Seq(1 .. MaxEvents), NEW x \in 1 .. MaxEvents
          PROVE  Append(h, x) = h \o << x >>
      BY AppendConcat
    <3>2. shared'[q] = shared[q] \o << e >>
      BY <1>2, <1>3, <1>5, <3>1 DEF t
    <3>3. \A x : x \in Elements(shared[q] \o << e >>) <=>
            x \in Elements(shared[q]) \/ x = e
      <4> DEFINE S == 1 .. MaxEvents
      <4>1. shared[q] \in Seq(S) /\ e \in S
        BY <1>2, <1>3
      <4> HIDE DEF S
      <4> QED BY <4>1, ElementsSeq, ZenonT(40)
    <3>4. \A h : Stage2!Range(h) = Elements(h)
      BY DEF Stage2!Range, Elements
    <3> QED BY <3>2, <3>3, <3>4
  <2>4. \A x : x \in Stage2!Parts'[b] <=> x \in Stage2!Parts[b] \/ x = pushed + 1
    BY <2>1, <2>3 DEF e
  <2>5. pushed' = pushed + 1 /\ pushed \in Nat
    BY <1>1, <1>2 DEF e
  <2> QED BY <1>13, <2>2, <2>4, <2>5, OneArrives
<1> QED BY <1>15, <1>16, <1>17

-----------------------------------------------------------------------------
(* The closing thread.                                                     *)
LEMMA StopBeginKeeps ==
  ASSUME Stage2Inv, Stage2!StopBegin
  PROVE  Stage2Inv'
<1> PICK w \in Crew : w = closer.w
  BY DEF Stage2Inv, Stage2Types, CloserRecords
<1>0. Stage2Types /\ closer.w = w /\ closer \in CloserRecords
  BY DEF Stage2Inv, Stage2Types
<1>1. /\ UNCHANGED <<is_priority, batch_size, shared, lock, pushed, slots, read_index,
                     write_index, worker, stage2_handled, lost, urgent>>
      /\ closer.pc = "idle"
  BY DEF Stage2!StopBegin, Stage2!config, Stage2!rings
<1>2. /\ closer'.w = w /\ closer'.pc \in {"join", "push"} /\ closer' \in CloserRecords
      /\ closer'.at < R
      /\ Stage2!Full(w) => closer'.pc = "join" /\ excuse' = excuse \cup {"full"}
      /\ ~Stage2!Full(w) => /\ closer'.pc = "push" /\ closer'.at = write_index[w]
                            /\ excuse' = excuse
  <2>1. write_index[w] \in 0 .. R - 1 /\ R \in Sizes /\ closer.at < R
    BY <1>0, Held DEF Stage2Types
  <2>2. CASE Stage2!Full(w)
    BY <1>0, <2>1, <2>2 DEF Stage2!StopBegin, CloserRecords
  <2>3. CASE ~Stage2!Full(w)
    <3>1. /\ closer' = [closer EXCEPT !.pc = "push", !.at = write_index[w]]
          /\ excuse' = excuse
      BY <2>3 DEF Stage2!StopBegin
    <3>2. write_index[w] \in Nat /\ write_index[w] < R
      BY <2>1
    <3> QED BY <1>0, <2>3, <3>1, <3>2 DEF CloserRecords
  <2> QED BY <2>2, <2>3
<1>3. R' = R
  BY <1>1 DEF R, Stage2!RingSize
<1>4. Stage2Types'
  BY <1>0, <1>1, <1>2, <1>3 DEF Stage2Types
<1>5. LockInv' /\ SharedInv'
  BY <1>1, LockInvFrame, SharedInvFrame DEF Stage2Inv
<1>6. BatchInv'
  BY <1>1, <1>2 DEF BatchInv, Closing2, Stage2!Closing
<1>7. NoRace' => NoRace
  BY <1>2 DEF NoRace
<1>8. ASSUME NoRace
      PROVE  RingInv'
  <2>1. RingInv
    BY <1>8 DEF Stage2Inv
  <2>2. \A v \in Crew : Stopped(v) => Stopped(v)'
    BY <1>1, <1>2 DEF Stopped
  <2>3. \A v \in Crew : /\ Ring(v)' = Ring(v) /\ (Writing(v)' <=> Writing(v))
                        /\ (Stage2!Full(v)' <=> Stage2!Full(v))
    BY <1>1, <1>3 DEF Ring, Writing, Stage2!Full, Stage2!After, Stage2!RingSize
  <2>4. (closer.pc = "push" =>
          closer.at = write_index[closer.w] /\ ~Stage2!Full(closer.w))'
    <3>1. ~Stage2!Full(w) => ~Stage2!Full(closer.w)'
      BY <1>1, <1>2, <1>3 DEF Stage2!Full, Stage2!After, Stage2!RingSize
    <3> QED BY <1>1, <1>2, <3>1
  <2> QED BY <1>1, <2>1, <2>2, <2>3, <2>4 DEF RingInv
<1>9. NoRace => OrderInv' /\ PlacesInv'
  BY <1>1, OrderInvFrame, PlacesInvFrame DEF Stage2Inv
<1> QED BY <1>4, <1>5, <1>6, <1>7, <1>8, <1>9 DEF Stage2Inv

LEMMA JoinKeeps ==
  ASSUME Stage2Inv, Stage2!Join
  PROVE  Stage2Inv'
<1> PICK w \in Crew : w = closer.w
  BY DEF Stage2Inv, Stage2Types, CloserRecords
<1>0. Stage2Types /\ closer.w = w /\ closer \in CloserRecords
  BY DEF Stage2Inv, Stage2Types
<1>1. /\ UNCHANGED <<is_priority, batch_size, shared, lock, pushed, slots, read_index,
                     write_index, worker, stage2_handled, lost, urgent, excuse>>
      /\ closer.pc = "join"
  BY DEF Stage2!Join, Stage2!config, Stage2!rings
<1>2. /\ closer' \in CloserRecords /\ closer'.at < R
      /\ \/ closer'.pc = "closed" /\ closer'.w = w
         \/ closer'.pc = "stop" /\ closer'.w = w + 1 /\ w + 1 > 1
  <2>1. closer.at < R /\ R \in Sizes /\ Threads \in Nat
    BY <1>0, Held, StagesAssumption DEF Stage2Types, Stage2!Stage2Assumption
  <2>2. CASE w = Threads
    BY <1>0, <2>1, <2>2 DEF Stage2!Join, CloserRecords
  <2>3. CASE w # Threads
    <3>1. w + 1 \in Crew /\ w + 1 > 1
      BY <1>0, <2>1, <2>3 DEF Crew, Stage2!Workers
    <3> QED BY <1>0, <2>1, <2>3, <3>1 DEF Stage2!Join, CloserRecords
  <2> QED BY <2>2, <2>3
<1>3. R' = R
  BY <1>1 DEF R, Stage2!RingSize
<1>4. Stage2Types'
  BY <1>0, <1>1, <1>2, <1>3 DEF Stage2Types
<1>5. LockInv' /\ SharedInv'
  BY <1>1, LockInvFrame, SharedInvFrame DEF Stage2Inv
<1>6. BatchInv'
  BY <1>1, <1>2 DEF BatchInv, Closing2, Stage2!Closing
<1>7. NoRace' => NoRace
  BY <1>1 DEF NoRace
<1>8. ASSUME NoRace
      PROVE  RingInv'
  <2>1. RingInv
    BY <1>8 DEF Stage2Inv
  <2>2. \A v \in Crew : Stopped(v) => Stopped(v)'
    <3>1. \A v \in Crew : v \in Int
      BY StagesAssumption DEF Crew, Stage2!Workers, Stage2!Stage2Assumption
    <3> QED BY <3>1, <1>0, <1>1, <1>2 DEF Stopped
  <2>3. \A v \in Crew : /\ Ring(v)' = Ring(v) /\ (Writing(v)' <=> Writing(v))
                        /\ (Stage2!Full(v)' <=> Stage2!Full(v))
    BY <1>1, <1>3 DEF Ring, Writing, Stage2!Full, Stage2!After, Stage2!RingSize
  <2> QED BY <1>1, <1>2, <2>1, <2>2, <2>3 DEF RingInv
<1>9. NoRace => OrderInv' /\ PlacesInv'
  BY <1>1, OrderInvFrame, PlacesInvFrame DEF Stage2Inv
<1> QED BY <1>4, <1>5, <1>6, <1>7, <1>8, <1>9 DEF Stage2Inv

LEMMA StopNextKeeps ==
  ASSUME Stage2Inv, Stage2!StopNext
  PROVE  Stage2Inv'
<1> PICK w \in Crew : w = closer.w
  BY DEF Stage2Inv, Stage2Types, CloserRecords
<1>0. Stage2Types /\ closer.w = w /\ closer \in CloserRecords
  BY DEF Stage2Inv, Stage2Types
<1>1. /\ UNCHANGED <<is_priority, batch_size, shared, lock, pushed, slots, read_index,
                     write_index, worker, stage2_handled, lost, urgent, excuse>>
      /\ closer.pc = "stop" /\ closer' = [closer EXCEPT !.pc = "idle"]
  BY DEF Stage2!StopNext, Stage2!config, Stage2!rings
<1>2. /\ closer' \in CloserRecords /\ closer'.at < R /\ closer'.pc = "idle"
      /\ closer'.w = w
  BY <1>0, <1>1 DEF CloserRecords, Stage2Types
<1>3. R' = R
  BY <1>1 DEF R, Stage2!RingSize
<1>4. Stage2Types'
  BY <1>0, <1>1, <1>2, <1>3 DEF Stage2Types
<1>5. LockInv' /\ SharedInv'
  BY <1>1, LockInvFrame, SharedInvFrame DEF Stage2Inv
<1>6. BatchInv'
  <2>1. closer.w > 1
    BY <1>0, <1>1 DEF Stage2Types
  <2> QED BY <1>2, <2>1 DEF BatchInv, Closing2, Stage2!Closing
<1>7. NoRace' => NoRace
  BY <1>1 DEF NoRace
<1>8. ASSUME NoRace
      PROVE  RingInv'
  <2>1. RingInv
    BY <1>8 DEF Stage2Inv
  <2>2. \A v \in Crew : Stopped(v) => Stopped(v)'
    BY <1>0, <1>1, <1>2 DEF Stopped
  <2>3. \A v \in Crew : /\ Ring(v)' = Ring(v) /\ (Writing(v)' <=> Writing(v))
                        /\ (Stage2!Full(v)' <=> Stage2!Full(v))
    BY <1>1, <1>3 DEF Ring, Writing, Stage2!Full, Stage2!After, Stage2!RingSize
  <2> QED BY <1>1, <1>2, <2>1, <2>2, <2>3 DEF RingInv
<1>9. NoRace => OrderInv' /\ PlacesInv'
  BY <1>1, OrderInvFrame, PlacesInvFrame DEF Stage2Inv
<1> QED BY <1>4, <1>5, <1>6, <1>7, <1>8, <1>9 DEF Stage2Inv

(* The quit event goes into a ring that no one else writes to.             *)
LEMMA StopPushKeeps ==
  ASSUME Stage2Inv, Stage2!StopPush
  PROVE  Stage2Inv'
<1>r. R \in Sizes
  BY RingSizes DEF Stage2Inv, Stage2Types
<1> PICK w \in Crew, i \in 0 .. R - 1 : w = closer.w /\ i = closer.at
  BY <1>r DEF Stage2Inv, Stage2Types, CloserRecords
<1>0. /\ Stage2Types /\ closer \in CloserRecords /\ closer.w = w
      /\ closer.at = i /\ i \in 0 .. R - 1
  <2>1. Stage2Types /\ closer \in CloserRecords /\ closer.at < R
    BY DEF Stage2Inv, Stage2Types
  <2> QED BY <2>1 DEF CloserRecords
<1>1. /\ UNCHANGED <<is_priority, batch_size, shared, lock, pushed, read_index,
                     worker, stage2_handled, lost, urgent>>
      /\ closer.pc = "push" /\ closer' = [closer EXCEPT !.pc = "join"]
      /\ excuse' = IF Stage2!Moving(w) THEN excuse \cup {"race"} ELSE excuse
  BY DEF Stage2!StopPush, Stage2!config, Stage2!rings
<1>2. /\ closer' \in CloserRecords /\ closer'.at < R /\ closer'.pc = "join"
      /\ closer'.w = w
  BY <1>0, <1>1 DEF CloserRecords, Stage2Types
<1>3. R' = R
  BY <1>1 DEF R, Stage2!RingSize
<1>a. Quit2 \in Marks /\ MaxEvents \in Nat
  BY StagesAssumption DEF Quit2, Stage2!QuitEvent, Marks, Stage2!Stage2Assumption
<1>b. /\ slots' \in [Crew -> [0 .. R - 1 -> Marks]]
      /\ slots'[w] = [slots[w] EXCEPT ![i] = Quit2]
      /\ \A v \in Crew : v # w => slots'[v] = slots[v]
  <2>1. slots' = [slots EXCEPT ![w] = [slots[w] EXCEPT ![i] = Quit2]]
    BY DEF Stage2!StopPush, Quit2
  <2>2. slots \in [Crew -> [0 .. R - 1 -> Marks]]
    BY <1>0 DEF Stage2Types
  <2>3. [slots[w] EXCEPT ![i] = Quit2] \in [0 .. R - 1 -> Marks]
    BY <2>2, <1>0, <1>a
  <2> QED BY <2>1, <2>2, <2>3, <1>0, UpdatedAt
<1>c. /\ write_index' \in [Crew -> 0 .. R - 1] /\ write_index'[w] = (i + 1) % R
      /\ \A v \in Crew : v # w => write_index'[v] = write_index[v]
  <2>1. write_index' = [write_index EXCEPT ![w] = (i + 1) % R]
    BY DEF Stage2!StopPush, Stage2!After, R
  <2>2. (i + 1) % R \in 0 .. R - 1
    BY <1>r, Next2
  <2>3. write_index \in [Crew -> 0 .. R - 1]
    BY <1>0 DEF Stage2Types
  <2> QED BY <2>1, <2>2, <2>3, <1>0, UpdatedAt
<1>4. Stage2Types'
  <2>1. excuse' \in SUBSET {"race", "full"}
    BY <1>0, <1>1 DEF Stage2Types
  <2> QED BY <1>0, <1>1, <1>2, <1>3, <1>b, <1>c, <2>1 DEF Stage2Types
<1>5. LockInv' /\ SharedInv'
  BY <1>1, LockInvFrame, SharedInvFrame DEF Stage2Inv
<1>6. BatchInv'
  BY <1>2 DEF BatchInv, Closing2, Stage2!Closing
<1>7. NoRace' => NoRace /\ ~Writing(w)
  BY <1>1 DEF NoRace, Stage2!Moving, Writing
<1> SUFFICES ASSUME NoRace, ~Writing(w)
             PROVE  RingInv' /\ OrderInv' /\ PlacesInv'
  BY <1>4, <1>5, <1>6, <1>7 DEF Stage2Inv
<1>8. RingInv /\ OrderInv /\ PlacesInv /\ i = write_index[w] /\ ~Stage2!Full(w)
  BY <1>1 DEF Stage2Inv, RingInv
<1>d. \A v \in Crew : Ring(v) \in Seq(1 .. pushed \cup {Quit2})
  BY <1>8 DEF RingInv
<1>e. /\ Ring(w)' = Ring(w) \o << Quit2 >>
      /\ \A v \in Crew : v # w => Ring(v)' = Ring(v)
  <2>1. Ring(w)' = Put(Ring(w), Quit2)
    <3>1. /\ read_index'[w] = read_index[w]
          /\ write_index'[w] = Stage2!After(write_index[w])
          /\ slots'[w] = [slots[w] EXCEPT ![write_index[w]] = Quit2]
      BY <1>1, <1>8, <1>b, <1>c DEF Stage2!After, R
    <3> QED BY <3>1, <1>0, <1>1, <1>8, <1>a, RingPushed
  <2>4. \A v \in Crew : v # w => Ring(v)' = Ring(v)
    BY <1>1, <1>3, <1>b, <1>c DEF Ring
  <2> QED BY <2>1, <2>4 DEF Put
<1>f. Ring(w)' \in Seq(1 .. pushed \cup {Quit2})
  <2>1. << Quit2 >> \in Seq(1 .. pushed \cup {Quit2})
    OBVIOUS
  <2> QED BY <1>0, <1>d, <1>e, <2>1, ConcatProperties
<1>9. RingInv'
  <2>1. \A v \in Crew : (Stopped(v) => Stopped(v)') /\ (Writing(v)' <=> Writing(v))
    BY <1>1, <1>2 DEF Stopped, Writing
  <2>2. \A v \in Crew : v # w => (Stage2!Full(v)' <=> Stage2!Full(v))
    BY <1>1, <1>c DEF Stage2!Full, Stage2!After, Stage2!RingSize
  <2>3. Stopped(w)'
    BY <1>2 DEF Stopped
  <2>4. worker[w].pc = "handle" => slots'[w][worker[w].at] = worker[w].event
    <3> SUFFICES ASSUME worker[w].pc = "handle"
                 PROVE  slots'[w][worker[w].at] = worker[w].event
      OBVIOUS
    <3>1. ~Stopped(w)
      BY <1>0, <1>1 DEF Stopped, CloserRecords, Crew, Stage2!Workers
    <3>2. worker[w].at # i /\ slots[w][worker[w].at] = worker[w].event
      BY <3>1, <1>0, <1>8 DEF RingInv
    <3>3. worker[w].at \in 0 .. R - 1 /\ slots[w] \in [0 .. R - 1 -> Marks]
      <4>1. /\ worker[w].at \in 0 .. R - 1 /\ R \in Sizes
            /\ slots[w] \in [0 .. R - 1 -> Marks]
        BY <1>0, Held
      <4> QED BY <4>1
    <3> QED BY <3>2, <3>3, <1>b
  <2>5. \A v \in Crew : Ring(v)' \in Seq(1 .. pushed \cup {Quit2})
    <3> TAKE v \in Crew
    <3>1. CASE v = w
      BY <3>1, <1>f
    <3>2. CASE v # w
      BY <3>2, <1>d, <1>e
    <3> QED BY <3>1, <3>2
  <2> SUFFICES ASSUME NEW v \in Crew
               PROVE  ThreadRing(v)'
    BY <1>2 DEF RingInv, ThreadRing
  <2>6. CASE v = w
    BY <2>1, <2>3, <2>4, <2>5, <2>6, <1>1, <1>8 DEF RingInv, ThreadRing
  <2>7. CASE v # w
    BY <2>1, <2>2, <2>5, <2>7, <1>1, <1>8, <1>b, <1>c, ZenonT(60)
       DEF RingInv, ThreadRing
  <2> QED BY <2>6, <2>7
<1>10. OrderInv'
  <2> SUFFICES ASSUME NEW v \in Crew
               PROVE  Ascends(Taken(v)', urgent')
    BY DEF OrderInv
  <2>1. Ascends(Taken(v), urgent) /\ Taken(v) \in Seq(Live) /\ Live \subseteq Int
    BY <1>0, <1>8, TakenSeq DEF OrderInv
  <2>2. /\ stage2_handled'[v] = stage2_handled[v] /\ InHands(v)' = InHands(v)
        /\ Coming(v)' = Coming(v)
    BY <1>1 DEF InHands, Coming, Writing
  <2>3. CASE v # w
    BY <2>1, <2>2, <2>3, <1>1, <1>e DEF Taken
  <2>4. CASE v = w
    <3> DEFINE a == stage2_handled[w] \o InHands(w)
    <3>1. /\ a \in Seq(Live) /\ Ring(w) \in Seq(Live) /\ a \o Ring(w) \in Seq(Live)
          /\ Quit2 \in Live
      BY <1>0, <1>8, TakenSeq DEF Live
    <3>2. Taken(w) = (a \o Ring(w)) \o << >>
      BY DEF Taken, Coming
    <3>3. Taken(w)' = (a \o (Ring(w) \o << Quit2 >>)) \o << >>
      <4>1. ~Writing(w)' /\ Ring(w)' = Ring(w) \o << Quit2 >>
        BY <1>1, <1>e DEF Writing
      <4>2. /\ stage2_handled'[w] = stage2_handled[w] /\ InHands(w)' = InHands(w)
            /\ Coming(w)' = << >>
        BY <4>1, <2>2, <2>4 DEF Coming
      <4> QED BY <4>1, <4>2 DEF Taken
    <3> HIDE DEF a
    <3>4. (a \o Ring(w)) \o << Quit2 >> = (a \o (Ring(w) \o << Quit2 >>)) \o << >>
      BY <3>1, TakenByWrite
    <3>5. (a \o Ring(w)) \o << >> = a \o Ring(w)
      BY <3>1, ConcatEmptySeq
    <3>6. Taken(w)' = Taken(w) \o << Quit2 >>
      BY <3>2, <3>3, <3>4, <3>5
    <3>7. Ascends(Taken(w) \o << Quit2 >>, urgent)
      BY <2>1, <2>4, <3>1, AscendsMore
    <3> QED BY <2>4, <3>6, <3>7, <1>1
  <2> QED BY <2>3, <2>4
<1>11. PlacesInv'
  <2>1. ASSUME NEW v \in Crew
        PROVE  /\ Stage2!Local(v)' = Stage2!Local(v)
               /\ Stage2!InHand(v)' = Stage2!InHand(v)
    <3>1. /\ Stage2!Local(v) = Elements(Ring(v)) \ {Quit2}
          /\ Stage2!Local(v)' = Elements(Ring(v)') \ {Quit2}
      BY <1>0, <1>4, LocalIsRing
    <3>2. Elements(Ring(v)') \ {Quit2} = Elements(Ring(v)) \ {Quit2}
      <4>1. CASE v = w
        <5>1. Ring(w) \in Seq(Live) /\ Quit2 \in Live
          BY <1>0, <1>8, TakenSeq DEF Live
        <5>2. \A x : x \in Elements(Ring(w) \o << Quit2 >>) <=>
                       x \in Elements(Ring(w)) \/ x = Quit2
          BY <5>1, LiveElements, ZenonT(40)
        <5>3. Ring(v)' = Ring(v) \o << Quit2 >>
          BY <4>1, <1>e
        <5>4. \A x : x \in Elements(Ring(v)') <=> x \in Elements(Ring(v)) \/ x = Quit2
          BY <4>1, <5>2, <5>3
        <5> QED BY <5>4
      <4>2. CASE v # w
        BY <4>2, <1>e
      <4> QED BY <4>1, <4>2
    <3>3. Stage2!InHand(v)' = Stage2!InHand(v)
      BY <1>1 DEF Stage2!InHand
    <3> QED BY <3>1, <3>2, <3>3
  <2>2. UNCHANGED Stage2!Parts
    BY <2>1, <1>1, PartsSame
  <2> QED BY <2>2, <1>1, <1>8 DEF PlacesInv
<1> QED BY <1>9, <1>10, <1>11

-----------------------------------------------------------------------------
(* It begins with everything empty, and no step breaks it.                 *)
LEMMA Stage2Starts ==
  ASSUME Stage2!Init
  PROVE  Stage2Inv
<1>0. /\ Threads \in Nat \ {0} /\ QueueSize \in Nat \ {0} /\ MaxEvents \in Nat
  BY StagesAssumption DEF Stage2!Stage2Assumption
<1>1. /\ is_priority \in BOOLEAN /\ batch_size \in BatchSizes /\ pushed = 0
      /\ shared = [q \in Stage2!Queues |-> << >>]
      /\ lock = [q \in Stage2!Queues |-> 0]
      /\ slots = [w \in Crew |-> [i \in 0 .. R - 1 |-> 0]]
      /\ read_index = [w \in Crew |-> 0] /\ write_index = [w \in Crew |-> 0]
      /\ worker = [w \in Crew |-> [pc |-> "pop", left |-> 0, at |-> 0, event |-> 0]]
      /\ closer = [pc |-> "idle", w |-> 1, at |-> 0]
      /\ stage2_handled = [w \in Crew |-> << >>]
      /\ urgent = {} /\ lost = {} /\ excuse = {}
  BY <1>0 DEF Stage2!Init, Stage2!Nothing, Crew, R
<1>2. R \in Sizes /\ 0 \in 0 .. R - 1 /\ 0 < R /\ 1 \in Crew
  BY <1>0, <1>1, RingSizes DEF Crew, Stage2!Workers
<1>3. \A w \in Crew : /\ read_index[w] = 0 /\ write_index[w] = 0
                      /\ slots[w] = [i \in 0 .. R - 1 |-> 0]
                      /\ worker[w].pc = "pop" /\ worker[w].event = 0
                      /\ worker[w].left = 0 /\ worker[w].at = 0
                      /\ stage2_handled[w] = << >>
  BY <1>1
<1>4. \A q \in Stage2!Queues : shared[q] = << >> /\ Len(shared[q]) = 0
  BY <1>1
<1>5. Stage2Types
  <2>1. 0 \in Marks /\ [i \in 0 .. R - 1 |-> 0] \in [0 .. R - 1 -> Marks]
    BY <1>0 DEF Marks
  <2>2. [pc |-> "pop", left |-> 0, at |-> 0, event |-> 0] \in ThreadRecords
    BY <2>1 DEF ThreadRecords, Stage2Places
  <2>3. closer \in CloserRecords /\ closer.at < R /\ closer.pc = "idle"
    BY <1>1, <1>2 DEF CloserRecords
  <2>4. << >> \in Seq(1 .. MaxEvents) /\ << >> \in Seq(Marks)
    BY EmptySeq
  <2>5. /\ shared \in [Stage2!Queues -> Seq(1 .. MaxEvents)]
        /\ stage2_handled \in [Crew -> Seq(Marks)]
        /\ lock \in [Stage2!Queues -> 0 .. Threads]
    BY <1>0, <1>1, <2>4
  <2>6. \A q \in Stage2!Queues : Len(shared[q]) < QueueSize
    BY <1>0, <1>4
  <2>7. /\ slots \in [Crew -> [0 .. R - 1 -> Marks]] /\ worker \in [Crew -> ThreadRecords]
        /\ read_index \in [Crew -> 0 .. R - 1] /\ write_index \in [Crew -> 0 .. R - 1]
        /\ \A w \in Crew : worker[w].at < R
    BY <1>1, <1>2, <1>3, <2>1, <2>2
  <2> QED BY <1>0, <1>1, <2>3, <2>5, <2>6, <2>7 DEF Stage2Types
<1>6. LockInv
  BY <1>3 DEF LockInv, MovesFrom, Stage2!Moves, Stage2!Writes
<1>7. SharedInv
  BY <1>4 DEF SharedInv
<1>8. BatchInv
  BY <1>1, <1>3 DEF BatchInv
<1>9. \A w \in Crew : Ring(w) = << >> /\ Taken(w) = << >>
  <2> TAKE w \in Crew
  <2>1. Filled(R, 0, 0) = 0
    BY DEF Filled
  <2>2. Ring(w) = << >>
    <3>1. Ring(w) \in Seq(Marks) /\ Len(Ring(w)) = 0
      <4>1. slots[w] \in [0 .. R - 1 -> Marks]
        BY <1>5, Held
      <4>2. Ring(w) = Between(R, slots[w], 0, 0)
        BY <1>3 DEF Ring
      <4>3. /\ Between(R, slots[w], 0, 0) \in Seq(Marks)
            /\ Len(Between(R, slots[w], 0, 0)) = Filled(R, 0, 0)
        BY <1>2, <4>1, BetweenSeq, Zenon
      <4> QED BY <2>1, <4>2, <4>3
    <3> QED BY <3>1, EmptySeq
  <2>3. InHands(w) = << >> /\ Coming(w) = << >>
    BY <1>3 DEF InHands, Coming, Writing
  <2> QED BY <1>3, <2>2, <2>3 DEF Taken
<1>10. RingInv
  <2>1. << >> \in Seq(1 .. pushed \cup {Quit2}) /\ << >> \in Seq(1 .. pushed)
    BY EmptySeq
  <2> QED BY <1>1, <1>3, <1>9, <2>1 DEF RingInv, Writing
<1>11. OrderInv
  BY <1>9 DEF OrderInv, Ascends
<1>12. PlacesInv
  <2>1. \A w \in Crew : /\ Stage2!Local(w) = {} /\ Stage2!InHand(w) = {}
                        /\ Stage2!Range(stage2_handled[w]) = {}
    <3> TAKE w \in Crew
    <3>1. Stage2!Local(w) = {}
      BY <1>5, <1>9, LocalIsRingNow DEF Elements
    <3>2. Stage2!InHand(w) = {}
      BY <1>3 DEF Stage2!InHand, Stage2!Nothing
    <3> QED BY <1>3, <3>1, <3>2 DEF Stage2!Range
  <2>2. /\ Stage2!Range(shared["high"]) = {} /\ Stage2!Range(shared["low"]) = {}
        /\ lost = {}
    BY <1>1, <1>4 DEF Stage2!Range, Stage2!Queues
  <2>3. \A i \in 1 .. Last : Stage2!Parts[i] = {}
    BY <2>1, <2>2, PartsAt, PartAnywhere, ZenonT(60)
  <2>4. Covers(Stage2!Parts, 1 .. Last, 1 .. pushed) /\ Apart(Stage2!Parts, 1 .. Last)
    BY <1>1, <2>3 DEF Covers, Apart
  <2> QED BY <2>4, PlacesInvIs
<1> QED BY <1>5, <1>6, <1>7, <1>8, <1>10, <1>11, <1>12 DEF Stage2Inv

LEMMA Stage2InvFrame == Stage2Inv /\ UNCHANGED stage2Vars => Stage2Inv'
<1> SUFFICES ASSUME Stage2Inv, UNCHANGED stage2Vars
             PROVE  Stage2Inv'
  OBVIOUS
<1>1. UNCHANGED <<is_priority, batch_size, shared, lock, pushed, slots, read_index,
                  write_index, worker, closer, stage2_handled, urgent, lost, excuse>>
  BY DEF stage2Vars
<1>2. R' = R
  BY <1>1 DEF R, Stage2!RingSize
<1>3. Stage2Types'
  BY <1>1, <1>2 DEF Stage2Inv, Stage2Types
<1>4. LockInv' /\ SharedInv'
  BY <1>1, LockInvFrame, SharedInvFrame DEF Stage2Inv
<1>5. BatchInv'
  BY <1>1, <1>2 DEF Stage2Inv, BatchInv, Closing2, Stage2!Closing
<1>6. NoRace => RingInv'
  <2>1. \A v \in Crew : /\ Ring(v)' = Ring(v) /\ (Writing(v)' <=> Writing(v))
                        /\ (Stopped(v)' <=> Stopped(v))
                        /\ (Stage2!Full(v)' <=> Stage2!Full(v))
    BY <1>1, <1>2
       DEF Ring, Writing, Stopped, Stage2!Full, Stage2!After, Stage2!RingSize
  <2>2. Stage2!Full(closer.w)' <=> Stage2!Full(closer.w)
    BY <1>1 DEF Stage2!Full, Stage2!After, Stage2!RingSize
  <2> QED BY <1>1, <2>1, <2>2 DEF Stage2Inv, RingInv
<1>7. NoRace => OrderInv' /\ PlacesInv'
  BY <1>1, OrderInvFrame, PlacesInvFrame DEF Stage2Inv
<1> QED BY <1>1, <1>3, <1>4, <1>5, <1>6, <1>7 DEF Stage2Inv, NoRace

LEMMA Stage2Steps ==
  ASSUME Stage2Inv, Stage2!Next
  PROVE  Stage2Inv'
<1>1. CASE \E p \in Stage2!Queues : Stage2!Push(p)
  BY <1>1, PushKeeps
<1>2. ASSUME NEW w \in Stage2!Workers, Stage2!Worker(w)
      PROVE  Stage2Inv'
  <2>0. w \in Crew
    BY DEF Crew
  <2>1. CASE Stage2!PopLocal(w)
    BY <2>0, <2>1, PopLocalKeeps
  <2>2. CASE Stage2!Handle(w)
    BY <2>0, <2>2, HandleKeeps
  <2>3. CASE Stage2!Fetch(w)
    BY <2>0, <2>3, FetchKeeps
  <2>4. ASSUME NEW q \in Stage2!Queues, Stage2!StartMoving(w, q)
        PROVE  Stage2Inv'
    BY <2>0, <2>4, StartMovingKeeps
  <2>5. ASSUME NEW q \in Stage2!Queues, Stage2!Move(w, q)
        PROVE  Stage2Inv'
    BY <2>0, <2>5, MoveKeeps
  <2>6. ASSUME NEW q \in Stage2!Queues, Stage2!Write(w, q)
        PROVE  Stage2Inv'
    BY <2>0, <2>6, WriteKeeps
  <2> QED BY <1>2, <2>1, <2>2, <2>3, <2>4, <2>5, <2>6 DEF Stage2!Worker
<1>3. CASE Stage2!StopBegin
  BY <1>3, StopBeginKeeps
<1>4. CASE Stage2!StopPush
  BY <1>4, StopPushKeeps
<1>5. CASE Stage2!Join
  BY <1>5, JoinKeeps
<1>6. CASE Stage2!StopNext
  BY <1>6, StopNextKeeps
<1> QED BY <1>1, <1>2, <1>3, <1>4, <1>5, <1>6 DEF Stage2!Next, Stage2!ClosingThread

(* What the invariant says of the stage.                                   *)
LEMMA Stage2Says ==
  ASSUME Stage2Inv
  PROVE  Stage2!EventsAccounted /\ Stage2!InOrder
<1>0. Stage2Types /\ LockInv /\ SharedInv /\ BatchInv
  BY DEF Stage2Inv
<1>1. Stage2!TypeOK
  <2>1. \A q \in Stage2!Queues : Len(shared[q]) < QueueSize
    BY <1>0 DEF Stage2Types
  <2>2. \A q \in Stage2!Queues : lock[q] \in Stage2!Workers \cup {Stage2!Nothing}
    <3>1. lock \in [Stage2!Queues -> 0 .. Threads] /\ Threads \in Nat
      BY <1>0, StagesAssumption DEF Stage2Types, Stage2!Stage2Assumption
    <3>2. 0 .. Threads = 1 .. Threads \cup {0}
      BY <3>1
    <3> QED BY <3>1, <3>2 DEF Stage2!Workers, Stage2!Nothing
  <2>3. slots \in [Stage2!Workers ->
                    [0 .. R - 1 -> Stage2!Events \cup {Stage2!Nothing, Stage2!QuitEvent}]]
    <3>1. Marks = 1 .. MaxEvents \cup {0, MaxEvents + 1}
      BY StagesAssumption DEF Marks, Stage2!Stage2Assumption
    <3>2. Marks = Stage2!Events \cup {Stage2!Nothing, Stage2!QuitEvent}
      BY <3>1 DEF Stage2!Events, Stage2!Nothing, Stage2!QuitEvent
    <3> QED BY <1>0, <3>2 DEF Stage2Types, Crew
  <2>4. {read_index, write_index} \subseteq [Stage2!Workers -> 0 .. R - 1]
    BY <1>0 DEF Stage2Types, Crew
  <2>5. closer.w \in Stage2!Workers
    BY <1>0 DEF Stage2Types, CloserRecords, Crew
  <2> QED BY <2>1, <2>2, <2>3, <2>4, <2>5 DEF Stage2!TypeOK, R
<1>2. Stage2!EventsAccounted
  <2>1. NoRace => PlacesInv
    BY DEF Stage2Inv
  <2>2. ~is_priority /\ ~Stage2!Closing => lost = {}
    BY <1>0 DEF BatchInv, Closing2
  <2> QED BY <1>1, <2>1, <2>2 DEF Stage2!EventsAccounted, NoRace, PlacesInv
<1>3. Stage2!InOrder
  <2> SUFFICES ASSUME NoRace
               PROVE  /\ \A w \in Stage2!Workers : \A i,
                        j \in DOMAIN stage2_handled[w] :
                          (i < j /\ (stage2_handled[w][i] \in urgent
                                       <=> stage2_handled[w][j] \in urgent)) =>
                             stage2_handled[w][i] < stage2_handled[w][j]
                      /\ \A w \in Stage2!Workers :
                           worker[w].pc = "handle" =>
                             slots[w][worker[w].at] = worker[w].event
    BY DEF Stage2!InOrder, NoRace
  <2>1. RingInv /\ OrderInv
    BY DEF Stage2Inv
  <2>2. ASSUME NEW w \in Crew, NEW i \in DOMAIN stage2_handled[w],
               NEW j \in DOMAIN stage2_handled[w], i < j,
               stage2_handled[w][i] \in urgent <=> stage2_handled[w][j] \in urgent
        PROVE  stage2_handled[w][i] < stage2_handled[w][j]
    <3> DEFINE h == stage2_handled[w]
    <3>1. h \in Seq(1 .. pushed) /\ h \in Seq(Live)
      BY <1>0, <2>1, TakenSeq DEF RingInv
    <3>2. DOMAIN h = 1 .. Len(h) /\ h[i] \in 1 .. pushed /\ h[j] \in 1 .. pushed
      BY <3>1, LenProperties, ElementOfSeq
    <3>3. h[i] # Quit2 /\ h[j] # Quit2
      BY <1>0, <3>2, QuitApart
    <3>4. Ascends(h, urgent)
      <4>1. /\ InHands(w) \in Seq(Live) /\ h \o InHands(w) \in Seq(Live)
            /\ Ring(w) \in Seq(Live) /\ Coming(w) \in Seq(Live)
            /\ (h \o InHands(w)) \o Ring(w) \in Seq(Live)
        BY <1>0, <2>1, TakenSeq
      <4>2. Ascends(((h \o InHands(w)) \o Ring(w)) \o Coming(w), urgent)
        BY <2>1 DEF OrderInv, Taken
      <4>3. Ascends((h \o InHands(w)) \o Ring(w), urgent)
        BY <4>1, <4>2, AscendsLast
      <4>4. Ascends(h \o InHands(w), urgent)
        BY <4>1, <4>3, AscendsLast
      <4> QED BY <3>1, <4>1, <4>4, AscendsLast
    <3> QED BY <2>2, <3>2, <3>3, <3>4 DEF Ascends
  <2>3. \A w \in Crew : worker[w].pc = "handle" =>
          slots[w][worker[w].at] = worker[w].event
    BY <2>1 DEF RingInv
  <2> QED BY <2>2, <2>3 DEF Crew
<1> QED BY <1>2, <1>3

(* With any number of stage threads and events, a ring of any of the sizes *)
(* in use, and close() at any moment: every event of a SedaStage2 is in    *)
(* one place, handled or dropped, none is dropped without priorities       *)
(* before close() begins, and each thread handles those of one priority in *)
(* the order of their push.                                                *)
THEOREM EventsStayInOrder == AllSpec => []EventsInOrder
<1> DEFINE I == part = "stage2" => Stage2Inv
<1>1. AllInit => I
  BY Stage2Starts DEF AllInit
<1>2. I /\ [AllNext]_allVars => I'
  <2> SUFFICES ASSUME I, [AllNext]_allVars, part' = "stage2"
               PROVE  Stage2Inv'
    OBVIOUS
  <2>1. CASE part = "stage2" /\ Stage2!Next /\ UNCHANGED <<part, vars>>
    BY <2>1, Stage2Steps
  <2>2. CASE UNCHANGED allVars
    BY <2>2, Stage2InvFrame DEF allVars
  <2>3. CASE part = "stage" /\ UNCHANGED <<part, stage2Vars>>
    BY <2>3
  <2> QED BY <2>1, <2>2, <2>3 DEF AllNext
<1>3. I => EventsInOrder
  BY Stage2Says DEF EventsInOrder
<1> HIDE DEF I
<1> QED BY <1>1, <1>2, <1>3, PTL DEF AllSpec
=============================================================================
