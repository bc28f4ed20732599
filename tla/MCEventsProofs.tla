--------------------------- MODULE MCEventsProofs ---------------------------
(***************************************************************************)
(* What the loop's thread shares with its callers, for every value of the  *)
(* constants.  EventLoop: the loop uses its queue as the queue requires,   *)
(* and a wake-up is never swallowed while it sleeps.  MessageHandler: for  *)
(* every number of senders, size of message and way the socket takes       *)
(* bytes, they reach it in the order of the sends.  UdpHandler: what is    *)
(* queued is watched, and no datagram is doubled, overtaken or, without    *)
(* sendmmsg(), lost while the socket works.  UdpSource: for every number   *)
(* of threads, opens, closes and errors, a source that is closed is quiet. *)
(***************************************************************************)
EXTENDS MCEvents, DoubleBufferQueueProofs, WellFoundedInduction

Waiting == Len(buf[1]) + Len(buf[2])
Pushing == IF mutex \in Producers THEN 1 ELSE 0

CallerStates == {"idle", "push", "wakeup", "notify", "join", "joined"}
LoopTypeOK ==
  /\ timed \in BOOLEAN /\ ready \in BOOLEAN
  /\ wakeup_flag \in BOOLEAN /\ eventfd \in BOOLEAN
  /\ thread_state \in {"running", "stopped"}
  /\ loop_pc \in {"top", "wait", "awake", "handlers", "queue", "arm", "ended"}
  /\ times \in 0 .. Capacity
  /\ call_pc \in [Callers -> CallerStates]
  /\ calls \in 0 .. MaxCalls /\ accepted \in Nat /\ handled \in Nat

Armed ==
  loop_pc \in {"top", "wait"} =>
    wakeup_flag \/ eventfd \/ \E p \in Callers : call_pc[p] = "notify"

(* The counters are tied to the buffers, a push to its caller, and pop()   *)
(* and swap_buffer() to the iterations of the queue's loop.                *)
LoopInv ==
  /\ QInv /\ LoopTypeOK /\ Armed
  /\ accepted = handled + Waiting
  /\ accepted + Pushing <= calls
  /\ \A p \in Producers : call_pc[p] = "push" <=> mutex = p
  /\ pop_pc # "idle" => loop_pc = "queue" /\ times < Capacity

(* Each step of the loop is a step of its queue or leaves the queue alone. *)
LEMMA LoopUsesQueue == [Next]_vars => [QNext]_qvars
<1> SUFFICES ASSUME [Next]_vars
             PROVE  [QNext]_qvars
  OBVIOUS
<1>1. ASSUME NEW p \in Producers, NEW v \in Values, CallPush(p, v)
      PROVE  QNext
  BY <1>1 DEF CallPush, QNext
<1>2. ASSUME NEW p \in Producers, PushReturns(p)
      PROVE  QNext
  BY <1>2 DEF PushReturns, QNext
<1>3. ASSUME NEW p \in Callers, Caller(p)
      PROVE  UNCHANGED qvars
  BY <1>3 DEF Caller, Exchange, NotifyWrite
<1>4. CASE Stop \/ JoinReturns
  BY <1>4 DEF Stop, JoinReturns
<1>5. CASE HandleBegin \/ HandleEnd \/ SwapBegin \/ SwapEnd
  BY <1>5 DEF HandleBegin, HandleEnd, SwapBegin, SwapEnd, QNext
<1>6. CASE CheckState \/ Notified \/ TimedOut \/ OtherReady
  BY <1>6 DEF CheckState, Notified, TimedOut, OtherReady, EpollReturns
<1>7. CASE Disarm \/ HandleReady \/ TimesUp \/ Arm
  BY <1>7 DEF Disarm, HandleReady, TimesUp, Arm
<1>8. CASE UNCHANGED vars
  BY <1>8 DEF vars
<1> QED BY <1>1, <1>2, <1>3, <1>4, <1>5, <1>6, <1>7, <1>8 DEF Next, LoopStep

(* The loop begins with the flag set, and nothing to handle.               *)
LEMMA InitLoopInv == Init => LoopInv
<1> SUFFICES ASSUME Init
             PROVE  LoopInv
  OBVIOUS
<1>1. QInv
  BY InitQInv DEF Init
<1>2. LoopTypeOK
  <2>1. times \in 0 .. Capacity /\ calls \in 0 .. MaxCalls
    BY LoopAssumption, DoubleBufferAssumption DEF Init
  <2>2. call_pc \in [Callers -> CallerStates]
    BY DEF Init, CallerStates
  <2> QED BY <2>1, <2>2 DEF Init, LoopTypeOK
<1>3. Waiting = 0
  BY EmptySeq DEF Init, QInit, Waiting, Buffers
<1>4. /\ mutex = None /\ None \notin Producers /\ pop_pc = "idle"
      /\ Producers \subseteq Callers
  BY DoubleBufferAssumption DEF Init, QInit, Callers
<1>5. Pushing = 0
  BY <1>4 DEF Pushing
<1> QED BY <1>1, <1>2, <1>3, <1>4, <1>5 DEF Init, LoopInv, Armed

-----------------------------------------------------------------------------
(* The buffers hold one event more after a push that found room, and one   *)
(* less after a pop.                                                       *)
LEMMA PushCounts ==
  ASSUME QInv, NEW p \in Producers, PushUnlock(p)
  PROVE  Waiting \in Nat /\ Waiting' = IF Full THEN Waiting ELSE Waiting + 1
<1>1. /\ buf \in [{1, 2} -> Seq(Values)] /\ standby_buf \in {1, 2}
      /\ Len(buf[1]) \in Nat /\ Len(buf[2]) \in Nat
  BY LenProperties DEF QInv, QTypeOK, Buffers
<1>2. CASE Full
  BY <1>1, <1>2 DEF PushUnlock, Waiting
<1>3. CASE ~Full
  <2>1. PICK v \in Values : push_value[p] = <<v>>
    BY DoubleBufferAssumption DEF QInv, QTypeOK, PushUnlock
  <2>2. buf' = [buf EXCEPT ![standby_buf] = Append(buf[standby_buf], v)]
    BY <1>3, <2>1 DEF PushUnlock
  <2>3. Len(Append(buf[standby_buf], v)) = Len(buf[standby_buf]) + 1
    BY <1>1, AppendProperties
  <2>4. CASE standby_buf = 1
    BY <1>1, <1>3, <2>2, <2>3, <2>4 DEF Waiting
  <2>5. CASE standby_buf = 2
    BY <1>1, <1>3, <2>2, <2>3, <2>5 DEF Waiting
  <2> QED BY <1>1, <2>4, <2>5
<1> QED BY <1>2, <1>3

LEMMA PopCounts ==
  ASSUME QInv, PopEnd
  PROVE  Waiting \in Nat \ {0} /\ Waiting' = Waiting - 1
<1>1. /\ buf \in [{1, 2} -> Seq(Values)] /\ active_buf \in {1, 2}
      /\ Len(buf[1]) \in Nat /\ Len(buf[2]) \in Nat /\ buf[active_buf] # << >>
  BY LenProperties DEF QInv, QTypeOK, Buffers, PopEnd
<1>2. Len(Tail(buf[active_buf])) = Len(buf[active_buf]) - 1
  BY <1>1, HeadTailProperties
<1>3. Len(buf[active_buf]) \in Nat \ {0}
  BY <1>1, EmptySeq
<1>4. buf' = [buf EXCEPT ![active_buf] = Tail(buf[active_buf])]
  BY DEF PopEnd
<1>5. CASE active_buf = 1
  BY <1>1, <1>2, <1>3, <1>4, <1>5 DEF Waiting
<1>6. CASE active_buf = 2
  BY <1>1, <1>2, <1>3, <1>4, <1>6 DEF Waiting
<1> QED BY <1>1, <1>5, <1>6

-----------------------------------------------------------------------------
(* push_event() counts its call before its event is accepted, and is the   *)
(* only one to push.                                                       *)
LEMMA PushPreserves ==
  ASSUME LoopInv, QInv', NEW p \in Producers,
         PushReturns(p) \/ \E v \in Values : CallPush(p, v)
  PROVE  LoopInv'
<1> USE DEF LoopInv, LoopTypeOK, Armed, loopVars, history
<1>1. /\ p \in Callers /\ p # None /\ None \notin Producers
      /\ Consumer \notin Producers
      /\ Producers \subseteq Callers /\ MaxCalls \in Nat
  BY DoubleBufferAssumption, LoopAssumption DEF Callers
<1>2. ASSUME NEW v \in Values, CallPush(p, v)
      PROVE  LoopInv'
  <2>1. /\ mutex = None /\ mutex' = p /\ UNCHANGED <<buffers, pop_pc>>
        /\ calls' = calls + 1 /\ calls < MaxCalls /\ call_pc[p] = "idle"
        /\ call_pc' = [call_pc EXCEPT ![p] = "push"]
        /\ UNCHANGED <<timed, loopVars, wakeup_flag, eventfd, accepted, handled>>
    BY <1>2 DEF CallPush, PushLock
  <2>2. Pushing = 0 /\ Pushing' = 1 /\ Waiting' = Waiting
    BY <1>1, <2>1 DEF Pushing, Waiting, buffers
  <2>3. LoopTypeOK' /\ Armed'
    BY <1>1, <2>1 DEF CallerStates
  <2> QED BY <1>1, <2>1, <2>2, <2>3
<1>3. CASE PushReturns(p)
  <2>1. /\ mutex = p /\ mutex' = None /\ pop_pc' = pop_pc /\ call_pc[p] = "push"
        /\ accepted' = IF Full THEN accepted ELSE accepted + 1
        /\ call_pc' = [call_pc EXCEPT ![p] = IF Full THEN "idle" ELSE "wakeup"]
        /\ UNCHANGED <<timed, loopVars, wakeup_flag, eventfd, calls, handled>>
    BY <1>3 DEF PushReturns, PushUnlock
  <2>2. Pushing = 1 /\ Pushing' = 0
    BY <1>1, <2>1 DEF Pushing
  <2>3. Waiting \in Nat /\ Waiting' = IF Full THEN Waiting ELSE Waiting + 1
    BY <1>3, PushCounts DEF PushReturns
  <2>4. LoopTypeOK' /\ Armed'
    BY <1>1, <2>1 DEF CallerStates
  <2> QED BY <1>1, <2>1, <2>2, <2>3, <2>4
<1> QED BY <1>2, <1>3

(* Whoever takes the flag writes the eventfd next.                         *)
LEMMA CallerPreserves ==
  ASSUME LoopInv, QInv', Stop \/ JoinReturns \/ \E p \in Callers : Caller(p)
  PROVE  LoopInv'
<1> USE DEF LoopInv, LoopTypeOK, Armed, loopVars, history, qvars, Waiting, Pushing,
            CallerStates
<1>1. Stopper \in Callers /\ Stopper \notin Producers /\ Producers \subseteq Callers
  BY LoopAssumption DEF Callers
<1>2. CASE Stop
  BY <1>1, <1>2 DEF Stop
<1>3. CASE JoinReturns
  BY <1>1, <1>3 DEF JoinReturns
<1>4. ASSUME NEW p \in Callers, Exchange(p)
      PROVE  LoopInv'
  BY <1>1, <1>4 DEF Exchange, Returned
<1>5. ASSUME NEW p \in Callers, NotifyWrite(p)
      PROVE  LoopInv'
  BY <1>1, <1>5 DEF NotifyWrite, Returned
<1> QED BY <1>2, <1>3, <1>4, <1>5 DEF Caller

(* The loop sets the flag before it sleeps, and resets it and the eventfd  *)
(* only when it is awake.                                                  *)
LEMMA LoopPreserves ==
  ASSUME LoopInv, QInv', LoopStep \/ OtherReady
  PROVE  LoopInv'
<1> USE DEF LoopInv, LoopTypeOK, Armed, history, Pushing
<1>0. /\ Capacity \in Nat \ {0} /\ Consumer \notin Producers
      /\ None \notin Producers
  BY DoubleBufferAssumption
<1>1. CASE CheckState
  BY <1>1 DEF CheckState, qvars, Waiting
<1>2. CASE Notified \/ TimedOut \/ OtherReady
  BY <1>2 DEF Notified, TimedOut, OtherReady, EpollReturns, qvars, Waiting
<1>3. CASE Disarm
  BY <1>3 DEF Disarm, qvars, Waiting
<1>4. CASE HandleReady
  <2>1. /\ loop_pc = "handlers" /\ loop_pc' = "queue" /\ times' = 0
        /\ eventfd' = IF ready THEN FALSE ELSE eventfd
        /\ UNCHANGED <<qvars, timed, thread_state, ready, wakeup_flag, call_pc,
                       calls, accepted, handled>>
    BY <1>4 DEF HandleReady
  <2>2. eventfd' \in BOOLEAN /\ times' \in 0 .. Capacity
    <3>1. eventfd \in BOOLEAN /\ ready \in BOOLEAN
      OBVIOUS
    <3>2. eventfd' \in BOOLEAN
      BY <2>1, <3>1, Zenon
    <3>3. times' = 0 /\ 0 \in 0 .. Capacity
      BY <1>0, <2>1
    <3>4. times' \in 0 .. Capacity
      BY <3>3, Zenon
    <3> QED BY <3>2, <3>4, Zenon
  <2>3. pop_pc = "idle" /\ pop_pc' = "idle"
    BY <2>1 DEF qvars
  <2>4. LoopTypeOK' /\ Armed'
    BY <2>1, <2>2
  <2> QED BY <2>1, <2>3, <2>4 DEF qvars, Waiting
<1>5. CASE HandleBegin
  BY <1>5 DEF HandleBegin, PopBegin, buffers, loopVars, Waiting
<1>6. CASE HandleEnd
  <2>1. /\ pop_pc = "handle" /\ pop_pc' = "idle" /\ mutex' = mutex
        /\ loop_pc = "queue" /\ loop_pc' \in {"arm", "queue"}
        /\ times < Capacity /\ times' = times + 1 /\ handled' = handled + 1
        /\ UNCHANGED <<timed, thread_state, ready, wakeup_flag, eventfd, call_pc,
             calls,
                       accepted>>
    BY <1>6 DEF HandleEnd, PopEnd
  <2>2. Waiting \in Nat /\ Waiting' = Waiting - 1
    BY <1>6, PopCounts DEF HandleEnd
  <2>3. times' \in 0 .. Capacity
    BY <1>0, <2>1
  <2> QED BY <2>1, <2>2, <2>3
<1>7. CASE SwapBegin
  BY <1>0, <1>7 DEF SwapBegin, SwapLock, buffers, loopVars, Waiting
<1>8. CASE SwapEnd
  <2>1. /\ pop_pc = "swap" /\ pop_pc' = "idle" /\ mutex = Consumer /\ mutex' = None
        /\ buf' = buf /\ times' = times + 1 /\ loop_pc' \in {"arm", "queue"}
        /\ times < Capacity
        /\ UNCHANGED <<timed, thread_state, ready, wakeup_flag, eventfd, call_pc,
                       calls, accepted, handled>>
    BY <1>8 DEF SwapEnd, SwapUnlock, QInv
  <2>2. times' \in 0 .. Capacity
    BY <1>0, <2>1
  <2> QED BY <1>0, <2>1, <2>2 DEF Waiting
<1>9. CASE TimesUp
  <2>1. pop_pc = "idle"
    BY <1>0, <1>9 DEF TimesUp
  <2> QED BY <1>9, <2>1 DEF TimesUp, qvars, Waiting
<1>10. CASE Arm
  BY <1>10 DEF Arm, qvars, Waiting
<1> QED BY <1>1, <1>2, <1>3, <1>4, <1>5, <1>6, <1>7, <1>8, <1>9, <1>10 DEF LoopStep

LEMMA NextLoopInv == LoopInv /\ [Next]_vars => LoopInv'
<1> SUFFICES ASSUME LoopInv, [Next]_vars
             PROVE  LoopInv'
  OBVIOUS
<1>1. QInv'
  BY LoopUsesQueue, NextQInv DEF LoopInv
<1>2. CASE Next
  BY <1>1, <1>2, PushPreserves, CallerPreserves, LoopPreserves DEF Next
<1>3. CASE UNCHANGED vars
  BY <1>1, <1>3 DEF LoopInv, LoopTypeOK, Armed, Waiting, Pushing, vars, loopVars,
                    history, qvars
<1> QED BY <1>2, <1>3

(* What the invariant says of the buffers bounds the counters.             *)
LEMMA LoopInvArmed == LoopInv => WakeupArmed
<1> SUFFICES ASSUME LoopInv
             PROVE  WakeupArmed
  OBVIOUS
<1>1. Waiting \in Nat
  <2>1. /\ buf \in [{1, 2} -> Seq(Values)]
        /\ Len(buf[1]) \in Nat /\ Len(buf[2]) \in Nat
    BY LenProperties DEF LoopInv, QInv, QTypeOK, Buffers
  <2> QED BY <2>1 DEF Waiting
<1>2. accepted \in 0 .. calls /\ handled \in 0 .. accepted
  BY <1>1 DEF LoopInv, LoopTypeOK, Pushing
<1> QED BY <1>2 DEF LoopInv, LoopTypeOK, CallerStates, Armed, WakeupArmed, TypeOK

(* While the loop sleeps or is about to, a wake-up is never swallowed,     *)
(* whoever pushes, stops the loop or is between the flag and the eventfd;  *)
(* and the loop never swaps a buffer that is being read.                   *)
THEOREM WakeupStaysArmed == Spec => []WakeupArmed
BY InitLoopInv, NextLoopInv, LoopInvArmed, PTL DEF Spec

-----------------------------------------------------------------------------
Unwritten == SubSeq(queue_active, send_bytes + 1, Len(queue_active))
Stream == wire \o Unwritten \o queue_standby
Numbers(n) == [i \in 1 .. n |-> i]

(* The mutex excludes the senders from each other, and the loop's swap     *)
(* from a direct write; a direct write finds nothing queued, and the loop, *)
(* which is not excluded otherwise, cannot queue anything either.          *)
SendInv ==
  /\ Messages!TypeOK
  /\ sent \in Nat /\ wire \in Seq(Nat)
  /\ Stream = Numbers(sent)
  /\ \A p \in Senders : messages_mutex = p <=> send_pc[p] \in {"send_i", "direct"}
  /\ \A p \in Senders :
       send_pc[p] = "direct" => queue_active = << >> /\ queue_standby = << >>
  /\ messages_loop_pc = "swap" => queue_active = << >>
  /\ messages_loop_pc # "pop" => send_bytes = 0

(* The bytes of the next message continue those before it.                 *)
LEMMA NumbersContinue ==
  ASSUME NEW n \in Nat, NEW m \in Nat
  PROVE  /\ Numbers(n) \in Seq(Nat) /\ [i \in 1 .. m |-> n + i] \in Seq(Nat)
         /\ Len([i \in 1 .. m |-> n + i]) = m
         /\ Numbers(n) \o [i \in 1 .. m |-> n + i] = Numbers(n + m)
<1> DEFINE a == Numbers(n)
           b == [i \in 1 .. m |-> n + i]
           c == Numbers(n + m)
<1>1. /\ a \in Seq(Nat) /\ Len(a) = n /\ \A i \in 1 .. n : a[i] = i
      /\ b \in Seq(Nat) /\ Len(b) = m /\ \A i \in 1 .. m : b[i] = n + i
      /\ c \in Seq(Nat) /\ Len(c) = n + m /\ \A i \in 1 .. n + m : c[i] = i
  BY DEF Numbers
<1> HIDE DEF a, b, c
<1>2. /\ a \o b \in Seq(Nat) /\ Len(a \o b) = n + m
      /\ \A i \in 1 .. n + m : (a \o b)[i] = IF i <= n THEN a[i] ELSE b[i - n]
  BY <1>1, ConcatProperties, SMTT(60)
<1>3. ASSUME NEW i \in 1 .. n + m
      PROVE  (a \o b)[i] = c[i]
  <2>1. CASE i <= n
    BY <1>1, <1>2, <2>1
  <2>2. CASE ~(i <= n)
    <3>1. i - n \in 1 .. m
      BY <2>2
    <3> QED BY <1>1, <1>2, <2>2, <3>1
  <2> QED BY <2>1, <2>2
<1>4. a \o b = c
  BY <1>1, <1>2, <1>3, SeqEqual
<1> QED BY <1>1, <1>4 DEF a, b, c

(* A sequence is its first n elements and the rest.                        *)
LEMMA Split ==
  ASSUME NEW S, NEW s \in Seq(S), NEW n \in 0 .. Len(s)
  PROVE  /\ SubSeq(s, 1, n) \in Seq(S) /\ SubSeq(s, n + 1, Len(s)) \in Seq(S)
         /\ Len(SubSeq(s, 1, n)) = n
         /\ Len(SubSeq(s, n + 1, Len(s))) = Len(s) - n
         /\ SubSeq(s, 1, n) \o SubSeq(s, n + 1, Len(s)) = s
<1>1. Len(s) \in Nat /\ n \in Nat /\ \A i \in 1 .. Len(s) : s[i] \in S
  BY LenProperties, ElementOfSeq
<1>2. SubSeq(s, 1, n) \in Seq(S) /\ Len(SubSeq(s, 1, n)) = n
  BY <1>1, SubSeqProperties
<1>3. /\ SubSeq(s, n + 1, Len(s)) \in Seq(S)
      /\ Len(SubSeq(s, n + 1, Len(s))) = Len(s) - n
  BY <1>1, SubSeqProperties
<1>4. /\ 1 \in 1 .. Len(s) + 1 /\ n \in 1 - 1 .. Len(s) /\ Len(s) \in n .. Len(s)
  BY <1>1
<1>5. SubSeq(s, 1, n) \o SubSeq(s, n + 1, Len(s)) = SubSeq(s, 1, Len(s))
  BY <1>4, ConcatAdjacentSubSeq
<1> QED BY <1>2, <1>3, <1>5, SubSeqFull

(* What of the active queue is not in the socket yet; all of it, except    *)
(* between socket_sendv() and the pop.                                     *)
LEMMA UnwrittenIsSeq ==
  ASSUME SendInv
  PROVE  /\ Unwritten \in Seq(Nat) /\ Stream \in Seq(Nat)
         /\ send_bytes = 0 => Unwritten = queue_active
<1>1. /\ queue_active \in Seq(Nat) /\ queue_standby \in Seq(Nat) /\ wire \in Seq(Nat)
      /\ send_bytes \in 0 .. Len(queue_active)
  BY DEF SendInv, Messages!TypeOK
<1>2. Unwritten \in Seq(Nat)
  BY <1>1, Split DEF Unwritten
<1>3. Stream \in Seq(Nat)
  BY <1>1, <1>2, ConcatProperties DEF Stream
<1>4. send_bytes = 0 => Unwritten = queue_active
  BY <1>1, SubSeqFull DEF Unwritten
<1> QED BY <1>2, <1>3, <1>4

LEMMA InitSendInv == Messages!MessageAssumption /\ Messages!Init => SendInv
<1> SUFFICES ASSUME Messages!MessageAssumption, Messages!Init
             PROVE  SendInv
  OBVIOUS
<1>1. /\ queue_active = << >> /\ queue_standby = << >> /\ wire = << >>
      /\ send_bytes = 0 /\ sent = 0 /\ messages_mutex = NoSender
      /\ send_pc = [p \in Senders |-> "idle"]
  BY DEF Messages!Init
<1>2. /\ << >> \in Seq(Nat) /\ Len(<< >>) = 0
      /\ << >> \o << >> = << >>
  BY EmptySeq, ConcatEmptySeq
<1>3. Unwritten = << >>
  BY <1>1, <1>2, SubSeqEmpty DEF Unwritten
<1>4. Stream = << >> /\ Numbers(sent) = << >>
  BY <1>1, <1>2, <1>3 DEF Stream, Numbers
<1>5. Messages!TypeOK
  <2>1. send_bytes \in 0 .. Len(queue_active)
    BY <1>1, <1>2
  <2>2. queue_active \in Seq(Nat) /\ queue_standby \in Seq(Nat)
    BY <1>1, <1>2
  <2> QED BY <2>1, <2>2 DEF Messages!Init, Messages!TypeOK
<1>6. \A p \in Senders : messages_mutex # p
  BY <1>1 DEF Messages!MessageAssumption
<1> QED BY <1>1, <1>2, <1>4, <1>5, <1>6 DEF SendInv, Messages!Init

(* Three pieces of the stream are joined in either order.                   *)
LEMMA JoinsAssociate ==
  ASSUME NEW a \in Seq(Nat), NEW b \in Seq(Nat), NEW c \in Seq(Nat)
  PROVE  (a \o b) \o c = a \o (b \o c)
BY ConcatAssociative, SMTT(60)

(* A message that is queued, or written as far as the socket takes it and  *)
(* then queued, goes to the end of the stream.                             *)
LEMMA StreamGrows ==
  ASSUME Messages!MessageAssumption, SendInv, sent' = sent + MsgSize,
         Stream' = Stream \o Messages!NextMessage
  PROVE  Stream' = Numbers(sent')
BY NumbersContinue DEF SendInv, Messages!MessageAssumption, Messages!NextMessage

LEMMA EnqueueStream ==
  ASSUME Messages!MessageAssumption, SendInv, NEW p \in Senders, Messages!Enqueue(p)
  PROVE  Stream' = Numbers(sent') /\ queue_standby' \in Seq(Nat)
<1>1. /\ wire \o Unwritten \in Seq(Nat) /\ queue_standby \in Seq(Nat)
      /\ Messages!NextMessage \in Seq(Nat)
  <2>1. wire \in Seq(Nat) /\ queue_standby \in Seq(Nat) /\ sent \in Nat
          /\ MsgSize \in Nat
    BY DEF SendInv, Messages!TypeOK, Messages!MessageAssumption
  <2> QED BY <2>1, UnwrittenIsSeq, NumbersContinue, ConcatProperties
             DEF Messages!NextMessage
<1>2. /\ queue_standby' = queue_standby \o Messages!NextMessage
      /\ sent' = sent + MsgSize
      /\ Unwritten' = Unwritten /\ wire' = wire
  BY DEF Messages!Enqueue, Messages!SendStep, Unwritten
<1>3. Stream' = Stream \o Messages!NextMessage
  <2> DEFINE written == wire \o Unwritten
             message == Messages!NextMessage
  <2>1. written \in Seq(Nat) /\ queue_standby \in Seq(Nat) /\ message \in Seq(Nat)
    BY <1>1
  <2>2. Stream = written \o queue_standby
    BY DEF Stream
  <2>3. Stream' = written \o (queue_standby \o message)
    BY <1>2 DEF Stream
  <2> HIDE DEF written, message
  <2>4. (written \o queue_standby) \o message = written \o (queue_standby \o message)
    BY <2>1, JoinsAssociate, Zenon
  <2> QED BY <2>2, <2>3, <2>4 DEF message
<1>4. queue_standby' \in Seq(Nat)
  BY <1>1, <1>2, ConcatProperties
<1> QED BY <1>2, <1>3, <1>4, StreamGrows

LEMMA SendDirectStream ==
  ASSUME Messages!MessageAssumption, SendInv, NEW p \in Senders,
           NEW n \in 0 .. MsgSize,
         Messages!SendDirect(p, n)
  PROVE  /\ Stream' = Numbers(sent')
         /\ queue_standby' \in Seq(Nat) /\ wire' \in Seq(Nat)
<1> DEFINE first == SubSeq(Messages!NextMessage, 1, n)
           rest == SubSeq(Messages!NextMessage, n + 1, MsgSize)
<1>1. /\ Messages!NextMessage \in Seq(Nat) /\ Len(Messages!NextMessage) = MsgSize
      /\ wire \in Seq(Nat)
  BY NumbersContinue DEF SendInv, Messages!MessageAssumption, Messages!NextMessage
<1>2. first \in Seq(Nat) /\ rest \in Seq(Nat) /\ first \o rest = Messages!NextMessage
  BY <1>1, Split
<1>3. /\ queue_active = << >> /\ queue_standby = << >> /\ queue_active' = << >>
      /\ wire' = wire \o first /\ queue_standby' = << >> \o rest
      /\ sent' = sent + MsgSize
  BY DEF Messages!SendDirect, Messages!SendStep, SendInv
<1>4. send_bytes = 0 /\ send_bytes' = 0
  BY <1>3, EmptySeq DEF SendInv, Messages!TypeOK, Messages!SendDirect,
                        Messages!SendStep
<1> HIDE DEF first, rest
<1>5. Unwritten = << >> /\ Unwritten' = << >>
  BY <1>3, <1>4, EmptySeq, SubSeqEmpty DEF Unwritten
<1>6. << >> \o rest = rest /\ (wire \o first) \o << >> = wire \o first
  BY <1>1, <1>2, ConcatEmptySeq, ConcatProperties
<1>7. wire \o << >> = wire
  BY <1>1, ConcatEmptySeq
<1>8. Stream = wire /\ Stream' = (wire \o first) \o rest
  BY <1>3, <1>5, <1>6, <1>7 DEF Stream
<1>9. Stream' = Stream \o Messages!NextMessage
  <2>1. wire \in Seq(Nat) /\ first \in Seq(Nat) /\ rest \in Seq(Nat)
    BY <1>1, <1>2
  <2>2. (wire \o first) \o rest = wire \o (first \o rest)
    BY <2>1, JoinsAssociate, Zenon
  <2> QED BY <1>2, <1>8, <2>2
<1>10. wire' \in Seq(Nat) /\ queue_standby' \in Seq(Nat)
  BY <1>1, <1>2, <1>3, <1>6, ConcatProperties
<1> QED BY <1>3, <1>9, <1>10, StreamGrows

(* Nothing else changes the stream.                                        *)
LEMMA StreamUnchanged ==
  ASSUME SendInv, UNCHANGED <<Messages!queues, send_bytes, wire, sent>>
  PROVE  Stream' = Numbers(sent')
<1>1. Unwritten' = Unwritten
  BY DEF Unwritten, Messages!queues
<1>2. Stream' = Stream /\ sent' = sent
  BY <1>1 DEF Stream, Messages!queues
<1> QED BY <1>2 DEF SendInv

-----------------------------------------------------------------------------
(* send() holds the mutex from its first step until the message is queued  *)
(* or written.                                                             *)
LEMMA SendPreserves ==
  ASSUME Messages!MessageAssumption, SendInv, NEW p \in Senders, Messages!Send(p)
  PROVE  SendInv'
<1> USE DEF SendInv, Messages!TypeOK, Messages!SendStep, Messages!queues,
            Messages!mask
<1>0. \A q \in Senders : q # NoSender
  BY DEF Messages!MessageAssumption
<1>1. CASE Messages!SendLock(p)
  BY <1>0, <1>1, StreamUnchanged DEF Messages!SendLock
<1>2. CASE Messages!DirectTest(p)
  BY <1>0, <1>2, StreamUnchanged DEF Messages!DirectTest
<1>3. CASE Messages!Enqueue(p)
  <2>1. Stream' = Numbers(sent') /\ queue_standby' \in Seq(Nat)
    BY <1>3, EnqueueStream
  <2>2. sent' \in Nat
    BY <1>3 DEF Messages!Enqueue, Messages!MessageAssumption
  <2>3. \A q \in Senders : send_pc'[q] \notin {"send_i", "direct"}
          /\ messages_mutex' # q
    BY <1>0, <1>3 DEF Messages!Enqueue
  <2> QED BY <1>3, <2>1, <2>2, <2>3 DEF Messages!Enqueue
<1>4. ASSUME NEW n \in 0 .. MsgSize, Messages!SendDirect(p, n)
      PROVE  SendInv'
  <2>1. /\ Stream' = Numbers(sent')
        /\ queue_standby' \in Seq(Nat) /\ wire' \in Seq(Nat)
    BY <1>4, SendDirectStream
  <2>2. sent' \in Nat
    BY <1>4 DEF Messages!SendDirect, Messages!MessageAssumption
  <2>3. \A q \in Senders : send_pc'[q] \notin {"send_i", "direct"}
          /\ messages_mutex' # q
    BY <1>0, <1>4 DEF Messages!SendDirect
  <2>4. send_pc' \in [Senders -> {"idle", "send_i", "direct", "read_mask",
                                 "add_ctl", "add_mask"}]
    BY <1>4 DEF Messages!SendDirect
  <2>5. messages_mutex' = NoSender /\ UNCHANGED <<same_thread, queue_active,
                                                  Messages!mask,
                                                  messages_loop_pc, send_bytes>>
    BY <1>4 DEF Messages!SendDirect
  <2> QED BY <2>1, <2>2, <2>3, <2>4, <2>5
<1>5. CASE Messages!AddReadMask(p)
  BY <1>0, <1>5, StreamUnchanged DEF Messages!AddReadMask
<1>6. CASE Messages!AddCtl(p)
  BY <1>0, <1>6, StreamUnchanged DEF Messages!AddCtl
<1>7. CASE Messages!AddMask(p)
  BY <1>0, <1>7, StreamUnchanged DEF Messages!AddMask
<1> QED BY <1>1, <1>2, <1>3, <1>4, <1>5, <1>6, <1>7 DEF Messages!Send

(* The swap waits for the mutex and finds the active queue empty; the      *)
(* active queue then moves to the wire from its front.                     *)
LEMMA SwapStream ==
  ASSUME SendInv, Messages!Swap
  PROVE  Stream' = Numbers(sent')
<1>1. /\ queue_active = << >> /\ queue_active' = queue_standby
      /\ queue_standby' = << >>
      /\ send_bytes = 0 /\ send_bytes' = 0 /\ wire' = wire /\ sent' = sent
  BY DEF SendInv, Messages!Swap, Messages!LoopStep
<1>2. queue_standby \in Seq(Nat) /\ wire \in Seq(Nat)
  BY DEF SendInv, Messages!TypeOK
<1>3. Unwritten = << >>
  BY <1>1, UnwrittenIsSeq
<1>4. Unwritten' = queue_standby
  BY <1>1, <1>2, SubSeqFull DEF Unwritten
<1>5. Stream = wire \o queue_standby
  BY <1>2, <1>3, ConcatEmptySeq DEF Stream
<1>6. wire \o queue_standby \in Seq(Nat)
  BY <1>2, ConcatProperties
<1>7. Stream' = wire \o queue_standby
  BY <1>1, <1>4, <1>6, ConcatEmptySeq DEF Stream
<1> QED BY <1>1, <1>5, <1>7 DEF SendInv

LEMMA SendVStream ==
  ASSUME SendInv, NEW n \in 0 .. Len(queue_active), Messages!SendV(n)
  PROVE  Stream' = Numbers(sent') /\ wire' \in Seq(Nat)
<1> DEFINE first == SubSeq(queue_active, 1, n)
           rest == SubSeq(queue_active, n + 1, Len(queue_active))
<1>1. queue_active \in Seq(Nat) /\ wire \in Seq(Nat) /\ send_bytes = 0
  BY DEF SendInv, Messages!TypeOK, Messages!SendV, Messages!LoopStep
<1>2. first \in Seq(Nat) /\ rest \in Seq(Nat) /\ first \o rest = queue_active
  BY <1>1, Split
<1>3. /\ wire' = wire \o first /\ Unwritten' = rest
      /\ queue_standby' = queue_standby /\ sent' = sent
  BY DEF Messages!SendV, Messages!LoopStep, Messages!queues, Unwritten
<1>4. Unwritten = first \o rest
  BY <1>1, <1>2, UnwrittenIsSeq
<1> HIDE DEF first, rest
<1>5. (wire \o first) \o rest = wire \o (first \o rest)
  <2>1. wire \in Seq(Nat) /\ first \in Seq(Nat) /\ rest \in Seq(Nat)
    BY <1>1, <1>2
  <2> QED BY <2>1, JoinsAssociate, Zenon
<1>6. Stream' = Stream
  BY <1>3, <1>4, <1>5 DEF Stream
<1>7. wire' \in Seq(Nat)
  BY <1>1, <1>2, <1>3, ConcatProperties
<1> QED BY <1>3, <1>6, <1>7 DEF SendInv

LEMMA PopStream ==
  ASSUME SendInv, Messages!PopSent
  PROVE  Stream' = Numbers(sent') /\ queue_active' \in Seq(Nat)
<1>1. /\ queue_active' = Unwritten /\ send_bytes' = 0
      /\ wire' = wire /\ queue_standby' = queue_standby /\ sent' = sent
  BY DEF Messages!PopSent, Messages!LoopStep, Unwritten
<1>2. Unwritten \in Seq(Nat)
  BY UnwrittenIsSeq
<1>3. Unwritten' = SubSeq(queue_active', 1, Len(queue_active'))
  BY <1>1 DEF Unwritten
<1>4. Unwritten' = Unwritten
  BY <1>1, <1>2, <1>3, SubSeqFull
<1> QED BY <1>1, <1>2, <1>4 DEF Stream, SendInv

LEMMA HandleWritePreserves ==
  ASSUME Messages!MessageAssumption, SendInv, Messages!LoopThread
  PROVE  SendInv'
<1> USE DEF SendInv, Messages!TypeOK, Messages!LoopStep, Messages!queues,
            Messages!mask
<1>1. CASE Messages!HandleWrite
  BY <1>1, StreamUnchanged DEF Messages!HandleWrite
<1>2. CASE Messages!Swap
  <2>1. \A p \in Senders : messages_mutex # p
    BY <1>2 DEF Messages!Swap, Messages!MessageAssumption
  <2>2. Stream' = Numbers(sent')
    BY <1>2, SwapStream
  <2>3. send_bytes' = 0 /\ send_bytes' \in 0 .. Len(queue_active')
    BY <1>2, LenProperties DEF Messages!Swap
  <2> QED BY <1>2, <2>1, <2>2, <2>3 DEF Messages!Swap
<1>3. CASE Messages!NoData
  BY <1>3, StreamUnchanged DEF Messages!NoData
<1>4. ASSUME NEW n \in 0 .. Len(queue_active), Messages!SendV(n)
      PROVE  SendInv'
  BY <1>4, SendVStream DEF Messages!SendV
<1>5. CASE Messages!PopSent
  <2>1. Stream' = Numbers(sent') /\ queue_active' \in Seq(Nat)
    BY <1>5, PopStream
  <2>2. send_bytes' = 0 /\ send_bytes' \in 0 .. Len(queue_active')
    BY <1>5, <2>1, LenProperties DEF Messages!PopSent
  <2>3. queue_active = << >> => queue_active' = << >>
    BY <1>5, EmptySeq, SubSeqEmpty DEF Messages!PopSent
  <2> QED BY <1>5, <2>1, <2>2, <2>3 DEF Messages!PopSent
<1>6. CASE Messages!DeleteReadMask
  BY <1>6, StreamUnchanged DEF Messages!DeleteReadMask
<1>7. CASE Messages!DeleteCtl
  BY <1>7, StreamUnchanged DEF Messages!DeleteCtl
<1>8. CASE Messages!DeleteMask
  BY <1>8, StreamUnchanged DEF Messages!DeleteMask
<1> QED BY <1>1, <1>2, <1>3, <1>4, <1>5, <1>6, <1>7, <1>8 DEF Messages!LoopThread

LEMMA NextSendInv == Messages!MessageAssumption /\ SendInv
    /\ [Messages!Next]_Messages!vars => SendInv'
<1>1. ASSUME Messages!MessageAssumption, SendInv, Messages!Next
      PROVE  SendInv'
  BY <1>1, SendPreserves, HandleWritePreserves DEF Messages!Next
<1>2. ASSUME SendInv, UNCHANGED Messages!vars
      PROVE  SendInv'
  <2>1. Stream' = Numbers(sent')
    BY <1>2, StreamUnchanged DEF Messages!vars
  <2> QED BY <1>2, <2>1 DEF SendInv, Messages!TypeOK, Messages!vars,
                            Messages!queues, Messages!mask
<1> QED BY <1>1, <1>2


-----------------------------------------------------------------------------
(* In the loop thread one call ends before the next begins, so that the    *)
(* mask in the handler and the one in the epoll instance differ only       *)
(* inside add_event() and delete_event(), and delete_event() is called     *)
(* with nothing queued.                                                    *)
Queued == queue_active # << >> \/ queue_standby # << >>
Deleting == messages_loop_pc \in {"delete_event", "delete_ctl", "delete_mask"}

OneCall ==
  /\ \A p \in Senders : send_pc[p] # "idle" =>
       messages_loop_pc = "idle" /\ \A q \in Senders \ {p} : send_pc[q] = "idle"
  /\ messages_loop_pc \in {"swap", "sendv", "pop"} => epollout

MasksAgree ==
  /\ \/ event_mask = epollout
     \/ \E p \in Senders : send_pc[p] = "add_mask"
     \/ messages_loop_pc = "delete_mask"
  /\ \A p \in Senders : send_pc[p] = "add_mask" => epollout
  /\ messages_loop_pc = "delete_mask" => ~epollout

QueuedIsSeen ==
  /\ Deleting => ~Queued
  /\ Queued => epollout \/ \E p \in Senders : send_pc[p] \in {"read_mask", "add_ctl"}

WatchInv == same_thread => OneCall /\ MasksAgree /\ QueuedIsSeen

(* A message written as a whole leaves nothing queued.                     *)
LEMMA WholeIsNotQueued ==
  ASSUME Messages!MessageAssumption, SendInv, NEW p \in Senders,
           Messages!SendDirect(p, MsgSize)
  PROVE  ~Queued'
<1>1. MsgSize \in Nat /\ queue_active = << >> /\ queue_standby = << >>
  BY DEF Messages!MessageAssumption, SendInv, Messages!SendDirect,
         Messages!SendStep
<1>2. SubSeq(Messages!NextMessage, MsgSize + 1, MsgSize) = << >>
  BY <1>1, SubSeqEmpty
<1>3. << >> \o << >> = << >>
  BY EmptySeq, ConcatEmptySeq
<1> QED BY <1>1, <1>2, <1>3 DEF Messages!SendDirect, Queued

LEMMA SendWatches ==
  ASSUME Messages!MessageAssumption, SendInv, WatchInv, NEW p \in Senders,
           Messages!Send(p), same_thread
  PROVE  WatchInv'
<1> USE DEF WatchInv, OneCall, MasksAgree, QueuedIsSeen, Messages!SendStep,
            Messages!queues, Messages!mask, Deleting
<1>0. send_pc \in [Senders -> {"idle", "send_i", "direct", "read_mask",
                              "add_ctl", "add_mask"}]
  BY DEF SendInv, Messages!TypeOK
<1>1. CASE Messages!SendLock(p)
  BY <1>0, <1>1 DEF Messages!SendLock, Messages!SenderRuns, Queued
<1>2. CASE Messages!DirectTest(p)
  BY <1>0, <1>2 DEF Messages!DirectTest, Queued
<1>3. CASE Messages!Enqueue(p)
  BY <1>0, <1>3 DEF Messages!Enqueue
<1>4. ASSUME NEW n \in 0 .. MsgSize, Messages!SendDirect(p, n)
      PROVE  WatchInv'
  <2>1. CASE n = MsgSize
    BY <1>0, <1>4, <2>1, WholeIsNotQueued DEF Messages!SendDirect
  <2>2. CASE n # MsgSize
    BY <1>0, <1>4, <2>2 DEF Messages!SendDirect
  <2> QED BY <2>1, <2>2
<1>5. CASE Messages!AddReadMask(p)
  BY <1>0, <1>5 DEF Messages!AddReadMask, Queued
<1>6. CASE Messages!AddCtl(p)
  BY <1>0, <1>6 DEF Messages!AddCtl, Queued
<1>7. CASE Messages!AddMask(p)
  BY <1>0, <1>7 DEF Messages!AddMask, Queued
<1> QED BY <1>1, <1>2, <1>3, <1>4, <1>5, <1>6, <1>7 DEF Messages!Send

LEMMA LoopWatches ==
  ASSUME SendInv, WatchInv, Messages!LoopThread, same_thread
  PROVE  WatchInv'
<1> USE DEF WatchInv, OneCall, MasksAgree, QueuedIsSeen, Messages!LoopStep,
            Messages!LoopRuns, Messages!queues, Messages!mask,
            Deleting, Queued
<1>1. CASE Messages!HandleWrite
  BY <1>1 DEF Messages!HandleWrite
<1>2. CASE Messages!Swap
  BY <1>2 DEF Messages!Swap
<1>3. CASE Messages!NoData
  BY <1>3 DEF Messages!NoData, SendInv
<1>4. ASSUME NEW n \in 0 .. Len(queue_active), Messages!SendV(n)
      PROVE  WatchInv'
  BY <1>4 DEF Messages!SendV
<1>5. CASE Messages!PopSent
  BY <1>5 DEF Messages!PopSent
<1>6. CASE Messages!DeleteReadMask
  BY <1>6 DEF Messages!DeleteReadMask
<1>7. CASE Messages!DeleteCtl
  BY <1>7 DEF Messages!DeleteCtl
<1>8. CASE Messages!DeleteMask
  BY <1>8 DEF Messages!DeleteMask, SendInv, Messages!TypeOK
<1> QED BY <1>1, <1>2, <1>3, <1>4, <1>5, <1>6, <1>7, <1>8 DEF Messages!LoopThread

LEMMA NextWatchInv == Messages!MessageAssumption /\ SendInv /\ WatchInv
    /\ [Messages!Next]_Messages!vars => WatchInv'
<1> SUFFICES ASSUME Messages!MessageAssumption, SendInv, WatchInv,
                      [Messages!Next]_Messages!vars
             PROVE  WatchInv'
  OBVIOUS
<1>1. CASE ~same_thread
  <2>1. same_thread' = same_thread
    BY DEF Messages!Next, Messages!Send, Messages!LoopThread, Messages!SendLock,
           Messages!DirectTest, Messages!SendDirect, Messages!Enqueue,
           Messages!AddReadMask, Messages!AddCtl, Messages!AddMask,
             Messages!SendStep, Messages!HandleWrite, Messages!Swap,
             Messages!NoData, Messages!SendV,
           Messages!PopSent, Messages!DeleteReadMask, Messages!DeleteCtl,
             Messages!DeleteMask, Messages!LoopStep, Messages!vars
  <2> QED BY <1>1, <2>1 DEF WatchInv
<1>2. CASE same_thread /\ Messages!Next
  BY <1>2, SendWatches, LoopWatches DEF Messages!Next
<1>3. CASE UNCHANGED Messages!vars
  BY <1>3 DEF WatchInv, OneCall, MasksAgree, QueuedIsSeen, Deleting, Queued,
              Messages!vars,
              Messages!queues, Messages!mask
<1> QED BY <1>1, <1>2, <1>3

LEMMA InitWatchInv == Messages!Init => WatchInv
BY DEF Messages!Init, WatchInv, OneCall, MasksAgree, QueuedIsSeen, Deleting, Queued

(* What the two invariants say when all calls have returned.               *)
LEMMA SendInvInOrder == SendInv => Messages!InOrder
BY DEF SendInv, Messages!InOrder, Stream, Unwritten, Numbers

LEMMA WatchInvWatched == WatchInv => Messages!LoopThreadSendsAreWatched
<1>1. << >> \o << >> = << >>
  BY EmptySeq, ConcatEmptySeq
<1> QED BY <1>1 DEF WatchInv, OneCall, MasksAgree, QueuedIsSeen, Queued,
           Messages!Idle, Messages!LoopThreadSendsAreWatched,
           Messages!QueuedIsWatched

-----------------------------------------------------------------------------
(* UdpHandler.  The write event is watched all through a handle_write(),   *)
(* and whoever has queued something is about to ask for it; handlers of    *)
(* the loop thread do one thing at a time.                                 *)
UdpNonempty == udp_queue_active # << >> \/ udp_queue_standby # << >>
UdpAsking == \E p \in Senders : call[p].at = "add_event"
UdpOneCall == \A p \in Senders : Udp!Busy(p) =>
                /\ udp_loop_pc = "idle"
                /\ \A q \in Senders \ {p} : ~Udp!Busy(q)

UdpInv ==
  /\ DOMAIN call = Senders
  /\ udp_loop_pc # "idle" => watched
  /\ udp_loop_pc = "swap" => udp_queue_active = << >>
  /\ deleted \/ (\E p \in Senders : call[p].at = "delete") => partial \/ failed
  /\ udp_same_thread =>
       /\ UdpOneCall
       /\ udp_loop_pc = "delete_event" => ~UdpNonempty
       /\ ~partial /\ ~deleted /\ UdpNonempty => watched \/ UdpAsking

LEMMA InitUdpInv == Udp!Init => UdpInv
BY DEF Udp!Init, Udp!NoCall, Udp!Busy, UdpInv, UdpNonempty, UdpAsking, UdpOneCall

(* A call of send() moves on, and queues before it asks.                   *)
LEMMA UdpSendWatches ==
  ASSUME UdpInv, NEW p \in Senders, Udp!Send(p)
  PROVE  UdpInv'
<1> USE DEF UdpInv, UdpNonempty, UdpAsking, UdpOneCall, Udp!Busy, Udp!NoCall, Udp!At,
            Udp!Returned, Udp!queues, Udp!config, Udp!loop, Udp!history
<1>1. ASSUME NEW n \in Addresses, NEW range \in BOOLEAN, Udp!SendLock(p, n, range)
      PROVE  UdpInv'
  BY <1>1 DEF Udp!SendLock, Udp!SenderRuns
<1>2. CASE Udp!DirectTest(p)
  BY <1>2 DEF Udp!DirectTest
<1>3. CASE Udp!Enqueue(p)
  BY <1>3 DEF Udp!Enqueue
<1>4. CASE Udp!DirectAll(p)
  BY <1>4 DEF Udp!DirectAll
<1>5. ASSUME NEW k \in 0 .. call[p].addrs, Udp!DirectSome(p, k)
      PROVE  UdpInv'
  <2>0. /\ UNCHANGED <<udp_queue_active, watched, udp_loop_pc, udp_same_thread,
                       deleted, failed>>
        /\ partial' = (partial \/ call[p].range)
        /\ call[p].at = "direct"
    BY <1>5 DEF Udp!DirectSome
  <2>1. CASE ~call[p].range
    <3>1. call' = [call EXCEPT ![p].at = "add_event"]
      BY <1>5, <2>1 DEF Udp!DirectSome
    <3>2. DOMAIN call' = Senders /\ \A q \in Senders \ {p} : call'[q] = call[q]
      BY <3>1
    <3>3. call'[p].at = "add_event"
      BY <3>1
    <3>4. UdpAsking'
      BY <3>3
    <3>5. partial' <=> partial
      BY <2>0, <2>1, Zenon
    <3>6. udp_same_thread' => UdpOneCall'
      BY <2>0, <3>2
    <3>7. (deleted \/ \E q \in Senders : call[q].at = "delete")' =>
            partial' \/ failed'
      <4>1. ASSUME NEW q \in Senders, call'[q].at = "delete"
            PROVE  call[q].at = "delete"
        BY <3>2, <3>3, <4>1
      <4> QED BY <2>0, <3>5, <4>1
    <3>8. udp_loop_pc' # "idle" => watched'
      BY <2>0
    <3>9. udp_loop_pc' = "swap" => udp_queue_active' = << >>
      BY <2>0
    <3>10. udp_same_thread' /\ udp_loop_pc' = "delete_event" => ~UdpNonempty'
      BY <2>0
    <3> QED BY <3>2, <3>4, <3>6, <3>7, <3>8, <3>9, <3>10
  <2>2. CASE call[p].range
    <3>1. PICK c : call' = [call EXCEPT ![p] = c]
      BY <1>5 DEF Udp!DirectSome
    <3>2. DOMAIN call' = Senders /\ partial'
            /\ \A q \in Senders \ {p} : call'[q] = call[q]
      BY <2>0, <2>2, <3>1
    <3>3. udp_same_thread' => UdpOneCall'
      BY <2>0, <3>2
    <3> QED BY <2>0, <3>2, <3>3
  <2> QED BY <2>1, <2>2
<1>6. ASSUME NEW k \in 0 .. call[p].addrs, Udp!DirectFails(p, k)
      PROVE  UdpInv'
  BY <1>6 DEF Udp!DirectFails
<1>7. CASE Udp!AddEvent(p)
  BY <1>7 DEF Udp!AddEvent
<1>8. CASE Udp!DeleteHandler(p)
  BY <1>8 DEF Udp!DeleteHandler
<1> QED BY <1>1, <1>2, <1>3, <1>4, <1>5, <1>6, <1>7, <1>8 DEF Udp!Send

(* handle_write() gives the write event up only when nothing is queued.    *)
LEMMA UdpLoopWatches ==
  ASSUME UdpInv, Udp!LoopThread
  PROVE  UdpInv'
<1> USE DEF UdpInv, UdpNonempty, UdpAsking, UdpOneCall, Udp!LoopStep, Udp!LoopRuns,
            Udp!Busy, Udp!queues, Udp!config, Udp!loop, Udp!history
<1>1. CASE Udp!HandleWrite
  BY <1>1 DEF Udp!HandleWrite
<1>2. CASE Udp!Swap
  BY <1>2 DEF Udp!Swap
<1>3. CASE Udp!NoData
  BY <1>3 DEF Udp!NoData
<1>4. CASE Udp!DeleteEvent
  BY <1>4 DEF Udp!DeleteEvent
<1>5. CASE Udp!WriteBlocks \/ Udp!WriteFails
  BY <1>5 DEF Udp!WriteBlocks, Udp!WriteFails
<1>6. CASE Udp!SendTo
  BY <1>6 DEF Udp!SendTo
<1>7. CASE Udp!PopFront
  BY <1>7 DEF Udp!PopFront
<1>8. ASSUME NEW n \in 1 .. Iovecs, Udp!SendMmsg(n)
      PROVE  UdpInv'
  BY <1>8 DEF Udp!SendMmsg
<1>9. CASE Udp!EraseAll
  BY <1>9 DEF Udp!EraseAll
<1> QED BY <1>1, <1>2, <1>3, <1>4, <1>5, <1>6, <1>7, <1>8, <1>9 DEF Udp!LoopThread

LEMMA NextUdpInv == UdpInv /\ [Udp!Next]_Udp!vars => UdpInv'
<1>1. ASSUME UdpInv, Udp!Next
      PROVE  UdpInv'
  BY <1>1, UdpSendWatches, UdpLoopWatches DEF Udp!Next
<1>2. ASSUME UdpInv, UNCHANGED Udp!vars
      PROVE  UdpInv'
  BY <1>2 DEF UdpInv, UdpNonempty, UdpAsking, UdpOneCall, Udp!Busy, Udp!vars,
              Udp!queues, Udp!config, Udp!loop, Udp!history
<1> QED BY <1>1, <1>2

(* Empty queues hold no datagrams.                                         *)
LEMMA UdpInvWatched == UdpInv => Udp!Watched
<1>1. ASSUME ~UdpNonempty
      PROVE  Udp!Waiting = << >>
  <2>1. Udp!Queued(<< >>) = << >>
    BY DEF Udp!Queued, Udp!FlattenSeq
  <2>2. << >> \o << >> = << >>
    BY EmptySeq, ConcatEmptySeq
  <2> QED BY <1>1, <2>1, <2>2 DEF UdpNonempty, Udp!Waiting
<1> QED BY <1>1 DEF UdpInv, UdpAsking, Udp!Idle, Udp!Busy, Udp!Watched

-----------------------------------------------------------------------------
(* Sequences in general: joining them is associative.                      *)
LEMMA Associative ==
  ASSUME NEW D, NEW a \in Seq(D), NEW b \in Seq(D), NEW c \in Seq(D)
  PROVE  (a \o b) \o c = a \o (b \o c)
<1> DEFINE l == (a \o b) \o c
           r == a \o (b \o c)
<1>1. /\ Len(a) \in Nat /\ Len(b) \in Nat /\ Len(c) \in Nat
      /\ a \o b \in Seq(D) /\ Len(a \o b) = Len(a) + Len(b)
      /\ b \o c \in Seq(D) /\ Len(b \o c) = Len(b) + Len(c)
  BY ConcatProperties, LenProperties
<1>2. /\ l \in Seq(D) /\ Len(l) = Len(a) + Len(b) + Len(c)
      /\ r \in Seq(D) /\ Len(r) = Len(a) + Len(b) + Len(c)
  BY <1>1, ConcatProperties
<1>3. ASSUME NEW i \in 1 .. Len(a) + Len(b) + Len(c)
      PROVE  l[i] = r[i]
  <2>1. l[i] = IF i <= Len(a \o b) THEN (a \o b)[i] ELSE c[i - Len(a \o b)]
    BY <1>1, ConcatProperties
  <2>2. r[i] = IF i <= Len(a) THEN a[i] ELSE (b \o c)[i - Len(a)]
    BY <1>1, ConcatProperties
  <2>3. i <= Len(a) + Len(b) => (a \o b)[i] = IF i <= Len(a) THEN a[i] ELSE b[i - Len(a)]
    BY <1>1, ConcatProperties
  <2>4. i > Len(a) => (b \o c)[i - Len(a)] =
                        IF i - Len(a) <= Len(b) THEN b[i - Len(a)] ELSE c[i - Len(a) - Len(b)]
    BY <1>1, ConcatProperties
  <2> HIDE DEF l, r
  <2> QED BY <1>1, <2>1, <2>2, <2>3, <2>4
<1> HIDE DEF l, r
<1>4. l = r
  BY <1>2, <1>3, SeqEqual
<1> QED BY <1>4 DEF l, r

(* The first elements of a sequence of sequences, put together one by one. *)
Joined(g, s, n) ==
  g = [i \in 1 .. n |-> IF i = 1 THEN s[i] ELSE g[i - 1] \o s[i]]

(* Every set of numbers has a least one: what follows is shown of the      *)
(* least number for which it would not hold.                               *)
LEMMA LeastIs ==
  ASSUME NEW S, S \subseteq Nat, S # {}
  PROVE  \E i \in S : \A j \in S : i <= j
<1> DEFINE Less == OpToRel(<, Nat)
<1>1. IsWellFoundedOn(Less, Nat)
  BY NatLessThanWellFounded
<1>2. \A i, j \in Nat : i < j => <<i, j>> \in Less
  BY DEF OpToRel
<1> HIDE DEF Less
<1>3. PICK i \in S : \A j \in S : ~(<<j, i>> \in Less)
  BY <1>1, WFMin
<1>4. \A j \in S : i <= j
  <2> TAKE j \in S
  <2>1. ~(j < i)
    BY <1>2, <1>3
  <2> QED BY <2>1
<1> QED BY <1>4

LEMMA JoinedIs ==
  ASSUME NEW g, NEW s, NEW n \in Nat
  PROVE  Joined(g, s, n) <=>
           /\ g = [i \in 1 .. n |-> g[i]]
           /\ \A i \in 1 .. n : g[i] = IF i = 1 THEN s[i] ELSE g[i - 1] \o s[i]
BY DEF Joined

(* There is one such function, for every length.                           *)
LEMMA JoinedOnce ==
  ASSUME NEW s, NEW n \in Nat, NEW k \in 0 .. n, NEW g, NEW h,
         Joined(g, s, n), Joined(h, s, k)
  PROVE  \A i \in 1 .. k : g[i] = h[i]
<1> DEFINE S == { i \in 1 .. k : g[i] # h[i] }
<1>1. /\ \A i \in 1 .. n : g[i] = IF i = 1 THEN s[i] ELSE g[i - 1] \o s[i]
      /\ \A i \in 1 .. k : h[i] = IF i = 1 THEN s[i] ELSE h[i - 1] \o s[i]
  BY JoinedIs
<1>2. S = {}
  <2> SUFFICES ASSUME S # {}
               PROVE  FALSE
    OBVIOUS
  <2>1. PICK i \in S : \A j \in S : i <= j
    <3>1. S \subseteq Nat
      OBVIOUS
    <3> HIDE DEF S
    <3> QED BY <3>1, LeastIs
  <2>2. CASE i = 1
    BY <1>1, <2>2
  <2>3. CASE i # 1
    <3>1. i \in 1 .. k /\ i - 1 \in 1 .. k /\ i \in 1 .. n /\ ~(i <= i - 1)
      BY <2>3
    <3>2. i - 1 \notin S
      <4> HIDE DEF S
      <4> QED BY <2>1, <3>1
    <3>3. g[i - 1] = h[i - 1]
      BY <3>1, <3>2
    <3>4. g[i] = g[i - 1] \o s[i] /\ h[i] = h[i - 1] \o s[i]
      BY <1>1, <2>3, <3>1
    <3>5. g[i] # h[i]
      OBVIOUS
    <3> QED BY <3>3, <3>4, <3>5
  <2> QED BY <2>2, <2>3
<1> QED BY <1>2

LEMMA JoinedMore ==
  ASSUME NEW s, NEW n \in Nat, NEW g, Joined(g, s, n)
  PROVE  \E h : Joined(h, s, n + 1)
<1> DEFINE last == IF n + 1 = 1 THEN s[n + 1] ELSE g[n] \o s[n + 1]
           h == [i \in 1 .. n + 1 |-> IF i = n + 1 THEN last ELSE g[i]]
<1>1. \A i \in 1 .. n : g[i] = IF i = 1 THEN s[i] ELSE g[i - 1] \o s[i]
  BY JoinedIs
<1>2. ASSUME NEW i \in 1 .. n + 1
      PROVE  h[i] = IF i = 1 THEN s[i] ELSE h[i - 1] \o s[i]
  <2>1. CASE i = n + 1
    <3>1. h[i] = last
      BY <2>1
    <3>2. i # 1 => h[i - 1] = g[n]
      BY <2>1
    <3> QED BY <2>1, <3>1, <3>2
  <2>2. CASE i # n + 1
    <3>1. i \in 1 .. n /\ h[i] = g[i]
      BY <2>2
    <3>2. i # 1 => h[i - 1] = g[i - 1]
      BY <2>2
    <3> QED BY <1>1, <3>1, <3>2
  <2> QED BY <2>1, <2>2
<1>3. h = [i \in 1 .. n + 1 |-> h[i]]
  OBVIOUS
<1> HIDE DEF h
<1>4. n + 1 \in Nat
  OBVIOUS
<1>5. Joined(h, s, n + 1)
  BY <1>2, <1>3, <1>4, JoinedIs, Zenon
<1> QED BY <1>5

LEMMA JoinedExists ==
  ASSUME NEW s, NEW n \in Nat
  PROVE  \E g : Joined(g, s, n)
<1> DEFINE S == { k \in Nat : ~ \E g : Joined(g, s, k) }
<1>1. S = {}
  <2> SUFFICES ASSUME S # {}
               PROVE  FALSE
    OBVIOUS
  <2>1. PICK k \in S : \A j \in S : k <= j
    <3>1. S \subseteq Nat
      OBVIOUS
    <3> HIDE DEF S
    <3> QED BY <3>1, LeastIs
  <2>2. CASE k = 0
    <3> DEFINE g == [i \in 1 .. 0 |-> 0]
    <3>1. g = [i \in 1 .. 0 |-> g[i]] /\ 1 .. 0 = {}
      OBVIOUS
    <3> HIDE DEF g
    <3>2. Joined(g, s, 0)
      BY <3>1, JoinedIs
    <3> QED BY <2>2, <3>2
  <2>3. CASE k # 0
    <3>1. k \in Nat /\ k - 1 \in Nat /\ ~(k <= k - 1) /\ (k - 1) + 1 = k
      BY <2>3
    <3>2. k - 1 \notin S
      <4> HIDE DEF S
      <4> QED BY <2>1, <3>1
    <3>3. PICK g : Joined(g, s, k - 1)
      BY <3>1, <3>2
    <3>4. \E h : Joined(h, s, (k - 1) + 1)
      BY <3>1, <3>3, JoinedMore
    <3>5. \E h : Joined(h, s, k)
      BY <3>1, <3>4
    <3> QED BY <3>5
  <2> QED BY <2>2, <2>3
<1> QED BY <1>1

LEMMA JoinedSeqs ==
  ASSUME NEW D, NEW s \in Seq(Seq(D)), NEW g, Joined(g, s, Len(s))
  PROVE  \A i \in 1 .. Len(s) : g[i] \in Seq(D)
<1> DEFINE n == Len(s)
           S == { i \in 1 .. n : g[i] \notin Seq(D) }
<1>1. n \in Nat /\ \A i \in 1 .. n : s[i] \in Seq(D)
  BY LenProperties
<1>2. \A i \in 1 .. n : g[i] = IF i = 1 THEN s[i] ELSE g[i - 1] \o s[i]
  BY <1>1, JoinedIs
<1> HIDE DEF n
<1>3. S = {}
  <2> SUFFICES ASSUME S # {}
               PROVE  FALSE
    OBVIOUS
  <2>1. PICK i \in S : \A j \in S : i <= j
    <3>1. S \subseteq Nat
      BY <1>1
    <3> HIDE DEF S
    <3> QED BY <3>1, LeastIs
  <2>2. CASE i = 1
    BY <1>1, <1>2, <2>2
  <2>3. CASE i # 1
    <3>1. i \in 1 .. n /\ i - 1 \in 1 .. n /\ ~(i <= i - 1)
      BY <1>1, <2>3
    <3>2. i - 1 \notin S
      <4> HIDE DEF S
      <4> QED BY <2>1, <3>1
    <3>3. g[i - 1] \in Seq(D) /\ s[i] \in Seq(D)
      BY <1>1, <3>1, <3>2
    <3>4. g[i] = g[i - 1] \o s[i]
      BY <1>2, <2>3, <3>1
    <3>5. g[i] \in Seq(D)
      BY <3>3, <3>4, ConcatProperties
    <3> QED BY <3>5
  <2> QED BY <2>2, <2>3
<1> QED BY <1>3 DEF n

(* FlattenSeq() is the last of them.                                       *)
LEMMA FlattenIs ==
  ASSUME NEW D, NEW s \in Seq(Seq(D)), NEW g, Joined(g, s, Len(s))
  PROVE  Udp!FlattenSeq(s) = IF Len(s) = 0 THEN << >> ELSE g[Len(s)]
<1> DEFINE f == CHOOSE h : Joined(h, s, Len(s))
<1>1. Len(s) \in Nat
  BY LenProperties
<1>2. Joined(f, s, Len(s))
  OBVIOUS
<1>3. Udp!FlattenSeq(s) = IF Len(s) = 0 THEN s ELSE f[Len(s)]
  BY DEF Udp!FlattenSeq, Joined
<1>4. Len(s) = 0 => s = << >>
  BY EmptySeq
<1> HIDE DEF f
<1>5. \A i \in 1 .. Len(s) : f[i] = g[i]
  BY <1>1, <1>2, JoinedOnce
<1> QED BY <1>1, <1>3, <1>4, <1>5

LEMMA FlattenSeqIs ==
  ASSUME NEW D, NEW s \in Seq(Seq(D))
  PROVE  Udp!FlattenSeq(s) \in Seq(D)
<1>1. Len(s) \in Nat
  BY LenProperties
<1>2. PICK g : Joined(g, s, Len(s))
  BY <1>1, JoinedExists
<1>3. Udp!FlattenSeq(s) = IF Len(s) = 0 THEN << >> ELSE g[Len(s)]
  BY <1>2, FlattenIs
<1>4. \A i \in 1 .. Len(s) : g[i] \in Seq(D)
  BY <1>2, JoinedSeqs
<1> QED BY <1>1, <1>3, <1>4, EmptySeq

(* One more sequence at the end.                                           *)
LEMMA FlattenAppend ==
  ASSUME NEW D, NEW s \in Seq(Seq(D)), NEW e \in Seq(D)
  PROVE  Udp!FlattenSeq(Append(s, e)) = Udp!FlattenSeq(s) \o e
<1> DEFINE t == Append(s, e)
           n == Len(s)
<1>1. /\ n \in Nat /\ n + 1 \in Nat /\ t \in Seq(Seq(D)) /\ Len(t) = n + 1
      /\ \A i \in 1 .. n : t[i] = s[i]
      /\ t[n + 1] = e
  BY AppendProperties, LenProperties
<1>2. PICK g : Joined(g, t, n + 1)
  BY <1>1, JoinedExists, Zenon
<1> DEFINE h == [i \in 1 .. n |-> g[i]]
<1>3. \A i \in 1 .. n + 1 : g[i] = IF i = 1 THEN t[i] ELSE g[i - 1] \o t[i]
  BY <1>2 DEF Joined
<1> HIDE DEF t, n
<1>4. Joined(h, s, n)
  <2>1. ASSUME NEW i \in 1 .. n
        PROVE  h[i] = IF i = 1 THEN s[i] ELSE h[i - 1] \o s[i]
    <3>0. n \in Nat /\ t[i] = s[i]
      BY <1>1
    <3>1. i \in 1 .. n + 1 /\ h[i] = g[i] /\ t[i] = s[i]
      BY <3>0
    <3>2. i # 1 => h[i - 1] = g[i - 1]
      BY <1>1
    <3> QED BY <1>3, <3>1, <3>2
  <2>2. h = [i \in 1 .. n |-> h[i]]
    OBVIOUS
  <2> HIDE DEF h
  <2> QED BY <1>1, <2>1, <2>2, JoinedIs
<1>5. Udp!FlattenSeq(t) = g[n + 1]
  <2>1. Udp!FlattenSeq(t) = IF Len(t) = 0 THEN << >> ELSE g[Len(t)]
    BY <1>1, <1>2, FlattenIs
  <2> QED BY <1>1, <2>1
<1>6. Udp!FlattenSeq(s) = IF n = 0 THEN << >> ELSE h[n]
  <2> HIDE DEF h
  <2> QED BY <1>4, FlattenIs DEF n
<1>7. n + 1 \in 1 .. n + 1 /\ (n # 0 => n \in 1 .. n) /\ (n + 1) - 1 = n
  BY <1>1
<1>8. g[n + 1] = IF n = 0 THEN e ELSE g[n] \o e
  BY <1>1, <1>3, <1>7
<1>9. n # 0 => h[n] = g[n]
  BY <1>7
<1>10. << >> \o e = e
  BY ConcatEmptySeq
<1> HIDE DEF h
<1> QED BY <1>5, <1>6, <1>8, <1>9, <1>10 DEF t

(* One more sequence at the beginning.                                     *)
LEMMA FlattenTail ==
  ASSUME NEW D, NEW s \in Seq(Seq(D)), s # << >>
  PROVE  Udp!FlattenSeq(s) = s[1] \o Udp!FlattenSeq(Tail(s))
<1>0. \A a, b, c \in Seq(D) : (a \o b) \o c = a \o (b \o c)
  <2> TAKE a, b, c \in Seq(D)
  <2> QED BY Associative, SMTT(30)
<1> DEFINE n == Len(s)
           t == Tail(s)
<1>1. /\ n \in Nat \ {0} /\ t \in Seq(Seq(D)) /\ Len(t) = n - 1 /\ n - 1 \in Nat
      /\ \A i \in 1 .. n - 1 : t[i] = s[i + 1]
      /\ \A i \in 1 .. n : s[i] \in Seq(D)
  BY HeadTailProperties, LenProperties, EmptySeq
<1>2. PICK h : Joined(h, t, n - 1)
  BY <1>1, JoinedExists
<1> HIDE DEF t
<1>3. \A i \in 1 .. n - 1 : h[i] = IF i = 1 THEN t[i] ELSE h[i - 1] \o t[i]
  BY <1>2 DEF Joined
<1>4. \A i \in 1 .. n - 1 : h[i] \in Seq(D)
  BY <1>1, <1>2, JoinedSeqs
<1> DEFINE g == [i \in 1 .. n |-> IF i = 1 THEN s[1] ELSE s[1] \o h[i - 1]]
<1> HIDE DEF n
<1>5. Joined(g, s, n)
  <2>1. ASSUME NEW i \in 1 .. n
        PROVE  g[i] = IF i = 1 THEN s[i] ELSE g[i - 1] \o s[i]
    <3>1. CASE i = 1
      BY <3>1
    <3>2. CASE i = 2
      <4>1. 1 \in 1 .. n - 1 /\ i - 1 = 1 /\ 1 \in 1 .. n /\ i # 1 /\ 1 + 1 = i
        BY <1>1, <3>2
      <4>2. h[1] = t[1] /\ t[1] = s[i]
        BY <1>1, <1>3, <4>1
      <4>3. g[i] = s[1] \o h[i - 1] /\ g[i - 1] = s[1]
        BY <4>1
      <4> QED BY <4>1, <4>2, <4>3
    <3>3. CASE i # 1 /\ i # 2
      <4>1. /\ i - 1 \in 1 .. n - 1 /\ i - 2 \in 1 .. n - 1 /\ i - 1 # 1
            /\ i - 1 \in 1 .. n /\ (i - 1) - 1 = i - 2 /\ (i - 1) + 1 = i /\ i # 1
            /\ 1 \in 1 .. n
        BY <1>1, <3>3
      <4>2. h[i - 1] = h[i - 2] \o t[i - 1] /\ t[i - 1] = s[i]
        BY <1>1, <1>3, <4>1
      <4>3. g[i] = s[1] \o h[i - 1] /\ g[i - 1] = s[1] \o h[i - 2]
        BY <4>1
      <4>4. s[1] \in Seq(D) /\ h[i - 2] \in Seq(D) /\ s[i] \in Seq(D)
        BY <1>1, <1>4, <4>1
      <4>5. (s[1] \o h[i - 2]) \o s[i] = s[1] \o (h[i - 2] \o s[i])
        BY <1>0, <4>4
      <4> QED BY <4>1, <4>2, <4>3, <4>5
    <3> QED BY <3>1, <3>2, <3>3
  <2>2. g = [i \in 1 .. n |-> g[i]]
    OBVIOUS
  <2>3. n \in Nat
    BY <1>1
  <2> HIDE DEF g
  <2> QED BY <2>1, <2>2, <2>3, JoinedIs
<1>6. Udp!FlattenSeq(s) = g[n]
  <2>1. Udp!FlattenSeq(s) = IF Len(s) = 0 THEN << >> ELSE g[Len(s)]
    <3> HIDE DEF g
    <3> QED BY <1>5, FlattenIs DEF n
  <2> HIDE DEF g
  <2> QED BY <1>1, <2>1 DEF n
<1>7. Udp!FlattenSeq(t) = IF n - 1 = 0 THEN << >> ELSE h[n - 1]
  <2>1. Udp!FlattenSeq(t) = IF Len(t) = 0 THEN << >> ELSE h[Len(t)]
    BY <1>1, <1>2, FlattenIs
  <2> QED BY <1>1, <2>1
<1>8. n \in 1 .. n /\ 1 \in 1 .. n /\ (n - 1 = 0 => n = 1)
  BY <1>1
<1>9. g[n] = IF n = 1 THEN s[1] ELSE s[1] \o h[n - 1]
  BY <1>8
<1>10. s[1] \o << >> = s[1]
  <2>1. s[1] \in Seq(D)
    BY <1>1, <1>8
  <2> QED BY <2>1, ConcatEmptySeq
<1>11. n = 1 => n - 1 = 0
  OBVIOUS
<1> HIDE DEF g
<1> QED BY <1>6, <1>7, <1>8, <1>9, <1>10, <1>11 DEF t

-----------------------------------------------------------------------------
(* Datagrams: of a buffer, of a queue of buffers, and their order.         *)
Datagram == Nat \X Nat
UdpBuffer == [m : Nat, addrs : Seq(Nat)]

LEMMA DatagramsAre ==
  ASSUME NEW b \in UdpBuffer
  PROVE  /\ Udp!Datagrams(b) \in Seq(Datagram)
         /\ Len(Udp!Datagrams(b)) = Len(b.addrs)
         /\ \A i \in 1 .. Len(b.addrs) : Udp!Datagrams(b)[i] = <<b.m, b.addrs[i]>>
<1>1. b.m \in Nat /\ b.addrs \in Seq(Nat) /\ Len(b.addrs) \in Nat
  BY LenProperties DEF UdpBuffer
<1>2. \A i \in 1 .. Len(b.addrs) : <<b.m, b.addrs[i]>> \in Datagram
  BY <1>1, ElementOfSeq DEF Datagram
<1>3. Udp!Datagrams(b) = [i \in 1 .. Len(b.addrs) |-> <<b.m, b.addrs[i]>>]
  BY DEF Udp!Datagrams
<1> QED BY <1>1, <1>2, <1>3

Parts(q) == [i \in 1 .. Len(q) |-> Udp!Datagrams(q[i])]

(* A queue's datagrams, buffer by buffer.                                  *)
LEMMA PartsAre ==
  ASSUME NEW q \in Seq(UdpBuffer)
  PROVE  /\ Parts(q) \in Seq(Seq(Datagram)) /\ Len(Parts(q)) = Len(q)
         /\ \A i \in 1 .. Len(q) : Parts(q)[i] = Udp!Datagrams(q[i])
<1>1. Len(q) \in Nat
  BY LenProperties
<1>2. \A i \in 1 .. Len(q) : Udp!Datagrams(q[i]) \in Seq(Datagram)
  BY ElementOfSeq, DatagramsAre
<1> QED BY <1>1, <1>2 DEF Parts

LEMMA QueuedIs ==
  ASSUME NEW q \in Seq(UdpBuffer)
  PROVE  Udp!Queued(q) = Udp!FlattenSeq(Parts(q)) /\ Udp!Queued(q) \in Seq(Datagram)
<1>1. Udp!Queued(q) = Udp!FlattenSeq(Parts(q))
  BY DEF Udp!Queued, Parts
<1>2. Parts(q) \in Seq(Seq(Datagram))
  BY PartsAre
<1>3. Udp!FlattenSeq(Parts(q)) \in Seq(Datagram)
  BY <1>2, FlattenSeqIs
<1> QED BY <1>1, <1>3

LEMMA QueuedEmpty == Udp!Queued(<< >>) = << >>
BY DEF Udp!Queued, Udp!FlattenSeq

(* A buffer more at the end; the first buffer; its first datagram.         *)
LEMMA QueuedAppend ==
  ASSUME NEW q \in Seq(UdpBuffer), NEW b \in UdpBuffer
  PROVE  Udp!Queued(Append(q, b)) = Udp!Queued(q) \o Udp!Datagrams(b)
<1> DEFINE r == Append(q, b)
           d == Udp!Datagrams(b)
<1>1. /\ r \in Seq(UdpBuffer) /\ Len(r) = Len(q) + 1 /\ Len(q) \in Nat
      /\ \A i \in 1 .. Len(q) : r[i] = q[i]
      /\ r[Len(q) + 1] = b
  BY AppendProperties, LenProperties
<1>2. d \in Seq(Datagram)
  BY DatagramsAre
<1>3. /\ Parts(q) \in Seq(Seq(Datagram)) /\ Len(Parts(q)) = Len(q)
      /\ \A i \in 1 .. Len(q) : Parts(q)[i] = Udp!Datagrams(q[i])
  BY PartsAre
<1> HIDE DEF r
<1>4. /\ Parts(r) \in Seq(Seq(Datagram)) /\ Len(Parts(r)) = Len(r)
      /\ \A i \in 1 .. Len(r) : Parts(r)[i] = Udp!Datagrams(r[i])
  BY <1>1, PartsAre
<1>5. Parts(r) = Append(Parts(q), d)
  <2> HIDE DEF d
  <2>1. /\ Append(Parts(q), d) \in Seq(Seq(Datagram))
        /\ Len(Append(Parts(q), d)) = Len(q) + 1
        /\ \A i \in 1 .. Len(q) : Append(Parts(q), d)[i] = Parts(q)[i]
        /\ Append(Parts(q), d)[Len(q) + 1] = d
    BY <1>2, <1>3, AppendProperties
  <2>2. ASSUME NEW i \in 1 .. Len(Parts(r))
        PROVE  Parts(r)[i] = Append(Parts(q), d)[i]
    <3>1. CASE i = Len(q) + 1
      BY <1>1, <1>4, <2>1, <3>1 DEF d
    <3>2. CASE i # Len(q) + 1
      <4>1. i \in 1 .. Len(q) /\ i \in 1 .. Len(r)
        BY <1>1, <1>4, <3>2
      <4> QED BY <1>1, <1>3, <1>4, <2>1, <4>1
    <3> QED BY <3>1, <3>2
  <2>3. Len(Parts(r)) = Len(Append(Parts(q), d))
    BY <1>1, <1>4, <2>1
  <2> QED BY <1>4, <2>1, <2>2, <2>3, SeqEqual
<1>6. Udp!FlattenSeq(Append(Parts(q), d)) = Udp!FlattenSeq(Parts(q)) \o d
  BY <1>2, <1>3, FlattenAppend
<1> QED BY <1>1, <1>5, <1>6, QueuedIs DEF r

LEMMA QueuedTail ==
  ASSUME NEW q \in Seq(UdpBuffer), q # << >>
  PROVE  Udp!Queued(q) = Udp!Datagrams(q[1]) \o Udp!Queued(Tail(q))
<1> DEFINE t == Tail(q)
<1>1. /\ t \in Seq(UdpBuffer) /\ Len(t) = Len(q) - 1 /\ Len(q) \in Nat \ {0}
      /\ \A i \in 1 .. Len(t) : t[i] = q[i + 1]
  BY HeadTailProperties, EmptySeq
<1>2. /\ Parts(q) \in Seq(Seq(Datagram)) /\ Len(Parts(q)) = Len(q)
      /\ \A i \in 1 .. Len(q) : Parts(q)[i] = Udp!Datagrams(q[i])
  BY PartsAre
<1> HIDE DEF t
<1>3. /\ Parts(t) \in Seq(Seq(Datagram)) /\ Len(Parts(t)) = Len(t)
      /\ \A i \in 1 .. Len(t) : Parts(t)[i] = Udp!Datagrams(t[i])
  BY <1>1, PartsAre
<1>4. Parts(q) # << >> /\ 1 \in 1 .. Len(q)
  BY <1>1, <1>2, EmptySeq
<1>5. Parts(t) = Tail(Parts(q))
  <2>1. /\ Tail(Parts(q)) \in Seq(Seq(Datagram))
        /\ Len(Tail(Parts(q))) = Len(q) - 1
        /\ \A i \in 1 .. Len(Tail(Parts(q))) : Tail(Parts(q))[i] = Parts(q)[i + 1]
    BY <1>2, <1>4, HeadTailProperties
  <2>2. ASSUME NEW i \in 1 .. Len(Parts(t))
        PROVE  Parts(t)[i] = Tail(Parts(q))[i]
    <3>1. i \in 1 .. Len(t) /\ i + 1 \in 1 .. Len(q) /\ i \in 1 .. Len(Tail(Parts(q)))
      BY <1>1, <1>3, <2>1
    <3>2. Parts(t)[i] = Udp!Datagrams(q[i + 1])
      BY <1>1, <1>3, <3>1
    <3>3. Parts(q)[i + 1] = Udp!Datagrams(q[i + 1])
      BY <1>2, <3>1
    <3>4. Tail(Parts(q))[i] = Parts(q)[i + 1]
      BY <2>1, <3>1
    <3> QED BY <3>2, <3>3, <3>4
  <2>3. Len(Parts(t)) = Len(Tail(Parts(q)))
    BY <1>1, <1>3, <2>1
  <2> QED BY <1>3, <2>1, <2>2, <2>3, SeqEqual
<1>6. Udp!FlattenSeq(Parts(q)) = Parts(q)[1] \o Udp!FlattenSeq(Tail(Parts(q)))
  BY <1>2, <1>4, FlattenTail
<1>7. Parts(q)[1] = Udp!Datagrams(q[1])
  BY <1>2, <1>4
<1>8. Udp!Queued(q) = Udp!FlattenSeq(Parts(q)) /\ Udp!Queued(t) = Udp!FlattenSeq(Parts(t))
  BY <1>1, QueuedIs
<1> QED BY <1>5, <1>6, <1>7, <1>8 DEF t

LEMMA RestIs ==
  ASSUME NEW b \in UdpBuffer
  PROVE  Udp!RestOf(b) = [m |-> b.m, addrs |-> Tail(b.addrs)]
<1>1. b = [m |-> b.m, addrs |-> b.addrs]
  BY DEF UdpBuffer
<1>2. Udp!RestOf(b) = [b EXCEPT !.addrs = Tail(b.addrs)]
  BY DEF Udp!RestOf
<1> QED BY <1>1, <1>2

(* The first datagram of a queue, and the queue without it.                *)
LEMMA QueuedRest ==
  ASSUME NEW q \in Seq(UdpBuffer), q # << >>, q[1].addrs # << >>
  PROVE  /\ [q EXCEPT ![1] = Udp!RestOf(@)] \in Seq(UdpBuffer)
         /\ [q EXCEPT ![1] = Udp!RestOf(@)] # << >>
         /\ Udp!Datagrams(q[1])[1] \in Datagram
         /\ Udp!Queued(q) = <<Udp!Datagrams(q[1])[1]>>
                              \o Udp!Queued([q EXCEPT ![1] = Udp!RestOf(@)])
<1> DEFINE b == q[1]
           c == Udp!RestOf(b)
           r == [q EXCEPT ![1] = Udp!RestOf(@)]
           x == Udp!Datagrams(b)[1]
<1>1. 1 \in 1 .. Len(q) /\ b \in UdpBuffer /\ Len(q) \in Nat \ {0}
  <2>1. Len(q) \in Nat \ {0}
    BY EmptySeq
  <2> QED BY <2>1, ElementOfSeq
<1>2. /\ b.m \in Nat /\ b.addrs \in Seq(Nat) /\ Len(b.addrs) \in Nat \ {0}
      /\ Tail(b.addrs) \in Seq(Nat) /\ Len(Tail(b.addrs)) = Len(b.addrs) - 1
      /\ \A i \in 1 .. Len(b.addrs) - 1 : Tail(b.addrs)[i] = b.addrs[i + 1]
  BY <1>1, EmptySeq, HeadTailProperties DEF UdpBuffer
<1>3. c = [m |-> b.m, addrs |-> Tail(b.addrs)] /\ c \in UdpBuffer
  <2> HIDE DEF b
  <2>1. c = [m |-> b.m, addrs |-> Tail(b.addrs)]
    BY <1>1, RestIs
  <2> HIDE DEF c
  <2> QED BY <1>2, <2>1 DEF UdpBuffer
<1> HIDE DEF b, c
<1>4. r = [q EXCEPT ![1] = c]
  BY DEF b, c
<1>5. /\ r \in Seq(UdpBuffer) /\ Len(r) = Len(q) /\ r[1] = c
      /\ \A j \in 1 .. Len(q) : r[j] = IF j = 1 THEN c ELSE q[j]
  <2>1. r \in Seq(UdpBuffer) /\ Len(r) = Len(q)
          /\ \A j \in 1 .. Len(q) : r[j] = IF j = 1 THEN c ELSE q[j]
    <3> HIDE DEF r
    <3> QED BY <1>1, <1>3, <1>4, ExceptSeq
  <2> QED BY <1>1, <2>1
<1> HIDE DEF r
<1>6. r # << >>
  BY <1>1, <1>5, EmptySeq
<1>7. Tail(r) = Tail(q)
  <2>1. /\ Tail(q) \in Seq(UdpBuffer) /\ Len(Tail(q)) = Len(q) - 1
        /\ \A i \in 1 .. Len(q) - 1 : Tail(q)[i] = q[i + 1]
    BY HeadTailProperties
  <2>2. /\ Tail(r) \in Seq(UdpBuffer) /\ Len(Tail(r)) = Len(q) - 1
        /\ \A i \in 1 .. Len(q) - 1 : Tail(r)[i] = r[i + 1]
    BY <1>5, <1>6, HeadTailProperties
  <2>3. ASSUME NEW i \in 1 .. Len(q) - 1
        PROVE  Tail(r)[i] = Tail(q)[i]
    <3>1. i + 1 \in 1 .. Len(q) /\ i + 1 # 1
      BY <1>1
    <3>2. r[i + 1] = q[i + 1]
      BY <1>5, <3>1
    <3> QED BY <2>1, <2>2, <3>2
  <2> QED BY <2>1, <2>2, <2>3, SeqEqual
<1>8. /\ Udp!Datagrams(b) \in Seq(Datagram) /\ Len(Udp!Datagrams(b)) = Len(b.addrs)
      /\ \A i \in 1 .. Len(b.addrs) : Udp!Datagrams(b)[i] = <<b.m, b.addrs[i]>>
      /\ Udp!Datagrams(c) \in Seq(Datagram) /\ Len(Udp!Datagrams(c)) = Len(c.addrs)
      /\ \A i \in 1 .. Len(c.addrs) : Udp!Datagrams(c)[i] = <<c.m, c.addrs[i]>>
  BY <1>1, <1>3, DatagramsAre DEF b
<1>9. x \in Datagram
  <2>1. 1 \in 1 .. Len(Udp!Datagrams(b))
    BY <1>2, <1>8
  <2> QED BY <1>8, <2>1, ElementOfSeq
<1> HIDE DEF x
<1>10. Udp!Datagrams(b) = <<x>> \o Udp!Datagrams(c)
  <2> DEFINE u == <<x>>
             v == Udp!Datagrams(c)
             w == u \o v
  <2>1. u \in Seq(Datagram) /\ Len(u) = 1 /\ u[1] = x
    BY <1>9
  <2>0. v \in Seq(Datagram) /\ Len(v) \in Nat
    BY <1>8, LenProperties
  <2> HIDE DEF u, v
  <2>2. /\ w \in Seq(Datagram) /\ Len(w) = 1 + Len(v)
        /\ \A i \in 1 .. 1 + Len(v) : w[i] = IF i <= 1 THEN u[i] ELSE v[i - 1]
    <3>1. /\ w \in Seq(Datagram) /\ Len(w) = Len(u) + Len(v)
          /\ \A i \in 1 .. Len(u) + Len(v) :
               w[i] = IF i <= Len(u) THEN u[i] ELSE v[i - Len(u)]
      BY <2>0, <2>1, ConcatProperties
    <3> HIDE DEF w
    <3> QED BY <2>1, <3>1
  <2>3. Len(v) = Len(b.addrs) - 1
    BY <1>2, <1>3, <1>8 DEF v
  <2>4. ASSUME NEW i \in 1 .. Len(b.addrs)
        PROVE  Udp!Datagrams(b)[i] = w[i]
    <3>1. CASE i = 1
      BY <1>2, <2>1, <2>2, <2>3, <3>1 DEF x
    <3>2. CASE i # 1
      <4>1. i - 1 \in 1 .. Len(b.addrs) - 1 /\ (i - 1) + 1 = i /\ i \in 1 .. 1 + Len(v)
        BY <1>2, <2>3, <3>2
      <4>2. w[i] = v[i - 1]
        BY <2>2, <3>2, <4>1
      <4>3. v[i - 1] = <<b.m, b.addrs[i]>>
        BY <1>2, <1>3, <1>8, <4>1, ZenonT(60) DEF v
      <4> QED BY <1>8, <4>2, <4>3
    <3> QED BY <3>1, <3>2
  <2> HIDE DEF w
  <2>5. Udp!Datagrams(b) = w
    <3>1. Len(w) = Len(Udp!Datagrams(b))
      BY <1>2, <1>8, <2>2, <2>3
    <3>2. \A i \in 1 .. Len(Udp!Datagrams(b)) : Udp!Datagrams(b)[i] = w[i]
      BY <1>8, <2>4
    <3>3. Udp!Datagrams(b) \in Seq(Datagram) /\ w \in Seq(Datagram)
      BY <1>8, <2>2
    <3> QED BY <3>1, <3>2, <3>3, SeqEqual
  <2> QED BY <2>5 DEF u, v, w
<1>11. Udp!Queued(q) = Udp!Datagrams(b) \o Udp!Queued(Tail(q))
  BY QueuedTail DEF b
<1>12. Udp!Queued(r) = Udp!Datagrams(c) \o Udp!Queued(Tail(q))
  BY <1>5, <1>6, <1>7, QueuedTail
<1>13. <<x>> \in Seq(Datagram) /\ Udp!Queued(Tail(q)) \in Seq(Datagram)
  <2>1. Tail(q) \in Seq(UdpBuffer)
    BY HeadTailProperties
  <2>2. Udp!Queued(Tail(q)) \in Seq(Datagram)
    BY <2>1, QueuedIs
  <2>3. <<x>> \in Seq(Datagram)
    BY <1>9
  <2> QED BY <2>2, <2>3
<1>14. (<<x>> \o Udp!Datagrams(c)) \o Udp!Queued(Tail(q))
         = <<x>> \o (Udp!Datagrams(c) \o Udp!Queued(Tail(q)))
  BY <1>8, <1>13, Associative, SMTT(30)
<1> QED BY <1>5, <1>6, <1>9, <1>10, <1>11, <1>12, <1>14 DEF r, x, b

-----------------------------------------------------------------------------
(* The order of datagrams: those to one address by their message.          *)
Before(x, y) == x[2] = y[2] => x[1] < y[1]
Els(s) == { s[i] : i \in 1 .. Len(s) }
InTurn(s) == \A i, j \in 1 .. Len(s) : i < j => Before(s[i], s[j])

(* Two sequences, one after the other.                                     *)
LEMMA ElsJoined ==
  ASSUME NEW D, NEW s \in Seq(D), NEW t \in Seq(D)
  PROVE  Els(s \o t) = Els(s) \cup Els(t)
<1> DEFINE u == s \o t
<1>1. /\ Len(s) \in Nat /\ Len(t) \in Nat /\ Len(u) = Len(s) + Len(t)
      /\ \A i \in 1 .. Len(s) + Len(t) :
           u[i] = IF i <= Len(s) THEN s[i] ELSE t[i - Len(s)]
  BY ConcatProperties, LenProperties
<1> HIDE DEF u
<1>2. ASSUME NEW x \in Els(u)
      PROVE  x \in Els(s) \cup Els(t)
  <2>1. PICK i \in 1 .. Len(s) + Len(t) : x = u[i]
    BY <1>1 DEF Els
  <2>2. CASE i <= Len(s)
    <3>1. i \in 1 .. Len(s) /\ x = s[i]
      BY <1>1, <2>1, <2>2
    <3> QED BY <3>1 DEF Els
  <2>3. CASE ~(i <= Len(s))
    <3>1. i - Len(s) \in 1 .. Len(t) /\ x = t[i - Len(s)]
      BY <1>1, <2>1, <2>3
    <3> QED BY <3>1 DEF Els
  <2> QED BY <2>2, <2>3
<1>3. ASSUME NEW x \in Els(s)
      PROVE  x \in Els(u)
  <2>1. PICK i \in 1 .. Len(s) : x = s[i]
    BY DEF Els
  <2>2. i \in 1 .. Len(u) /\ u[i] = s[i]
    BY <1>1
  <2> QED BY <2>1, <2>2 DEF Els
<1>4. ASSUME NEW x \in Els(t)
      PROVE  x \in Els(u)
  <2>1. PICK i \in 1 .. Len(t) : x = t[i]
    BY DEF Els
  <2>2. /\ i + Len(s) \in 1 .. Len(s) + Len(t) /\ ~(i + Len(s) <= Len(s))
        /\ (i + Len(s)) - Len(s) = i
    BY <1>1
  <2>3. u[i + Len(s)] = t[i]
    BY <1>1, <2>2
  <2> QED BY <1>1, <2>1, <2>2, <2>3 DEF Els
<1> QED BY <1>2, <1>3, <1>4 DEF u

LEMMA InTurnJoined ==
  ASSUME NEW D, NEW s \in Seq(D), NEW t \in Seq(D)
  PROVE  InTurn(s \o t) <=> /\ InTurn(s) /\ InTurn(t)
                            /\ \A x \in Els(s), y \in Els(t) : Before(x, y)
<1> DEFINE u == s \o t
<1>1. /\ Len(s) \in Nat /\ Len(t) \in Nat /\ Len(u) = Len(s) + Len(t)
      /\ \A i \in 1 .. Len(s) + Len(t) :
           u[i] = IF i <= Len(s) THEN s[i] ELSE t[i - Len(s)]
  BY ConcatProperties, LenProperties
<1> HIDE DEF u
<1>2. \A i \in 1 .. Len(s) : i \in 1 .. Len(u) /\ u[i] = s[i]
  BY <1>1
<1>3. \A i \in 1 .. Len(t) : i + Len(s) \in 1 .. Len(u) /\ u[i + Len(s)] = t[i]
  <2> TAKE i \in 1 .. Len(t)
  <2>1. /\ i + Len(s) \in 1 .. Len(s) + Len(t) /\ ~(i + Len(s) <= Len(s))
        /\ (i + Len(s)) - Len(s) = i
    BY <1>1
  <2> QED BY <1>1, <2>1
<1>4. ASSUME InTurn(u)
      PROVE  InTurn(s)
  <2> SUFFICES ASSUME NEW i \in 1 .. Len(s), NEW j \in 1 .. Len(s), i < j
               PROVE  Before(s[i], s[j])
    BY DEF InTurn
  <2> QED BY <1>2, <1>4 DEF InTurn
<1>5. ASSUME InTurn(u)
      PROVE  InTurn(t)
  <2> SUFFICES ASSUME NEW i \in 1 .. Len(t), NEW j \in 1 .. Len(t), i < j
               PROVE  Before(t[i], t[j])
    BY DEF InTurn
  <2>1. i + Len(s) < j + Len(s)
    BY <1>1
  <2> QED BY <1>3, <1>5, <2>1 DEF InTurn
<1>6. ASSUME InTurn(u), NEW x \in Els(s), NEW y \in Els(t)
      PROVE  Before(x, y)
  <2>1. PICK i \in 1 .. Len(s) : x = s[i]
    BY DEF Els
  <2>2. PICK j \in 1 .. Len(t) : y = t[j]
    BY DEF Els
  <2>3. i < j + Len(s)
    BY <1>1
  <2>4. u[i] = x /\ u[j + Len(s)] = y
    BY <1>2, <1>3, <2>1, <2>2
  <2> QED BY <1>2, <1>3, <1>6, <2>3, <2>4 DEF InTurn
<1>7. ASSUME InTurn(s), InTurn(t), \A x \in Els(s), y \in Els(t) : Before(x, y)
      PROVE  InTurn(u)
  <2> SUFFICES ASSUME NEW i \in 1 .. Len(u), NEW j \in 1 .. Len(u), i < j
               PROVE  Before(u[i], u[j])
    BY DEF InTurn
  <2>1. CASE j <= Len(s)
    <3>1. i \in 1 .. Len(s) /\ j \in 1 .. Len(s)
      BY <1>1, <2>1
    <3> QED BY <1>2, <1>7, <3>1 DEF InTurn
  <2>2. CASE ~(i <= Len(s))
    <3>1. i - Len(s) \in 1 .. Len(t) /\ j - Len(s) \in 1 .. Len(t) /\ i - Len(s) < j - Len(s)
      BY <1>1, <2>2
    <3>2. u[i] = t[i - Len(s)] /\ u[j] = t[j - Len(s)]
      BY <1>1, <2>2
    <3> QED BY <1>7, <3>1, <3>2 DEF InTurn
  <2>3. CASE i <= Len(s) /\ ~(j <= Len(s))
    <3>1. i \in 1 .. Len(s) /\ j - Len(s) \in 1 .. Len(t)
      BY <1>1, <2>3
    <3>2. u[i] = s[i] /\ u[j] = t[j - Len(s)]
      BY <1>1, <2>3
    <3>3. s[i] \in Els(s) /\ t[j - Len(s)] \in Els(t)
      BY <3>1 DEF Els
    <3> QED BY <1>7, <3>2, <3>3
  <2> QED BY <2>1, <2>2, <2>3
<1> QED BY <1>4, <1>5, <1>6, <1>7 DEF u

(* The first n of a sequence, and the rest.                                *)
LEMMA Divided ==
  ASSUME NEW D, NEW s \in Seq(D), NEW n \in 0 .. Len(s)
  PROVE  \E r \in Seq(D) : SubSeq(s, 1, n) \in Seq(D) /\ s = SubSeq(s, 1, n) \o r
<1>1. Len(s) \in Nat /\ \A i \in 1 .. Len(s) : s[i] \in D
  BY LenProperties, ElementOfSeq
<1>2. SubSeq(s, 1, n) \in Seq(D) /\ SubSeq(s, n + 1, Len(s)) \in Seq(D)
  <2>1. n \in Int /\ n + 1 \in Int /\ Len(s) \in Int /\ 1 \in Int
    BY <1>1
  <2>2. \A i \in 1 .. n : s[i] \in D
    BY <1>1
  <2>3. \A i \in n + 1 .. Len(s) : s[i] \in D
    BY <1>1
  <2>4. SubSeq(s, 1, n) \in Seq(D)
    BY <2>1, <2>2, SubSeqProperties
  <2>5. SubSeq(s, n + 1, Len(s)) \in Seq(D)
    BY <2>1, <2>3, SubSeqProperties
  <2> QED BY <2>4, <2>5
<1>3. SubSeq(s, 1, n) \o SubSeq(s, n + 1, Len(s)) = SubSeq(s, 1, Len(s))
  <2>1. 1 \in 1 .. Len(s) + 1 /\ n \in 1 - 1 .. Len(s) /\ Len(s) \in n .. Len(s)
    BY <1>1
  <2> QED BY <2>1, ConcatAdjacentSubSeq
<1>4. SubSeq(s, 1, Len(s)) = s
  BY SubSeqFull
<1> QED BY <1>2, <1>3, <1>4

(* A message for the addresses 1, ..., n: those from the k-th on follow    *)
(* those sent before.                                                      *)
LEMMA SentIs ==
  ASSUME NEW c, c.m \in Nat, NEW n \in Nat
  PROVE  /\ Udp!Sent(c, n) \in Seq(Datagram)
         /\ InTurn(Udp!Sent(c, n))
         /\ Els(Udp!Sent(c, n)) = { <<c.m, a>> : a \in 1 .. n }
<1> DEFINE s == Udp!Sent(c, n)
<1>1. s = [i \in 1 .. n |-> <<c.m, i>>]
  BY DEF Udp!Sent
<1>2. /\ s \in Seq(Datagram) /\ Len(s) = n
      /\ \A i \in 1 .. n : s[i] = <<c.m, i>>
  <2>1. \A i \in 1 .. n : <<c.m, i>> \in Datagram
    BY DEF Datagram
  <2> HIDE DEF s
  <2> QED BY <1>1, <2>1
<1> HIDE DEF s
<1>3. InTurn(s)
  <2> SUFFICES ASSUME NEW i \in 1 .. n, NEW j \in 1 .. n, i < j
               PROVE  Before(s[i], s[j])
    BY <1>2 DEF InTurn
  <2> QED BY <1>2 DEF Before
<1>4. Els(s) = { <<c.m, a>> : a \in 1 .. n }
  BY <1>2 DEF Els
<1> QED BY <1>2, <1>3, <1>4 DEF s

LEMMA BufferIs ==
  ASSUME NEW c, c.m \in Nat, c.addrs \in Nat, NEW k \in 0 .. c.addrs
  PROVE  /\ Udp!Buffer(c, k + 1) \in UdpBuffer
         /\ Udp!Sent(c, k) \o Udp!Datagrams(Udp!Buffer(c, k + 1)) = Udp!Sent(c, c.addrs)
<1> DEFINE n == c.addrs
           b == Udp!Buffer(c, k + 1)
           s == Udp!Sent(c, k)
           d == Udp!Datagrams(b)
           w == Udp!Sent(c, n)
<1>1. n \in Nat /\ k \in Nat /\ k <= n /\ n - k \in Nat
  OBVIOUS
<1>2. b = [m |-> c.m, addrs |-> [i \in 1 .. n - (k + 1) + 1 |-> (k + 1) + i - 1]]
  BY DEF Udp!Buffer
<1>3. n - (k + 1) + 1 = n - k /\ \A i \in 1 .. n - k : (k + 1) + i - 1 = k + i /\ k + i \in Nat
  BY <1>1
<1>4. b.m = c.m /\ b.addrs = [i \in 1 .. n - k |-> k + i]
  <2> HIDE DEF n, b
  <2>1. [i \in 1 .. n - (k + 1) + 1 |-> (k + 1) + i - 1] = [i \in 1 .. n - k |-> k + i]
    BY <1>3
  <2> QED BY <1>2, <2>1
<1>5. b.addrs \in Seq(Nat) /\ Len(b.addrs) = n - k /\ \A i \in 1 .. n - k : b.addrs[i] = k + i
  <2> HIDE DEF b, n
  <2> QED BY <1>1, <1>3, <1>4
<1>6. b \in UdpBuffer
  BY <1>2, <1>5 DEF UdpBuffer
<1> HIDE DEF b
<1>7. /\ d \in Seq(Datagram) /\ Len(d) = n - k
      /\ \A i \in 1 .. n - k : d[i] = <<c.m, k + i>>
  <2>1. d \in Seq(Datagram) /\ Len(d) = Len(b.addrs)
          /\ \A i \in 1 .. Len(b.addrs) : d[i] = <<b.m, b.addrs[i]>>
    BY <1>6, DatagramsAre
  <2> HIDE DEF d
  <2> QED BY <1>4, <1>5, <2>1
<1>8. /\ s \in Seq(Datagram) /\ Len(s) = k /\ \A i \in 1 .. k : s[i] = <<c.m, i>>
      /\ w \in Seq(Datagram) /\ Len(w) = n /\ \A i \in 1 .. n : w[i] = <<c.m, i>>
  <2>1. s \in Seq(Datagram) /\ w \in Seq(Datagram)
    BY <1>1, SentIs
  <2>2. s = [i \in 1 .. k |-> <<c.m, i>>] /\ w = [i \in 1 .. n |-> <<c.m, i>>]
    BY DEF Udp!Sent
  <2> HIDE DEF s, w, n
  <2> QED BY <1>1, <2>1, <2>2
<1> HIDE DEF s, d, w, n
<1>9. /\ s \o d \in Seq(Datagram) /\ Len(s \o d) = k + (n - k)
      /\ \A i \in 1 .. k + (n - k) : (s \o d)[i] = IF i <= k THEN s[i] ELSE d[i - k]
  BY <1>7, <1>8, ConcatProperties
<1>10. k + (n - k) = n
  BY <1>1
<1>11. ASSUME NEW i \in 1 .. n
       PROVE  (s \o d)[i] = w[i]
  <2>1. CASE i <= k
    <3>1. i \in 1 .. k
      BY <1>1, <2>1
    <3> QED BY <1>8, <1>9, <1>10, <2>1, <3>1
  <2>2. CASE ~(i <= k)
    <3>1. i - k \in 1 .. n - k /\ k + (i - k) = i
      BY <1>1, <2>2
    <3>2. d[i - k] = <<c.m, k + (i - k)>>
      BY <1>7, <3>1
    <3> QED BY <1>8, <1>9, <1>10, <2>2, <3>1, <3>2
  <2> QED BY <2>1, <2>2
<1>12. s \o d = w
  BY <1>8, <1>9, <1>10, <1>11, SeqEqual
<1> QED BY <1>6, <1>12 DEF b, s, d, w, n

LEMMA DatagramsAssociate ==
  \A x, y, z \in Seq(Datagram) : (x \o y) \o z = x \o (y \o z) /\ x \o y \in Seq(Datagram)
<1> TAKE x, y, z \in Seq(Datagram)
<1>1. (x \o y) \o z = x \o (y \o z)
  BY Associative
<1>2. x \o y \in Seq(Datagram)
  BY ConcatProperties
<1> QED BY <1>1, <1>2

-----------------------------------------------------------------------------
(* All datagrams that went out or wait, in order, and what is known of     *)
(* each: w is on the wire, qa and qs are the queues, at is the place of    *)
(* handle_write(), which from "erase" on has sent of qa what it will.      *)
Whole(w, at, qa, qs) ==
  w \o ((IF at = "erase" THEN << >> ELSE Udp!Queued(qa)) \o Udp!Queued(qs))
Known(w, qa, qs) == Els(w) \cup Els(Udp!Queued(qa)) \cup Els(Udp!Queued(qs))

LEMMA WholeIs ==
  ASSUME NEW w \in Seq(Datagram), NEW at,
         NEW qa \in Seq(UdpBuffer), NEW qs \in Seq(UdpBuffer)
  PROVE  /\ Whole(w, at, qa, qs) \in Seq(Datagram)
         /\ Els(Whole(w, at, qa, qs)) \subseteq Known(w, qa, qs)
<1> DEFINE a == IF at = "erase" THEN << >> ELSE Udp!Queued(qa)
           q == Udp!Queued(qs)
<1>1. Udp!Queued(qa) \in Seq(Datagram) /\ q \in Seq(Datagram)
  BY QueuedIs
<1>2. a \in Seq(Datagram) /\ Els(a) \subseteq Els(Udp!Queued(qa))
  BY <1>1, EmptySeq DEF Els
<1>3. Whole(w, at, qa, qs) = w \o (a \o q)
  BY DEF Whole
<1>4. Known(w, qa, qs) = Els(w) \cup Els(Udp!Queued(qa)) \cup Els(q)
  BY DEF Known
<1> HIDE DEF a, q
<1>5. a \o q \in Seq(Datagram) /\ Els(a \o q) = Els(a) \cup Els(q)
  BY <1>1, <1>2, ConcatProperties, ElsJoined
<1>6. w \o (a \o q) \in Seq(Datagram)
  BY <1>5, ConcatProperties
<1>7. Els(w \o (a \o q)) = Els(w) \cup Els(a \o q)
  <2>1. \A y \in Seq(Datagram) : Els(w \o y) = Els(w) \cup Els(y)
    BY ElsJoined
  <2> QED BY <1>5, <2>1
<1> QED BY <1>2, <1>3, <1>4, <1>5, <1>6, <1>7

(* A buffer is queued.                                                     *)
LEMMA KnownQueues ==
  ASSUME NEW w, NEW qa, NEW qs \in Seq(UdpBuffer), NEW b \in UdpBuffer
  PROVE  Known(w, qa, Append(qs, b)) = Known(w, qa, qs) \cup Els(Udp!Datagrams(b))
<1> DEFINE q == Udp!Queued(qs)
           d == Udp!Datagrams(b)
<1>1. q \in Seq(Datagram) /\ d \in Seq(Datagram)
  BY QueuedIs, DatagramsAre
<1>2. Udp!Queued(Append(qs, b)) = q \o d
  BY QueuedAppend
<1> HIDE DEF q, d
<1>3. Els(q \o d) = Els(q) \cup Els(d)
  BY <1>1, ElsJoined
<1> QED BY <1>2, <1>3 DEF Known, q, d

LEMMA WholeQueues ==
  ASSUME NEW w \in Seq(Datagram), NEW at,
         NEW qa \in Seq(UdpBuffer), NEW qs \in Seq(UdpBuffer), NEW b \in UdpBuffer
  PROVE  Whole(w, at, qa, Append(qs, b)) = Whole(w, at, qa, qs) \o Udp!Datagrams(b)
<1> DEFINE a == IF at = "erase" THEN << >> ELSE Udp!Queued(qa)
           q == Udp!Queued(qs)
           d == Udp!Datagrams(b)
<1>1. Udp!Queued(qa) \in Seq(Datagram) /\ q \in Seq(Datagram) /\ d \in Seq(Datagram)
  BY QueuedIs, DatagramsAre
<1>2. a \in Seq(Datagram)
  BY <1>1, EmptySeq
<1>3. Udp!Queued(Append(qs, b)) = q \o d
  BY QueuedAppend
<1>4. /\ Whole(w, at, qa, qs) = w \o (a \o q)
      /\ Whole(w, at, qa, Append(qs, b)) = w \o (a \o (q \o d))
  BY <1>3 DEF Whole
<1> HIDE DEF a, q, d
<1>6. a \o (q \o d) = (a \o q) \o d /\ a \o q \in Seq(Datagram)
  BY <1>1, <1>2, DatagramsAssociate
<1>7. w \o ((a \o q) \o d) = (w \o (a \o q)) \o d
  <2> DEFINE x == a \o q
  <2>1. x \in Seq(Datagram)
    BY <1>6
  <2> HIDE DEF x
  <2>2. w \o (x \o d) = (w \o x) \o d
    BY <1>1, <2>1, DatagramsAssociate, ZenonT(60)
  <2> QED BY <2>2 DEF x
<1> QED BY <1>4, <1>6, <1>7 DEF d

(* A direct send, which finds nothing queued.                              *)
LEMMA WholeSends ==
  ASSUME NEW w \in Seq(Datagram), NEW at, NEW s \in Seq(Datagram)
  PROVE  /\ Whole(w \o s, at, << >>, << >>) = Whole(w, at, << >>, << >>) \o s
         /\ Known(w \o s, << >>, << >>) = Known(w, << >>, << >>) \cup Els(s)
<1>1. w \o s \in Seq(Datagram)
  BY ConcatProperties
<1>2. << >> \o << >> = << >>
  BY EmptySeq, ConcatEmptySeq
<1>3. \A x \in Seq(Datagram) : x \o << >> = x
  BY ConcatEmptySeq
<1>4. \A x \in Seq(Datagram) : Whole(x, at, << >>, << >>) = x
  BY <1>2, <1>3, QueuedEmpty DEF Whole
<1>5. Els(w \o s) = Els(w) \cup Els(s)
  BY ElsJoined
<1>6. Known(w \o s, << >>, << >>) = Known(w, << >>, << >>) \cup Els(s)
  BY <1>5, QueuedEmpty DEF Known
<1> QED BY <1>1, <1>4, <1>6

(* Some datagrams are sent, and the others queued.                         *)
LEMMA WholeSplits ==
  ASSUME NEW w \in Seq(Datagram), NEW at, NEW s \in Seq(Datagram), NEW b \in UdpBuffer
  PROVE  /\ Whole(w \o s, at, << >>, Append(<< >>, b))
              = Whole(w, at, << >>, << >>) \o (s \o Udp!Datagrams(b))
         /\ Known(w \o s, << >>, Append(<< >>, b))
              = Known(w, << >>, << >>) \cup Els(s \o Udp!Datagrams(b))
<1> DEFINE d == Udp!Datagrams(b)
           e == << >>
           x == Whole(w, at, e, e)
           z == w \o s
<1>1. d \in Seq(Datagram) /\ e \in Seq(UdpBuffer)
  BY DatagramsAre, EmptySeq
<1> HIDE DEF d
<1>2. z \in Seq(Datagram)
  BY ConcatProperties
<1>3. Whole(z, at, e, e) = x \o s
  BY WholeSends
<1>4. Known(z, e, e) = Known(w, e, e) \cup Els(s)
  BY WholeSends
<1> HIDE DEF z, e, x
<1>5. x \in Seq(Datagram)
  BY <1>1, WholeIs DEF x
<1>6. Whole(z, at, e, Append(e, b)) = Whole(z, at, e, e) \o d
  BY <1>1, <1>2, WholeQueues, ZenonT(60) DEF d
<1>7. Known(z, e, Append(e, b)) = Known(z, e, e) \cup Els(d)
  BY <1>1, KnownQueues DEF d
<1>8. (x \o s) \o d = x \o (s \o d)
  BY <1>1, <1>5, DatagramsAssociate
<1>9. Els(s \o d) = Els(s) \cup Els(d)
  BY <1>1, ElsJoined
<1>10. Whole(z, at, e, Append(e, b)) = x \o (s \o d)
  BY <1>3, <1>6, <1>8
<1>11. Known(z, e, Append(e, b)) = Known(w, e, e) \cup Els(s \o d)
  BY <1>4, <1>7, <1>9
<1> QED BY <1>10, <1>11 DEF d, e, x, z

(* handle_write() sends the first datagram of the active queue.            *)
LEMMA WholeMoves ==
  ASSUME NEW w \in Seq(Datagram), NEW at, at # "erase",
         NEW qa \in Seq(UdpBuffer), NEW qs \in Seq(UdpBuffer),
         qa # << >>, qa[1].addrs # << >>
  PROVE  LET w2 == Append(w, Udp!Datagrams(qa[1])[1])
             r == [qa EXCEPT ![1] = Udp!RestOf(@)]
         IN  /\ w2 \in Seq(Datagram) /\ r \in Seq(UdpBuffer) /\ r # << >>
             /\ Whole(w2, at, r, qs) = Whole(w, at, qa, qs)
             /\ Known(w2, r, qs) = Known(w, qa, qs)
<1> DEFINE x == Udp!Datagrams(qa[1])[1]
           r == [qa EXCEPT ![1] = Udp!RestOf(@)]
           u == <<x>>
           a == Udp!Queued(r)
           q == Udp!Queued(qs)
<1>1. r \in Seq(UdpBuffer) /\ r # << >> /\ x \in Datagram /\ Udp!Queued(qa) = u \o a
  BY QueuedRest
<1>2. Append(w, x) \in Seq(Datagram) /\ Append(w, x) = w \o u
  BY <1>1, AppendProperties, AppendIsConcat
<1> HIDE DEF x, r
<1>3. u \in Seq(Datagram)
  BY <1>1
<1>4. a \in Seq(Datagram) /\ q \in Seq(Datagram)
  BY <1>1, QueuedIs
<1>5. /\ Whole(w, at, qa, qs) = w \o ((u \o a) \o q)
      /\ Whole(Append(w, x), at, r, qs) = (w \o u) \o (a \o q)
      /\ Known(w, qa, qs) = Els(w) \cup Els(u \o a) \cup Els(q)
      /\ Known(Append(w, x), r, qs) = Els(w \o u) \cup Els(a) \cup Els(q)
  BY <1>1, <1>2 DEF Whole, Known
<1> HIDE DEF u, a, q
<1>7. (u \o a) \o q = u \o (a \o q) /\ a \o q \in Seq(Datagram)
  BY <1>3, <1>4, DatagramsAssociate
<1>8. (w \o u) \o (a \o q) = w \o (u \o (a \o q))
  BY <1>3, <1>7, DatagramsAssociate
<1>9. Els(u \o a) = Els(u) \cup Els(a)
  BY <1>3, <1>4, ElsJoined
<1>10. Els(w \o u) = Els(w) \cup Els(u)
  BY <1>3, ElsJoined
<1> QED BY <1>1, <1>2, <1>5, <1>7, <1>8, <1>9, <1>10 DEF x, r

(* It takes a buffer from which all is sent off the queue.                 *)
LEMMA WholePops ==
  ASSUME NEW w \in Seq(Datagram), NEW at, at # "erase", NEW at2, at2 # "erase",
         NEW qa \in Seq(UdpBuffer), NEW qs \in Seq(UdpBuffer),
         qa # << >>, qa[1].addrs = << >>
  PROVE  /\ Tail(qa) \in Seq(UdpBuffer)
         /\ Whole(w, at2, Tail(qa), qs) = Whole(w, at, qa, qs)
         /\ Known(w, Tail(qa), qs) = Known(w, qa, qs)
<1>1. Tail(qa) \in Seq(UdpBuffer)
  BY HeadTailProperties
<1>2. Udp!Queued(qa) = Udp!Datagrams(qa[1]) \o Udp!Queued(Tail(qa))
  BY QueuedTail
<1>3. Udp!Datagrams(qa[1]) = << >>
  BY DEF Udp!Datagrams
<1>4. Udp!Queued(Tail(qa)) \in Seq(Datagram)
  BY <1>1, QueuedIs
<1>5. << >> \o Udp!Queued(Tail(qa)) = Udp!Queued(Tail(qa))
  BY <1>4, ConcatEmptySeq
<1>6. Udp!Queued(qa) = Udp!Queued(Tail(qa))
  BY <1>2, <1>3, <1>5
<1> QED BY <1>1, <1>6 DEF Whole, Known

(* It swaps the queues.                                                    *)
LEMMA WholeSwaps ==
  ASSUME NEW w \in Seq(Datagram), NEW at, at # "erase", NEW at2, at2 # "erase",
         NEW q \in Seq(UdpBuffer)
  PROVE  /\ Whole(w, at2, q, << >>) = Whole(w, at, << >>, q)
         /\ Known(w, q, << >>) = Known(w, << >>, q)
<1>1. Udp!Queued(q) \in Seq(Datagram)
  BY QueuedIs
<1>2. Udp!Queued(q) \o << >> = Udp!Queued(q) /\ << >> \o Udp!Queued(q) = Udp!Queued(q)
  BY <1>1, ConcatEmptySeq
<1>3. Whole(w, at2, q, << >>) = Whole(w, at, << >>, q)
  BY <1>2, QueuedEmpty DEF Whole
<1>4. Els(<< >>) = {}
  BY DEF Els
<1> QED BY <1>3, <1>4, QueuedEmpty DEF Known

(* sendmmsg() takes the first n of the first datagrams of the queue.       *)
LEMMA WholeTakes ==
  ASSUME NEW w \in Seq(Datagram), NEW at, at # "erase",
         NEW qa \in Seq(UdpBuffer), NEW qs \in Seq(UdpBuffer),
         NEW l \in 0 .. Len(Udp!Queued(qa)),
         NEW n \in 0 .. Len(SubSeq(Udp!Queued(qa), 1, l)), InTurn(Whole(w, at, qa, qs))
  PROVE  LET b == SubSeq(Udp!Queued(qa), 1, l)
             t == SubSeq(b, 1, n)
         IN  /\ b \in Seq(Datagram) /\ w \o t \in Seq(Datagram)
             /\ InTurn(Whole(w \o t, "erase", qa, qs))
             /\ Known(w \o t, qa, qs) = Known(w, qa, qs)
             /\ t \in Seq(Datagram) /\ Els(t) \subseteq Els(w \o t)
<1> DEFINE a == Udp!Queued(qa)
           q == Udp!Queued(qs)
           b == SubSeq(a, 1, l)
           t == SubSeq(b, 1, n)
<1>1. a \in Seq(Datagram) /\ q \in Seq(Datagram)
  BY QueuedIs
<1> HIDE DEF a
<1>2. PICK r1 \in Seq(Datagram) : b \in Seq(Datagram) /\ a = b \o r1
  BY <1>1, Divided DEF a
<1>3. n \in 0 .. Len(b)
  BY DEF a
<1> HIDE DEF b
<1>4. PICK r2 \in Seq(Datagram) : t \in Seq(Datagram) /\ b = t \o r2
  BY <1>2, <1>3, Divided
<1>5. Whole(w, at, qa, qs) = w \o (a \o q)
  BY DEF Whole, a
<1>6. Whole(w \o t, "erase", qa, qs) = (w \o t) \o (<< >> \o q)
  BY DEF Whole
<1> HIDE DEF t, q
<1>7. << >> \o q = q
  BY <1>1, ConcatEmptySeq
<1>8. \A y, z \in Seq(Datagram) : y \o z \in Seq(Datagram)
  BY ConcatProperties
<1>9. \A y, z \in Seq(Datagram) : Els(y \o z) = Els(y) \cup Els(z)
  BY ElsJoined
<1>10. \A y, z \in Seq(Datagram) : InTurn(y \o z) <=>
         InTurn(y) /\ InTurn(z) /\ \A u \in Els(y), v \in Els(z) : Before(u, v)
  BY InTurnJoined
<1>11. Els(b) = Els(t) \cup Els(r2) /\ Els(a) = Els(b) \cup Els(r1)
  BY <1>2, <1>4, <1>9
<1>12. a \o q \in Seq(Datagram) /\ Els(a \o q) = Els(a) \cup Els(q) /\ w \o t \in Seq(Datagram)
         /\ Els(w \o t) = Els(w) \cup Els(t)
  BY <1>1, <1>4, <1>8, <1>9
<1>13. InTurn(w) /\ InTurn(a \o q) /\ \A u \in Els(w), v \in Els(a \o q) : Before(u, v)
  <2> DEFINE z == a \o q
  <2>1. z \in Seq(Datagram) /\ InTurn(w \o z)
    BY <1>5, <1>12
  <2> HIDE DEF z
  <2>2. InTurn(w) /\ InTurn(z) /\ \A u \in Els(w), v \in Els(z) : Before(u, v)
    BY <1>10, <2>1
  <2> QED BY <2>2 DEF z
<1>14. InTurn(a) /\ InTurn(q) /\ \A u \in Els(a), v \in Els(q) : Before(u, v)
  BY <1>1, <1>10, <1>13
<1>15. InTurn(b)
  BY <1>2, <1>10, <1>14
<1>16. InTurn(t)
  BY <1>4, <1>10, <1>15
<1>17. InTurn(w \o t)
  <2>1. \A u \in Els(w), v \in Els(t) : Before(u, v)
    BY <1>11, <1>12, <1>13
  <2> QED BY <1>4, <1>10, <1>13, <1>16, <2>1
<1>18. InTurn((w \o t) \o q)
  <2>1. \A u \in Els(w \o t), v \in Els(q) : Before(u, v)
    BY <1>11, <1>12, <1>13, <1>14
  <2> QED BY <1>1, <1>10, <1>12, <1>14, <1>17, <2>1
<1>19. Known(w \o t, qa, qs) = Known(w, qa, qs)
  BY <1>11, <1>12 DEF Known, a
<1> QED BY <1>2, <1>4, <1>6, <1>7, <1>12, <1>18, <1>19 DEF t, b, a

-----------------------------------------------------------------------------
(* Whoever sends directly found both queues empty, which stay so while it  *)
(* holds the mutex; the call that holds it is the last one.                *)
UdpCallSteps == {"idle", "send_i", "direct", "add_event", "delete"}
UdpCalls == [at : UdpCallSteps, m : Nat, addrs : Nat, range : BOOLEAN]
UdpLoopSteps == {"idle", "swap", "send", "erase", "delete_event"}

UdpTypes ==
  /\ mmsg \in BOOLEAN /\ failed \in BOOLEAN
  /\ udp_queue_active \in Seq(UdpBuffer) /\ udp_queue_standby \in Seq(UdpBuffer)
  /\ udp_wire \in Seq(Datagram) /\ batch \in Seq(Datagram)
  /\ sends \in Seq(Addresses)
  /\ call \in [Senders -> UdpCalls]
  /\ udp_mutex \in Senders \cup {NoSender}
  /\ udp_loop_pc \in UdpLoopSteps
  /\ retval \in 0 .. Iovecs

UdpHolds == \A p \in Senders : udp_mutex = p <=> call[p].at \in {"send_i", "direct"}

UdpPlaces ==
  /\ \A p \in Senders : call[p].at = "direct" =>
       udp_queue_active = << >> /\ udp_queue_standby = << >>
  /\ udp_loop_pc \in {"send", "erase"} => udp_queue_active # << >>
  /\ udp_loop_pc = "swap" => udp_queue_active = << >>
  /\ udp_loop_pc = "erase" => mmsg

UdpLast ==
  \A p \in Senders : udp_mutex = p =>
    sends # << >> /\ call[p].m = Len(sends) /\ call[p].addrs = sends[Len(sends)]

UdpShape == UdpTypes /\ UdpHolds /\ UdpPlaces /\ UdpLast

UdpAll == Whole(udp_wire, udp_loop_pc, udp_queue_active, udp_queue_standby)
UdpKnown == Known(udp_wire, udp_queue_active, udp_queue_standby)

UdpContents ==
  /\ InTurn(UdpAll)
  /\ \A d \in UdpKnown : d[1] \in 1 .. Len(sends) /\ (udp_mutex # NoSender => d[1] # Len(sends))
  /\ ~mmsg => lost = {}
  /\ ~failed => \A m \in 1 .. Len(sends) : (udp_mutex # NoSender => m # Len(sends)) =>
                  \A a \in 1 .. sends[m] : <<m, a>> \in UdpKnown \cup lost

UdpErasing ==
  udp_loop_pc = "erase" => Udp!ToSet(SubSeq(batch, 1, retval)) \subseteq Els(udp_wire)

UdpDataInv == UdpShape /\ UdpContents /\ UdpErasing

(* The invariant holds when the program starts.                            *)
LEMMA InitUdpData == Udp!Init => UdpDataInv
<1> SUFFICES ASSUME Udp!Init
             PROVE  UdpDataInv
  OBVIOUS
<1>0. \A S : << >> \in Seq(S)
  BY EmptySeq
<1>1. UdpShape
  <2>1. /\ << >> \in Seq(UdpBuffer) /\ << >> \in Seq(Datagram) /\ << >> \in Seq(Addresses)
    BY <1>0
  <2>2. NoSender \notin Senders /\ Iovecs \in Nat
    BY EventsAssumption DEF Udp!UdpAssumption
  <2>3. UdpTypes
    <3>1. call \in [Senders -> UdpCalls]
      BY DEF Udp!Init, Udp!NoCall, UdpCalls, UdpCallSteps
    <3>2. retval \in 0 .. Iovecs
      BY <2>2 DEF Udp!Init
    <3> QED BY <2>1, <3>1, <3>2 DEF Udp!Init, UdpTypes, UdpLoopSteps
  <2>4. UdpHolds /\ UdpPlaces /\ UdpLast
    BY <2>2 DEF Udp!Init, UdpHolds, UdpPlaces, UdpLast, Udp!NoCall
  <2> QED BY <2>3, <2>4 DEF UdpShape
<1>2. UdpContents
  <2>1. << >> \o (<< >> \o << >>) = << >>
    BY EmptySeq, ConcatEmptySeq
  <2>2. UdpAll = << >>
    BY <2>1, QueuedEmpty DEF Udp!Init, UdpAll, Whole
  <2>3. UdpKnown = {}
    BY QueuedEmpty DEF Udp!Init, UdpKnown, Known, Els
  <2>4. InTurn(<< >>)
    BY DEF InTurn
  <2>5. sends = << >> /\ Len(sends) = 0 /\ lost = {}
    BY DEF Udp!Init
  <2>6. \A m \in 1 .. Len(sends) : FALSE
    BY <2>5
  <2> QED BY <2>2, <2>3, <2>4, <2>5, <2>6 DEF UdpContents
<1>3. UdpErasing
  BY DEF Udp!Init, UdpErasing
<1> QED BY <1>1, <1>2, <1>3 DEF UdpDataInv

(* A call moves on, to a place where it holds the mutex or not.            *)
LEMMA UdpCallMoves ==
  ASSUME UdpTypes, NEW p \in Senders, NEW to \in UdpCallSteps,
         \/ call' = [call EXCEPT ![p].at = to]
         \/ call' = [call EXCEPT ![p] = Udp!NoCall] /\ to = "idle"
  PROVE  /\ call' \in [Senders -> UdpCalls]
         /\ \A q \in Senders : q # p => call'[q] = call[q]
         /\ call'[p].at = to
         /\ to # "idle" => call'[p].m = call[p].m /\ call'[p].addrs = call[p].addrs
<1>1. CASE call' = [call EXCEPT ![p].at = to]
  <2>1. call[p] \in UdpCalls
    BY DEF UdpTypes
  <2>2. /\ [call[p] EXCEPT !.at = to] \in UdpCalls
        /\ [call[p] EXCEPT !.at = to].at = to
        /\ [call[p] EXCEPT !.at = to].m = call[p].m
        /\ [call[p] EXCEPT !.at = to].addrs = call[p].addrs
    BY <2>1 DEF UdpCalls
  <2>3. call' = [call EXCEPT ![p] = [call[p] EXCEPT !.at = to]]
    BY <1>1
  <2> QED BY <2>2, <2>3 DEF UdpTypes
<1>2. CASE call' = [call EXCEPT ![p] = Udp!NoCall] /\ to = "idle"
  BY <1>2 DEF UdpTypes, UdpCalls, Udp!NoCall, UdpCallSteps
<1> QED BY <1>1, <1>2

LEMMA UdpCallLeaves ==
  ASSUME UdpTypes, NEW p \in Senders,
         \/ \E to \in {"add_event", "delete"} : call' = [call EXCEPT ![p].at = to]
         \/ call' = [call EXCEPT ![p] = Udp!NoCall]
  PROVE  \E to \in {"idle", "add_event", "delete"} :
           /\ call' \in [Senders -> UdpCalls]
           /\ \A q \in Senders : q # p => call'[q] = call[q]
           /\ call'[p].at = to
<1>1. {"idle", "add_event", "delete"} \subseteq UdpCallSteps
  BY DEF UdpCallSteps
<1>2. CASE call' = [call EXCEPT ![p] = Udp!NoCall]
  BY <1>1, <1>2, UdpCallMoves
<1>3. CASE \E to \in {"add_event", "delete"} : call' = [call EXCEPT ![p].at = to]
  <2>1. PICK to \in {"add_event", "delete"} : call' = [call EXCEPT ![p].at = to]
    BY <1>3
  <2>2. to \in UdpCallSteps
    BY <1>1
  <2>3. /\ call' \in [Senders -> UdpCalls]
        /\ \A q \in Senders : q # p => call'[q] = call[q]
        /\ call'[p].at = to
    BY <2>1, <2>2, UdpCallMoves
  <2> QED BY <2>3
<1> QED BY <1>2, <1>3

(* A call gives the mutex back.                                            *)
LEMMA UdpReleases ==
  ASSUME UdpShape, UdpTypes', NEW p \in Senders,
         call[p].at \in {"send_i", "direct"}, udp_mutex' = NoSender,
         \A q \in Senders : q # p => call'[q] = call[q],
         call'[p].at \notin {"send_i", "direct"},
         UNCHANGED <<udp_queue_active, udp_loop_pc, mmsg>>
  PROVE  UdpShape'
<1>0. NoSender \notin Senders
  BY EventsAssumption DEF Udp!UdpAssumption
<1>1. udp_mutex = p
  BY DEF UdpShape, UdpHolds
<1>2. \A q \in Senders : call'[q].at \notin {"send_i", "direct"}
  BY <1>1 DEF UdpShape, UdpHolds
<1>3. UdpHolds'
  BY <1>0, <1>2 DEF UdpHolds
<1>4. UdpPlaces'
  BY <1>2 DEF UdpShape, UdpPlaces
<1>5. UdpLast'
  BY <1>0 DEF UdpLast
<1> QED BY <1>3, <1>4, <1>5 DEF UdpShape

(* The calls of send().                                                    *)
LEMMA UdpSendShape ==
  ASSUME UdpShape, NEW p \in Senders, Udp!Send(p)
  PROVE  UdpShape'
<1>0. UdpTypes /\ NoSender \notin Senders /\ Addresses \subseteq Nat /\ Iovecs \in Nat
  BY EventsAssumption DEF UdpShape, Udp!UdpAssumption
<1>a. << >> \in Seq(UdpBuffer) /\ call[p].m \in Nat /\ call[p].addrs \in Nat
  BY <1>0, EmptySeq DEF UdpTypes, UdpCalls
<1>1. ASSUME NEW n \in Addresses, NEW range \in BOOLEAN, Udp!SendLock(p, n, range)
      PROVE  UdpShape'
  <2> DEFINE c == [at |-> "send_i", m |-> Len(sends'), addrs |-> n, range |-> range]
  <2>1. /\ udp_mutex = NoSender /\ udp_mutex' = p /\ call[p].at = "idle"
        /\ sends' = Append(sends, n) /\ call' = [call EXCEPT ![p] = c]
        /\ UNCHANGED <<mmsg, failed, udp_queue_active, udp_queue_standby, udp_wire, batch,
                       udp_loop_pc, retval>>
    BY <1>1 DEF Udp!SendLock, Udp!Busy, Udp!queues, Udp!loop, Udp!config, Udp!history
  <2>2. /\ sends' \in Seq(Addresses) /\ sends' # << >> /\ Len(sends') = Len(sends) + 1
        /\ Len(sends) \in Nat /\ sends'[Len(sends')] = n
    <3>1. sends \in Seq(Addresses)
      BY <1>0 DEF UdpTypes
    <3>2. Len(sends) \in Nat
      BY <3>1, LenProperties
    <3>3. /\ Append(sends, n) \in Seq(Addresses) /\ Append(sends, n) # << >>
          /\ Len(Append(sends, n)) = Len(sends) + 1
          /\ Append(sends, n)[Len(sends) + 1] = n
      BY <3>1, AppendProperties
    <3> QED BY <2>1, <3>2, <3>3
  <2>3. c \in UdpCalls
    BY <1>0, <2>2 DEF UdpCalls, UdpCallSteps
  <2>4. c.at = "send_i" /\ c.m = Len(sends') /\ c.addrs = n
    OBVIOUS
  <2> HIDE DEF c
  <2>5. /\ call' \in [Senders -> UdpCalls]
        /\ call'[p] = c /\ \A q \in Senders : q # p => call'[q] = call[q]
    BY <1>0, <2>1, <2>3 DEF UdpTypes
  <2>6. UdpTypes'
    BY <1>0, <2>1, <2>2, <2>5 DEF UdpTypes
  <2>7. UdpHolds'
    BY <1>0, <2>1, <2>4, <2>5 DEF UdpShape, UdpHolds
  <2>8. UdpPlaces'
    BY <2>1, <2>4, <2>5 DEF UdpShape, UdpPlaces
  <2>9. UdpLast'
    BY <2>1, <2>2, <2>4, <2>5 DEF UdpLast
  <2> QED BY <2>6, <2>7, <2>8, <2>9 DEF UdpShape
<1>2. CASE Udp!DirectTest(p)
  <2>1. /\ udp_queue_active = << >> /\ udp_queue_standby = << >> /\ call[p].at = "send_i"
        /\ call' = [call EXCEPT ![p].at = "direct"]
        /\ UNCHANGED <<mmsg, failed, udp_queue_active, udp_queue_standby, udp_wire, batch,
                       udp_loop_pc, retval, sends, udp_mutex>>
    BY <1>2 DEF Udp!DirectTest, Udp!At, Udp!queues, Udp!loop, Udp!config, Udp!history
  <2>2. "direct" \in UdpCallSteps /\ "direct" # "idle"
    BY DEF UdpCallSteps
  <2>3. /\ call' \in [Senders -> UdpCalls]
        /\ \A q \in Senders : q # p => call'[q] = call[q]
        /\ call'[p].at = "direct"
        /\ call'[p].m = call[p].m /\ call'[p].addrs = call[p].addrs
    BY <1>0, <2>1, <2>2, UdpCallMoves
  <2>4. UdpTypes'
    BY <1>0, <2>1, <2>3 DEF UdpTypes
  <2>5. UdpHolds'
    BY <2>1, <2>3 DEF UdpShape, UdpHolds
  <2>6. UdpPlaces'
    BY <2>1, <2>3 DEF UdpShape, UdpPlaces
  <2>7. UdpLast'
    BY <2>1, <2>3 DEF UdpShape, UdpLast
  <2> QED BY <2>4, <2>5, <2>6, <2>7 DEF UdpShape
<1>3. CASE Udp!Enqueue(p)
  <2>1. /\ call[p].at = "send_i" /\ call' = [call EXCEPT ![p].at = "add_event"]
        /\ udp_queue_standby' = Append(udp_queue_standby, Udp!Buffer(call[p], 1))
        /\ udp_mutex' = NoSender
        /\ UNCHANGED <<mmsg, failed, udp_queue_active, udp_wire, batch,
                       udp_loop_pc, retval, sends>>
    BY <1>3 DEF Udp!Enqueue, Udp!At, Udp!queues, Udp!loop, Udp!config, Udp!history
  <2>2. "add_event" \in UdpCallSteps /\ "add_event" # "idle"
    BY DEF UdpCallSteps
  <2>3. /\ call' \in [Senders -> UdpCalls]
        /\ \A q \in Senders : q # p => call'[q] = call[q]
        /\ call'[p].at = "add_event"
    BY <1>0, <2>1, <2>2, UdpCallMoves
  <2>4. Udp!Buffer(call[p], 1) \in UdpBuffer
    <3>1. 0 \in 0 .. call[p].addrs /\ 0 + 1 = 1
      BY <1>a
    <3>2. Udp!Buffer(call[p], 0 + 1) \in UdpBuffer
      BY <1>a, <3>1, BufferIs
    <3> QED BY <3>1, <3>2
  <2>5. udp_queue_standby' \in Seq(UdpBuffer)
    BY <1>0, <2>1, <2>4, AppendProperties DEF UdpTypes
  <2>6. UdpTypes'
    BY <1>0, <2>1, <2>3, <2>5 DEF UdpTypes
  <2> QED BY <2>1, <2>3, <2>6, UdpReleases
<1>4. CASE Udp!DirectAll(p)
  <2>1. /\ call[p].at = "direct" /\ call' = [call EXCEPT ![p] = Udp!NoCall]
        /\ udp_wire' = udp_wire \o Udp!Sent(call[p], call[p].addrs)
        /\ udp_mutex' = NoSender
        /\ UNCHANGED <<mmsg, failed, udp_queue_active, udp_queue_standby, batch,
                       udp_loop_pc, retval, sends>>
    BY <1>4 DEF Udp!DirectAll, Udp!Returned, Udp!queues, Udp!loop, Udp!config, Udp!history
  <2>2. "idle" \in UdpCallSteps
    BY DEF UdpCallSteps
  <2>3. /\ call' \in [Senders -> UdpCalls]
        /\ \A q \in Senders : q # p => call'[q] = call[q]
        /\ call'[p].at = "idle"
    BY <1>0, <2>1, <2>2, UdpCallMoves
  <2>4. Udp!Sent(call[p], call[p].addrs) \in Seq(Datagram)
    BY <1>a, SentIs
  <2>5. udp_wire' \in Seq(Datagram)
    BY <1>0, <2>1, <2>4, ConcatProperties DEF UdpTypes
  <2>6. UdpTypes'
    BY <1>0, <2>1, <2>3, <2>5 DEF UdpTypes
  <2> QED BY <2>1, <2>3, <2>6, UdpReleases
<1>5. ASSUME NEW k \in 0 .. call[p].addrs, Udp!DirectSome(p, k)
      PROVE  UdpShape'
  <2>1. /\ call[p].at = "direct"
        /\ \/ \E to \in {"add_event", "delete"} : call' = [call EXCEPT ![p].at = to]
           \/ call' = [call EXCEPT ![p] = Udp!NoCall]
        /\ udp_wire' = udp_wire \o Udp!Sent(call[p], k)
        /\ udp_queue_standby' = Append(udp_queue_standby, Udp!Buffer(call[p], k + 1))
        /\ udp_mutex' = NoSender
        /\ UNCHANGED <<mmsg, failed, udp_queue_active, batch, udp_loop_pc, retval, sends>>
    BY <1>5 DEF Udp!DirectSome, Udp!At, Udp!Returned, Udp!loop, Udp!config
  <2>2. PICK to \in {"idle", "add_event", "delete"} :
          /\ call' \in [Senders -> UdpCalls]
          /\ \A q \in Senders : q # p => call'[q] = call[q]
          /\ call'[p].at = to
    BY <1>0, <2>1, UdpCallLeaves
  <2>3. Udp!Sent(call[p], k) \in Seq(Datagram) /\ Udp!Buffer(call[p], k + 1) \in UdpBuffer
    <3>1. Udp!Sent(call[p], k) \in Seq(Datagram)
      BY <1>a, SentIs
    <3>2. Udp!Buffer(call[p], k + 1) \in UdpBuffer
      BY <1>a, BufferIs
    <3> QED BY <3>1, <3>2
  <2>4. udp_wire' \in Seq(Datagram)
    BY <1>0, <2>1, <2>3, ConcatProperties DEF UdpTypes
  <2>5. udp_queue_standby' \in Seq(UdpBuffer)
    BY <1>0, <2>1, <2>3, AppendProperties DEF UdpTypes
  <2>6. UdpTypes'
    BY <1>0, <2>1, <2>2, <2>4, <2>5 DEF UdpTypes
  <2>7. call'[p].at \notin {"send_i", "direct"}
    BY <2>2
  <2> QED BY <2>1, <2>2, <2>6, <2>7, UdpReleases
<1>6. ASSUME NEW k \in 0 .. call[p].addrs, Udp!DirectFails(p, k)
      PROVE  UdpShape'
  <2>1. /\ call[p].at = "direct"
        /\ \/ \E to \in {"add_event", "delete"} : call' = [call EXCEPT ![p].at = to]
           \/ call' = [call EXCEPT ![p] = Udp!NoCall]
        /\ udp_wire' = udp_wire \o Udp!Sent(call[p], k)
        /\ udp_mutex' = NoSender /\ failed' = TRUE
        /\ UNCHANGED <<mmsg, udp_queue_active, udp_queue_standby, batch, udp_loop_pc,
                       retval, sends>>
    BY <1>6 DEF Udp!DirectFails, Udp!At, Udp!Returned, Udp!loop, Udp!config, Udp!queues
  <2>2. PICK to \in {"idle", "add_event", "delete"} :
          /\ call' \in [Senders -> UdpCalls]
          /\ \A q \in Senders : q # p => call'[q] = call[q]
          /\ call'[p].at = to
    BY <1>0, <2>1, UdpCallLeaves
  <2>3. Udp!Sent(call[p], k) \in Seq(Datagram)
    BY <1>a, SentIs
  <2>4. udp_wire' \in Seq(Datagram)
    BY <1>0, <2>1, <2>3, ConcatProperties DEF UdpTypes
  <2>5. UdpTypes'
    BY <1>0, <2>1, <2>2, <2>4 DEF UdpTypes
  <2>6. call'[p].at \notin {"send_i", "direct"}
    BY <2>2
  <2> QED BY <2>1, <2>2, <2>5, <2>6, UdpReleases
<1>7. CASE Udp!AddEvent(p) \/ Udp!DeleteHandler(p)
  <2>1. /\ call[p].at \in {"add_event", "delete"} /\ call' = [call EXCEPT ![p] = Udp!NoCall]
        /\ UNCHANGED <<mmsg, failed, udp_queue_active, udp_queue_standby, udp_wire, batch,
                       udp_loop_pc, retval, sends, udp_mutex>>
    BY <1>7 DEF Udp!AddEvent, Udp!DeleteHandler, Udp!Returned, Udp!queues, Udp!loop,
                Udp!config, Udp!history
  <2>2. "idle" \in UdpCallSteps
    BY DEF UdpCallSteps
  <2>3. /\ call' \in [Senders -> UdpCalls]
        /\ \A q \in Senders : q # p => call'[q] = call[q]
        /\ call'[p].at = "idle"
    BY <1>0, <2>1, <2>2, UdpCallMoves
  <2>4. UdpTypes'
    BY <1>0, <2>1, <2>3 DEF UdpTypes
  <2>5. UdpHolds'
    BY <2>1, <2>3 DEF UdpShape, UdpHolds
  <2>6. UdpPlaces'
    BY <2>1, <2>3 DEF UdpShape, UdpPlaces
  <2>7. UdpLast'
    <3>1. udp_mutex # p
      BY <2>1 DEF UdpShape, UdpHolds
    <3> QED BY <2>1, <2>3, <3>1 DEF UdpShape, UdpLast
  <2> QED BY <2>4, <2>5, <2>6, <2>7 DEF UdpShape
<1> QED BY <1>1, <1>2, <1>3, <1>4, <1>5, <1>6, <1>7 DEF Udp!Send

(* A step of handle_write() that leaves the calls of send() and the mutex  *)
(* alone.                                                                  *)
LEMMA UdpLoopMoves ==
  ASSUME UdpShape, NEW from, NEW to \in UdpLoopSteps, Udp!LoopStep(from, to),
         udp_queue_active' \in Seq(UdpBuffer), udp_queue_standby' \in Seq(UdpBuffer),
         udp_wire' \in Seq(Datagram), batch' \in Seq(Datagram), retval' \in 0 .. Iovecs,
         failed' \in BOOLEAN,
         udp_queue_active = << >> /\ udp_queue_standby = << >> =>
           udp_queue_active' = << >> /\ udp_queue_standby' = << >>,
         to \in {"send", "erase"} => udp_queue_active' # << >>,
         to = "swap" => udp_queue_active' = << >>, to = "erase" => mmsg
  PROVE  UdpShape' /\ UNCHANGED <<sends, udp_mutex, mmsg>>
<1>1. udp_loop_pc' = to /\ UNCHANGED <<call, sends, udp_mutex, mmsg>>
  BY DEF Udp!LoopStep, Udp!config
<1>2. UdpTypes'
  BY <1>1 DEF UdpShape, UdpTypes
<1>3. UdpHolds' /\ UdpLast'
  BY <1>1 DEF UdpShape, UdpHolds, UdpLast
<1>4. UdpPlaces'
  BY <1>1 DEF UdpShape, UdpPlaces
<1> QED BY <1>1, <1>2, <1>3, <1>4 DEF UdpShape

(* If no datagram comes or goes, and the order stays, what was true of the *)
(* datagrams stays true.                                                   *)
LEMMA UdpKeeps ==
  ASSUME UdpContents, InTurn(UdpAll'), UdpKnown' \subseteq UdpKnown,
         UdpKnown \cup lost \subseteq UdpKnown' \cup lost',
         mmsg' = mmsg, ~mmsg => lost' = lost, failed => failed',
         UNCHANGED <<sends, udp_mutex>>
  PROVE  UdpContents'
BY DEF UdpContents

(* The call that holds the mutex has sent or queued its message, or the    *)
(* socket failed after the first n datagrams.                              *)
LEMMA UdpTakes ==
  ASSUME UdpShape, UdpContents, NEW p \in Senders, udp_mutex = p, udp_mutex' = NoSender,
         NEW n \in 0 .. call[p].addrs,
         UdpAll' = UdpAll \o Udp!Sent(call[p], n),
         UdpKnown' = UdpKnown \cup Els(Udp!Sent(call[p], n)),
         n = call[p].addrs \/ failed', failed => failed', UNCHANGED <<sends, lost, mmsg>>
  PROVE  UdpContents'
<1> DEFINE c == call[p]
           s == Udp!Sent(c, n)
           m == Len(sends)
<1>1. NoSender \notin Senders /\ Addresses \subseteq Nat
  BY EventsAssumption DEF Udp!UdpAssumption
<1>2. /\ c.m = m /\ c.addrs = sends[m] /\ m \in Nat \ {0} /\ m \in 1 .. Len(sends)
      /\ c.addrs \in Nat /\ n \in Nat
  <2>1. sends \in Seq(Addresses) /\ sends # << >> /\ c.m = m /\ c.addrs = sends[m]
    BY DEF UdpShape, UdpTypes, UdpLast
  <2>2. m \in Nat \ {0}
    BY <2>1, EmptySeq
  <2>3. c.addrs \in Nat
    BY DEF UdpShape, UdpTypes, UdpCalls
  <2> QED BY <2>1, <2>2, <2>3
<1> HIDE DEF c
<1>3. s \in Seq(Datagram) /\ InTurn(s) /\ Els(s) = { <<c.m, a>> : a \in 1 .. n }
  BY <1>2, SentIs
<1>4. UdpAll \in Seq(Datagram) /\ Els(UdpAll) \subseteq UdpKnown
  BY WholeIs DEF UdpShape, UdpTypes, UdpAll, UdpKnown
<1>5. \A d \in UdpKnown : d[1] \in 1 .. m /\ d[1] # m
  BY <1>1 DEF UdpContents
<1>6. UdpAll' = UdpAll \o s /\ UdpKnown' = UdpKnown \cup Els(s)
  BY DEF c
<1> HIDE DEF s
<1>7. InTurn(UdpAll \o s)
  <2>1. \A x \in Els(UdpAll), y \in Els(s) : Before(x, y)
    <3> TAKE x \in Els(UdpAll), y \in Els(s)
    <3>1. x[1] \in 1 .. m /\ x[1] # m
      BY <1>4, <1>5
    <3>2. y[1] = m
      BY <1>2, <1>3
    <3> QED BY <1>2, <3>1, <3>2 DEF Before
  <2>2. InTurn(UdpAll)
    BY DEF UdpContents
  <2> QED BY <1>3, <1>4, <2>1, <2>2, InTurnJoined
<1>8. \A d \in UdpKnown' : d[1] \in 1 .. m
  BY <1>2, <1>3, <1>5, <1>6
<1>9. ASSUME ~failed', NEW i \in 1 .. m, NEW a \in 1 .. sends[i]
      PROVE  <<i, a>> \in UdpKnown' \cup lost
  <2>1. CASE i = m
    <3>1. a \in 1 .. n
      BY <1>2, <1>9, <2>1 DEF c
    <3>2. <<c.m, a>> \in Els(s)
      BY <1>3, <3>1
    <3> QED BY <1>2, <1>6, <2>1, <3>2
  <2>2. CASE i # m
    <3>1. ~failed
      BY <1>9
    <3>2. <<i, a>> \in UdpKnown \cup lost
      BY <1>9, <2>2, <3>1 DEF UdpContents
    <3> QED BY <1>6, <3>2
  <2> QED BY <2>1, <2>2
<1>10. ~mmsg => lost = {}
  BY DEF UdpContents
<1>11. (udp_mutex # NoSender)' = FALSE /\ sends' = sends /\ lost' = lost /\ mmsg' = mmsg
  OBVIOUS
<1> QED BY <1>6, <1>7, <1>8, <1>9, <1>10, <1>11 DEF UdpContents

(* What a call sends directly finds the active queue empty.                *)
LEMMA UdpSendErasing ==
  ASSUME UdpShape, UdpErasing, NEW p \in Senders, Udp!Send(p)
  PROVE  UdpErasing'
<1>1. CASE call[p].at = "direct"
  <2>1. udp_queue_active = << >>
    BY <1>1 DEF UdpShape, UdpPlaces
  <2>2. udp_loop_pc # "erase"
    BY <2>1 DEF UdpShape, UdpPlaces
  <2>3. udp_loop_pc' = udp_loop_pc
    BY DEF Udp!Send, Udp!SendLock, Udp!DirectTest, Udp!Enqueue, Udp!DirectAll, Udp!DirectSome,
           Udp!DirectFails, Udp!AddEvent, Udp!DeleteHandler, Udp!At, Udp!Returned, Udp!loop
  <2> QED BY <2>2, <2>3 DEF UdpErasing
<1>2. CASE call[p].at # "direct"
  <2>1. UNCHANGED <<udp_loop_pc, batch, retval, udp_wire>>
    BY <1>2 DEF Udp!Send, Udp!SendLock, Udp!DirectTest, Udp!Enqueue, Udp!DirectAll,
                Udp!DirectSome, Udp!DirectFails, Udp!AddEvent, Udp!DeleteHandler, Udp!At,
                Udp!Returned, Udp!loop
  <2> QED BY <2>1 DEF UdpErasing
<1> QED BY <1>1, <1>2

(* A call that takes the mutex is the next one, of which nothing is sent.  *)
LEMMA UdpLocks ==
  ASSUME UdpShape, UdpContents, NEW p \in Senders, NEW n \in Addresses,
         NEW range \in BOOLEAN, Udp!SendLock(p, n, range)
  PROVE  UdpContents'
<1>1. /\ udp_mutex = NoSender /\ udp_mutex' = p /\ sends' = Append(sends, n)
      /\ UNCHANGED <<udp_wire, udp_loop_pc, udp_queue_active, udp_queue_standby, lost, failed,
                     mmsg>>
  BY DEF Udp!SendLock, Udp!queues, Udp!history, Udp!loop, Udp!config
<1>2. NoSender \notin Senders /\ sends \in Seq(Addresses)
  BY EventsAssumption DEF UdpShape, UdpTypes, Udp!UdpAssumption
<1>3. /\ Len(sends) \in Nat /\ Len(sends') = Len(sends) + 1
      /\ \A i \in 1 .. Len(sends) : sends'[i] = sends[i]
  BY <1>1, <1>2, LenProperties, AppendProperties
<1>4. UdpAll' = UdpAll /\ UdpKnown' = UdpKnown
  BY <1>1 DEF UdpAll, UdpKnown
<1>5. \A d \in UdpKnown : d[1] \in 1 .. Len(sends') /\ d[1] # Len(sends')
  <2> TAKE d \in UdpKnown
  <2>1. d[1] \in 1 .. Len(sends)
    BY DEF UdpContents
  <2> QED BY <1>3, <2>1
<1>6. ASSUME ~failed', NEW i \in 1 .. Len(sends'), i # Len(sends'), NEW a \in 1 .. sends'[i]
      PROVE  <<i, a>> \in UdpKnown' \cup lost'
  <2>1. i \in 1 .. Len(sends)
    BY <1>3, <1>6
  <2>2. a \in 1 .. sends[i]
    BY <1>3, <1>6, <2>1
  <2>3. <<i, a>> \in UdpKnown \cup lost
    BY <1>1, <1>6, <2>1, <2>2 DEF UdpContents
  <2> QED BY <1>1, <1>4, <2>3
<1>7. InTurn(UdpAll') /\ (~mmsg' => lost' = {})
  BY <1>1, <1>4 DEF UdpContents
<1>8. udp_mutex' # NoSender
  BY <1>1, <1>2
<1> QED BY <1>4, <1>5, <1>6, <1>7, <1>8 DEF UdpContents

LEMMA UdpSendContents ==
  ASSUME UdpShape, UdpContents, NEW p \in Senders, Udp!Send(p)
  PROVE  UdpContents'
<1> DEFINE c == call[p]
           w == udp_wire
           qs == udp_queue_standby
<1>0. /\ c.m \in Nat /\ c.addrs \in Nat /\ w \in Seq(Datagram) /\ qs \in Seq(UdpBuffer)
      /\ udp_queue_active \in Seq(UdpBuffer) /\ << >> \in Seq(UdpBuffer)
  BY EmptySeq DEF UdpShape, UdpTypes, UdpCalls
<1>a. c.at \in {"send_i", "direct"} => udp_mutex = p
  BY DEF UdpShape, UdpHolds
<1>b. c.at = "direct" => udp_queue_active = << >> /\ qs = << >>
  BY DEF UdpShape, UdpPlaces
<1>1. ASSUME NEW n \in Addresses, NEW range \in BOOLEAN, Udp!SendLock(p, n, range)
      PROVE  UdpContents'
  BY <1>1, UdpLocks
<1>2. CASE Udp!DirectTest(p) \/ Udp!AddEvent(p) \/ Udp!DeleteHandler(p)
  <2>1. UNCHANGED <<udp_queue_active, udp_queue_standby, udp_wire, udp_loop_pc, sends,
                    udp_mutex, mmsg, failed, lost>>
    BY <1>2 DEF Udp!DirectTest, Udp!AddEvent, Udp!DeleteHandler, Udp!At, Udp!Returned,
                Udp!queues, Udp!loop, Udp!config, Udp!history
  <2>2. UdpAll' = UdpAll /\ UdpKnown' = UdpKnown
    BY <2>1 DEF UdpAll, UdpKnown
  <2>3. InTurn(UdpAll')
    BY <2>2 DEF UdpContents
  <2> QED BY <2>1, <2>2, <2>3, UdpKeeps
<1>3. CASE Udp!Enqueue(p)
  <2> DEFINE b == Udp!Buffer(c, 1)
             d == Udp!Datagrams(b)
  <2>1. /\ c.at = "send_i" /\ udp_queue_standby' = Append(qs, b) /\ udp_mutex' = NoSender
        /\ UNCHANGED <<mmsg, failed, lost, udp_queue_active, udp_wire, udp_loop_pc, sends>>
    BY <1>3 DEF Udp!Enqueue, Udp!At, Udp!queues, Udp!loop, Udp!config, Udp!history
  <2>2. b \in UdpBuffer /\ d = Udp!Sent(c, c.addrs)
    <3>1. 0 \in 0 .. c.addrs /\ 0 + 1 = 1 /\ 0 \in Nat
      BY <1>0
    <3>2. b \in UdpBuffer /\ Udp!Sent(c, 0) \o d = Udp!Sent(c, c.addrs)
      BY <1>0, <3>1, BufferIs
    <3>3. Udp!Sent(c, 0) = << >>
      BY DEF Udp!Sent
    <3>4. d \in Seq(Datagram)
      BY <3>2, DatagramsAre
    <3> HIDE DEF d
    <3>5. << >> \o d = d
      BY <3>4, ConcatEmptySeq
    <3> QED BY <3>2, <3>3, <3>5 DEF d
  <2> HIDE DEF b
  <2>3. Whole(w, udp_loop_pc, udp_queue_active, Append(qs, b)) = UdpAll \o d
    <3> HIDE DEF w, qs, d
    <3>1. Whole(w, udp_loop_pc, udp_queue_active, Append(qs, b))
            = Whole(w, udp_loop_pc, udp_queue_active, qs) \o Udp!Datagrams(b)
      BY <1>0, <2>2, WholeQueues, ZenonT(60)
    <3> QED BY <3>1 DEF UdpAll, w, qs, d
  <2>4. Known(w, udp_queue_active, Append(qs, b)) = UdpKnown \cup Els(d)
    BY <1>0, <2>2, KnownQueues DEF UdpKnown
  <2>5. UdpAll' = UdpAll \o d /\ UdpKnown' = UdpKnown \cup Els(d)
    BY <2>1, <2>3, <2>4 DEF UdpAll, UdpKnown
  <2>6. udp_mutex = p /\ c.addrs \in 0 .. c.addrs
    BY <1>0, <1>a, <2>1
  <2> HIDE DEF d
  <2>7. /\ UdpAll' = UdpAll \o Udp!Sent(c, c.addrs)
        /\ UdpKnown' = UdpKnown \cup Els(Udp!Sent(c, c.addrs))
    BY <2>2, <2>5
  <2> QED BY <2>1, <2>6, <2>7, UdpTakes
<1>4. CASE Udp!DirectAll(p)
  <2> DEFINE s == Udp!Sent(c, c.addrs)
  <2>1. /\ c.at = "direct" /\ udp_wire' = w \o s /\ udp_mutex' = NoSender
        /\ UNCHANGED <<mmsg, failed, lost, udp_queue_active, udp_queue_standby, udp_loop_pc,
                       sends>>
    BY <1>4 DEF Udp!DirectAll, Udp!Returned, Udp!queues, Udp!loop, Udp!config, Udp!history
  <2>2. s \in Seq(Datagram)
    BY <1>0, SentIs
  <2>3. udp_mutex = p /\ udp_queue_active = << >> /\ qs = << >> /\ c.addrs \in 0 .. c.addrs
    BY <1>0, <1>a, <1>b, <2>1
  <2> HIDE DEF s
  <2>4. Whole(w \o s, udp_loop_pc, << >>, << >>) = Whole(w, udp_loop_pc, << >>, << >>) \o s
    BY <1>0, <2>2, WholeSends
  <2>5. Known(w \o s, << >>, << >>) = Known(w, << >>, << >>) \cup Els(s)
    BY <1>0, <2>2, WholeSends
  <2>6. UdpAll' = UdpAll \o s
    BY <2>1, <2>3, <2>4 DEF UdpAll
  <2>7. UdpKnown' = UdpKnown \cup Els(s)
    BY <2>1, <2>3, <2>5 DEF UdpKnown
  <2> QED BY <2>1, <2>3, <2>6, <2>7, UdpTakes DEF s
<1>5. ASSUME NEW k \in 0 .. c.addrs, Udp!DirectSome(p, k)
      PROVE  UdpContents'
  <2> DEFINE s == Udp!Sent(c, k)
             b == Udp!Buffer(c, k + 1)
             t == Udp!Sent(c, c.addrs)
  <2>1. /\ c.at = "direct" /\ udp_wire' = w \o s /\ udp_mutex' = NoSender
        /\ udp_queue_standby' = Append(qs, b)
        /\ UNCHANGED <<mmsg, failed, lost, udp_queue_active, udp_loop_pc, sends>>
    BY <1>5 DEF Udp!DirectSome, Udp!At, Udp!Returned, Udp!loop, Udp!config
  <2>2. s \in Seq(Datagram)
    BY <1>0, SentIs
  <2>3. udp_mutex = p /\ udp_queue_active = << >> /\ qs = << >> /\ c.addrs \in 0 .. c.addrs
    BY <1>0, <1>a, <1>b, <2>1
  <2>4. b \in UdpBuffer /\ s \o Udp!Datagrams(b) = t
    BY <1>0, BufferIs
  <2> HIDE DEF s, b
  <2>5. Whole(w \o s, udp_loop_pc, << >>, Append(<< >>, b))
          = Whole(w, udp_loop_pc, << >>, << >>) \o (s \o Udp!Datagrams(b))
    BY <1>0, <2>2, <2>4, WholeSplits
  <2>6. Known(w \o s, << >>, Append(<< >>, b))
          = Known(w, << >>, << >>) \cup Els(s \o Udp!Datagrams(b))
    BY <1>0, <2>2, <2>4, WholeSplits
  <2>7. UdpAll' = UdpAll \o t
    BY <2>1, <2>3, <2>4, <2>5 DEF UdpAll
  <2>8. UdpKnown' = UdpKnown \cup Els(t)
    BY <2>1, <2>3, <2>4, <2>6 DEF UdpKnown
  <2> QED BY <2>1, <2>3, <2>7, <2>8, UdpTakes DEF t
<1>6. ASSUME NEW k \in 0 .. c.addrs, Udp!DirectFails(p, k)
      PROVE  UdpContents'
  <2> DEFINE s == Udp!Sent(c, k)
  <2>1. /\ c.at = "direct" /\ udp_wire' = w \o s /\ udp_mutex' = NoSender /\ failed' = TRUE
        /\ UNCHANGED <<mmsg, lost, udp_queue_active, udp_queue_standby, udp_loop_pc, sends>>
    BY <1>6 DEF Udp!DirectFails, Udp!At, Udp!Returned, Udp!loop, Udp!config, Udp!queues
  <2>2. s \in Seq(Datagram)
    BY <1>0, SentIs
  <2>3. udp_mutex = p /\ udp_queue_active = << >> /\ qs = << >>
    BY <1>a, <1>b, <2>1
  <2> HIDE DEF s
  <2>4. Whole(w \o s, udp_loop_pc, << >>, << >>) = Whole(w, udp_loop_pc, << >>, << >>) \o s
    BY <1>0, <2>2, WholeSends
  <2>5. Known(w \o s, << >>, << >>) = Known(w, << >>, << >>) \cup Els(s)
    BY <1>0, <2>2, WholeSends
  <2>6. UdpAll' = UdpAll \o s
    BY <2>1, <2>3, <2>4 DEF UdpAll
  <2>7. UdpKnown' = UdpKnown \cup Els(s)
    BY <2>1, <2>3, <2>5 DEF UdpKnown
  <2> QED BY <2>1, <2>3, <2>6, <2>7, UdpTakes DEF s
<1> QED BY <1>1, <1>2, <1>3, <1>4, <1>5, <1>6 DEF Udp!Send

-----------------------------------------------------------------------------
(* handle_write().                                                         *)
LEMMA ToSetIs ==
  ASSUME NEW s \in Seq(Datagram)
  PROVE  Udp!ToSet(s) = Els(s)
<1>1. DOMAIN s = 1 .. Len(s)
  BY LenProperties
<1> QED BY <1>1 DEF Udp!ToSet, Els

(* A step that leaves the queues and the wire alone.                       *)
LEMMA UdpStays ==
  ASSUME UdpDataInv, NEW from, from # "erase", NEW to \in UdpLoopSteps, to # "erase",
         Udp!LoopStep(from, to),
         UNCHANGED <<udp_queue_active, udp_queue_standby, udp_wire, batch, retval, lost>>,
         failed' \in BOOLEAN, failed => failed',
         to = "send" => udp_queue_active # << >>, to = "swap" => udp_queue_active = << >>
  PROVE  UdpDataInv'
<1>1. UdpShape /\ UdpContents /\ UdpTypes /\ udp_loop_pc = from /\ udp_loop_pc' = to
  BY DEF UdpDataInv, UdpShape, Udp!LoopStep
<1>2. /\ udp_queue_active' \in Seq(UdpBuffer) /\ udp_queue_standby' \in Seq(UdpBuffer)
      /\ udp_wire' \in Seq(Datagram) /\ batch' \in Seq(Datagram) /\ retval' \in 0 .. Iovecs
  BY <1>1 DEF UdpTypes
<1>3. UdpShape' /\ UNCHANGED <<sends, udp_mutex, mmsg>>
  <2>1. to \in {"send", "erase"} => udp_queue_active' # << >>
    OBVIOUS
  <2>2. to = "swap" => udp_queue_active' = << >>
    OBVIOUS
  <2> QED BY <1>1, <1>2, <2>1, <2>2, UdpLoopMoves
<1>4. UdpAll' = UdpAll /\ UdpKnown' = UdpKnown
  BY <1>1 DEF UdpAll, UdpKnown, Whole
<1>5. InTurn(UdpAll')
  BY <1>1, <1>4 DEF UdpContents
<1>6. UdpContents'
  BY <1>1, <1>3, <1>4, <1>5, UdpKeeps
<1>7. UdpErasing'
  BY <1>1 DEF UdpErasing
<1> QED BY <1>3, <1>6, <1>7 DEF UdpDataInv

LEMMA UdpSwaps ==
  ASSUME UdpDataInv, Udp!Swap
  PROVE  UdpDataInv'
<1> DEFINE w == udp_wire
           qs == udp_queue_standby
<1>1. UdpShape /\ UdpContents /\ UdpTypes
  BY DEF UdpDataInv, UdpShape
<1>2. /\ Udp!LoopStep("swap", "send") /\ qs # << >>
      /\ udp_queue_active' = qs /\ udp_queue_standby' = udp_queue_active
      /\ UNCHANGED <<batch, retval, udp_wire, lost, failed>>
  BY DEF Udp!Swap, Udp!history
<1>3. udp_loop_pc = "swap" /\ udp_loop_pc' = "send" /\ udp_queue_active = << >>
  BY <1>1, <1>2 DEF Udp!LoopStep, UdpShape, UdpPlaces
<1>4. /\ udp_queue_active' \in Seq(UdpBuffer) /\ udp_queue_standby' \in Seq(UdpBuffer)
      /\ udp_wire' \in Seq(Datagram) /\ batch' \in Seq(Datagram) /\ retval' \in 0 .. Iovecs
      /\ failed' \in BOOLEAN /\ w \in Seq(Datagram) /\ qs \in Seq(UdpBuffer)
  BY <1>1, <1>2 DEF UdpTypes
<1>5. UdpShape' /\ UNCHANGED <<sends, udp_mutex, mmsg>>
  <2>1. "send" \in UdpLoopSteps
    BY DEF UdpLoopSteps
  <2> QED BY <1>1, <1>2, <1>3, <1>4, <2>1, UdpLoopMoves
<1>6. Whole(w, "send", qs, << >>) = Whole(w, "swap", << >>, qs)
  BY <1>4, WholeSwaps
<1>7. Known(w, qs, << >>) = Known(w, << >>, qs)
  <2>1. "swap" # "erase" /\ "send" # "erase"
    OBVIOUS
  <2> QED BY <1>4, <2>1, WholeSwaps
<1>8. UdpAll' = UdpAll
  BY <1>2, <1>3, <1>6 DEF UdpAll
<1>9. UdpKnown' = UdpKnown
  BY <1>2, <1>3, <1>7 DEF UdpKnown
<1>10. InTurn(UdpAll')
  BY <1>1, <1>8 DEF UdpContents
<1>11. UdpContents'
  BY <1>1, <1>2, <1>5, <1>9, <1>10, UdpKeeps
<1>12. UdpErasing'
  BY <1>3 DEF UdpErasing
<1> QED BY <1>5, <1>11, <1>12 DEF UdpDataInv

LEMMA UdpSendsTo ==
  ASSUME UdpDataInv, Udp!SendTo
  PROVE  UdpDataInv'
<1> DEFINE w == udp_wire
           qa == udp_queue_active
           w2 == Append(w, Udp!Datagrams(qa[1])[1])
           r == [qa EXCEPT ![1] = Udp!RestOf(@)]
           qs == udp_queue_standby
<1>1. UdpShape /\ UdpContents /\ UdpTypes
  BY DEF UdpDataInv, UdpShape
<1>2. /\ Udp!LoopStep("send", "send") /\ qa[1].addrs # << >> /\ udp_wire' = w2
      /\ udp_queue_active' = r
      /\ UNCHANGED <<udp_queue_standby, batch, retval, lost, failed>>
  BY DEF Udp!SendTo, Udp!Writes, Udp!history
<1>3. udp_loop_pc = "send" /\ udp_loop_pc' = "send" /\ qa # << >>
  BY <1>1, <1>2 DEF Udp!LoopStep, UdpShape, UdpPlaces
<1>4. w \in Seq(Datagram) /\ qa \in Seq(UdpBuffer) /\ qs \in Seq(UdpBuffer)
  BY <1>1 DEF UdpTypes
<1>5. /\ w2 \in Seq(Datagram) /\ r \in Seq(UdpBuffer) /\ r # << >>
      /\ Whole(w2, "send", r, qs) = Whole(w, "send", qa, qs)
      /\ Known(w2, r, qs) = Known(w, qa, qs)
  <2>1. "send" # "erase"
    OBVIOUS
  <2> QED BY <1>2, <1>3, <1>4, <2>1, WholeMoves
<1> HIDE DEF w2, r
<1>6. UdpShape' /\ UNCHANGED <<sends, udp_mutex, mmsg>>
  <2>1. "send" \in UdpLoopSteps
    BY DEF UdpLoopSteps
  <2>2. /\ udp_queue_active' \in Seq(UdpBuffer) /\ udp_queue_standby' \in Seq(UdpBuffer)
        /\ udp_wire' \in Seq(Datagram) /\ batch' \in Seq(Datagram) /\ retval' \in 0 .. Iovecs
        /\ failed' \in BOOLEAN /\ udp_queue_active' # << >>
    BY <1>1, <1>2, <1>5 DEF UdpTypes
  <2> QED BY <1>1, <1>2, <1>3, <2>1, <2>2, UdpLoopMoves
<1>7. UdpAll' = UdpAll /\ UdpKnown' = UdpKnown
  BY <1>2, <1>3, <1>5 DEF UdpAll, UdpKnown
<1>8. InTurn(UdpAll')
  BY <1>1, <1>7 DEF UdpContents
<1>9. UdpContents'
  BY <1>1, <1>2, <1>6, <1>7, <1>8, UdpKeeps
<1>10. UdpErasing'
  BY <1>3 DEF UdpErasing
<1> QED BY <1>6, <1>9, <1>10 DEF UdpDataInv

LEMMA UdpPops ==
  ASSUME UdpDataInv, Udp!PopFront
  PROVE  UdpDataInv'
<1> DEFINE w == udp_wire
           qa == udp_queue_active
           to == IF Len(qa) = 1 THEN "idle" ELSE "send"
           qs == udp_queue_standby
<1>1. UdpShape /\ UdpContents /\ UdpTypes
  BY DEF UdpDataInv, UdpShape
<1>2. /\ Udp!LoopStep("send", to) /\ qa[1].addrs = << >> /\ udp_queue_active' = Tail(qa)
      /\ UNCHANGED <<udp_queue_standby, udp_wire, batch, retval, lost, failed>>
  BY DEF Udp!PopFront, Udp!Writes, Udp!history
<1>3. udp_loop_pc = "send" /\ udp_loop_pc' = to /\ qa # << >>
  BY <1>1, <1>2 DEF Udp!LoopStep, UdpShape, UdpPlaces
<1>4. w \in Seq(Datagram) /\ qa \in Seq(UdpBuffer) /\ qs \in Seq(UdpBuffer)
  BY <1>1 DEF UdpTypes
<1>5. /\ to \in UdpLoopSteps /\ to # "erase" /\ to # "swap" /\ "send" # "erase"
      /\ to = "send" => Tail(qa) # << >>
  <2>1. Len(qa) # 1 => Tail(qa) # << >>
    <3> DEFINE t == Tail(qa)
    <3>1. Len(t) = Len(qa) - 1 /\ Len(qa) \in Nat
      BY <1>3, <1>4, HeadTailProperties, LenProperties
    <3> HIDE DEF t
    <3>2. t = << >> => Len(t) = 0
      BY EmptySeq
    <3>3. Len(qa) # 1 => Len(t) # 0
      BY <3>1
    <3>4. Len(qa) # 1 => t # << >>
      BY <3>2, <3>3
    <3> QED BY <3>4 DEF t
  <2> QED BY <2>1 DEF UdpLoopSteps
<1> HIDE DEF to
<1>6. Tail(qa) \in Seq(UdpBuffer)
  BY <1>3, <1>4, HeadTailProperties
<1>7. Whole(w, to, Tail(qa), qs) = Whole(w, "send", qa, qs)
  BY <1>2, <1>3, <1>4, <1>5, WholePops
<1>8. Known(w, Tail(qa), qs) = Known(w, qa, qs)
  BY <1>2, <1>3, <1>4, <1>5, WholePops
<1>9. UdpShape' /\ UNCHANGED <<sends, udp_mutex, mmsg>>
  <2>1. /\ udp_queue_active' \in Seq(UdpBuffer) /\ udp_queue_standby' \in Seq(UdpBuffer)
        /\ udp_wire' \in Seq(Datagram) /\ batch' \in Seq(Datagram) /\ retval' \in 0 .. Iovecs
        /\ failed' \in BOOLEAN
    BY <1>1, <1>2, <1>6 DEF UdpTypes
  <2> QED BY <1>1, <1>2, <1>3, <1>5, <2>1, UdpLoopMoves
<1>10. UdpAll' = UdpAll /\ UdpKnown' = UdpKnown
  BY <1>2, <1>3, <1>7, <1>8 DEF UdpAll, UdpKnown
<1>11. InTurn(UdpAll')
  BY <1>1, <1>10 DEF UdpContents
<1>12. UdpContents'
  BY <1>1, <1>2, <1>9, <1>10, <1>11, UdpKeeps
<1>13. UdpErasing'
  BY <1>3, <1>5 DEF UdpErasing
<1> QED BY <1>9, <1>12, <1>13 DEF UdpDataInv

LEMMA UdpSendsMmsg ==
  ASSUME UdpDataInv, NEW n \in 1 .. Iovecs, Udp!SendMmsg(n)
  PROVE  UdpDataInv'
<1> DEFINE w == udp_wire
           qa == udp_queue_active
           qs == udp_queue_standby
           all == Udp!Queued(qa)
           l == IF Len(all) < Iovecs THEN Len(all) ELSE Iovecs
           b == SubSeq(all, 1, l)
           t == SubSeq(b, 1, n)
<1>1. UdpShape /\ UdpContents /\ UdpTypes /\ Iovecs \in Nat
  BY EventsAssumption DEF UdpDataInv, UdpShape, Udp!UdpAssumption
<1>2. /\ mmsg /\ Udp!LoopStep("send", "erase") /\ n <= Len(b) /\ udp_wire' = w \o t
      /\ batch' = b /\ retval' = n
      /\ UNCHANGED <<udp_queue_active, udp_queue_standby, lost, failed>>
  BY DEF Udp!SendMmsg, Udp!Batch, Udp!history, Udp!queues
<1>3. udp_loop_pc = "send" /\ udp_loop_pc' = "erase" /\ qa # << >>
  BY <1>1, <1>2 DEF Udp!LoopStep, UdpShape, UdpPlaces
<1>4. w \in Seq(Datagram) /\ qa \in Seq(UdpBuffer) /\ qs \in Seq(UdpBuffer)
  BY <1>1 DEF UdpTypes
<1>5. all \in Seq(Datagram) /\ Len(all) \in Nat
  BY <1>4, QueuedIs, LenProperties
<1>6. l \in 0 .. Len(all)
  BY <1>1, <1>5
<1> HIDE DEF l
<1>7. n \in 0 .. Len(b)
  <2>1. b \in Seq(Datagram)
    BY <1>5, <1>6, Divided
  <2>2. Len(b) \in Nat
    BY <2>1, LenProperties
  <2>3. n <= Len(b)
    BY <1>2
  <2> HIDE DEF b
  <2> QED BY <1>1, <2>2, <2>3
<1>8. InTurn(Whole(w, "send", qa, qs))
  BY <1>1, <1>3 DEF UdpContents, UdpAll
<1>9. /\ b \in Seq(Datagram) /\ w \o t \in Seq(Datagram)
      /\ InTurn(Whole(w \o t, "erase", qa, qs))
      /\ Known(w \o t, qa, qs) = Known(w, qa, qs)
      /\ t \in Seq(Datagram) /\ Els(t) \subseteq Els(w \o t)
  <2>1. "send" # "erase"
    OBVIOUS
  <2> QED BY <1>4, <1>6, <1>7, <1>8, <2>1, WholeTakes
<1>10. Udp!ToSet(t) = Els(t)
  BY <1>9, ToSetIs
<1> HIDE DEF t
<1>11. UdpShape' /\ UNCHANGED <<sends, udp_mutex, mmsg>>
  <2>1. /\ udp_queue_active' \in Seq(UdpBuffer) /\ udp_queue_standby' \in Seq(UdpBuffer)
        /\ udp_wire' \in Seq(Datagram) /\ batch' \in Seq(Datagram) /\ retval' \in 0 .. Iovecs
        /\ failed' \in BOOLEAN /\ "erase" \in UdpLoopSteps
    BY <1>1, <1>2, <1>9 DEF UdpTypes, UdpLoopSteps
  <2> QED BY <1>1, <1>2, <1>3, <2>1, UdpLoopMoves
<1>12. InTurn(UdpAll')
  BY <1>2, <1>3, <1>9 DEF UdpAll
<1>13. UdpKnown' = UdpKnown
  BY <1>2, <1>9 DEF UdpKnown
<1>14. UdpContents'
  BY <1>1, <1>2, <1>11, <1>12, <1>13, UdpKeeps
<1>15. UdpErasing'
  BY <1>2, <1>9, <1>10 DEF UdpErasing, t
<1> QED BY <1>11, <1>14, <1>15 DEF UdpDataInv

(* What is erased and did not go out counts as lost.                       *)
LEMMA UdpErases ==
  ASSUME UdpDataInv, Udp!EraseAll
  PROVE  UdpDataInv'
<1> DEFINE w == udp_wire
           qa == udp_queue_active
           qs == udp_queue_standby
           out == Udp!ToSet(SubSeq(batch, 1, retval))
<1>1. UdpShape /\ UdpContents /\ UdpTypes /\ Iovecs \in Nat
  BY EventsAssumption DEF UdpDataInv, UdpShape, Udp!UdpAssumption
<1>2. /\ Udp!LoopStep("erase", "idle") /\ lost' = lost \cup (Udp!ToSet(Udp!Queued(qa)) \ out)
      /\ udp_queue_active' = << >> /\ batch' = << >> /\ retval' = 0
      /\ UNCHANGED <<udp_queue_standby, udp_wire, failed>>
  BY DEF Udp!EraseAll
<1>3. udp_loop_pc = "erase" /\ udp_loop_pc' = "idle" /\ mmsg
  BY <1>1, <1>2 DEF Udp!LoopStep, UdpShape, UdpPlaces
<1>4. w \in Seq(Datagram) /\ qa \in Seq(UdpBuffer) /\ qs \in Seq(UdpBuffer)
  BY <1>1 DEF UdpTypes
<1>5. out \subseteq Els(w)
  BY <1>3 DEF UdpDataInv, UdpErasing
<1>6. Udp!ToSet(Udp!Queued(qa)) = Els(Udp!Queued(qa))
  BY <1>4, QueuedIs, ToSetIs
<1> HIDE DEF out
<1>7. UdpShape' /\ UNCHANGED <<sends, udp_mutex, mmsg>>
  <2>1. << >> \in Seq(UdpBuffer) /\ << >> \in Seq(Datagram) /\ 0 \in 0 .. Iovecs
    BY <1>1, EmptySeq
  <2>2. /\ udp_queue_active' \in Seq(UdpBuffer) /\ udp_queue_standby' \in Seq(UdpBuffer)
        /\ udp_wire' \in Seq(Datagram) /\ batch' \in Seq(Datagram) /\ retval' \in 0 .. Iovecs
        /\ failed' \in BOOLEAN /\ "idle" \in UdpLoopSteps
    BY <1>1, <1>2, <2>1 DEF UdpTypes, UdpLoopSteps
  <2> QED BY <1>1, <1>2, <1>3, <2>2, UdpLoopMoves
<1>8. UdpAll' = UdpAll
  BY <1>2, <1>3, QueuedEmpty DEF UdpAll, Whole
<1>9. InTurn(UdpAll')
  BY <1>1, <1>8 DEF UdpContents
<1>10. UdpKnown = Els(w) \cup Els(Udp!Queued(qa)) \cup Els(Udp!Queued(qs))
  BY DEF UdpKnown, Known
<1>11. UdpKnown' = Els(w) \cup Els(Udp!Queued(qs))
  <2>1. Els(<< >>) = {}
    BY DEF Els
  <2> QED BY <1>2, <2>1, QueuedEmpty DEF UdpKnown, Known
<1>12. UdpKnown' \subseteq UdpKnown /\ UdpKnown \cup lost \subseteq UdpKnown' \cup lost'
  BY <1>2, <1>5, <1>6, <1>10, <1>11
<1>13. UdpContents'
  BY <1>1, <1>2, <1>3, <1>7, <1>9, <1>12, UdpKeeps
<1>14. UdpErasing'
  BY <1>3 DEF UdpErasing
<1> QED BY <1>7, <1>13, <1>14 DEF UdpDataInv

LEMMA UdpLoopKeepsData ==
  ASSUME UdpDataInv, Udp!LoopThread
  PROVE  UdpDataInv'
<1>0. /\ failed \in BOOLEAN /\ TRUE \in BOOLEAN
      /\ udp_loop_pc = "send" => udp_queue_active # << >>
  BY DEF UdpDataInv, UdpShape, UdpTypes, UdpPlaces
<1>1. CASE Udp!HandleWrite
  <2> DEFINE to == IF udp_queue_active = << >> THEN "swap" ELSE "send"
  <2>1. /\ Udp!LoopStep("idle", to)
        /\ UNCHANGED <<udp_queue_active, udp_queue_standby, udp_wire, batch, retval, lost, failed>>
    BY <1>1 DEF Udp!HandleWrite, Udp!queues, Udp!history
  <2>2. /\ to \in UdpLoopSteps /\ to # "erase" /\ "idle" # "erase"
        /\ to = "send" => udp_queue_active # << >>
        /\ to = "swap" => udp_queue_active = << >>
    BY DEF UdpLoopSteps
  <2> HIDE DEF to
  <2> QED BY <1>0, <2>1, <2>2, UdpStays
<1>2. CASE Udp!Swap
  BY <1>2, UdpSwaps
<1>3. CASE Udp!NoData
  <2>1. /\ Udp!LoopStep("swap", "delete_event")
        /\ UNCHANGED <<udp_queue_active, udp_queue_standby, udp_wire, batch, retval, lost, failed>>
    BY <1>3 DEF Udp!NoData, Udp!queues, Udp!history
  <2>2. "delete_event" \in UdpLoopSteps
    BY DEF UdpLoopSteps
  <2> QED BY <1>0, <2>1, <2>2, UdpStays
<1>4. CASE Udp!DeleteEvent
  <2>1. /\ Udp!LoopStep("delete_event", "idle")
        /\ UNCHANGED <<udp_queue_active, udp_queue_standby, udp_wire, batch, retval, lost, failed>>
    BY <1>4 DEF Udp!DeleteEvent, Udp!queues, Udp!history
  <2>2. "idle" \in UdpLoopSteps
    BY DEF UdpLoopSteps
  <2> QED BY <1>0, <2>1, <2>2, UdpStays
<1>5. CASE Udp!WriteBlocks \/ Udp!WriteFails
  <2>1. /\ Udp!LoopStep("send", "idle") /\ (failed' = failed \/ failed' = TRUE)
        /\ UNCHANGED <<udp_queue_active, udp_queue_standby, udp_wire, batch, retval, lost>>
    BY <1>5 DEF Udp!WriteBlocks, Udp!WriteFails, Udp!queues, Udp!history
  <2>2. "idle" \in UdpLoopSteps
    BY DEF UdpLoopSteps
  <2>3. CASE failed' = failed
    BY <1>0, <2>1, <2>2, <2>3, UdpStays
  <2>4. CASE failed' = TRUE
    BY <1>0, <2>1, <2>2, <2>4, UdpStays
  <2> QED BY <2>1, <2>3, <2>4
<1>6. CASE Udp!SendTo
  BY <1>6, UdpSendsTo
<1>7. CASE Udp!PopFront
  BY <1>7, UdpPops
<1>8. ASSUME NEW n \in 1 .. Iovecs, Udp!SendMmsg(n)
      PROVE  UdpDataInv'
  BY <1>8, UdpSendsMmsg
<1>9. CASE Udp!EraseAll
  BY <1>9, UdpErases
<1> QED BY <1>1, <1>2, <1>3, <1>4, <1>5, <1>6, <1>7, <1>8, <1>9 DEF Udp!LoopThread

LEMMA NextUdpData == UdpDataInv /\ [Udp!Next]_Udp!vars => UdpDataInv'
<1>1. ASSUME UdpDataInv, NEW p \in Senders, Udp!Send(p)
      PROVE  UdpDataInv'
  BY <1>1, UdpSendShape, UdpSendContents, UdpSendErasing DEF UdpDataInv
<1>2. ASSUME UdpDataInv, Udp!LoopThread
      PROVE  UdpDataInv'
  BY <1>2, UdpLoopKeepsData
<1>3. ASSUME UdpDataInv, UNCHANGED Udp!vars
      PROVE  UdpDataInv'
  BY <1>3 DEF UdpDataInv, UdpShape, UdpTypes, UdpHolds, UdpPlaces, UdpLast, UdpContents,
              UdpErasing, UdpAll, UdpKnown, Udp!vars, Udp!queues, Udp!config, Udp!loop,
              Udp!history
<1> QED BY <1>1, <1>2, <1>3 DEF Udp!Next

(* What the invariant says of the model's own words.                       *)
LEMMA UdpDataAccounted == UdpDataInv => Udp!Accounted
<1> SUFFICES ASSUME UdpDataInv
             PROVE  Udp!Accounted
  OBVIOUS
<1> DEFINE w == udp_wire
           qa == Udp!Queued(udp_queue_active)
           qs == Udp!Queued(udp_queue_standby)
           all == w \o Udp!Waiting
<1>1. UdpShape /\ UdpContents /\ UdpTypes
  BY DEF UdpDataInv, UdpShape
<1>2. Udp!TypeOK
  BY <1>1 DEF UdpShape, UdpTypes, UdpHolds, UdpCalls, UdpCallSteps, UdpLoopSteps, Udp!TypeOK
<1>3. all = UdpAll
  BY DEF UdpAll, Whole, Udp!Waiting
<1>4. w \in Seq(Datagram) /\ qa \in Seq(Datagram) /\ qs \in Seq(Datagram)
  BY <1>1, QueuedIs DEF UdpTypes
<1>5. UdpAll \in Seq(Datagram) /\ InTurn(UdpAll)
  BY <1>1, WholeIs DEF UdpTypes, UdpAll, UdpContents
<1>6. \A i, j \in DOMAIN UdpAll : i < j =>
        /\ UdpAll[i] # UdpAll[j]
        /\ UdpAll[i][2] = UdpAll[j][2] => UdpAll[i][1] < UdpAll[j][1]
  <2>1. DOMAIN UdpAll = 1 .. Len(UdpAll)
    BY <1>5, LenProperties
  <2> SUFFICES ASSUME NEW i \in 1 .. Len(UdpAll), NEW j \in 1 .. Len(UdpAll), i < j
               PROVE  /\ UdpAll[i] # UdpAll[j]
                      /\ UdpAll[i][2] = UdpAll[j][2] => UdpAll[i][1] < UdpAll[j][1]
    BY <2>1
  <2>2. UdpAll[i][2] = UdpAll[j][2] => UdpAll[i][1] < UdpAll[j][1]
    BY <1>5 DEF InTurn, Before
  <2>3. UdpAll[i] \in Datagram
    BY <1>5, ElementOfSeq
  <2>4. UdpAll[i][1] \in Nat
    BY <2>3 DEF Datagram
  <2> QED BY <2>2, <2>4
<1>7. Udp!ToSet(w \o qa \o qs) = UdpKnown
  <2>1. w \o qa \in Seq(Datagram) /\ Els(w \o qa) = Els(w) \cup Els(qa)
    BY <1>4, ElsJoined, ConcatProperties
  <2> DEFINE x == w \o qa
  <2> HIDE DEF x, qa, qs
  <2>2. x \in Seq(Datagram) /\ Els(x) = Els(w) \cup Els(qa)
    BY <2>1 DEF x
  <2>3. x \o qs \in Seq(Datagram) /\ Els(x \o qs) = Els(x) \cup Els(qs)
    BY <1>4, <2>2, ElsJoined, ConcatProperties
  <2>4. Udp!ToSet(x \o qs) = Els(x \o qs)
    BY <2>3, ToSetIs
  <2> QED BY <2>2, <2>3, <2>4 DEF x, qa, qs, UdpKnown, Known
<1>8. ASSUME NEW i \in DOMAIN sends \ Udp!Pending
      PROVE  i \in 1 .. Len(sends) /\ (udp_mutex # NoSender => i # Len(sends))
  <2>1. DOMAIN sends = 1 .. Len(sends)
    BY <1>1, LenProperties DEF UdpTypes
  <2>2. ASSUME udp_mutex # NoSender
        PROVE  Len(sends) \in Udp!Pending
    <3>1. PICK p \in Senders : udp_mutex = p
      BY <1>1, <2>2 DEF UdpTypes
    <3>2. call[p].m = Len(sends)
      BY <1>1, <3>1 DEF UdpShape, UdpLast
    <3> QED BY <3>1, <3>2 DEF Udp!Pending
  <2> QED BY <2>1, <2>2
<1>9. ASSUME ~failed, NEW i \in DOMAIN sends \ Udp!Pending, NEW a \in 1 .. sends[i]
      PROVE  <<i, a>> \in UdpKnown \cup lost
  BY <1>1, <1>8, <1>9 DEF UdpContents
<1>10. ~mmsg => lost = {}
  BY <1>1 DEF UdpContents
<1>11. \A i, j \in DOMAIN all : i < j =>
        /\ all[i] # all[j]
        /\ all[i][2] = all[j][2] => all[i][1] < all[j][1]
  BY <1>3, <1>6
<1> HIDE DEF all
<1> QED BY <1>2, <1>7, <1>9, <1>10, <1>11 DEF Udp!Accounted, all

-----------------------------------------------------------------------------
ThreadStates == {"RUNNING", "STOPPED", "JOINED"}
RunStates == {"begin", "test", "recv", "blocked", "handle_read", "ended"}
Runs == [index : Nat, fd : Nat, at : RunStates]
AllEnded == \A r \in DOMAIN runs : runs[r].at = "ended"

(* What the steps of close() rely on: from its first step to its last the  *)
(* handler is there, and between them the one descriptor goes.             *)
SourceInv ==
  /\ opens \in Nat /\ {event_loop, handler, in_loop} \subseteq BOOLEAN
  /\ threads \in Seq(ThreadStates) /\ runs \in Seq(Runs)
  /\ Source!ClosedIsQuiet
  /\ closing # "no" => handler
  /\ closing = "close" => descriptors = {fd}
  /\ closing = "join" => descriptors = {} /\ ~in_loop

(* A source is closed when the program starts.                             *)
LEMMA InitSourceInv == Source!Init => SourceInv
<1> SUFFICES ASSUME Source!Init
             PROVE  SourceInv
  OBVIOUS
<1>1. /\ threads \in Seq(ThreadStates) /\ runs \in Seq(Runs)
      /\ DOMAIN threads = {} /\ DOMAIN runs = {}
  BY EmptySeq DEF Source!Init
<1> QED BY <1>1 DEF Source!Init, SourceInv, Source!ClosedIsQuiet, Source!TypeOK,
                    Source!NoFd

(* open() without threads, or failing.                                     *)
LEMMA OpenPreserves ==
  ASSUME SourceInv, Source!OpenFails \/ \E bind \in BOOLEAN : Source!OpenInLoop(bind)
  PROVE  SourceInv'
<1> USE DEF SourceInv, Source!ClosedIsQuiet, Source!TypeOK, Source!NoFd,
            Source!MayOpen
<1>1. CASE Source!OpenFails
  BY <1>1 DEF Source!OpenFails
<1>2. ASSUME NEW bind \in BOOLEAN, Source!OpenInLoop(bind)
      PROVE  SourceInv'
  <2>1. /\ descriptors = {} /\ ~in_loop /\ AllEnded
        /\ closing' = "no" /\ handler' = TRUE /\ runs' = runs /\ threads' = threads
        /\ opens' = opens + 1 /\ fd' = opens' /\ descriptors' = {opens'}
        /\ in_loop' = event_loop
    BY <1>2 DEF Source!OpenInLoop, AllEnded
  <2>2. event_loop' = event_loop
    BY <1>2 DEF Source!OpenInLoop
  <2> QED BY <2>1, <2>2 DEF AllEnded
<1> QED BY <1>1, <1>2

(* start() appends its threads' objects and their runs, which look up an   *)
(* object that is there.                                                   *)
LEMMA ThreadsStart ==
  ASSUME Source!UdpSourceAssumption, SourceInv, Source!OpenThreads
  PROVE  SourceInv'
<1> DEFINE started == [i \in 1 .. Threads |-> "RUNNING"]
<1>1. /\ Threads \in Nat /\ started \in Seq(ThreadStates)
      /\ Source!NewRuns \in Seq(Runs)
      /\ Len(started) = Threads /\ Len(Source!NewRuns) = Threads
      /\ \A i \in 1 .. Threads : started[i] = "RUNNING" /\ Source!NewRuns[i].index = i
  <2>1. Threads \in Nat
    BY DEF Source!UdpSourceAssumption
  <2>2. \A i \in 1 .. Threads : [index |-> i, fd |-> Source!NoFd,
          at |-> "begin"] \in Runs
    BY <2>1 DEF Runs, RunStates, Source!NoFd
  <2>3. /\ Source!NewRuns \in [1 .. Threads -> Runs]
        /\ started \in [1 .. Threads -> ThreadStates]
        /\ \A i \in 1 .. Threads : /\ started[i] = "RUNNING"
                                   /\ Source!NewRuns[i].index = i
    BY <2>2 DEF Source!NewRuns, ThreadStates
  <2> QED BY <2>1, <2>3
<1>2. /\ threads' = threads \o started /\ runs' = runs \o Source!NewRuns
      /\ closing = "no" /\ ~handler /\ handler' /\ descriptors = {} /\ ~in_loop
      /\ opens' = opens + 1 /\ fd' = opens' /\ descriptors' = {opens'}
      /\ UNCHANGED <<event_loop, in_loop, closing>>
  BY DEF Source!OpenThreads, Source!MayOpen, SourceInv, Source!ClosedIsQuiet
<1> HIDE DEF started
<1>3. /\ threads \in Seq(ThreadStates) /\ runs \in Seq(Runs)
      /\ \A r \in DOMAIN runs : runs[r].index \in DOMAIN threads
      /\ \A i \in DOMAIN threads : threads[i] \in ThreadStates
  BY DEF SourceInv, Source!ClosedIsQuiet, Source!TypeOK, ThreadStates
<1>4. threads' \in Seq(ThreadStates) /\ runs' \in Seq(Runs)
  BY <1>1, <1>2, <1>3, ConcatProperties
<1>5. /\ DOMAIN threads = 1 .. Len(threads) /\ Len(threads) \in Nat
      /\ DOMAIN threads' = 1 .. Len(threads) + Threads
  <2>1. /\ threads \o started \in Seq(ThreadStates)
        /\ Len(threads \o started) = Len(threads) + Threads
    BY <1>1, <1>3, ConcatProperties, ZenonT(60)
  <2> QED BY <1>2, <1>3, <2>1, LenProperties
<1>6. /\ DOMAIN runs = 1 .. Len(runs) /\ Len(runs) \in Nat
      /\ DOMAIN runs' = 1 .. Len(runs) + Threads
      /\ \A r \in 1 .. Len(runs) + Threads :
           runs'[r] = IF r <= Len(runs) THEN runs[r] ELSE Source!NewRuns[r - Len(runs)]
  <2>1. /\ runs \o Source!NewRuns \in Seq(Runs)
        /\ Len(runs \o Source!NewRuns) = Len(runs) + Threads
        /\ \A r \in 1 .. Len(runs) + Threads : (runs \o Source!NewRuns)[r] =
              IF r <= Len(runs) THEN runs[r] ELSE Source!NewRuns[r - Len(runs)]
    <3>1. runs \in Seq(Runs) /\ Source!NewRuns \in Seq(Runs)
            /\ Len(Source!NewRuns) = Threads
      BY <1>1, <1>3
    <3> QED BY <3>1, ConcatProperties
  <2> QED BY <1>2, <1>3, <2>1, LenProperties
<1>7. ASSUME NEW r \in DOMAIN runs'
      PROVE  runs'[r].index \in DOMAIN threads'
  <2>1. CASE r <= Len(runs)
    <3>1. r \in DOMAIN runs /\ runs'[r] = runs[r]
      BY <1>6, <2>1
    <3>2. DOMAIN threads \subseteq DOMAIN threads'
      BY <1>1, <1>5
    <3> QED BY <1>3, <3>1, <3>2
  <2>2. CASE ~(r <= Len(runs))
    <3>1. r - Len(runs) \in 1 .. Threads /\ runs'[r] = Source!NewRuns[r - Len(runs)]
      BY <1>1, <1>6, <1>7, <2>2
    <3> QED BY <1>1, <1>5, <3>1
  <2> QED BY <2>1, <2>2
<1>8. \A i \in DOMAIN threads' : threads'[i] \in ThreadStates
  BY <1>4, ElementOfSeq, LenProperties
<1> QED BY <1>2, <1>4, <1>7, <1>8
        DEF SourceInv, Source!ClosedIsQuiet, Source!TypeOK, Source!NoFd,
            ThreadStates

(* What a step makes of its run.                                           *)
LEMMA RunExcept ==
  ASSUME NEW run \in Runs, NEW at \in RunStates, NEW f \in Nat
  PROVE  /\ [run EXCEPT !.at = at] \in Runs
         /\ [run EXCEPT !.at = at].index = run.index
         /\ [run EXCEPT !.at = at, !.fd = f] \in Runs
         /\ [run EXCEPT !.at = at, !.fd = f].index = run.index
<1>1. [run EXCEPT !.at = at] = [index |-> run.index, fd |-> run.fd, at |-> at]
  BY DEF Runs
<1>2. [run EXCEPT !.at = at, !.fd = f] = [index |-> run.index, fd |-> f, at |-> at]
  <2> DEFINE moved == [index |-> run.index, fd |-> run.fd, at |-> at]
  <2>1. moved \in Runs /\ moved.index = run.index /\ moved.at = at
    BY DEF Runs
  <2>2. [moved EXCEPT !.fd = f] = [index |-> moved.index, fd |-> f, at |-> moved.at]
    BY <2>1 DEF Runs
  <2> QED BY <1>1, <2>1, <2>2
<1> QED BY <1>1, <1>2 DEF Runs

(* A run that has ended stays so, whatever the others do, and is not begun *)
(* again.                                                                  *)
LEMMA RunPreserves ==
  ASSUME SourceInv, NEW r \in DOMAIN runs, Source!RecvProc(r)
  PROVE  SourceInv'
<1>1. /\ fd \in Nat /\ Len(runs) \in Nat /\ r \in 1 .. Len(runs)
      /\ DOMAIN runs = 1 .. Len(runs) /\ runs \in [DOMAIN runs -> Runs]
      /\ runs[r] \in Runs
  BY LenProperties DEF SourceInv, Source!ClosedIsQuiet, Source!TypeOK, Source!NoFd
<1>2. /\ runs[r].at # "ended"
      /\ UNCHANGED <<event_loop, handler, fd, in_loop, descriptors, threads,
                     closing, opens>>
  BY DEF Source!RecvProc, Source!RunStep, Source!Begin, Source!TestState,
         Source!Receive, Source!Datagram, Source!ReceiveFails,
         Source!EmptyDatagram, Source!HandleRead
<1>3. PICK run \in Runs : runs' = [runs EXCEPT ![r] = run]
             /\ run.index = runs[r].index
  <2>1. CASE Source!Begin(r)
    <3> DEFINE run == [runs[r] EXCEPT !.at = "test", !.fd = fd]
    <3>1. run \in Runs /\ run.index = runs[r].index
      BY <1>1, RunExcept DEF RunStates
    <3>2. runs' = [runs EXCEPT ![r] = run]
      BY <2>1 DEF Source!Begin
    <3> QED BY <3>1, <3>2
  <2>2. CASE ~Source!Begin(r)
    <3>1. PICK to \in {"test", "recv", "blocked", "handle_read", "ended"} :
            runs' = [runs EXCEPT ![r] = [@ EXCEPT !.at = to]]
      BY <1>1, <2>2 DEF Source!RecvProc, Source!RunStep, Source!TestState,
                        Source!Receive, Source!Datagram,
                        Source!ReceiveFails, Source!EmptyDatagram, Source!HandleRead
    <3> DEFINE run == [runs[r] EXCEPT !.at = to]
    <3>2. to \in RunStates
      BY DEF RunStates
    <3>3. run \in Runs /\ run.index = runs[r].index
      BY <1>1, <3>2, RunExcept
    <3> QED BY <3>1, <3>3
  <2> QED BY <2>1, <2>2
<1>4. runs' \in Seq(Runs) /\ DOMAIN runs' = DOMAIN runs
  BY <1>1, <1>3, ExceptSeq DEF SourceInv
<1>5. \A s \in DOMAIN runs : /\ runs'[s].index = runs[s].index
                             /\ runs[s].at = "ended" => runs'[s].at = "ended"
  BY <1>1, <1>2, <1>3
<1> QED BY <1>1, <1>2, <1>4, <1>5 DEF SourceInv, Source!ClosedIsQuiet,
                                      Source!TypeOK, Source!NoFd

(* close(): the objects change, as many as there were; join() waits for    *)
(* every run.                                                              *)
LEMMA ClosePreserves ==
  ASSUME SourceInv, Source!Stop \/ Source!CloseFd \/ Source!Join
  PROVE  SourceInv'
<1> USE DEF SourceInv, Source!ClosedIsQuiet, Source!TypeOK, Source!NoFd
<1>1. ASSUME Source!Stop \/ Source!Join
      PROVE  /\ threads' \in Seq(ThreadStates) /\ DOMAIN threads' = DOMAIN threads
             /\ \A i \in DOMAIN threads' : threads'[i] \in ThreadStates
  <2>1. PICK f : threads' = [i \in DOMAIN threads |-> f[i]]
                 /\ \A i \in DOMAIN threads : f[i] \in ThreadStates
    BY <1>1 DEF Source!Stop, Source!Join, Source!JoinedStates, ThreadStates
  <2>2. DOMAIN threads = 1 .. Len(threads) /\ Len(threads) \in Nat
    BY LenProperties
  <2> QED BY <2>1, <2>2
<1>2. CASE Source!Stop
  BY <1>1, <1>2 DEF Source!Stop, ThreadStates
<1>3. CASE Source!CloseFd
  BY <1>3 DEF Source!CloseFd
<1>4. CASE Source!Join
  BY <1>1, <1>4 DEF Source!Join, ThreadStates
<1> QED BY <1>2, <1>3, <1>4

LEMMA NextSourceInv == Source!UdpSourceAssumption /\ SourceInv
    /\ [Source!Next]_Source!vars => SourceInv'
<1>1. ASSUME Source!UdpSourceAssumption, SourceInv, Source!Next
      PROVE  SourceInv'
  BY <1>1, OpenPreserves, ThreadsStart, RunPreserves, ClosePreserves
     DEF Source!Next
<1>2. ASSUME SourceInv, UNCHANGED Source!vars
      PROVE  SourceInv'
  BY <1>2 DEF SourceInv, Source!ClosedIsQuiet, Source!TypeOK, Source!vars
<1> QED BY <1>1, <1>2

-----------------------------------------------------------------------------
(* MCEvents: the component that takes its steps keeps its invariant.       *)
EventsInv == /\ part \in {"queue", "messages", "udp", "source"}
             /\ part = "messages" => SendInv /\ WatchInv
             /\ part = "udp" => UdpInv /\ UdpDataInv
             /\ part = "source" => SourceInv

LEMMA EventsInvariance == AllSpec => []EventsInv
<1> USE EventsAssumption
<1>1. AllInit => EventsInv
  BY InitSendInv, InitWatchInv, InitUdpInv, InitUdpData, InitSourceInv
     DEF AllInit, EventsInv
<1>2. EventsInv /\ [AllNext]_allVars => EventsInv'
  <2> SUFFICES ASSUME EventsInv, [AllNext]_allVars
               PROVE  EventsInv'
    OBVIOUS
  <2>1. part' = part
    <3>1. CASE AllNext
      BY <3>1 DEF AllNext
    <3>2. CASE UNCHANGED allVars
      BY <3>2 DEF allVars
    <3> QED BY <3>1, <3>2
  <2>2. ASSUME part = "messages"
        PROVE  SendInv' /\ WatchInv'
    <3>1. [Messages!Next]_Messages!vars
      BY <2>2 DEF AllNext, allVars, messagesVars, Messages!vars, Messages!queues,
                  Messages!mask
    <3> QED BY <2>2, <3>1, NextSendInv, NextWatchInv DEF EventsInv
  <2>3. ASSUME part = "udp"
        PROVE  UdpInv' /\ UdpDataInv'
    <3>1. [Udp!Next]_Udp!vars
      BY <2>3 DEF AllNext, allVars, udpVars, Udp!vars, Udp!queues, Udp!config,
                  Udp!loop, Udp!history
    <3> QED BY <2>3, <3>1, NextUdpInv, NextUdpData DEF EventsInv
  <2>4. ASSUME part = "source"
        PROVE  SourceInv'
    <3>1. [Source!Next]_Source!vars
      BY <2>4 DEF AllNext, allVars, sourceVars, Source!vars
    <3> QED BY <2>4, <3>1, NextSourceInv DEF EventsInv
  <2> QED BY <2>1, <2>2, <2>3, <2>4 DEF EventsInv
<1> QED BY <1>1, <1>2, PTL DEF AllSpec

(* Whoever sends, in whatever threads, and however much the socket takes   *)
(* at a time: the bytes that reach it are those of the messages in the     *)
(* order of the sends, and what is missing waits in the queues.            *)
THEOREM SentInOrder == AllSpec => []InOrder
<1>1. EventsInv => InOrder
  BY SendInvInOrder DEF EventsInv, InOrder
<1> QED BY <1>1, EventsInvariance, PTL

(* If only handlers in the loop thread call send(), what is queued when    *)
(* all calls have returned waits for an EPOLLOUT, for any number of calls: *)
(* no message stays behind.                                                *)
THEOREM LoopThreadQueuesNothingBehind == AllSpec => []LoopThreadSendsAreWatched
<1>1. EventsInv => LoopThreadSendsAreWatched
  BY WatchInvWatched DEF EventsInv, LoopThreadSendsAreWatched
<1> QED BY <1>1, EventsInvariance, PTL

(* The same for datagrams, to any number of addresses, as long as no       *)
(* message was taken in part; and a handler is deleted for a failure.      *)
THEOREM DatagramsAreWatched == AllSpec => []Watched
<1>1. EventsInv => Watched
  BY UdpInvWatched DEF EventsInv, Watched
<1> QED BY <1>1, EventsInvariance, PTL

(* For any number of senders, addresses and iovecs, in both builds: each   *)
(* datagram goes out at most once, those to one address in the order of    *)
(* the calls, none that is still queued has gone out, and until the socket *)
(* fails every address of every message that was accepted is sent, queued  *)
(* or, with sendmmsg() only, erased unsent.                                *)
THEOREM DatagramsAccounted == AllSpec => []Accounted
<1>1. EventsInv => Accounted
  BY UdpDataAccounted DEF EventsInv, Accounted
<1> QED BY <1>1, EventsInvariance, PTL

(* However often a source is opened, closed, or fails to open, and however *)
(* its threads end: when close() has returned no descriptor is open, none  *)
(* of its threads reads or will, and the loop does not know the handler.   *)
THEOREM ClosedStaysQuiet == AllSpec => []ClosedIsQuiet
<1>1. EventsInv => ClosedIsQuiet
  BY DEF EventsInv, SourceInv, ClosedIsQuiet
<1> QED BY <1>1, EventsInvariance, PTL
=============================================================================
