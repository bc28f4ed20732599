---------------------- MODULE DoubleBufferQueueProofs ----------------------
(***************************************************************************)
(* DoubleBufferQueue for every number of producers, every capacity and     *)
(* every set of events: the inductive invariant and the refinement of      *)
(* BoundedFifo.                                                            *)
(***************************************************************************)
EXTENDS DoubleBufferQueue, SequenceTheorems, TLAPS

(* Both buffers are empty and the mutex is free.                           *)
LEMMA InitQInv == QInit => QInv
BY DoubleBufferAssumption DEF QInit, QInv, QTypeOK, Buffers

(* Every step of push(), pop() and swap_buffer() preserves the invariant.  *)
LEMMA NextQInv == QInv /\ [QNext]_qvars => QInv'
<1> SUFFICES ASSUME QInv, [QNext]_qvars
             PROVE  QInv'
  OBVIOUS
<1> USE DoubleBufferAssumption DEF QInv, QTypeOK, Buffers, buffers
<1>1. ASSUME NEW p \in Producers, NEW v \in Values, PushLock(p, v)
      PROVE  QInv'
  BY <1>1 DEF PushLock
<1>2. ASSUME NEW p \in Producers, PushUnlock(p)
      PROVE  QInv'
  <2>1. push_value[p] # << >>
    BY <1>2 DEF PushUnlock
  <2>2. PICK v \in Values : push_value[p] = <<v>>
    BY <2>1
  <2>3. buf' \in [Buffers -> Seq(Values)] /\ \A b \in Buffers : Len(buf'[b]) <= Capacity
    <3>1. CASE Full
      BY <1>2, <3>1 DEF PushUnlock
    <3>2. CASE ~Full
      <4>1. buf' = [buf EXCEPT ![standby_buf] = Append(@, v)]
        BY <1>2, <2>2, <3>2 DEF PushUnlock
      <4>2. /\ Append(buf[standby_buf], v) \in Seq(Values)
            /\ Len(Append(buf[standby_buf], v)) <= Capacity
        BY <2>2, <3>2, AppendProperties DEF Full
      <4> QED BY <4>1, <4>2
    <3> QED BY <3>1, <3>2
  <2>4. mutex # Consumer /\ mutex' = None
    BY <1>2 DEF PushUnlock
  <2>5. pop_pc = "handle" => buf'[active_buf] = buf[active_buf]
    BY <1>2 DEF PushUnlock
  <2> QED BY <1>2, <2>3, <2>4, <2>5 DEF PushUnlock
<1>3. CASE PopBegin
  BY <1>3 DEF PopBegin
<1>4. CASE PopEnd
  <2>1. /\ Tail(buf[active_buf]) \in Seq(Values)
        /\ Len(Tail(buf[active_buf])) <= Capacity
    BY <1>4, HeadTailProperties DEF PopEnd
  <2> QED BY <1>4, <2>1 DEF PopEnd
<1>5. CASE SwapLock
  BY <1>5 DEF SwapLock
<1>6. CASE SwapUnlock
  BY <1>6 DEF SwapUnlock
<1>7. CASE UNCHANGED qvars
  BY <1>7 DEF qvars
<1> QED BY <1>1, <1>2, <1>3, <1>4, <1>5, <1>6, <1>7 DEF QNext

(* Any number of producers and one consumer: the consumer is alone in the  *)
(* active buffer, producers take turns in the standby one, neither buffer  *)
(* overflows.                                                              *)
THEOREM Invariance == QSpec => []QInv
BY InitQInv, NextQInv, PTL DEF QSpec

-----------------------------------------------------------------------------
(* Appending to the second of two sequences appends to both.               *)
LEMMA ConcatAppend ==
  ASSUME NEW S, NEW a \in Seq(S), NEW s \in Seq(S), NEW v \in S
  PROVE  a \o Append(s, v) = Append(a \o s, v)
<1>1. <<v>> \in Seq(S) /\ Append(s, v) = s \o <<v>>
  BY AppendIsConcat
<1>2. a \o s \in Seq(S)
  BY ConcatProperties
<1>3. Append(a \o s, v) = (a \o s) \o <<v>>
  BY <1>2, AppendIsConcat
<1>4. (a \o s) \o <<v>> = a \o (s \o <<v>>)
  BY <1>1, ConcatAssociative
<1> QED BY <1>1, <1>3, <1>4

(* The head and the tail of a concatenation are those of its first part.   *)
LEMMA ConcatHeadTail ==
  ASSUME NEW S, NEW a \in Seq(S), NEW s \in Seq(S), a # << >>
  PROVE  /\ a \o s # << >>
         /\ Head(a \o s) = Head(a)
         /\ Tail(a \o s) = Tail(a) \o s
<1>1. Len(a) \in Nat \ {0} /\ Len(s) \in Nat
  BY EmptySeq, LenProperties
<1>2. /\ a \o s \in Seq(S)
      /\ Len(a \o s) = Len(a) + Len(s)
      /\ \A i \in 1 .. Len(a) + Len(s) :
           (a \o s)[i] = IF i <= Len(a) THEN a[i] ELSE s[i - Len(a)]
  BY ConcatProperties
<1>3. a \o s # << >>
  BY <1>1, <1>2
<1>4. Head(a \o s) = Head(a)
  <2>1. (a \o s)[1] = a[1]
    BY <1>1, <1>2
  <2>2. Head(a \o s) = (a \o s)[1] /\ Head(a) = a[1]
    BY <1>2, <1>3
  <2> QED BY <2>1, <2>2
<1>5. Tail(a \o s) = Tail(a) \o s
  <2>1. /\ Tail(a \o s) \in Seq(S)
        /\ Len(Tail(a \o s)) = Len(a) + Len(s) - 1
        /\ \A i \in 1 .. Len(a) + Len(s) - 1 : Tail(a \o s)[i] = (a \o s)[i + 1]
    BY <1>1, <1>2, <1>3, HeadTailProperties
  <2>2. /\ Tail(a) \in Seq(S)
        /\ Len(Tail(a)) = Len(a) - 1
        /\ \A i \in 1 .. Len(a) - 1 : Tail(a)[i] = a[i + 1]
    BY HeadTailProperties
  <2>3. /\ Tail(a) \o s \in Seq(S)
        /\ Len(Tail(a) \o s) = Len(a) - 1 + Len(s)
        /\ \A i \in 1 .. Len(a) - 1 + Len(s) :
             (Tail(a) \o s)[i] = IF i <= Len(a) - 1 THEN Tail(a)[i] ELSE s[i - (Len(a) - 1)]
    BY <2>2, ConcatProperties
  <2>4. ASSUME NEW i \in 1 .. Len(a) + Len(s) - 1
        PROVE  Tail(a \o s)[i] = (Tail(a) \o s)[i]
    <3>1. CASE i <= Len(a) - 1
      BY <1>1, <1>2, <2>1, <2>2, <2>3, <3>1
    <3>2. CASE ~(i <= Len(a) - 1)
      BY <1>1, <1>2, <2>1, <2>3, <3>2
    <3> QED BY <3>1, <3>2
  <2> QED BY <1>1, <2>1, <2>3, <2>4, SeqEqual
<1> QED BY <1>3, <1>4, <1>5

(* A push that finds room appends to the end of the queue; one that finds  *)
(* the standby buffer full leaves it.                                      *)
LEMMA PushMaps ==
  ASSUME QInv, NEW p \in Producers, PushUnlock(p)
  PROVE  (\E v \in Values : Fifo!Enqueue(v)) \/ UNCHANGED Fifo!vars
<1>1. PICK v \in Values : push_value[p] = <<v>>
  BY DoubleBufferAssumption DEF QInv, QTypeOK, PushUnlock
<1>2. Handling' = Handling
  BY DEF QInv, QTypeOK, PushUnlock, Handling, Buffers
<1>3. CASE Full
  BY <1>2, <1>3 DEF PushUnlock, Contents, Fifo!vars
<1>4. CASE ~Full
  <2> DEFINE a == buf[active_buf]
             s == buf[standby_buf]
  <2>1. a \in Seq(Values) /\ s \in Seq(Values)
    BY DEF QInv, QTypeOK
  <2>2. buf'[active_buf'] = a /\ buf'[standby_buf'] = Append(s, v)
    BY <1>1, <1>4 DEF QInv, QTypeOK, PushUnlock
  <2>3. Len(a) <= Capacity /\ Len(s) < Capacity
    BY <1>4, <2>1, LenProperties, DoubleBufferAssumption DEF QInv, QTypeOK, Full
  <2>4. Contents = a \o s
    BY DEF Contents
  <2>5. Contents' = a \o Append(s, v)
    BY <2>2 DEF Contents
  <2> HIDE DEF a, s
  <2>6. Len(a \o s) = Len(a) + Len(s) /\ Len(a) \in Nat /\ Len(s) \in Nat
    BY <2>1, ConcatProperties, LenProperties
  <2>7. a \o Append(s, v) = Append(a \o s, v)
    BY <2>1, ConcatAppend
  <2>8. Len(Contents) < 2 * Capacity
    BY <2>3, <2>4, <2>6, DoubleBufferAssumption
  <2> QED BY <1>2, <2>4, <2>5, <2>7, <2>8 DEF Fifo!Enqueue
<1> QED BY <1>3, <1>4

(* The handler is called on the oldest event.                              *)
LEMMA PopBeginMaps ==
  ASSUME QInv, PopBegin
  PROVE  Fifo!Begin
<1>1. /\ buf[active_buf] \in Seq(Values)
      /\ buf[standby_buf] \in Seq(Values)
      /\ buf[active_buf] # << >>
  BY DEF QInv, QTypeOK, PopBegin
<1>2. Contents # << >> /\ Head(Contents) = Head(buf[active_buf])
  BY <1>1, ConcatHeadTail DEF Contents
<1> QED BY <1>2 DEF PopBegin, buffers, Contents, Handling, Fifo!Begin

(* Moving the read index on removes that event.                            *)
LEMMA PopEndMaps ==
  ASSUME QInv, PopEnd
  PROVE  Fifo!Finish
<1>1. /\ buf[active_buf] \in Seq(Values)
      /\ buf[standby_buf] \in Seq(Values)
      /\ buf[active_buf] # << >>
  BY DEF QInv, QTypeOK, PopEnd
<1>2. /\ buf'[active_buf'] = Tail(buf[active_buf])
      /\ buf'[standby_buf'] = buf[standby_buf]
  BY DEF QInv, QTypeOK, PopEnd
<1>3. Contents' = Tail(Contents)
  BY <1>1, <1>2, ConcatHeadTail, ZenonT(60) DEF Contents
<1> QED BY <1>3 DEF PopEnd, Handling, Fifo!Finish

(* Exchanging the buffers is invisible, because the active one is empty.   *)
LEMMA SwapMaps ==
  ASSUME QInv, SwapUnlock
  PROVE  UNCHANGED Fifo!vars
<1> USE DEF QInv, QTypeOK, Buffers
<1> DEFINE s == buf[standby_buf]
<1>1. s \in Seq(Values) /\ buf[active_buf] = << >>
  BY DEF SwapUnlock
<1>2. s \o << >> = s /\ << >> \o s = s
  BY <1>1, ConcatEmptySeq
<1>3. Contents' = Contents
  BY <1>1, <1>2 DEF SwapUnlock, Contents
<1> QED BY <1>3 DEF SwapUnlock, Handling, Fifo!vars

(* For any number of producers the queue is first-in first-out, loses and  *)
(* duplicates nothing, and holds at most two buffers of events.            *)
THEOREM Refinement == QSpec => ImplementsFifo
<1>1. QInit => Fifo!Init
  <2> SUFFICES ASSUME QInit
               PROVE  Contents = << >> /\ Handling = << >>
    BY DEF Fifo!Init
  <2>1. << >> \o << >> = << >>
    BY ConcatEmptySeq, EmptySeq
  <2> QED BY <2>1 DEF QInit, Contents, Handling, Buffers
<1>2. QInv /\ [QNext]_qvars => [Fifo!Next]_Fifo!vars
  <2> SUFFICES ASSUME QInv, [QNext]_qvars
               PROVE  [Fifo!Next]_Fifo!vars
    OBVIOUS
  <2>1. ASSUME NEW p \in Producers, NEW v \in Values, PushLock(p, v)
        PROVE  UNCHANGED Fifo!vars
    BY <2>1 DEF PushLock, buffers, Fifo!vars, Contents, Handling
  <2>2. ASSUME NEW p \in Producers, PushUnlock(p)
        PROVE  [Fifo!Next]_Fifo!vars
    BY <2>2, PushMaps DEF Fifo!Next
  <2>3. CASE PopBegin
    BY <2>3, PopBeginMaps DEF Fifo!Next
  <2>4. CASE PopEnd
    BY <2>4, PopEndMaps DEF Fifo!Next
  <2>5. CASE SwapLock
    BY <2>5 DEF SwapLock, buffers, Fifo!vars, Contents, Handling
  <2>6. CASE SwapUnlock
    BY <2>6, SwapMaps
  <2>7. CASE UNCHANGED qvars
    BY <2>7 DEF qvars, Fifo!vars, Contents, Handling
  <2> QED BY <2>1, <2>2, <2>3, <2>4, <2>5, <2>6, <2>7 DEF QNext
<1> QED BY <1>1, <1>2, Invariance, PTL DEF QSpec, ImplementsFifo, Fifo!Spec
=============================================================================
