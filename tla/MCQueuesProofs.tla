--------------------------- MODULE MCQueuesProofs ---------------------------
(***************************************************************************)
(* The ring queues and the log queue for every value of the constants:     *)
(* SpscQueue for every capacity, every set of events and every number of   *)
(* pushes (the inductive invariant, freedom from slot races, and the       *)
(* refinement of BoundedFifo); LogWorker for every number of threads, size *)
(* of the buffer and of a block, and any number of failures; MultiQueue    *)
(* for every number of producers and consumers and every capacity.         *)
(***************************************************************************)
EXTENDS MCQueues, SequenceTheorems, FiniteSetTheorems, TLAPS

(* Two indexes less than a capacity apart fall on different slots.         *)
LEMMA OffsetsDiffer ==
  ASSUME NEW a \in Nat, NEW b \in Nat, a < b, b < a + Capacity
  PROVE  Offset(a) # Offset(b)
<1> DEFINE qa == a \div Capacity
           qb == b \div Capacity
<1>1. /\ qa \in Int /\ qb \in Int
      /\ a % Capacity \in Int /\ b % Capacity \in Int
      /\ a = (Capacity * qa) + (a % Capacity)
      /\ b = (Capacity * qb) + (b % Capacity)
  BY SpscAssumption
<1> HIDE DEF qa, qb
<1>2. SUFFICES ASSUME a % Capacity = b % Capacity
               PROVE  FALSE
  BY DEF Offset
<1>3. b - a = Capacity * (qb - qa)
  BY <1>1, <1>2, SpscAssumption
<1>4. CASE qb - qa <= 0
  <2>1. Capacity * (qb - qa) <= 0
    BY <1>4, <1>1, SpscAssumption
  <2> QED BY <2>1, <1>3, SpscAssumption
<1>5. CASE qb - qa >= 1
  <2>1. Capacity * (qb - qa) >= Capacity
    BY <1>5, <1>1, SpscAssumption
  <2> QED BY <2>1, <1>3, SpscAssumption
<1> QED BY <1>1, <1>4, <1>5

(* Every index falls on a slot of the array.                               *)
LEMMA OffsetInRange ==
  ASSUME NEW a \in Nat
  PROVE  Offset(a) \in 0 .. Capacity - 1
BY SpscAssumption DEF Offset

-----------------------------------------------------------------------------
(* Initially the queue is empty and neither thread is in a call.           *)
LEMMA InitIInv == Init => IInv
BY SpscAssumption DEF Init, IInv, TypeOK, IndexesOK

(* Every step of push() and pop() preserves the invariant.                 *)
LEMMA NextIInv == IInv /\ [Next]_vars => IInv'
<1> SUFFICES ASSUME IInv, [Next]_vars
             PROVE  IInv'
  OBVIOUS
<1> USE SpscAssumption DEF IInv, TypeOK, IndexesOK
<1>1. ASSUME NEW v \in Values, PushCheck(v)
      PROVE  IInv'
  BY <1>1 DEF PushCheck
<1>2. CASE PushWrite
  <2>1. Offset(write_index) \in 0 .. Capacity - 1
    BY OffsetInRange
  <2>2. /\ array' = [array EXCEPT ![Offset(write_index)] = push_value]
        /\ push_value \in Values
    BY <1>2 DEF PushWrite
  <2>3. array'[Offset(write_index)] = push_value
    BY <2>1, <2>2
  <2>4. ASSUME NEW i \in read_index' .. write_index' - 1
        PROVE  array'[Offset(i)] \in Values
    <3>1. i \in Nat /\ i < write_index /\ write_index < i + Capacity
      BY <1>2 DEF PushWrite
    <3>2. Offset(i) # Offset(write_index)
      BY <3>1, OffsetsDiffer
    <3>3. Offset(i) \in 0 .. Capacity - 1
      BY <3>1, OffsetInRange
    <3> QED BY <1>2, <2>2, <3>2, <3>3 DEF PushWrite
  <2>5. TypeOK'
    BY <1>2, <2>1, <2>2 DEF PushWrite
  <2> QED BY <1>2, <2>3, <2>4, <2>5 DEF PushWrite, Offset
<1>3. CASE PushPublish
  <2>1. ASSUME NEW i \in read_index' .. write_index' - 1
        PROVE  array'[Offset(i)] \in Values
    <3>1. i \in read_index .. write_index - 1 \/ i = write_index
      BY <1>3 DEF PushPublish
    <3> QED BY <1>3, <3>1 DEF PushPublish
  <2> QED BY <1>3, <2>1 DEF PushPublish
<1>4. CASE PopCheck
  BY <1>4 DEF PopCheck, producerVars
<1>5. CASE PopAdvance
  BY <1>5 DEF PopAdvance, producerVars
<1>6. CASE UNCHANGED vars
  BY <1>6 DEF vars, Offset
<1> QED BY <1>1, <1>2, <1>3, <1>4, <1>5, <1>6 DEF Next, Producer, Consumer

(* In every reachable state of a queue of any capacity: the types, the     *)
(* order of the indexes, and what each thread's place in its call implies. *)
THEOREM Invariance == Spec => []IInv
BY InitIInv, NextIInv, PTL DEF Spec

(* A push in progress and the handler are never on the same slot.          *)
THEOREM SlotRaceFreedom == Spec => []NoSlotRace
<1>1. IInv => NoSlotRace
  <2> SUFFICES ASSUME IInv, push_pc \in {"write", "publish"}, pop_pc = "handle"
               PROVE  Offset(write_index) # Offset(read_index)
    BY DEF NoSlotRace
  <2> QED BY OffsetsDiffer DEF IInv, TypeOK
<1> QED BY <1>1, Invariance, PTL

-----------------------------------------------------------------------------
(* The refinement: PushPublish enqueues, PopCheck begins and PopAdvance    *)
(* finishes a handling, and the other steps leave the abstract queue.      *)

(* Contents is a sequence of size() events.                                *)
LEMMA ContentsType ==
  ASSUME IInv
  PROVE  /\ Contents \in Seq(Values)
         /\ Len(Contents) = write_index - read_index
         /\ \A k \in 1 .. write_index - read_index :
              Contents[k] = array[Offset(read_index + k - 1)]
<1>1. write_index - read_index \in Nat
  BY DEF IInv, TypeOK, IndexesOK
<1>2. \A k \in 1 .. write_index - read_index :
        array[Offset(read_index + k - 1)] \in Values
  BY DEF IInv, TypeOK, IndexesOK
<1> QED BY <1>1, <1>2 DEF Contents

(* The initial state maps to the empty queue.                              *)
LEMMA InitMaps == Init => Fifo!Init
BY DEF Init, Fifo!Init, Contents, Handling

(* Publishing the write index appends the pushed event.                    *)
LEMMA PublishMaps ==
  ASSUME IInv, PushPublish
  PROVE  Fifo!Enqueue(push_value) /\ push_value \in Values
<1> USE SpscAssumption DEF PushPublish
<1>0. /\ write_index \in Nat /\ read_index \in Nat
      /\ read_index <= write_index
      /\ write_index < read_index + Capacity
      /\ push_value \in Values
      /\ array[Offset(write_index)] = push_value
  BY DEF IInv, TypeOK, IndexesOK
<1>1. Contents' = Append(Contents, push_value)
  <2> DEFINE n == write_index - read_index
  <2>1. Contents' = [k \in 1 .. n + 1 |-> array[Offset(read_index + k - 1)]]
    BY <1>0 DEF Contents, Offset
  <2>2. ASSUME NEW k \in 1 .. n + 1
        PROVE  array[Offset(read_index + k - 1)]
                 = IF k <= n THEN Contents[k] ELSE push_value
    <3>1. CASE k <= n
      BY <3>1, <1>0, ContentsType, SMTT(60)
    <3>2. CASE k = n + 1
      BY <3>2, <1>0
    <3> QED BY <3>1, <3>2, <1>0
  <2>3. /\ Contents \in Seq(Values) /\ Len(Contents) = n
        /\ n \in Nat
    BY <1>0, ContentsType
  <2>4. /\ Append(Contents, push_value) \in Seq(Values)
        /\ Len(Append(Contents, push_value)) = n + 1
        /\ \A k \in 1 .. n + 1 : Append(Contents, push_value)[k]
                                  = IF k <= n THEN Contents[k] ELSE push_value
    BY <1>0, <2>3, AppendProperties
  <2>5. \A k \in 1 .. n : Contents[k] \in Values
    BY <2>3, ElementOfSeq
  <2> DEFINE longer == [k \in 1 .. n + 1 |-> array[Offset(read_index + k - 1)]]
  <2>6. longer \in Seq(Values) /\ Len(longer) = n + 1
    <3>1. \A k \in 1 .. n + 1 : array[Offset(read_index + k - 1)] \in Values
      <4>1. \A k \in 1 .. n + 1 : k \in 1 .. n \/ k = n + 1
        BY <2>3
      <4>2. ~(n + 1 <= n)
        BY <2>3
      <4> QED BY <1>0, <2>2, <2>5, <4>1, <4>2
    <3>2. n + 1 \in Nat
      BY <2>3
    <3> HIDE DEF n
    <3> QED BY <3>1, <3>2
  <2>7. \A k \in 1 .. n + 1 : longer[k] = Append(Contents, push_value)[k]
    BY <2>2, <2>4
  <2> HIDE DEF longer, n
  <2>8. longer = Append(Contents, push_value)
    BY <2>4, <2>6, <2>7, SeqEqual
  <2> QED BY <2>1, <2>8 DEF longer
<1>2. Handling' = Handling
  BY DEF Handling, Offset
<1>3. Len(Contents) < Capacity
  BY <1>0, ContentsType
<1> QED BY <1>0, <1>1, <1>2, <1>3 DEF Fifo!Enqueue

(* pop() shows its handler the oldest event.                               *)
LEMMA PopCheckMaps ==
  ASSUME IInv, PopCheck
  PROVE  Fifo!Begin
<1>1. /\ write_index \in Nat /\ read_index \in Nat
      /\ read_index < write_index
  BY DEF IInv, TypeOK, PopCheck
<1>2. /\ Contents' = Contents
      /\ Handling = << >>
      /\ Handling' = <<array[Offset(read_index)]>>
  BY DEF PopCheck, Contents, Handling, Offset
<1>3. Contents # << >> /\ Head(Contents) = array[Offset(read_index)]
  BY <1>1, ContentsType
<1> QED BY <1>2, <1>3 DEF Fifo!Begin

(* Storing the read index removes that event.                              *)
LEMMA PopAdvanceMaps ==
  ASSUME IInv, PopAdvance
  PROVE  Fifo!Finish
<1>1. /\ write_index \in Nat /\ read_index \in Nat
      /\ read_index < write_index
      /\ pop_pc = "handle" /\ pop_pc' = "idle"
      /\ array' = array /\ write_index' = write_index /\ read_index' = read_index + 1
  BY DEF IInv, TypeOK, PopAdvance
<1>2. Contents' = Tail(Contents)
  <2> DEFINE n == write_index - read_index
  <2>1. Contents' = [k \in 1 .. n - 1 |-> array[Offset(read_index + k)]]
    BY <1>1 DEF Contents, Offset
  <2>2. /\ Contents \in Seq(Values) /\ Len(Contents) = n /\ Contents # << >>
        /\ n \in Nat \ {0}
    BY <1>1, ContentsType
  <2>3. /\ Tail(Contents) \in Seq(Values)
        /\ Len(Tail(Contents)) = n - 1
        /\ \A k \in 1 .. n - 1 : Tail(Contents)[k] = Contents[k + 1]
    BY <2>2, HeadTailProperties
  <2>4. ASSUME NEW k \in 1 .. n - 1
        PROVE  array[Offset(read_index + k)] = Contents[k + 1]
    BY <1>1, ContentsType
  <2>5. \A k \in 1 .. n : Contents[k] \in Values
    BY <2>2, ElementOfSeq
  <2> DEFINE rest == [k \in 1 .. n - 1 |-> array[Offset(read_index + k)]]
  <2>6. rest \in Seq(Values) /\ Len(rest) = n - 1
    BY <2>2, <2>4, <2>5
  <2>7. \A k \in 1 .. n - 1 : rest[k] = Tail(Contents)[k]
    BY <2>3, <2>4
  <2> HIDE DEF rest, n
  <2>8. rest = Tail(Contents)
    BY <2>3, <2>6, <2>7, SeqEqual
  <2> QED BY <2>1, <2>8 DEF rest
<1>3. Handling # << >> /\ Handling' = << >>
  BY <1>1 DEF Handling
<1> QED BY <1>2, <1>3 DEF Fifo!Finish

(* Writing the slot changes none that the consumer can see.                *)
LEMMA WriteMaps ==
  ASSUME IInv, PushWrite
  PROVE  UNCHANGED Fifo!vars
<1> USE SpscAssumption
<1>1. /\ write_index \in Nat /\ read_index \in Nat
      /\ read_index <= write_index
      /\ write_index < read_index + Capacity
      /\ write_index' = write_index /\ read_index' = read_index /\ pop_pc' = pop_pc
      /\ array' = [array EXCEPT ![Offset(write_index)] = push_value]
      /\ array \in [0 .. Capacity - 1 -> Values \cup {Garbage}]
  BY DEF IInv, TypeOK, IndexesOK, PushWrite
<1>2. ASSUME NEW i \in Nat, read_index <= i, i < write_index
      PROVE  array'[Offset(i)] = array[Offset(i)]
  <2>1. Offset(i) # Offset(write_index)
    BY <1>1, <1>2, OffsetsDiffer
  <2> QED BY <1>1, <2>1, OffsetInRange
<1>3. Contents' = Contents
  <2>1. ASSUME NEW k \in 1 .. write_index - read_index
        PROVE  array'[Offset(read_index + k - 1)] = array[Offset(read_index + k - 1)]
    BY <1>1, <1>2
  <2> QED BY <1>1, <2>1 DEF Contents, Offset
<1>4. Handling' = Handling
  <2>1. pop_pc = "handle" => read_index < write_index
    BY DEF IInv
  <2>2. pop_pc = "handle" => array'[Offset(read_index)] = array[Offset(read_index)]
    BY <1>1, <1>2, <2>1
  <2>3. Handling' = IF pop_pc = "handle" THEN <<array'[Offset(read_index)]>> ELSE << >>
    BY <1>1 DEF Handling, Offset
  <2> QED BY <2>2, <2>3 DEF Handling
<1> QED BY <1>3, <1>4 DEF Fifo!vars

(* The ring is a bounded FIFO queue that never holds more than its         *)
(* capacity, whose handler sees the oldest event, intact, while it runs.   *)
THEOREM Refinement == Spec => ImplementsFifo
<1>1. IInv /\ [Next]_vars => [Fifo!Next]_Fifo!vars
  <2> SUFFICES ASSUME IInv, [Next]_vars
               PROVE  [Fifo!Next]_Fifo!vars
    OBVIOUS
  <2>1. ASSUME NEW v \in Values, PushCheck(v)
        PROVE  UNCHANGED Fifo!vars
    BY <2>1 DEF PushCheck, Fifo!vars, Contents, Handling, Offset
  <2>2. CASE PushWrite
    BY <2>2, WriteMaps
  <2>3. CASE PushPublish
    BY <2>3, PublishMaps DEF Fifo!Next
  <2>4. CASE PopCheck
    BY <2>4, PopCheckMaps DEF Fifo!Next
  <2>5. CASE PopAdvance
    BY <2>5, PopAdvanceMaps DEF Fifo!Next
  <2>6. CASE UNCHANGED vars
    BY <2>6 DEF vars, Fifo!vars, Contents, Handling, Offset
  <2> QED BY <2>1, <2>2, <2>3, <2>4, <2>5, <2>6 DEF Next, Producer, Consumer
<1> QED BY <1>1, InitMaps, Invariance, PTL DEF Spec, ImplementsFifo, Fifo!Spec

-----------------------------------------------------------------------------
(* A byte is the number of its log.                                        *)
Byte == Nat

LogAccounted == ~cut => written \o active \o standby = accepted

(* A synchronous worker has no buffer; the asynchronous one swaps its      *)
(* halves when the active one has been written.                            *)
LogInv ==
  /\ Log!TypeOK /\ LogAccounted
  /\ active \in Seq(Byte) /\ standby \in Seq(Byte)
  /\ written \in Seq(Byte) /\ accepted \in Seq(Byte) /\ pushed \in Nat
  /\ log_kind = "sync" => worker = "none" /\ active = << >> /\ standby = << >>
  /\ worker \in {"swap", "raise", "enter", "wait", "lower", "swap_again"}
       => active = << >>

(* All is empty.                                                           *)
LEMMA InitLogInv == Log!LogAssumption /\ Log!Init => LogInv
<1> SUFFICES ASSUME Log!LogAssumption, Log!Init
             PROVE  LogInv
  OBVIOUS
<1>1. << >> \in Seq(Byte) /\ Len(<< >>) = 0 /\ << >> \o << >> = << >>
  BY EmptySeq, ConcatEmptySeq
<1>2. log_kind \in {"sync", "async", "none"} /\ stores \in BOOLEAN
  BY DEF Log!Init, Log!Kind, Log!Stores
<1>3. BufferSize \in Nat
  BY DEF Log!LogAssumption
<1>4. Log!TypeOK
  <2>1. /\ flag = FALSE /\ cut = FALSE /\ active = << >> /\ standby = << >>
        /\ loggers = [t \in Loggers |-> "idle"] /\ worker \in {"none", "start"}
        /\ state = "RUNNING"
    BY DEF Log!Init
  <2>2. Len(active) <= BufferSize /\ Len(standby) <= BufferSize
    BY <1>1, <1>3, <2>1
  <2> QED BY <1>2, <2>1, <2>2 DEF Log!TypeOK
<1> QED BY <1>1, <1>4 DEF Log!Init, LogInv, LogAccounted

(* The bytes of a log.                                                     *)
LEMMA BytesIsSeq ==
  ASSUME pushed \in Nat, NEW size \in Nat
  PROVE  Log!Bytes(size) \in Seq(Byte) /\ Len(Log!Bytes(size)) = size
BY DEF Log!Bytes, Byte

(* What write() has stored is its argument, a part of it, or nothing; it   *)
(* is a part only if the write is short.                                   *)
LEMMA AppenderWrites ==
  ASSUME written \in Seq(Byte), cut \in BOOLEAN, NEW bytes \in Seq(Byte),
         NEW stored \in BOOLEAN, Log!AppenderStores(bytes, stored)
  PROVE  /\ written' \in Seq(Byte) /\ cut' \in BOOLEAN
         /\ ~cut' => ~cut /\ written' = IF stored THEN written \o bytes ELSE written
<1>1. CASE /\ stored /\ written' = written \o bytes /\ cut' = cut
  BY <1>1, ConcatProperties
<1>2. ASSUME NEW n \in 1 .. Len(bytes) - 1,
             written' = written \o SubSeq(bytes, 1, n),
             cut' = TRUE
      PROVE  written' \in Seq(Byte)
  <2>1. \A i \in 1 .. n : bytes[i] \in Byte
    BY <1>2, LenProperties, ElementOfSeq
  <2>2. SubSeq(bytes, 1, n) \in Seq(Byte)
    BY <2>1, SubSeqProperties
  <2> QED BY <1>2, <2>2, ConcatProperties
<1>3. CASE ~stored /\ written' = written /\ cut' = cut
  BY <1>3
<1> QED BY <1>1, <1>2, <1>3 DEF Log!AppenderStores, Log!appender

(* A block is the front of the active half.                                *)
LEMMA BlockAndRest ==
  ASSUME NEW a \in Seq(Byte), NEW n \in 1 .. Len(a)
  PROVE  /\ SubSeq(a, 1, n) \in Seq(Byte) /\ SubSeq(a, n + 1, Len(a)) \in Seq(Byte)
         /\ Len(SubSeq(a, n + 1, Len(a))) <= Len(a)
         /\ SubSeq(a, 1, n) \o SubSeq(a, n + 1, Len(a)) = a
<1>1. Len(a) \in Nat /\ n \in Nat /\ \A i \in 1 .. Len(a) : a[i] \in Byte
  BY LenProperties, ElementOfSeq
<1>2. SubSeq(a, 1, n) \in Seq(Byte)
  BY <1>1, SubSeqProperties
<1>3. /\ SubSeq(a, n + 1, Len(a)) \in Seq(Byte)
      /\ Len(SubSeq(a, n + 1, Len(a))) = Len(a) - n
  BY <1>1, SubSeqProperties
<1>4. 1 \in 1 .. Len(a) + 1 /\ n \in 1 - 1 .. Len(a) /\ Len(a) \in n .. Len(a)
  BY <1>1
<1>5. SubSeq(a, 1, n) \o SubSeq(a, n + 1, Len(a)) = SubSeq(a, 1, Len(a))
  BY <1>4, ConcatAdjacentSubSeq
<1> QED BY <1>1, <1>2, <1>3, <1>5, SubSeqFull

-----------------------------------------------------------------------------
(* A synchronous push writes to the appender what it accepts.              *)
LEMMA PushSyncPreserves ==
  ASSUME LogInv, NEW t \in Loggers, NEW size \in 1 .. 2, Log!PushSync(t, size)
  PROVE  LogInv'
<1> DEFINE log == Log!Bytes(size)
<1>1. /\ log_kind = "sync" /\ active = << >> /\ standby = << >> /\ worker = "none"
      /\ UNCHANGED <<Log!config, Log!dfbuf, flag, notified, loggers, worker,
                     state>>
      /\ pushed' = pushed + 1 /\ pushed \in Nat
      /\ written \in Seq(Byte) /\ accepted \in Seq(Byte) /\ cut \in BOOLEAN
  BY DEF Log!PushSync, LogInv, Log!TypeOK
<1>2. log \in Seq(Byte)
  BY <1>1, BytesIsSeq
<1>3. PICK stored \in BOOLEAN :
        /\ Log!AppenderStores(log, stored)
        /\ accepted' = IF stored THEN accepted \o log ELSE accepted
  BY DEF Log!PushSync
<1> HIDE DEF log
<1>4. /\ written' \in Seq(Byte) /\ cut' \in BOOLEAN
      /\ ~cut' => ~cut /\ written' = IF stored THEN written \o log ELSE written
  BY <1>1, <1>2, <1>3, AppenderWrites
<1>5. ~cut => written = accepted
  BY <1>1, ConcatEmptySeq DEF LogInv, LogAccounted
<1>6. ~cut' => written' = accepted'
  BY <1>3, <1>4, <1>5
<1>7. LogAccounted'
  BY <1>1, <1>4, <1>6, ConcatEmptySeq DEF LogAccounted, Log!dfbuf
<1>8. accepted' \in Seq(Byte)
  BY <1>1, <1>2, <1>3, ConcatProperties
<1>9. Log!TypeOK'
  BY <1>1, <1>4 DEF LogInv, Log!TypeOK, Log!config, Log!dfbuf
<1> QED BY <1>1, <1>4, <1>7, <1>8, <1>9 DEF LogInv, Log!config, Log!dfbuf

(* An asynchronous one puts it at the end of the standby half.             *)
LEMMA PushAsyncPreserves ==
  ASSUME Log!LogAssumption, LogInv, NEW t \in Loggers, NEW size \in 1 .. 2,
         Log!PushAsync(t, size)
  PROVE  LogInv'
<1> DEFINE log == Log!Bytes(size)
<1>1. /\ log_kind = "async" /\ pushed' = pushed + 1 /\ pushed \in Nat
      /\ UNCHANGED <<Log!config, active, flag, notified, worker, state,
                     Log!appender>>
      /\ active \in Seq(Byte) /\ standby \in Seq(Byte) /\ written \in Seq(Byte)
      /\ accepted \in Seq(Byte)
  BY DEF Log!PushAsync, LogInv
<1>2. log \in Seq(Byte) /\ Len(log) = size
  BY <1>1, BytesIsSeq
<1>3. CASE ~Log!Fits(size)
  <2>1. UNCHANGED <<standby, accepted, loggers>>
    BY <1>3 DEF Log!PushAsync
  <2> QED BY <1>1, <2>1 DEF LogInv, Log!TypeOK, LogAccounted, Log!config,
                            Log!appender
<1>4. CASE Log!Fits(size)
  <2>1. /\ standby' = standby \o log /\ accepted' = accepted \o log
        /\ loggers' = [loggers EXCEPT ![t] = "written"]
    BY <1>4 DEF Log!PushAsync
  <2> HIDE DEF log
  <2>2. /\ standby' \in Seq(Byte) /\ accepted' \in Seq(Byte)
        /\ Len(standby') = Len(standby) + size
    BY <1>1, <1>2, <2>1, ConcatProperties
  <2>3. Len(standby') <= BufferSize
    BY <1>1, <1>4, <2>2, LenProperties, SMTT(60) DEF Log!Fits, Log!LogAssumption
  <2>4. (written \o active) \o (standby \o log) =
          ((written \o active) \o standby) \o log
    <3> DEFINE before == written \o active
    <3>1. before \in Seq(Byte) /\ standby \in Seq(Byte) /\ log \in Seq(Byte)
      BY <1>1, <1>2, ConcatProperties
    <3> HIDE DEF before
    <3>2. (before \o standby) \o log = before \o (standby \o log)
      BY <3>1, ConcatAssociative, SMTT(60)
    <3> QED BY <3>2 DEF before
  <2>5. LogAccounted'
    BY <1>1, <2>1, <2>4 DEF LogInv, LogAccounted, Log!appender
  <2>6. Log!TypeOK'
    BY <1>1, <2>1, <2>3 DEF LogInv, Log!TypeOK, Log!config, Log!appender
  <2> QED BY <1>1, <2>2, <2>5, <2>6 DEF LogInv, Log!config, Log!appender
<1> QED BY <1>3, <1>4

-----------------------------------------------------------------------------
(* What the worker has written leaves the front of the active half.        *)
LEMMA WriteMoves ==
  ASSUME NEW w \in Seq(Byte), NEW b \in Seq(Byte), NEW r \in Seq(Byte)
  PROVE  (w \o b) \o r = w \o (b \o r)
BY ConcatAssociative, SMTT(60)

LEMMA WriteBlockPreserves ==
  ASSUME Log!LogAssumption, LogInv, Log!WriteBlock
  PROVE  LogInv'
<1>1. /\ worker = "blocks"
      /\ UNCHANGED <<Log!config, standby, flag, notified, loggers, state,
                     Log!history>>
      /\ active \in Seq(Byte) /\ standby \in Seq(Byte) /\ written \in Seq(Byte)
      /\ cut \in BOOLEAN /\ log_kind # "sync"
  BY DEF Log!WriteBlock, LogInv, Log!TypeOK
<1>2. CASE ~(Len(active) >= BlockSize)
  <2>1. worker' = "rest" /\ UNCHANGED <<active, Log!appender>>
    BY <1>2 DEF Log!WriteBlock
  <2> QED BY <1>1, <2>1 DEF LogInv, Log!TypeOK, LogAccounted, Log!config,
                            Log!appender, Log!history
<1>3. CASE Len(active) >= BlockSize
  <2> DEFINE block == SubSeq(active, 1, BlockSize)
             rest == SubSeq(active, BlockSize + 1, Len(active))
  <2>1. BlockSize \in 1 .. Len(active)
    BY <1>1, <1>3, LenProperties DEF Log!LogAssumption
  <2>2. /\ block \in Seq(Byte) /\ rest \in Seq(Byte)
        /\ Len(rest) <= Len(active) /\ block \o rest = active
    BY <1>1, <2>1, BlockAndRest
  <2>3. PICK stored \in BOOLEAN :
          /\ Log!AppenderStores(block, stored)
          /\ IF stored THEN active' = rest /\ worker' = "blocks"
                       ELSE active' = active /\ worker' = "rest"
    BY <1>1, <1>3 DEF Log!WriteBlock
  <2> HIDE DEF block, rest
  <2>4. /\ written' \in Seq(Byte) /\ cut' \in BOOLEAN
        /\ ~cut' => ~cut /\ written' = IF stored THEN written \o block ELSE written
    BY <1>1, <2>2, <2>3, AppenderWrites
  <2>5. (written \o block) \o rest = written \o active
    BY <1>1, <2>2, WriteMoves, ZenonT(60)
  <2>6. ~cut' => written' \o active' = written \o active
    BY <2>3, <2>4, <2>5
  <2>7. LogAccounted'
    BY <1>1, <2>4, <2>6 DEF LogInv, LogAccounted, Log!history
  <2>8. active' \in Seq(Byte) /\ Len(active') <= BufferSize
    BY <1>1, <2>2, <2>3, LenProperties DEF LogInv, Log!TypeOK, Log!LogAssumption
  <2>9. Log!TypeOK'
    BY <1>1, <2>3, <2>4, <2>8 DEF LogInv, Log!TypeOK, Log!config
  <2> QED BY <1>1, <2>3, <2>4, <2>7, <2>8, <2>9 DEF LogInv, Log!config,
                                                    Log!history
<1> QED BY <1>2, <1>3

LEMMA WriteRestPreserves ==
  ASSUME Log!LogAssumption, LogInv, Log!WriteRest
  PROVE  LogInv'
<1>1. /\ worker = "rest"
      /\ UNCHANGED <<Log!config, standby, flag, notified, loggers, state,
                     Log!history>>
      /\ active \in Seq(Byte) /\ standby \in Seq(Byte) /\ written \in Seq(Byte)
      /\ cut \in BOOLEAN /\ log_kind # "sync"
  BY DEF Log!WriteRest, LogInv, Log!TypeOK
<1>2. CASE active = << >>
  BY <1>1, <1>2 DEF Log!WriteRest, LogInv, Log!TypeOK, LogAccounted, Log!config,
                    Log!appender, Log!history
<1>3. CASE active # << >>
  <2>1. PICK stored \in BOOLEAN :
          /\ Log!AppenderStores(active, stored)
          /\ IF stored THEN active' = << >> /\ worker' = "swap"
             ELSE active' = active /\ worker' = "start"
    BY <1>3 DEF Log!WriteRest
  <2>2. /\ written' \in Seq(Byte) /\ cut' \in BOOLEAN
        /\ ~cut' => ~cut /\ written' = IF stored THEN written \o active ELSE written
    BY <1>1, <2>1, AppenderWrites
  <2>3. (written \o active) \o << >> = written \o active
    BY <1>1, ConcatProperties, ConcatEmptySeq
  <2>4. LogAccounted'
    BY <1>1, <2>1, <2>2, <2>3 DEF LogInv, LogAccounted, Log!history
  <2>5. active' \in Seq(Byte) /\ Len(active') <= BufferSize
    <3>1. /\ << >> \in Seq(Byte) /\ Len(<< >>) = 0 /\ BufferSize \in Nat
          /\ Len(active) <= BufferSize
      BY EmptySeq DEF Log!LogAssumption, LogInv, Log!TypeOK
    <3>2. 0 <= BufferSize
      BY <3>1
    <3> QED BY <1>1, <2>1, <3>1, <3>2
  <2>6. Log!TypeOK'
    BY <1>1, <2>1, <2>2, <2>5 DEF LogInv, Log!TypeOK, Log!config
  <2> QED BY <1>1, <2>1, <2>2, <2>4, <2>5, <2>6 DEF LogInv, Log!config,
                                                    Log!history
<1> QED BY <1>2, <1>3

(* The halves are only swapped when the active one is empty.               *)
LEMMA SwapPreserves ==
  ASSUME LogInv,
         \/ Log!Swap("swap", "raise")
         \/ Log!Swap("swap_again", "start")
  PROVE  LogInv'
<1>1. /\ active = << >> /\ log_kind # "sync"
      /\ UNCHANGED <<Log!config, flag, notified, loggers, state, Log!appender,
                     Log!history>>
      /\ written \in Seq(Byte) /\ standby \in Seq(Byte)
      /\ \/ active' = standby /\ standby' = active /\ worker' = "start"
         \/ UNCHANGED <<active, standby>> /\ worker' \in {"raise", "start"}
  BY DEF Log!Swap, LogInv, Log!dfbuf
<1>2. CASE UNCHANGED <<active, standby>> /\ worker' \in {"raise", "start"}
  BY <1>1, <1>2 DEF LogInv, LogAccounted, Log!TypeOK, Log!config, Log!appender,
                    Log!history
<1>3. CASE active' = standby /\ standby' = active /\ worker' = "start"
  <2>1. written \o << >> = written /\ (written \o standby) \o << >> = written \o standby
    BY <1>1, ConcatProperties, ConcatEmptySeq
  <2>2. LogAccounted'
    BY <1>1, <1>3, <2>1 DEF LogInv, LogAccounted, Log!appender, Log!history
  <2>3. << >> \in Seq(Byte) /\ Len(<< >>) = 0
    BY EmptySeq
  <2>4. Log!TypeOK'
    BY <1>1, <1>3, <2>3 DEF LogInv, Log!TypeOK, Log!config, Log!appender
  <2> QED BY <1>1, <1>3, <2>2, <2>3, <2>4 DEF LogInv, Log!config, Log!appender,
                                              Log!history
<1> QED BY <1>1, <1>2, <1>3

LEMMA WorkerPreserves ==
  ASSUME Log!LogAssumption, LogInv, Log!Worker
  PROVE  LogInv'
<1> USE DEF Log!config, Log!dfbuf, Log!appender, Log!history
<1>1. CASE Log!Start
  BY <1>1 DEF Log!Start, LogInv, Log!TypeOK, LogAccounted
<1>2. CASE Log!Swap("swap", "raise")
  BY <1>2, SwapPreserves
<1>3. CASE Log!RaiseFlag \/ Log!EnterWait
  BY <1>3 DEF Log!RaiseFlag, Log!EnterWait, LogInv, Log!TypeOK, LogAccounted
<1>4. CASE Log!Wait \/ Log!LowerFlag
  BY <1>4 DEF Log!Wait, Log!LowerFlag, LogInv, Log!TypeOK, LogAccounted
<1>5. CASE Log!Swap("swap_again", "start")
  BY <1>5, SwapPreserves
<1> QED BY <1>1, <1>2, <1>3, <1>4, <1>5, WriteBlockPreserves, WriteRestPreserves
           DEF Log!Worker

LEMMA NextLogInv == Log!LogAssumption /\ LogInv /\ [Log!Next]_Log!vars => LogInv'
<1> SUFFICES ASSUME Log!LogAssumption, LogInv, [Log!Next]_Log!vars
             PROVE  LogInv'
  OBVIOUS
<1> USE DEF Log!config, Log!dfbuf, Log!appender, Log!history
<1>1. ASSUME NEW t \in Loggers, NEW size \in 1 .. 2, Log!PushSync(t, size)
      PROVE  LogInv'
  BY <1>1, PushSyncPreserves
<1>2. ASSUME NEW t \in Loggers, NEW size \in 1 .. 2, Log!PushAsync(t, size)
      PROVE  LogInv'
  BY <1>2, PushAsyncPreserves
<1>3. ASSUME NEW t \in Loggers, Log!Push(t)
      PROVE  LogInv'
  <2>1. CASE Log!TestFlag(t)
    BY <2>1 DEF Log!TestFlag, LogInv, Log!TypeOK, LogAccounted
  <2>2. CASE Log!ClearFlag(t)
    BY <2>2 DEF Log!ClearFlag, LogInv, Log!TypeOK, LogAccounted
  <2>3. CASE Log!Notify(t)
    BY <2>3 DEF Log!Notify, LogInv, Log!TypeOK, LogAccounted
  <2> QED BY <1>3, <2>1, <2>2, <2>3 DEF Log!Push
<1>4. CASE Log!Worker
  BY <1>4, WorkerPreserves
<1>5. CASE Log!Close \/ Log!CloseNotify
  BY <1>5 DEF Log!Close, Log!CloseNotify, LogInv, Log!TypeOK, LogAccounted
<1>6. CASE UNCHANGED Log!vars
  BY <1>6 DEF Log!vars, LogInv, Log!TypeOK, LogAccounted
<1> QED BY <1>1, <1>2, <1>3, <1>4, <1>5, <1>6 DEF Log!Next

-----------------------------------------------------------------------------
(***************************************************************************)
(* MultiQueue, for every number of producers and consumers, every capacity *)
(* and any number of pushes.                                               *)
(***************************************************************************)

(* Its sets are finite, and counted, as those of FiniteSets.               *)
LEMMA SameFiniteSets ==
  ASSUME NEW S
  PROVE  /\ Multi!IsFiniteSet(S) <=> IsFiniteSet(S)
         /\ Multi!Cardinality(S) = Cardinality(S)
<1>1. Multi!IsFiniteSet(S) <=> IsFiniteSet(S)
  BY DEF Multi!IsFiniteSet, IsFiniteSet
<1>2. Multi!Cardinality(S) = Cardinality(S)
  BY DEF Multi!Cardinality, Cardinality
<1> QED BY <1>1, <1>2

(* What a producer's place in push() says of its indexes.                  *)
PushPlace(p) ==
  /\ p \in Multi!Pushers
  /\ multi_push_pc[p] = "cas" => /\ kind.mp
                                 /\ push_claim[p] = push_index[p]
                                 /\ push_index[p] < Multi!Freed + MultiCapacity
  /\ kind.mp /\ p \in Multi!Writing => push_claim[p] < multi_write_index
  /\ ~kind.mp => push_index[p] = multi_write_index
  /\ ~kind.mp /\ p \in Multi!Writing => /\ push_claim[p] = multi_write_index
                                        /\ multi_write_index < Multi!Freed + MultiCapacity
  /\ ~kind.mp /\ multi_push_pc[p] = "publish"
       => multi_array[Multi!Offset(multi_write_index)] = multi_write_index

(* What a consumer's place in pop() says of its indexes.                   *)
PopPlace(c) ==
  /\ c \in Multi!Poppers
  /\ multi_pop_pc[c] = "cas" => /\ kind.mc
                                /\ pop_claim[c] = pop_index[c]
                                /\ pop_index[c] < Multi!Readable
  /\ kind.mc /\ c \in Multi!Reading => pop_claim[c] < multi_read_index
  /\ ~kind.mc => pop_index[c] = multi_read_index
  /\ ~kind.mc /\ c \in Multi!Reading => multi_read_index < Multi!Readable

PushInv == \A p \in Producers : multi_push_pc[p] # "idle" => PushPlace(p)
PopInv == \A c \in Consumers : multi_pop_pc[c] # "idle" => PopPlace(c)

(* The two halves of ClaimsAccounted, with the cardinality of FiniteSets.  *)
PushClaims ==
  kind.mp => /\ multi_write_index - max_read_index = Cardinality(Multi!Writing)
             /\ \A p, q \in Multi!Writing : p # q => push_claim[p] # push_claim[q]
PopClaims ==
  kind.mc => /\ multi_read_index - min_write_index = Cardinality(Multi!Reading)
             /\ \A c, d \in Multi!Reading : c # d => pop_claim[c] # pop_claim[d]
MultiClaims == PushClaims /\ PopClaims

(* The strengthening: the claims made by the calls in progress.            *)
MultiInv ==
  /\ Multi!IndexChain /\ MultiClaims /\ Multi!UnclaimedIntact
  /\ PushInv /\ PopInv

-----------------------------------------------------------------------------
(* Two indexes less than a capacity apart fall on different slots.         *)
LEMMA SlotsDiffer ==
  ASSUME Multi!MultiQueueAssumption, NEW a \in Nat, NEW b \in Nat, a < b,
         b < a + MultiCapacity
  PROVE  Multi!Offset(a) # Multi!Offset(b)
<1> DEFINE qa == a \div MultiCapacity
           qb == b \div MultiCapacity
<1> USE DEF Multi!MultiQueueAssumption
<1>1. /\ qa \in Int /\ qb \in Int
      /\ a % MultiCapacity \in Int /\ b % MultiCapacity \in Int
      /\ a = (MultiCapacity * qa) + (a % MultiCapacity)
      /\ b = (MultiCapacity * qb) + (b % MultiCapacity)
  OBVIOUS
<1> HIDE DEF qa, qb
<1>2. SUFFICES ASSUME a % MultiCapacity = b % MultiCapacity
               PROVE  FALSE
  BY DEF Multi!Offset
<1>3. b - a = MultiCapacity * (qb - qa)
  BY <1>1, <1>2
<1>4. CASE qb - qa <= 0
  <2>1. MultiCapacity * (qb - qa) <= 0
    BY <1>4, <1>1
  <2> QED BY <2>1, <1>3
<1>5. CASE qb - qa >= 1
  <2>1. MultiCapacity * (qb - qa) >= MultiCapacity
    BY <1>5, <1>1
  <2> QED BY <2>1, <1>3
<1> QED BY <1>1, <1>4, <1>5

(* Every index falls on a slot of the array.                               *)
LEMMA SlotInRange ==
  ASSUME Multi!MultiQueueAssumption, NEW a \in Nat
  PROVE  Multi!Offset(a) \in 0 .. MultiCapacity - 1
BY DEF Multi!Offset, Multi!MultiQueueAssumption

(* The threads of each end, and their number where the end is shared.      *)
LEMMA EndThreads ==
  ASSUME Multi!MultiQueueAssumption, kind \in SharedKinds
  PROVE  /\ kind.mp \in BOOLEAN /\ kind.mc \in BOOLEAN
         /\ Multi!Pushers \subseteq Producers /\ Multi!Poppers \subseteq Consumers
         /\ ~kind.mp => \A p, q \in Multi!Pushers : p = q
         /\ ~kind.mc => \A c, d \in Multi!Poppers : c = d
<1>1. kind \in [mp : BOOLEAN, mc : BOOLEAN]
  BY DEF Multi!MultiQueueAssumption
<1>2. kind.mp \in BOOLEAN /\ kind.mc \in BOOLEAN
  BY <1>1
<1>3. (CHOOSE p \in Producers : TRUE) \in Producers
  BY DEF Multi!MultiQueueAssumption
<1>4. (CHOOSE c \in Consumers : TRUE) \in Consumers
  BY DEF Multi!MultiQueueAssumption
<1> QED BY <1>2, <1>3, <1>4 DEF Multi!Pushers, Multi!Poppers

(* The calls in progress at an end can be counted.                         *)
LEMMA CallsFinite ==
  ASSUME Multi!MultiQueueAssumption
  PROVE  /\ IsFiniteSet(Multi!Writing) /\ Cardinality(Multi!Writing) \in Nat
         /\ IsFiniteSet(Multi!Reading) /\ Cardinality(Multi!Reading) \in Nat
<1>1. Multi!Writing \subseteq Producers /\ Multi!Reading \subseteq Consumers
  BY DEF Multi!Writing, Multi!Reading
<1>2. IsFiniteSet(Producers) /\ IsFiniteSet(Consumers)
  BY SameFiniteSets DEF Multi!MultiQueueAssumption
<1> QED BY <1>1, <1>2, FS_Subset, FS_CardinalityType

-----------------------------------------------------------------------------
(* Initially the queue is empty and nobody is in a call.                   *)
LEMMA InitMultiInv ==
  ASSUME Multi!MultiQueueAssumption, Multi!Init
  PROVE  MultiInv
<1> USE DEF Multi!Init, Multi!MultiQueueAssumption
<1>1. Multi!TypeOK
  BY DEF Multi!TypeOK
<1>2. Multi!IndexChain
  BY <1>1 DEF Multi!IndexChain, Multi!Freed, Multi!Readable
<1>3. Multi!Writing = {} /\ Multi!Reading = {}
  BY DEF Multi!Writing, Multi!Reading
<1>4. MultiClaims
  BY <1>3, FS_EmptySet DEF MultiClaims, PushClaims, PopClaims
<1>5. Multi!UnclaimedIntact /\ PushInv /\ PopInv
  BY DEF Multi!UnclaimedIntact, PushInv, PopInv
<1> QED BY <1>2, <1>4, <1>5 DEF MultiInv

(* A step of a producer keeps the types.                                   *)
LEMMA PushKeepsTypes ==
  ASSUME Multi!MultiQueueAssumption, Multi!TypeOK, NEW p \in Producers, Multi!Push(p)
  PROVE  Multi!TypeOK'
<1> USE DEF Multi!TypeOK, Multi!indexes, Multi!pushVars, Multi!popVars
<1>1. CASE Multi!PushLoad(p)
  BY <1>1 DEF Multi!PushLoad
<1>2. CASE Multi!PushTest(p)
  BY <1>2 DEF Multi!PushTest
<1>3. CASE Multi!PushCas(p)
  <2>1. CASE multi_write_index = push_index[p]
    <3>1. /\ multi_write_index' = multi_write_index + 1
          /\ multi_push_pc' = [multi_push_pc EXCEPT ![p] = "write"]
      BY <1>3, <2>1 DEF Multi!PushCas
    <3> QED BY <1>3, <2>1, <3>1 DEF Multi!PushCas
  <2>2. CASE multi_write_index # push_index[p]
    BY <1>3, <2>2 DEF Multi!PushCas
  <2> QED BY <2>1, <2>2
<1>4. CASE Multi!PushWrite(p)
  <2>1. /\ Multi!Offset(push_index[p]) \in 0 .. MultiCapacity - 1
        /\ push_claim[p] \in Int
    BY SlotInRange
  <2>2. multi_array' \in [0 .. MultiCapacity - 1 -> Int]
    BY <1>4, <2>1 DEF Multi!PushWrite
  <2> QED BY <1>4, <2>2 DEF Multi!PushWrite
<1>5. CASE Multi!PushPublish(p)
  <2>1. CASE max_read_index = push_index[p]
    <3>1. /\ max_read_index' = max_read_index + 1
          /\ multi_push_pc' = [multi_push_pc EXCEPT ![p] = "idle"]
      BY <1>5, <2>1 DEF Multi!PushPublish
    <3> QED BY <1>5, <2>1, <3>1 DEF Multi!PushPublish
  <2>2. CASE max_read_index # push_index[p]
    BY <1>5, <2>2 DEF Multi!PushPublish
  <2> QED BY <2>1, <2>2
<1>6. CASE Multi!PushStore(p)
  BY <1>6 DEF Multi!PushStore
<1> QED BY <1>1, <1>2, <1>3, <1>4, <1>5, <1>6 DEF Multi!Push

(* A step of a consumer keeps the types.                                   *)
LEMMA PopKeepsTypes ==
  ASSUME Multi!MultiQueueAssumption, Multi!TypeOK, NEW c \in Consumers, Multi!Pop(c)
  PROVE  Multi!TypeOK'
<1> USE DEF Multi!TypeOK, Multi!indexes, Multi!pushVars, Multi!popVars
<1>1. CASE Multi!PopLoad(c)
  BY <1>1 DEF Multi!PopLoad
<1>2. CASE Multi!PopTest(c)
  BY <1>2 DEF Multi!PopTest
<1>3. CASE Multi!PopCas(c)
  <2>1. CASE multi_read_index = pop_index[c]
    <3>1. /\ multi_read_index' = multi_read_index + 1
          /\ multi_pop_pc' = [multi_pop_pc EXCEPT ![c] = "handle"]
      BY <1>3, <2>1 DEF Multi!PopCas
    <3> QED BY <1>3, <2>1, <3>1 DEF Multi!PopCas
  <2>2. CASE multi_read_index # pop_index[c]
    BY <1>3, <2>2 DEF Multi!PopCas
  <2> QED BY <2>1, <2>2
<1>4. CASE Multi!PopHandled(c)
  BY <1>4 DEF Multi!PopHandled
<1>5. CASE Multi!PopPublish(c)
  <2>1. CASE min_write_index = pop_index[c]
    <3>1. /\ min_write_index' = min_write_index + 1
          /\ multi_pop_pc' = [multi_pop_pc EXCEPT ![c] = "idle"]
      BY <1>5, <2>1 DEF Multi!PopPublish
    <3> QED BY <1>5, <2>1, <3>1 DEF Multi!PopPublish
  <2>2. CASE min_write_index # pop_index[c]
    BY <1>5, <2>2 DEF Multi!PopPublish
  <2> QED BY <2>1, <2>2
<1>6. CASE Multi!PopStore(c)
  BY <1>6 DEF Multi!PopStore
<1> QED BY <1>1, <1>2, <1>3, <1>4, <1>5, <1>6 DEF Multi!Pop

-----------------------------------------------------------------------------
(* What one producer's step leaves alone, and what it may only raise.      *)
OtherPushersKept(p) ==
  /\ kind' = kind /\ multi_write_index <= multi_write_index' /\ Multi!Freed' = Multi!Freed
  /\ \A q \in Producers \ {p} : /\ multi_push_pc'[q] = multi_push_pc[q]
                                /\ push_index'[q] = push_index[q]
                                /\ push_claim'[q] = push_claim[q]

OtherPoppersKept(c) ==
  /\ kind' = kind /\ multi_read_index <= multi_read_index'
  /\ Multi!Readable' = Multi!Readable
  /\ \A d \in Consumers \ {c} : /\ multi_pop_pc'[d] = multi_pop_pc[d]
                                /\ pop_index'[d] = pop_index[d]
                                /\ pop_claim'[d] = pop_claim[d]

(* The indexes and their bounds are numbers.                               *)
LEMMA BoundTypes ==
  ASSUME Multi!MultiQueueAssumption, Multi!TypeOK
  PROVE  Multi!Freed \in Nat /\ Multi!Readable \in Nat /\ MultiCapacity \in Nat
BY DEF Multi!TypeOK, Multi!Freed, Multi!Readable, Multi!MultiQueueAssumption

(* Where a producer in a call stands decides whether it is writing.        *)
LEMMA WritingIs ==
  ASSUME NEW p \in Producers
  PROVE  p \in Multi!Writing <=> multi_push_pc[p] = "write" \/ multi_push_pc[p] = "publish"
BY DEF Multi!Writing

(* Only the producer that takes a step has to be looked at.                *)
LEMMA PushInvStep ==
  ASSUME Multi!MultiQueueAssumption, Multi!TypeOK, Multi!TypeOK', PushInv,
         NEW p \in Multi!Pushers,
         OtherPushersKept(p),
         multi_push_pc'[p] # "idle" => PushPlace(p)'
  PROVE  PushInv'
<1> USE DEF OtherPushersKept
<1>1. SUFFICES ASSUME NEW q \in Producers, q # p, multi_push_pc'[q] # "idle"
               PROVE  PushPlace(q)'
  BY DEF PushInv
<1>2. PushPlace(q)
  BY <1>1 DEF PushInv
<1>3. kind.mp
  BY <1>1, <1>2, EndThreads DEF PushPlace, Multi!TypeOK
<1>4. Multi!Pushers' = Multi!Pushers
  BY DEF Multi!Pushers
<1>5. q \in Multi!Writing' <=> q \in Multi!Writing
  BY <1>1 DEF Multi!Writing
<1>6. q \in Multi!Pushers' /\ kind'.mp
  BY <1>2, <1>3, <1>4 DEF PushPlace
<1>7. multi_push_pc'[q] = "cas" => /\ push_claim'[q] = push_index'[q]
                                   /\ push_index'[q] < Multi!Freed' + MultiCapacity
  BY <1>1, <1>2 DEF PushPlace
<1>8. q \in Multi!Writing' => push_claim'[q] < multi_write_index'
  BY <1>1, <1>2, <1>3, <1>5 DEF PushPlace, Multi!TypeOK
<1> QED BY <1>6, <1>7, <1>8 DEF PushPlace

(* Only the consumer that takes a step has to be looked at.                *)
LEMMA PopInvStep ==
  ASSUME Multi!MultiQueueAssumption, Multi!TypeOK, Multi!TypeOK', PopInv,
         NEW c \in Multi!Poppers,
         OtherPoppersKept(c),
         multi_pop_pc'[c] # "idle" => PopPlace(c)'
  PROVE  PopInv'
<1> USE DEF OtherPoppersKept
<1>1. SUFFICES ASSUME NEW d \in Consumers, d # c, multi_pop_pc'[d] # "idle"
               PROVE  PopPlace(d)'
  BY DEF PopInv
<1>2. PopPlace(d)
  BY <1>1 DEF PopInv
<1>3. kind.mc
  BY <1>1, <1>2, EndThreads DEF PopPlace, Multi!TypeOK
<1>4. Multi!Poppers' = Multi!Poppers
  BY DEF Multi!Poppers
<1>5. d \in Multi!Reading' <=> d \in Multi!Reading
  BY <1>1 DEF Multi!Reading
<1>6. d \in Multi!Poppers' /\ kind'.mc
  BY <1>2, <1>3, <1>4 DEF PopPlace
<1>7. multi_pop_pc'[d] = "cas" => /\ pop_claim'[d] = pop_index'[d]
                                  /\ pop_index'[d] < Multi!Readable'
  BY <1>1, <1>2 DEF PopPlace
<1>8. d \in Multi!Reading' => pop_claim'[d] < multi_read_index'
  BY <1>1, <1>2, <1>3, <1>5 DEF PopPlace, Multi!TypeOK
<1> QED BY <1>6, <1>7, <1>8 DEF PopPlace

(* A producer's step moves Readable forward at most: consumers are safe.   *)
LEMMA PopInvKept ==
  ASSUME Multi!MultiQueueAssumption, Multi!TypeOK, Multi!TypeOK', PopInv,
         UNCHANGED <<kind, multi_read_index, Multi!popVars>>,
         Multi!Readable <= Multi!Readable'
  PROVE  PopInv'
<1>1. SUFFICES ASSUME NEW c \in Consumers, multi_pop_pc'[c] # "idle"
               PROVE  PopPlace(c)'
  BY DEF PopInv
<1>2. /\ multi_pop_pc' = multi_pop_pc /\ pop_index' = pop_index /\ pop_claim' = pop_claim
      /\ multi_read_index' = multi_read_index /\ kind' = kind
  BY DEF Multi!popVars
<1>3. PopPlace(c)
  BY <1>1, <1>2 DEF PopInv
<1>4. Multi!Poppers' = Multi!Poppers /\ Multi!Reading' = Multi!Reading
  BY <1>2 DEF Multi!Poppers, Multi!Reading
<1>5. Multi!Readable \in Nat /\ Multi!Readable' \in Nat
  BY <1>2, BoundTypes DEF Multi!TypeOK, Multi!Readable
<1> QED BY <1>2, <1>3, <1>4, <1>5 DEF PopPlace, Multi!TypeOK

(* Room below a bound stays when the bound moves up.                       *)
LEMMA RoomStays ==
  ASSUME NEW index \in Nat, NEW f \in Nat, NEW g \in Nat, NEW size \in Nat,
         f <= g, index < f + size
  PROVE  index < g + size
OBVIOUS

(* A consumer's step moves Freed forward at most: producers are safe.      *)
LEMMA PushInvKept ==
  ASSUME Multi!MultiQueueAssumption, Multi!TypeOK, Multi!TypeOK', PushInv,
         UNCHANGED <<kind, multi_array, multi_write_index, Multi!pushVars>>,
         Multi!Freed <= Multi!Freed'
  PROVE  PushInv'
<1>1. SUFFICES ASSUME NEW p \in Producers, multi_push_pc'[p] # "idle"
               PROVE  PushPlace(p)'
  BY DEF PushInv
<1>2. /\ multi_push_pc' = multi_push_pc /\ push_index' = push_index
      /\ push_claim' = push_claim /\ multi_array' = multi_array
      /\ multi_write_index' = multi_write_index /\ kind' = kind
  BY DEF Multi!pushVars
<1>3. PushPlace(p)
  BY <1>1, <1>2 DEF PushInv
<1>4. Multi!Pushers' = Multi!Pushers /\ Multi!Writing' = Multi!Writing
  BY <1>2 DEF Multi!Pushers, Multi!Writing
<1>5. Multi!Freed \in Nat /\ Multi!Freed' \in Nat /\ MultiCapacity \in Nat
  BY <1>2, BoundTypes DEF Multi!TypeOK, Multi!Freed
<1>6. Multi!Offset(multi_write_index)' = Multi!Offset(multi_write_index)
  BY <1>2 DEF Multi!Offset
<1>7. multi_push_pc[p] = "cas" => /\ kind.mp
                                  /\ push_claim[p] = push_index[p]
                                  /\ push_index[p] < Multi!Freed' + MultiCapacity
  BY <1>3, <1>5, RoomStays DEF PushPlace, Multi!TypeOK
<1>8. ~kind.mp /\ p \in Multi!Writing => /\ push_claim[p] = multi_write_index
                                         /\ multi_write_index < Multi!Freed' + MultiCapacity
  BY <1>3, <1>5, RoomStays DEF PushPlace, Multi!TypeOK
<1>9. ~kind.mp /\ multi_push_pc[p] = "publish"
        => multi_array[Multi!Offset(multi_write_index)] = multi_write_index
  BY <1>3 DEF PushPlace
<1> QED BY <1>2, <1>3, <1>4, <1>6, <1>7, <1>8, <1>9 DEF PushPlace

-----------------------------------------------------------------------------
(* What has to be shown of a step of producer p.                           *)
PushStepOK(p) ==
  /\ OtherPushersKept(p)
  /\ UNCHANGED <<multi_read_index, min_write_index, Multi!popVars>>
  /\ Multi!Readable <= Multi!Readable'
  /\ Multi!IndexChain' /\ PushClaims' /\ Multi!UnclaimedIntact'
  /\ multi_push_pc'[p] # "idle" => PushPlace(p)'

LEMMA PushStepKeepsMultiInv ==
  ASSUME Multi!MultiQueueAssumption, MultiInv, NEW p \in Multi!Pushers, PushStepOK(p)
  PROVE  MultiInv'
<1>1. Multi!TypeOK /\ Multi!TypeOK'
  BY DEF MultiInv, Multi!IndexChain, PushStepOK
<1>2. PushInv'
  BY <1>1, PushInvStep DEF MultiInv, PushStepOK
<1>3. PopInv'
  BY <1>1, PopInvKept DEF MultiInv, PushStepOK, OtherPushersKept
<1>4. /\ kind' = kind /\ multi_read_index' = multi_read_index
      /\ min_write_index' = min_write_index
      /\ multi_pop_pc' = multi_pop_pc /\ pop_claim' = pop_claim
  BY DEF PushStepOK, OtherPushersKept, Multi!popVars
<1>5. Multi!Reading' = Multi!Reading
  BY <1>4 DEF Multi!Reading
<1>6. PopClaims'
  BY <1>4, <1>5 DEF PopClaims, MultiInv, MultiClaims, PushClaims
<1>7. MultiClaims'
  BY <1>6 DEF PushStepOK, MultiClaims, PushClaims, PopClaims
<1> QED BY <1>2, <1>3, <1>7 DEF MultiInv, PushStepOK

(* The load of write_index_ only remembers it.                             *)
LEMMA PushLoadOK ==
  ASSUME Multi!MultiQueueAssumption, MultiInv, NEW p \in Multi!Pushers, Multi!PushLoad(p)
  PROVE  PushStepOK(p)
<1> USE DEF Multi!PushLoad
<1>1. Multi!TypeOK /\ p \in Producers
  BY EndThreads DEF MultiInv, Multi!IndexChain, Multi!TypeOK
<1>2. Multi!TypeOK'
  BY <1>1, PushKeepsTypes DEF Multi!Push
<1>3. /\ kind' = kind /\ multi_array' = multi_array
      /\ multi_read_index' = multi_read_index /\ multi_write_index' = multi_write_index
      /\ max_read_index' = max_read_index /\ min_write_index' = min_write_index
      /\ push_claim' = push_claim /\ Multi!popVars' = Multi!popVars
  BY DEF Multi!indexes
<1>4. /\ Multi!Freed' = Multi!Freed /\ Multi!Readable' = Multi!Readable
      /\ Multi!Pushers' = Multi!Pushers
  BY <1>3 DEF Multi!Freed, Multi!Readable, Multi!Pushers
<1>5. /\ multi_push_pc'[p] = "test" /\ push_index'[p] = multi_write_index
      /\ \A q \in Producers \ {p} : /\ multi_push_pc'[q] = multi_push_pc[q]
                                    /\ push_index'[q] = push_index[q]
  BY <1>1 DEF Multi!TypeOK
<1>6. Multi!Writing' = Multi!Writing
  BY <1>1, <1>5 DEF Multi!Writing
<1>7. p \notin Multi!Writing
  BY <1>1 DEF Multi!Writing
<1>8. OtherPushersKept(p) /\ Multi!Readable <= Multi!Readable'
  BY <1>1, <1>3, <1>4, <1>5, BoundTypes DEF OtherPushersKept, Multi!TypeOK
<1>9. Multi!IndexChain'
  BY <1>2, <1>3, <1>4 DEF MultiInv, Multi!IndexChain
<1>10. PushClaims' /\ Multi!UnclaimedIntact'
  BY <1>3, <1>6
     DEF MultiInv, MultiClaims, PopClaims, PushClaims, Multi!UnclaimedIntact,
         Multi!Offset
<1>11. PushPlace(p)'
  BY <1>3, <1>4, <1>5, <1>6, <1>7 DEF PushPlace
<1> QED BY <1>3, <1>8, <1>9, <1>10, <1>11 DEF PushStepOK

(* The test of the room: an old write_index is never found to have room    *)
(* beyond what the consumers have freed.                                   *)
LEMMA PushTestOK ==
  ASSUME Multi!MultiQueueAssumption, MultiInv, NEW p \in Multi!Pushers, Multi!PushTest(p)
  PROVE  PushStepOK(p)
<1> USE DEF Multi!PushTest
<1>1. Multi!TypeOK /\ p \in Producers
  BY EndThreads DEF MultiInv, Multi!IndexChain, Multi!TypeOK
<1>2. Multi!TypeOK'
  BY <1>1, PushKeepsTypes DEF Multi!Push
<1>3. /\ kind' = kind /\ multi_array' = multi_array
      /\ multi_read_index' = multi_read_index /\ multi_write_index' = multi_write_index
      /\ max_read_index' = max_read_index /\ min_write_index' = min_write_index
      /\ push_index' = push_index /\ Multi!popVars' = Multi!popVars
  BY DEF Multi!indexes
<1>4. /\ Multi!Freed' = Multi!Freed /\ Multi!Readable' = Multi!Readable
      /\ Multi!Pushers' = Multi!Pushers
  BY <1>3 DEF Multi!Freed, Multi!Readable, Multi!Pushers
<1>5. /\ multi_push_pc'[p] \in {"idle", "cas", "write"}
      /\ multi_push_pc'[p] = "cas" => kind.mp
      /\ multi_push_pc'[p] = "write" => ~kind.mp
      /\ multi_push_pc'[p] # "idle" => Multi!Room(push_index[p])
  <2>1. multi_push_pc'[p] = IF ~Multi!Room(push_index[p]) THEN "idle"
                            ELSE IF kind.mp THEN "cas" ELSE "write"
    BY <1>1 DEF Multi!TypeOK
  <2> QED BY <2>1
<1>6. /\ push_claim'[p] = push_index[p]
      /\ \A q \in Producers \ {p} : /\ multi_push_pc'[q] = multi_push_pc[q]
                                    /\ push_claim'[q] = push_claim[q]
  BY <1>1 DEF Multi!TypeOK
<1>7. p \notin Multi!Writing /\ (kind.mp => Multi!Writing' = Multi!Writing)
  <2>1. p \notin Multi!Writing
    BY <1>1 DEF Multi!Writing
  <2>2. ASSUME kind.mp PROVE p \notin Multi!Writing'
    BY <1>5, <2>2 DEF Multi!Writing
  <2>3. \A q \in Producers \ {p} : q \in Multi!Writing' <=> q \in Multi!Writing
    BY <1>6 DEF Multi!Writing
  <2>4. Multi!Writing \subseteq Producers /\ Multi!Writing' \subseteq Producers
    BY DEF Multi!Writing
  <2> QED BY <2>1, <2>2, <2>3, <2>4
<1>8. OtherPushersKept(p) /\ Multi!Readable <= Multi!Readable'
  BY <1>1, <1>3, <1>4, <1>6, BoundTypes DEF OtherPushersKept, Multi!TypeOK
<1>9. Multi!IndexChain'
  BY <1>2, <1>3, <1>4 DEF MultiInv, Multi!IndexChain
<1>10. PushClaims'
  <2>1. ASSUME kind.mp, NEW q \in Multi!Writing PROVE push_claim'[q] = push_claim[q]
    BY <1>6, <1>7 DEF Multi!Writing
  <2> QED BY <1>3, <1>7, <2>1 DEF MultiInv, MultiClaims, PopClaims, PushClaims
<1>11. Multi!UnclaimedIntact'
  BY <1>3 DEF MultiInv, Multi!UnclaimedIntact, Multi!Offset
<1>12. multi_push_pc'[p] # "idle" => push_index[p] < Multi!Freed + MultiCapacity
  BY <1>1, <1>5, BoundTypes DEF Multi!Room, Multi!TypeOK
<1>13. ~kind.mp => push_index[p] = multi_write_index
  BY <1>1 DEF MultiInv, PushInv, PushPlace
<1>14. multi_push_pc'[p] # "idle" => PushPlace(p)'
  <2> SUFFICES ASSUME multi_push_pc'[p] # "idle"
               PROVE  PushPlace(p)'
    OBVIOUS
  <2>1. CASE kind.mp
    BY <1>3, <1>4, <1>5, <1>6, <1>7, <1>12, <2>1 DEF PushPlace
  <2>2. CASE ~kind.mp
    BY <1>3, <1>4, <1>5, <1>6, <1>12, <1>13, <2>2 DEF PushPlace
  <2> QED BY <2>1, <2>2
<1> QED BY <1>3, <1>8, <1>9, <1>10, <1>11, <1>14 DEF PushStepOK

(* A compare-and-swap that succeeds claims an index nobody holds, within   *)
(* the room that was measured.                                             *)
LEMMA PushCasOK ==
  ASSUME Multi!MultiQueueAssumption, MultiInv, NEW p \in Multi!Pushers, Multi!PushCas(p)
  PROVE  PushStepOK(p)
<1>1. Multi!TypeOK /\ p \in Producers
  BY EndThreads DEF MultiInv, Multi!IndexChain, Multi!TypeOK
<1>2. Multi!TypeOK'
  BY <1>1, PushKeepsTypes DEF Multi!Push
<1>3. /\ kind' = kind /\ multi_array' = multi_array
      /\ multi_read_index' = multi_read_index
      /\ max_read_index' = max_read_index /\ min_write_index' = min_write_index
      /\ push_index' = push_index /\ push_claim' = push_claim
      /\ Multi!popVars' = Multi!popVars /\ multi_push_pc[p] = "cas"
  BY DEF Multi!PushCas
<1>4. PushPlace(p)
  BY <1>1, <1>3 DEF MultiInv, PushInv
<1>5. /\ kind.mp /\ push_claim[p] = push_index[p]
      /\ push_index[p] < Multi!Freed + MultiCapacity
  BY <1>3, <1>4 DEF PushPlace
<1>6. /\ Multi!Freed' = Multi!Freed /\ Multi!Readable' = Multi!Readable
      /\ Multi!Pushers' = Multi!Pushers
  BY <1>3, <1>5 DEF Multi!Freed, Multi!Readable, Multi!Pushers
<1>7. /\ p \notin Multi!Writing /\ Multi!Readable <= Multi!Readable'
      /\ Multi!UnclaimedIntact'
  BY <1>1, <1>3, <1>5, <1>6, BoundTypes DEF Multi!Writing, Multi!UnclaimedIntact
<1>8. CASE multi_write_index = push_index[p]
  <2>1. /\ multi_write_index' = multi_write_index + 1
        /\ multi_push_pc' = [multi_push_pc EXCEPT ![p] = "write"]
    BY <1>8 DEF Multi!PushCas
  <2>2. /\ multi_push_pc'[p] = "write"
        /\ \A q \in Producers \ {p} : multi_push_pc'[q] = multi_push_pc[q]
    BY <1>1, <2>1 DEF Multi!TypeOK
  <2>3. Multi!Writing' = Multi!Writing \cup {p}
    BY <1>1, <2>2 DEF Multi!Writing
  <2>4. OtherPushersKept(p)
    BY <1>1, <1>3, <1>6, <2>1, <2>2 DEF OtherPushersKept, Multi!TypeOK
  <2>5. Multi!IndexChain'
    BY <1>1, <1>2, <1>3, <1>5, <1>6, <1>8, <2>1, BoundTypes, SMTT(60)
       DEF MultiInv, Multi!IndexChain, Multi!TypeOK
  <2>6. Cardinality(Multi!Writing') = Cardinality(Multi!Writing) + 1
    BY <1>7, <2>3, CallsFinite, FS_AddElement
  <2>7. \A q \in Multi!Writing : push_claim[q] \in Nat /\ push_claim[q] < multi_write_index
    BY <1>1, <1>5 DEF MultiInv, PushInv, PushPlace, Multi!Writing, Multi!TypeOK
  <2>8. push_claim[p] = multi_write_index /\ multi_write_index \in Nat
    BY <1>1, <1>5, <1>8 DEF Multi!TypeOK
  <2>9. \A q, r \in Multi!Writing' : q # r => push_claim'[q] # push_claim'[r]
    <3>1. \A q, r \in Multi!Writing : q # r => push_claim[q] # push_claim[r]
      BY <1>5 DEF MultiInv, MultiClaims, PushClaims, PopClaims
    <3>2. \A q \in Multi!Writing : push_claim[q] # push_claim[p]
      BY <2>7, <2>8
    <3> QED BY <1>3, <2>3, <3>1, <3>2
  <2>10. multi_write_index' - max_read_index' = Cardinality(Multi!Writing')
    <3>1. multi_write_index - max_read_index = Cardinality(Multi!Writing)
      BY <1>5 DEF MultiInv, MultiClaims, PushClaims, PopClaims
    <3> QED BY <1>1, <1>3, <2>1, <2>6, <3>1, CallsFinite DEF Multi!TypeOK
  <2>11. PushClaims'
    BY <2>9, <2>10 DEF PushClaims
  <2>12. p \in Multi!Pushers' /\ kind'.mp /\ push_claim'[p] < multi_write_index'
    BY <1>3, <1>5, <1>6, <2>1, <2>8
  <2>13. PushPlace(p)'
    BY <2>2, <2>12 DEF PushPlace
  <2> QED BY <1>3, <1>7, <2>4, <2>5, <2>11, <2>13 DEF PushStepOK
<1>9. CASE multi_write_index # push_index[p]
  <2>1. /\ multi_write_index' = multi_write_index
        /\ multi_push_pc' = [multi_push_pc EXCEPT ![p] = "idle"]
    BY <1>9 DEF Multi!PushCas
  <2>2. /\ multi_push_pc'[p] = "idle"
        /\ \A q \in Producers \ {p} : multi_push_pc'[q] = multi_push_pc[q]
    BY <1>1, <2>1 DEF Multi!TypeOK
  <2>3. Multi!Writing' = Multi!Writing
    BY <1>1, <1>7, <2>2 DEF Multi!Writing
  <2>4. OtherPushersKept(p)
    BY <1>1, <1>3, <1>6, <2>1, <2>2 DEF OtherPushersKept, Multi!TypeOK
  <2>5. Multi!IndexChain'
    BY <1>2, <1>3, <1>6, <2>1 DEF MultiInv, Multi!IndexChain
  <2>6. PushClaims'
    BY <1>3, <2>1, <2>3 DEF MultiInv, MultiClaims, PopClaims, PushClaims
  <2> QED BY <1>3, <1>7, <2>2, <2>4, <2>5, <2>6 DEF PushStepOK
<1> QED BY <1>8, <1>9

(* The write goes to a slot that no unclaimed event lies in, when there is *)
(* one producer.                                                           *)
LEMMA PushWriteOK ==
  ASSUME Multi!MultiQueueAssumption, MultiInv, NEW p \in Multi!Pushers, Multi!PushWrite(p)
  PROVE  PushStepOK(p)
<1> USE DEF Multi!PushWrite
<1>1. Multi!TypeOK /\ p \in Producers
  BY EndThreads DEF MultiInv, Multi!IndexChain, Multi!TypeOK
<1>2. Multi!TypeOK'
  BY <1>1, PushKeepsTypes DEF Multi!Push
<1>3. /\ kind' = kind
      /\ multi_read_index' = multi_read_index /\ multi_write_index' = multi_write_index
      /\ max_read_index' = max_read_index /\ min_write_index' = min_write_index
      /\ push_index' = push_index /\ push_claim' = push_claim
      /\ Multi!popVars' = Multi!popVars
  BY DEF Multi!indexes
<1>4. /\ Multi!Freed' = Multi!Freed /\ Multi!Readable' = Multi!Readable
      /\ Multi!Pushers' = Multi!Pushers
  BY <1>3 DEF Multi!Freed, Multi!Readable, Multi!Pushers
<1>5. /\ multi_push_pc'[p] = "publish"
      /\ \A q \in Producers \ {p} : multi_push_pc'[q] = multi_push_pc[q]
  BY <1>1 DEF Multi!TypeOK
<1>6. Multi!Writing' = Multi!Writing /\ p \in Multi!Writing
  BY <1>1, <1>5 DEF Multi!Writing
<1>7. OtherPushersKept(p) /\ Multi!Readable <= Multi!Readable'
  BY <1>1, <1>3, <1>4, <1>5, BoundTypes DEF OtherPushersKept, Multi!TypeOK
<1>8. Multi!IndexChain'
  BY <1>2, <1>3, <1>4 DEF MultiInv, Multi!IndexChain
<1>9. PushClaims'
  BY <1>3, <1>6 DEF MultiInv, MultiClaims, PopClaims, PushClaims
<1>10. PushPlace(p)
  BY <1>1 DEF MultiInv, PushInv
<1>11. /\ Multi!Offset(push_index[p]) \in 0 .. MultiCapacity - 1
       /\ push_index[p] \in Nat /\ push_claim[p] \in Int
  BY <1>1, SlotInRange DEF Multi!TypeOK
<1>12. multi_array'[Multi!Offset(push_index[p])] = push_claim[p]
  BY <1>1, <1>11 DEF Multi!TypeOK
<1>13. ASSUME ~kind.mp
       PROVE  Multi!UnclaimedIntact'
  <2>1. /\ push_index[p] = multi_write_index
        /\ multi_write_index < Multi!Freed + MultiCapacity
    BY <1>6, <1>10, <1>13 DEF PushPlace
  <2>2. Multi!Freed <= multi_read_index /\ Multi!Freed \in Nat
    BY <1>1, BoundTypes DEF MultiInv, Multi!IndexChain
  <2>3. SUFFICES ASSUME NEW i \in multi_read_index .. multi_write_index - 1
                 PROVE  multi_array'[Multi!Offset(i)] = i
    BY <1>3 DEF Multi!UnclaimedIntact, Multi!Offset
  <2>4. i \in Nat /\ i < multi_write_index /\ multi_write_index < i + MultiCapacity
    BY <1>1, <2>1, <2>2, BoundTypes DEF Multi!TypeOK
  <2>5. Multi!Offset(i) # Multi!Offset(multi_write_index)
    BY <1>11, <2>1, <2>4, SlotsDiffer
  <2>6. Multi!Offset(i) \in 0 .. MultiCapacity - 1
    BY <2>4, SlotInRange
  <2>7. multi_array'[Multi!Offset(i)] = multi_array[Multi!Offset(i)]
    BY <1>1, <2>1, <2>5, <2>6 DEF Multi!TypeOK
  <2> QED BY <1>13, <2>7 DEF MultiInv, Multi!UnclaimedIntact
<1>14. Multi!UnclaimedIntact'
  BY <1>3, <1>13 DEF Multi!UnclaimedIntact
<1>15. PushPlace(p)'
  <2>1. CASE kind.mp
    BY <1>3, <1>4, <1>5, <1>6, <1>10, <2>1 DEF PushPlace
  <2>2. CASE ~kind.mp
    <3>1. multi_array'[Multi!Offset(multi_write_index)'] = multi_write_index'
      BY <1>3, <1>6, <1>10, <1>12, <2>2 DEF PushPlace, Multi!Offset
    <3> QED BY <1>3, <1>4, <1>5, <1>6, <1>10, <2>2, <3>1 DEF PushPlace
  <2> QED BY <2>1, <2>2
<1> QED BY <1>3, <1>7, <1>8, <1>9, <1>14, <1>15 DEF PushStepOK

(* A publication gives up one claim and raises the published index by one, *)
(* whichever call's place it takes.                                        *)
LEMMA PushPublishOK ==
  ASSUME Multi!MultiQueueAssumption, MultiInv, NEW p \in Multi!Pushers,
         Multi!PushPublish(p)
  PROVE  PushStepOK(p)
<1>1. Multi!TypeOK /\ p \in Producers
  BY EndThreads DEF MultiInv, Multi!IndexChain, Multi!TypeOK
<1>2. Multi!TypeOK'
  BY <1>1, PushKeepsTypes DEF Multi!Push
<1>3. /\ kind' = kind /\ multi_array' = multi_array
      /\ multi_read_index' = multi_read_index
      /\ multi_write_index' = multi_write_index /\ min_write_index' = min_write_index
      /\ push_claim' = push_claim /\ Multi!popVars' = Multi!popVars
      /\ multi_push_pc[p] = "publish" /\ kind.mp
  BY DEF Multi!PushPublish
<1>4. /\ Multi!Freed' = Multi!Freed /\ Multi!Pushers' = Multi!Pushers
      /\ Multi!UnclaimedIntact'
  BY <1>3 DEF Multi!Freed, Multi!Pushers, Multi!UnclaimedIntact
<1>5. p \in Multi!Writing /\ PushPlace(p)
  BY <1>1, <1>3 DEF Multi!Writing, MultiInv, PushInv
<1>6. CASE max_read_index = push_index[p]
  <2>1. /\ max_read_index' = max_read_index + 1 /\ push_index' = push_index
        /\ multi_push_pc' = [multi_push_pc EXCEPT ![p] = "idle"]
    BY <1>6 DEF Multi!PushPublish
  <2>2. /\ multi_push_pc'[p] = "idle"
        /\ \A q \in Producers \ {p} : multi_push_pc'[q] = multi_push_pc[q]
    BY <1>1, <2>1 DEF Multi!TypeOK
  <2>3. Multi!Writing' = Multi!Writing \ {p}
    BY <1>1, <2>2 DEF Multi!Writing
  <2>4. OtherPushersKept(p)
    BY <1>1, <1>3, <1>4, <2>1, <2>2 DEF OtherPushersKept, Multi!TypeOK
  <2>5. multi_write_index - max_read_index = Cardinality(Multi!Writing)
    BY <1>3 DEF MultiInv, MultiClaims, PushClaims, PopClaims
  <2>6. /\ Cardinality(Multi!Writing') = Cardinality(Multi!Writing) - 1
        /\ Cardinality(Multi!Writing') \in Nat
    BY <1>5, <2>3, CallsFinite, FS_RemoveElement, FS_CardinalityType
  <2>7. max_read_index' <= multi_write_index
    BY <1>1, <2>1, <2>5, <2>6, CallsFinite DEF Multi!TypeOK
  <2>8. Multi!Readable = max_read_index /\ Multi!Readable' = max_read_index'
    BY <1>3 DEF Multi!Readable
  <2>9. Multi!Readable <= Multi!Readable'
    BY <1>1, <2>1, <2>8 DEF Multi!TypeOK
  <2>10. Multi!IndexChain'
    BY <1>1, <1>2, <1>3, <1>4, <2>1, <2>7, <2>8
       DEF MultiInv, Multi!IndexChain, Multi!TypeOK
  <2>11. multi_write_index' - max_read_index' = Cardinality(Multi!Writing')
    BY <1>1, <1>3, <2>1, <2>5, <2>6, CallsFinite DEF Multi!TypeOK
  <2>12. PushClaims'
    BY <1>3, <2>3, <2>11 DEF MultiInv, MultiClaims, PopClaims, PushClaims
  <2> QED BY <1>3, <1>4, <2>2, <2>4, <2>9, <2>10, <2>12 DEF PushStepOK
<1>7. CASE max_read_index # push_index[p]
  <2>1. /\ max_read_index' = max_read_index /\ multi_push_pc' = multi_push_pc
        /\ push_index' = [push_index EXCEPT ![p] = max_read_index]
    BY <1>7 DEF Multi!PushPublish
  <2>2. Multi!Writing' = Multi!Writing /\ Multi!Readable' = Multi!Readable
    BY <1>3, <2>1 DEF Multi!Writing, Multi!Readable
  <2>3. \A q \in Producers \ {p} : push_index'[q] = push_index[q]
    BY <1>1, <2>1 DEF Multi!TypeOK
  <2>4. OtherPushersKept(p) /\ Multi!Readable <= Multi!Readable'
    BY <1>1, <1>3, <1>4, <2>1, <2>2, <2>3, BoundTypes
       DEF OtherPushersKept, Multi!TypeOK
  <2>5. Multi!IndexChain'
    BY <1>2, <1>3, <1>4, <2>2 DEF MultiInv, Multi!IndexChain
  <2>6. PushClaims'
    BY <1>3, <2>1, <2>2 DEF MultiInv, MultiClaims, PopClaims, PushClaims
  <2>7. PushPlace(p)'
    BY <1>3, <1>4, <1>5, <2>1, <2>2 DEF PushPlace
  <2> QED BY <1>3, <1>4, <2>4, <2>5, <2>6, <2>7 DEF PushStepOK
<1> QED BY <1>6, <1>7

(* The only producer's store makes the event it has written readable.      *)
LEMMA PushStoreOK ==
  ASSUME Multi!MultiQueueAssumption, MultiInv, NEW p \in Multi!Pushers, Multi!PushStore(p)
  PROVE  PushStepOK(p)
<1> USE DEF Multi!PushStore
<1>1. Multi!TypeOK /\ p \in Producers
  BY EndThreads DEF MultiInv, Multi!IndexChain, Multi!TypeOK
<1>2. Multi!TypeOK'
  BY <1>1, PushKeepsTypes DEF Multi!Push
<1>3. /\ kind' = kind /\ multi_array' = multi_array
      /\ multi_read_index' = multi_read_index
      /\ max_read_index' = max_read_index /\ min_write_index' = min_write_index
      /\ push_index' = push_index /\ push_claim' = push_claim
      /\ Multi!popVars' = Multi!popVars /\ multi_push_pc[p] = "publish" /\ ~kind.mp
  OBVIOUS
<1>4. p \in Multi!Writing /\ PushPlace(p)
  BY <1>1, <1>3 DEF Multi!Writing, MultiInv, PushInv
<1>5. /\ push_index[p] = multi_write_index
      /\ multi_write_index < Multi!Freed + MultiCapacity
      /\ multi_array[Multi!Offset(multi_write_index)] = multi_write_index
  BY <1>3, <1>4 DEF PushPlace
<1>6. multi_write_index' = multi_write_index + 1 /\ multi_write_index \in Nat
  BY <1>1, <1>5 DEF Multi!TypeOK
<1>7. /\ Multi!Freed' = Multi!Freed /\ Multi!Readable = multi_write_index
      /\ Multi!Readable' = multi_write_index'
  BY <1>3 DEF Multi!Freed, Multi!Readable
<1>8. /\ multi_push_pc'[p] = "idle"
      /\ \A q \in Producers \ {p} : multi_push_pc'[q] = multi_push_pc[q]
  BY <1>1 DEF Multi!TypeOK
<1>9. OtherPushersKept(p) /\ Multi!Readable <= Multi!Readable'
  BY <1>3, <1>6, <1>7, <1>8 DEF OtherPushersKept
<1>10. Multi!IndexChain'
  BY <1>1, <1>2, <1>3, <1>5, <1>6, <1>7, BoundTypes, SMTT(60)
     DEF MultiInv, Multi!IndexChain, Multi!TypeOK
<1>11. PushClaims'
  BY <1>3 DEF PushClaims
<1>12. Multi!UnclaimedIntact'
  <2>1. SUFFICES ASSUME NEW i \in multi_read_index .. multi_write_index
                 PROVE  multi_array[Multi!Offset(i)] = i
    BY <1>1, <1>3, <1>6 DEF Multi!UnclaimedIntact, Multi!Offset, Multi!TypeOK
  <2>2. CASE i = multi_write_index
    BY <1>5, <2>2
  <2>3. CASE i # multi_write_index
    <3>1. i \in multi_read_index .. multi_write_index - 1
      BY <1>1, <2>3 DEF Multi!TypeOK
    <3> QED BY <1>3, <3>1 DEF MultiInv, Multi!UnclaimedIntact
  <2> QED BY <2>2, <2>3
<1> QED BY <1>3, <1>8, <1>9, <1>10, <1>11, <1>12 DEF PushStepOK

-----------------------------------------------------------------------------
(* What has to be shown of a step of consumer c.                           *)
PopStepOK(c) ==
  /\ OtherPoppersKept(c)
  /\ UNCHANGED <<multi_array, multi_write_index, max_read_index, Multi!pushVars>>
  /\ Multi!Freed <= Multi!Freed'
  /\ Multi!IndexChain' /\ PopClaims'
  /\ multi_pop_pc'[c] # "idle" => PopPlace(c)'

LEMMA PopStepKeepsMultiInv ==
  ASSUME Multi!MultiQueueAssumption, MultiInv, NEW c \in Multi!Poppers, PopStepOK(c)
  PROVE  MultiInv'
<1>1. Multi!TypeOK /\ Multi!TypeOK'
  BY DEF MultiInv, Multi!IndexChain, PopStepOK
<1>2. PopInv'
  BY <1>1, PopInvStep DEF MultiInv, PopStepOK
<1>3. /\ kind' = kind /\ multi_array' = multi_array
      /\ multi_write_index' = multi_write_index
      /\ max_read_index' = max_read_index /\ Multi!pushVars' = Multi!pushVars
      /\ multi_push_pc' = multi_push_pc /\ push_claim' = push_claim
      /\ multi_read_index <= multi_read_index'
  BY DEF PopStepOK, OtherPoppersKept, Multi!pushVars
<1>4. PushInv'
  BY <1>1, <1>3, PushInvKept DEF MultiInv, PopStepOK
<1>5. Multi!Writing' = Multi!Writing
  BY <1>3 DEF Multi!Writing
<1>6. PushClaims'
  BY <1>3, <1>5 DEF PushClaims, MultiInv, MultiClaims, PopClaims
<1>7. MultiClaims'
  BY <1>6 DEF PopStepOK, MultiClaims, PushClaims, PopClaims
<1>8. Multi!UnclaimedIntact'
  <2>1. SUFFICES ASSUME ~kind.mp, NEW i \in multi_read_index' .. multi_write_index - 1
                 PROVE  multi_array[Multi!Offset(i)] = i
    BY <1>3 DEF Multi!UnclaimedIntact, Multi!Offset
  <2>2. i \in multi_read_index .. multi_write_index - 1
    <3>1. /\ multi_read_index \in Nat /\ multi_read_index' \in Nat
          /\ multi_write_index \in Nat
          /\ multi_read_index <= multi_read_index'
          /\ i \in multi_read_index' .. multi_write_index - 1
      BY <1>1, <1>3 DEF Multi!TypeOK
    <3> QED BY <3>1
  <2> QED BY <2>1, <2>2 DEF MultiInv, Multi!UnclaimedIntact
<1> QED BY <1>2, <1>4, <1>7, <1>8 DEF MultiInv, PopStepOK

(* The load of read_index_ only remembers it.                              *)
LEMMA PopLoadOK ==
  ASSUME Multi!MultiQueueAssumption, MultiInv, NEW c \in Multi!Poppers, Multi!PopLoad(c)
  PROVE  PopStepOK(c)
<1> USE DEF Multi!PopLoad
<1>1. Multi!TypeOK /\ c \in Consumers
  BY EndThreads DEF MultiInv, Multi!IndexChain, Multi!TypeOK
<1>2. Multi!TypeOK'
  BY <1>1, PopKeepsTypes DEF Multi!Pop
<1>3. /\ kind' = kind /\ multi_array' = multi_array
      /\ multi_read_index' = multi_read_index /\ multi_write_index' = multi_write_index
      /\ max_read_index' = max_read_index /\ min_write_index' = min_write_index
      /\ pop_claim' = pop_claim /\ Multi!pushVars' = Multi!pushVars
  BY DEF Multi!indexes
<1>4. /\ Multi!Freed' = Multi!Freed /\ Multi!Readable' = Multi!Readable
      /\ Multi!Poppers' = Multi!Poppers
  BY <1>3 DEF Multi!Freed, Multi!Readable, Multi!Poppers
<1>5. /\ multi_pop_pc'[c] = "test" /\ pop_index'[c] = multi_read_index
      /\ \A d \in Consumers \ {c} : /\ multi_pop_pc'[d] = multi_pop_pc[d]
                                    /\ pop_index'[d] = pop_index[d]
  BY <1>1 DEF Multi!TypeOK
<1>6. Multi!Reading' = Multi!Reading /\ c \notin Multi!Reading
  BY <1>1, <1>5 DEF Multi!Reading
<1>7. OtherPoppersKept(c) /\ Multi!Freed <= Multi!Freed'
  BY <1>1, <1>3, <1>4, <1>5, BoundTypes DEF OtherPoppersKept, Multi!TypeOK
<1>8. Multi!IndexChain'
  BY <1>2, <1>3, <1>4 DEF MultiInv, Multi!IndexChain
<1>9. PopClaims'
  BY <1>3, <1>6 DEF MultiInv, MultiClaims, PushClaims, PopClaims
<1>10. PopPlace(c)'
  BY <1>3, <1>4, <1>5, <1>6 DEF PopPlace
<1> QED BY <1>3, <1>7, <1>8, <1>9, <1>10 DEF PopStepOK

(* The test for events: what was readable stays so until it is claimed.    *)
LEMMA PopTestOK ==
  ASSUME Multi!MultiQueueAssumption, MultiInv, NEW c \in Multi!Poppers, Multi!PopTest(c)
  PROVE  PopStepOK(c)
<1> USE DEF Multi!PopTest
<1>1. Multi!TypeOK /\ c \in Consumers
  BY EndThreads DEF MultiInv, Multi!IndexChain, Multi!TypeOK
<1>2. Multi!TypeOK'
  BY <1>1, PopKeepsTypes DEF Multi!Pop
<1>3. /\ kind' = kind /\ multi_array' = multi_array
      /\ multi_read_index' = multi_read_index /\ multi_write_index' = multi_write_index
      /\ max_read_index' = max_read_index /\ min_write_index' = min_write_index
      /\ pop_index' = pop_index /\ Multi!pushVars' = Multi!pushVars
  BY DEF Multi!indexes
<1>4. /\ Multi!Freed' = Multi!Freed /\ Multi!Readable' = Multi!Readable
      /\ Multi!Poppers' = Multi!Poppers
  BY <1>3 DEF Multi!Freed, Multi!Readable, Multi!Poppers
<1>5. /\ multi_pop_pc'[c] \in {"idle", "cas", "handle"}
      /\ multi_pop_pc'[c] = "cas" => kind.mc
      /\ multi_pop_pc'[c] = "handle" => ~kind.mc
      /\ multi_pop_pc'[c] # "idle" => ~(Multi!Readable <= pop_index[c])
  <2>1. multi_pop_pc'[c] = IF Multi!Readable <= pop_index[c] THEN "idle"
                           ELSE IF kind.mc THEN "cas" ELSE "handle"
    BY <1>1 DEF Multi!TypeOK
  <2> QED BY <2>1
<1>6. /\ pop_claim'[c] = pop_index[c]
      /\ \A d \in Consumers \ {c} : /\ multi_pop_pc'[d] = multi_pop_pc[d]
                                    /\ pop_claim'[d] = pop_claim[d]
  BY <1>1 DEF Multi!TypeOK
<1>7. c \notin Multi!Reading /\ (kind.mc => Multi!Reading' = Multi!Reading)
  <2>1. c \notin Multi!Reading
    BY <1>1 DEF Multi!Reading
  <2>2. ASSUME kind.mc PROVE c \notin Multi!Reading'
    BY <1>5, <2>2 DEF Multi!Reading
  <2>3. \A d \in Consumers \ {c} : d \in Multi!Reading' <=> d \in Multi!Reading
    BY <1>6 DEF Multi!Reading
  <2>4. Multi!Reading \subseteq Consumers /\ Multi!Reading' \subseteq Consumers
    BY DEF Multi!Reading
  <2> QED BY <2>1, <2>2, <2>3, <2>4
<1>8. OtherPoppersKept(c) /\ Multi!Freed <= Multi!Freed'
  BY <1>1, <1>3, <1>4, <1>6, BoundTypes DEF OtherPoppersKept, Multi!TypeOK
<1>9. Multi!IndexChain'
  BY <1>2, <1>3, <1>4 DEF MultiInv, Multi!IndexChain
<1>10. PopClaims'
  <2>1. ASSUME kind.mc, NEW d \in Multi!Reading PROVE pop_claim'[d] = pop_claim[d]
    BY <1>6, <1>7 DEF Multi!Reading
  <2> QED BY <1>3, <1>7, <2>1 DEF MultiInv, MultiClaims, PushClaims, PopClaims
<1>11. multi_pop_pc'[c] # "idle" => pop_index[c] < Multi!Readable
  BY <1>1, <1>5, BoundTypes DEF Multi!TypeOK
<1>12. ~kind.mc => pop_index[c] = multi_read_index
  BY <1>1 DEF MultiInv, PopInv, PopPlace
<1>13. multi_pop_pc'[c] # "idle" => PopPlace(c)'
  <2> SUFFICES ASSUME multi_pop_pc'[c] # "idle"
               PROVE  PopPlace(c)'
    OBVIOUS
  <2>1. CASE kind.mc
    BY <1>3, <1>4, <1>5, <1>6, <1>7, <1>11, <2>1 DEF PopPlace
  <2>2. CASE ~kind.mc
    BY <1>3, <1>4, <1>5, <1>6, <1>11, <1>12, <2>2 DEF PopPlace
  <2> QED BY <2>1, <2>2
<1> QED BY <1>3, <1>8, <1>9, <1>10, <1>13 DEF PopStepOK

(* A compare-and-swap that succeeds claims an event nobody holds.          *)
LEMMA PopCasOK ==
  ASSUME Multi!MultiQueueAssumption, MultiInv, NEW c \in Multi!Poppers, Multi!PopCas(c)
  PROVE  PopStepOK(c)
<1>1. Multi!TypeOK /\ c \in Consumers
  BY EndThreads DEF MultiInv, Multi!IndexChain, Multi!TypeOK
<1>2. Multi!TypeOK'
  BY <1>1, PopKeepsTypes DEF Multi!Pop
<1>3. /\ kind' = kind /\ multi_array' = multi_array
      /\ multi_write_index' = multi_write_index
      /\ max_read_index' = max_read_index /\ min_write_index' = min_write_index
      /\ pop_index' = pop_index /\ pop_claim' = pop_claim
      /\ Multi!pushVars' = Multi!pushVars /\ multi_pop_pc[c] = "cas"
  BY DEF Multi!PopCas
<1>4. PopPlace(c)
  BY <1>1, <1>3 DEF MultiInv, PopInv
<1>5. kind.mc /\ pop_claim[c] = pop_index[c] /\ pop_index[c] < Multi!Readable
  BY <1>3, <1>4 DEF PopPlace
<1>6. /\ Multi!Freed' = Multi!Freed /\ Multi!Readable' = Multi!Readable
      /\ Multi!Poppers' = Multi!Poppers
  BY <1>3, <1>5 DEF Multi!Freed, Multi!Readable, Multi!Poppers
<1>7. c \notin Multi!Reading /\ Multi!Freed <= Multi!Freed'
  BY <1>1, <1>3, <1>6, BoundTypes DEF Multi!Reading
<1>8. CASE multi_read_index = pop_index[c]
  <2>1. /\ multi_read_index' = multi_read_index + 1
        /\ multi_pop_pc' = [multi_pop_pc EXCEPT ![c] = "handle"]
    BY <1>8 DEF Multi!PopCas
  <2>2. /\ multi_pop_pc'[c] = "handle"
        /\ \A d \in Consumers \ {c} : multi_pop_pc'[d] = multi_pop_pc[d]
    BY <1>1, <2>1 DEF Multi!TypeOK
  <2>3. Multi!Reading' = Multi!Reading \cup {c}
    BY <1>1, <2>2 DEF Multi!Reading
  <2>4. OtherPoppersKept(c)
    BY <1>1, <1>3, <1>6, <2>1, <2>2 DEF OtherPoppersKept, Multi!TypeOK
  <2>5. Multi!IndexChain'
    BY <1>1, <1>2, <1>3, <1>5, <1>6, <1>8, <2>1, BoundTypes, SMTT(60)
       DEF MultiInv, Multi!IndexChain, Multi!TypeOK
  <2>6. Cardinality(Multi!Reading') = Cardinality(Multi!Reading) + 1
    BY <1>7, <2>3, CallsFinite, FS_AddElement
  <2>7. \A d \in Multi!Reading : pop_claim[d] \in Nat /\ pop_claim[d] < multi_read_index
    BY <1>1, <1>5 DEF MultiInv, PopInv, PopPlace, Multi!Reading, Multi!TypeOK
  <2>8. pop_claim[c] = multi_read_index /\ multi_read_index \in Nat
    BY <1>1, <1>5, <1>8 DEF Multi!TypeOK
  <2>9. \A d, e \in Multi!Reading' : d # e => pop_claim'[d] # pop_claim'[e]
    <3>1. \A d, e \in Multi!Reading : d # e => pop_claim[d] # pop_claim[e]
      BY <1>5 DEF MultiInv, MultiClaims, PushClaims, PopClaims
    <3>2. \A d \in Multi!Reading : pop_claim[d] # pop_claim[c]
      BY <2>7, <2>8
    <3> QED BY <1>3, <2>3, <3>1, <3>2
  <2>10. multi_read_index' - min_write_index' = Cardinality(Multi!Reading')
    <3>1. multi_read_index - min_write_index = Cardinality(Multi!Reading)
      BY <1>5 DEF MultiInv, MultiClaims, PushClaims, PopClaims
    <3> QED BY <1>1, <1>3, <2>1, <2>6, <3>1, CallsFinite DEF Multi!TypeOK
  <2>11. PopClaims'
    BY <2>9, <2>10 DEF PopClaims
  <2>12. c \in Multi!Poppers' /\ kind'.mc /\ pop_claim'[c] < multi_read_index'
    BY <1>3, <1>5, <1>6, <2>1, <2>8
  <2>13. PopPlace(c)'
    BY <2>2, <2>12 DEF PopPlace
  <2> QED BY <1>3, <1>7, <2>4, <2>5, <2>11, <2>13 DEF PopStepOK
<1>9. CASE multi_read_index # pop_index[c]
  <2>1. /\ multi_read_index' = multi_read_index
        /\ multi_pop_pc' = [multi_pop_pc EXCEPT ![c] = "idle"]
    BY <1>9 DEF Multi!PopCas
  <2>2. /\ multi_pop_pc'[c] = "idle"
        /\ \A d \in Consumers \ {c} : multi_pop_pc'[d] = multi_pop_pc[d]
    BY <1>1, <2>1 DEF Multi!TypeOK
  <2>3. Multi!Reading' = Multi!Reading
    BY <1>1, <1>7, <2>2 DEF Multi!Reading
  <2>4. OtherPoppersKept(c)
    BY <1>1, <1>3, <1>6, <2>1, <2>2 DEF OtherPoppersKept, Multi!TypeOK
  <2>5. Multi!IndexChain'
    BY <1>2, <1>3, <1>6, <2>1 DEF MultiInv, Multi!IndexChain
  <2>6. PopClaims'
    BY <1>3, <2>1, <2>3 DEF MultiInv, MultiClaims, PushClaims, PopClaims
  <2> QED BY <1>3, <1>7, <2>2, <2>4, <2>5, <2>6 DEF PopStepOK
<1> QED BY <1>8, <1>9

(* The handler's return moves no index.                                    *)
LEMMA PopHandledOK ==
  ASSUME Multi!MultiQueueAssumption, MultiInv, NEW c \in Multi!Poppers,
         Multi!PopHandled(c)
  PROVE  PopStepOK(c)
<1> USE DEF Multi!PopHandled
<1>1. Multi!TypeOK /\ c \in Consumers
  BY EndThreads DEF MultiInv, Multi!IndexChain, Multi!TypeOK
<1>2. Multi!TypeOK'
  BY <1>1, PopKeepsTypes DEF Multi!Pop
<1>3. /\ kind' = kind /\ multi_array' = multi_array
      /\ multi_read_index' = multi_read_index /\ multi_write_index' = multi_write_index
      /\ max_read_index' = max_read_index /\ min_write_index' = min_write_index
      /\ pop_index' = pop_index /\ pop_claim' = pop_claim
      /\ Multi!pushVars' = Multi!pushVars
  BY DEF Multi!indexes
<1>4. /\ Multi!Freed' = Multi!Freed /\ Multi!Readable' = Multi!Readable
      /\ Multi!Poppers' = Multi!Poppers
  BY <1>3 DEF Multi!Freed, Multi!Readable, Multi!Poppers
<1>5. /\ multi_pop_pc'[c] = "publish"
      /\ \A d \in Consumers \ {c} : multi_pop_pc'[d] = multi_pop_pc[d]
  BY <1>1 DEF Multi!TypeOK
<1>6. Multi!Reading' = Multi!Reading /\ c \in Multi!Reading
  BY <1>1, <1>5 DEF Multi!Reading
<1>7. OtherPoppersKept(c) /\ Multi!Freed <= Multi!Freed'
  BY <1>1, <1>3, <1>4, <1>5, BoundTypes DEF OtherPoppersKept, Multi!TypeOK
<1>8. Multi!IndexChain'
  BY <1>2, <1>3, <1>4 DEF MultiInv, Multi!IndexChain
<1>9. PopClaims'
  BY <1>3, <1>6 DEF MultiInv, MultiClaims, PushClaims, PopClaims
<1>10. PopPlace(c)
  BY <1>1 DEF MultiInv, PopInv
<1>11. PopPlace(c)'
  BY <1>3, <1>4, <1>5, <1>6, <1>10 DEF PopPlace
<1> QED BY <1>3, <1>7, <1>8, <1>9, <1>11 DEF PopStepOK

(* A publication gives up one claim and frees one slot, whichever call's   *)
(* place it takes.                                                         *)
LEMMA PopPublishOK ==
  ASSUME Multi!MultiQueueAssumption, MultiInv, NEW c \in Multi!Poppers,
         Multi!PopPublish(c)
  PROVE  PopStepOK(c)
<1>1. Multi!TypeOK /\ c \in Consumers
  BY EndThreads DEF MultiInv, Multi!IndexChain, Multi!TypeOK
<1>2. Multi!TypeOK'
  BY <1>1, PopKeepsTypes DEF Multi!Pop
<1>3. /\ kind' = kind /\ multi_array' = multi_array
      /\ multi_read_index' = multi_read_index
      /\ multi_write_index' = multi_write_index /\ max_read_index' = max_read_index
      /\ pop_claim' = pop_claim /\ Multi!pushVars' = Multi!pushVars
      /\ multi_pop_pc[c] = "publish" /\ kind.mc
  BY DEF Multi!PopPublish
<1>4. Multi!Readable' = Multi!Readable /\ Multi!Poppers' = Multi!Poppers
  BY <1>3 DEF Multi!Readable, Multi!Poppers
<1>5. c \in Multi!Reading /\ PopPlace(c)
  BY <1>1, <1>3 DEF Multi!Reading, MultiInv, PopInv
<1>6. CASE min_write_index = pop_index[c]
  <2>1. /\ min_write_index' = min_write_index + 1 /\ pop_index' = pop_index
        /\ multi_pop_pc' = [multi_pop_pc EXCEPT ![c] = "idle"]
    BY <1>6 DEF Multi!PopPublish
  <2>2. /\ multi_pop_pc'[c] = "idle"
        /\ \A d \in Consumers \ {c} : multi_pop_pc'[d] = multi_pop_pc[d]
    BY <1>1, <2>1 DEF Multi!TypeOK
  <2>3. Multi!Reading' = Multi!Reading \ {c}
    BY <1>1, <2>2 DEF Multi!Reading
  <2>4. OtherPoppersKept(c)
    BY <1>1, <1>3, <1>4, <2>1, <2>2 DEF OtherPoppersKept, Multi!TypeOK
  <2>5. multi_read_index - min_write_index = Cardinality(Multi!Reading)
    BY <1>3 DEF MultiInv, MultiClaims, PushClaims, PopClaims
  <2>6. /\ Cardinality(Multi!Reading') = Cardinality(Multi!Reading) - 1
        /\ Cardinality(Multi!Reading') \in Nat
    BY <1>5, <2>3, CallsFinite, FS_RemoveElement, FS_CardinalityType
  <2>7. min_write_index' <= multi_read_index
    BY <1>1, <2>1, <2>5, <2>6, CallsFinite DEF Multi!TypeOK
  <2>8. Multi!Freed = min_write_index /\ Multi!Freed' = min_write_index'
    BY <1>3 DEF Multi!Freed
  <2>9. Multi!Freed <= Multi!Freed'
    BY <1>1, <2>1, <2>8 DEF Multi!TypeOK
  <2>10. multi_write_index <= Multi!Freed' + MultiCapacity
    <3>1. multi_write_index <= Multi!Freed + MultiCapacity
      BY DEF MultiInv, Multi!IndexChain
    <3> QED BY <1>1, <2>1, <2>8, <3>1, BoundTypes DEF Multi!TypeOK
  <2>11. Multi!IndexChain'
    BY <1>2, <1>3, <1>4, <2>7, <2>8, <2>10 DEF MultiInv, Multi!IndexChain
  <2>12. multi_read_index' - min_write_index' = Cardinality(Multi!Reading')
    BY <1>1, <1>3, <2>1, <2>5, <2>6, CallsFinite DEF Multi!TypeOK
  <2>13. PopClaims'
    BY <1>3, <2>3, <2>12 DEF MultiInv, MultiClaims, PushClaims, PopClaims
  <2> QED BY <1>3, <2>2, <2>4, <2>9, <2>11, <2>13 DEF PopStepOK
<1>7. CASE min_write_index # pop_index[c]
  <2>1. /\ min_write_index' = min_write_index /\ multi_pop_pc' = multi_pop_pc
        /\ pop_index' = [pop_index EXCEPT ![c] = min_write_index]
    BY <1>7 DEF Multi!PopPublish
  <2>2. Multi!Reading' = Multi!Reading /\ Multi!Freed' = Multi!Freed
    BY <1>3, <2>1 DEF Multi!Reading, Multi!Freed
  <2>3. \A d \in Consumers \ {c} : pop_index'[d] = pop_index[d]
    BY <1>1, <2>1 DEF Multi!TypeOK
  <2>4. OtherPoppersKept(c) /\ Multi!Freed <= Multi!Freed'
    BY <1>1, <1>3, <1>4, <2>1, <2>2, <2>3, BoundTypes
       DEF OtherPoppersKept, Multi!TypeOK
  <2>5. Multi!IndexChain'
    BY <1>2, <1>3, <1>4, <2>2 DEF MultiInv, Multi!IndexChain
  <2>6. PopClaims'
    BY <1>3, <2>1, <2>2 DEF MultiInv, MultiClaims, PushClaims, PopClaims
  <2>7. PopPlace(c)'
    BY <1>3, <1>4, <1>5, <2>1, <2>2 DEF PopPlace
  <2> QED BY <1>3, <2>4, <2>5, <2>6, <2>7 DEF PopStepOK
<1> QED BY <1>6, <1>7

(* The only consumer's store frees the slot of the event it has handled.   *)
LEMMA PopStoreOK ==
  ASSUME Multi!MultiQueueAssumption, MultiInv, NEW c \in Multi!Poppers, Multi!PopStore(c)
  PROVE  PopStepOK(c)
<1> USE DEF Multi!PopStore
<1>1. Multi!TypeOK /\ c \in Consumers
  BY EndThreads DEF MultiInv, Multi!IndexChain, Multi!TypeOK
<1>2. Multi!TypeOK'
  BY <1>1, PopKeepsTypes DEF Multi!Pop
<1>3. /\ kind' = kind /\ multi_array' = multi_array
      /\ multi_write_index' = multi_write_index
      /\ max_read_index' = max_read_index /\ min_write_index' = min_write_index
      /\ pop_index' = pop_index /\ pop_claim' = pop_claim
      /\ Multi!pushVars' = Multi!pushVars /\ multi_pop_pc[c] = "publish" /\ ~kind.mc
  OBVIOUS
<1>4. c \in Multi!Reading /\ PopPlace(c)
  BY <1>1, <1>3 DEF Multi!Reading, MultiInv, PopInv
<1>5. pop_index[c] = multi_read_index /\ multi_read_index < Multi!Readable
  BY <1>3, <1>4 DEF PopPlace
<1>6. multi_read_index' = multi_read_index + 1 /\ multi_read_index \in Nat
  BY <1>1, <1>5 DEF Multi!TypeOK
<1>7. /\ Multi!Readable' = Multi!Readable /\ Multi!Freed = multi_read_index
      /\ Multi!Freed' = multi_read_index'
  BY <1>3 DEF Multi!Freed, Multi!Readable
<1>8. /\ multi_pop_pc'[c] = "idle"
      /\ \A d \in Consumers \ {c} : multi_pop_pc'[d] = multi_pop_pc[d]
  BY <1>1 DEF Multi!TypeOK
<1>9. OtherPoppersKept(c) /\ Multi!Freed <= Multi!Freed'
  BY <1>3, <1>6, <1>7, <1>8 DEF OtherPoppersKept
<1>10. Multi!IndexChain'
  BY <1>1, <1>2, <1>3, <1>5, <1>6, <1>7, BoundTypes, SMTT(60)
     DEF MultiInv, Multi!IndexChain, Multi!TypeOK
<1>11. PopClaims'
  BY <1>3 DEF PopClaims
<1> QED BY <1>3, <1>8, <1>9, <1>10, <1>11 DEF PopStepOK

-----------------------------------------------------------------------------
(* Every step of push() and pop() preserves the invariant.                 *)
LEMMA NextMultiInv ==
  ASSUME Multi!MultiQueueAssumption, MultiInv, [Multi!Next]_Multi!vars
  PROVE  MultiInv'
<1>1. ASSUME NEW p \in Multi!Pushers, Multi!Push(p)
      PROVE  MultiInv'
  <2>1. PushStepOK(p)
    BY <1>1, PushLoadOK, PushTestOK, PushCasOK, PushWriteOK, PushPublishOK,
       PushStoreOK
       DEF Multi!Push
  <2> QED BY <1>1, <2>1, PushStepKeepsMultiInv
<1>2. ASSUME NEW c \in Multi!Poppers, Multi!Pop(c)
      PROVE  MultiInv'
  <2>1. PopStepOK(c)
    BY <1>2, PopLoadOK, PopTestOK, PopCasOK, PopHandledOK, PopPublishOK,
       PopStoreOK
       DEF Multi!Pop
  <2> QED BY <1>2, <2>1, PopStepKeepsMultiInv
<1>3. CASE UNCHANGED Multi!vars
  BY <1>3
     DEF Multi!vars, Multi!indexes, Multi!pushVars, Multi!popVars, MultiInv,
         Multi!IndexChain, Multi!TypeOK, MultiClaims, PushClaims, PopClaims,
         Multi!UnclaimedIntact, PushInv, PopInv, PushPlace, PopPlace,
         Multi!Writing, Multi!Reading, Multi!Freed, Multi!Readable,
         Multi!Pushers, Multi!Poppers, Multi!Offset
<1> QED BY <1>1, <1>2, <1>3 DEF Multi!Next

(* What the invariant says of the rings.                                   *)
LEMMA MultiSays == MultiInv => Multi!IndexesAgree /\ Multi!UnclaimedIntact
<1>1. MultiClaims => Multi!ClaimsAccounted
  BY SameFiniteSets DEF MultiClaims, PushClaims, PopClaims, Multi!ClaimsAccounted
<1> QED BY <1>1 DEF MultiInv, Multi!IndexesAgree

-----------------------------------------------------------------------------
(* MCQueues: the component that takes its steps keeps its invariant.       *)
QueuesInv == /\ part \in {"spsc", "multi", "log"}
             /\ part = "multi" => MultiInv
             /\ part = "log" => LogInv

LEMMA QueuesInvariance == AllSpec => []QueuesInv
<1> USE QueuesAssumption
<1>1. AllInit => QueuesInv
  BY InitLogInv, InitMultiInv DEF AllInit, QueuesInv
<1>2. QueuesInv /\ [AllNext]_allVars => QueuesInv'
  <2> SUFFICES ASSUME QueuesInv, [AllNext]_allVars
               PROVE  QueuesInv'
    OBVIOUS
  <2>1. part' = part
    <3>1. CASE AllNext
      BY <3>1 DEF AllNext
    <3>2. CASE UNCHANGED allVars
      BY <3>2 DEF allVars
    <3> QED BY <3>1, <3>2
  <2>2. ASSUME part = "multi"
        PROVE  MultiInv'
    <3>1. [Multi!Next]_Multi!vars
      BY <2>2 DEF AllNext, allVars, multiVars, Multi!vars, Multi!indexes,
                  Multi!pushVars, Multi!popVars
    <3> QED BY <2>2, <3>1, NextMultiInv DEF QueuesInv
  <2>3. ASSUME part = "log"
        PROVE  LogInv'
    <3>1. [Log!Next]_Log!vars
      BY <2>3 DEF AllNext, allVars, logVars, Log!vars, Log!config, Log!dfbuf,
                  Log!appender, Log!history
    <3> QED BY <2>3, <3>1, NextLogInv DEF QueuesInv
  <2> QED BY <2>1, <2>2, <2>3 DEF QueuesInv
<1> QED BY <1>1, <1>2, PTL DEF AllSpec

(* For every number of producers and consumers and every capacity: the     *)
(* indexes never pass or lap each other, and a published index lags its    *)
(* claimed index by the calls in progress, which hold different indexes.   *)
THEOREM IndexesStayInAgreement == AllSpec => []IndexesAgree
<1>1. QueuesInv => IndexesAgree
  BY MultiSays DEF QueuesInv, IndexesAgree
<1> QED BY <1>1, QueuesInvariance, PTL

(* With one producer, an event that no consumer has claimed is intact in   *)
(* its slot, whatever the consumers before it do.                          *)
THEOREM UnclaimedStayIntact == AllSpec => []UnclaimedIntact
<1>1. QueuesInv => UnclaimedIntact
  BY MultiSays DEF QueuesInv, UnclaimedIntact
<1> QED BY <1>1, QueuesInvariance, PTL

(* However many threads log, however often the appender fails and the      *)
(* worker stops in the middle of its buffer: the accepted bytes are, in    *)
(* their order, those written and those in the two halves, and no half     *)
(* overflows.                                                              *)
THEOREM BytesStayInOrder == AllSpec => []BytesInOrder
<1>1. QueuesInv => BytesInOrder
  BY DEF QueuesInv, LogInv, LogAccounted, BytesInOrder, Log!BytesInOrder
<1> QED BY <1>1, QueuesInvariance, PTL
=============================================================================
