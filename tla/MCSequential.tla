---------------------------- MODULE MCSequential ----------------------------
(***************************************************************************)
(* What one thread runs: the exchange of HTTP messages, the message        *)
(* decoders, the conversions of numbers, the copying of memory, the timer  *)
(* queues of a stage and the buffers, each by itself: `part` says which of *)
(* them takes its steps in a behaviour; the others stay as they begin.     *)
(***************************************************************************)
EXTENDS MCHttpExchange

CONSTANTS Radix, Fields, Offsets, Lengths, FixedLength, MaxLength,
          MaxMessages, Bits, Zero, Sizes, PoolSize, FreeList, ActiveList,
          Intervals, LruInterval, MaxClock, ByteBuffers, SharedBuffers,
          Blocks, Bytes, BufferSizes, None, MaxCalls, MemorySizes

VARIABLE part  \* the component whose steps the behaviour takes

VARIABLES decoder, field, offset, order, lengths, todo, remain, deciding,
          message_buffer, message_length, delivered, closed
VARIABLES pc, job, str, base, value, next, returned, at, ret,
          first_num_flag, negative_flag, overflow
VARIABLES call, copied, cleared, memory_at, n, done
VARIABLES lru, links, end_clock_ms, interval_ms, is_active, last_clock_ms,
          clock, expire_pc, expire_clock, asked, due
VARIABLES buffer, block, shared, want, astray, calls

Zeros == [signed |-> TRUE, value |-> 0, size |-> 0]

(* Numbers around the powers of ten and of two, and short texts.           *)
Corners == {0, 12345, 90807} \cup { 2 ^ k : k \in {Bits - 1, Bits} }
             \cup { 10 ^ k : k \in 0 .. 5 }
BoundaryValues ==
  { v \in { corner + d : corner \in Corners, d \in -1 .. 1 } : v >= 0 }
Characters == {"0", "7", "-", "+", " ", "x"}
ShortTexts == UNION { [1 .. length -> Characters] : length \in 0 .. 4 }

(* Sizes of memory that meet every case of the two switches of memory.cpp  *)
(* after no and after one round of the loops, and some after two.          *)
SizesOfEveryCase == 0 .. 513 \cup {767, 768, 769, 775}

Decoder == INSTANCE Decoders
Convert == INSTANCE Conversions
      WITH Values <- BoundaryValues, Texts <- ShortTexts
Copy == INSTANCE Memory
      WITH Sizes <- MemorySizes, at <- memory_at
TimerQueue == INSTANCE SedaTimerQueue
Buf == INSTANCE Buffers
      WITH Sizes <- BufferSizes

decoderVars == <<decoder, field, offset, order, lengths, todo, remain,
                 deciding, message_buffer, message_length, delivered, closed>>
convertVars == <<pc, job, str, base, value, next, returned, at, ret,
                 first_num_flag, negative_flag, overflow>>
copyVars == <<call, copied, cleared, memory_at, n, done>>
timerQueueVars == <<lru, links, end_clock_ms, interval_ms, is_active,
                    last_clock_ms, clock, expire_pc, expire_clock, asked,
                    due>>
bufVars == <<buffer, block, shared, want, astray, calls>>
allVars == <<part, vars, decoderVars, convertVars, copyVars, timerQueueVars,
            bufVars>>

(* The other components stay in one of their initial states.              *)
Still == Init
DecoderStill == Decoder!Init /\ decoder = "fixed" /\ lengths = <<FixedLength>>
ConvertStill == Convert!Init /\ pc = "itoa" /\ job = Zeros
CopyStill == Copy!Init /\ call.size = 0 /\ call.op = "memcpy"
TimerQueueStill == TimerQueue!Init /\ lru
BufStill == Buf!Init

AllInit ==
  \/ /\ part = "http" /\ DecoderStill /\ ConvertStill /\ CopyStill
     /\ TimerQueueStill /\ BufStill /\ Init
  \/ /\ part = "decoder" /\ Still /\ ConvertStill /\ CopyStill
     /\ TimerQueueStill /\ BufStill /\ Decoder!Init
  \/ /\ part = "conversion" /\ Still /\ DecoderStill /\ CopyStill
     /\ TimerQueueStill /\ BufStill /\ Convert!Init
  \/ /\ part = "memory" /\ Still /\ DecoderStill /\ ConvertStill
     /\ TimerQueueStill /\ BufStill /\ Copy!Init
  \/ /\ part = "timers" /\ Still /\ DecoderStill /\ ConvertStill
     /\ CopyStill /\ BufStill /\ TimerQueue!Init
  \/ /\ part = "buffers" /\ Still /\ DecoderStill /\ ConvertStill
     /\ CopyStill /\ TimerQueueStill /\ Buf!Init

AllNext ==
  \/ /\ part = "http" /\ Next
     /\ UNCHANGED <<part, decoderVars, convertVars, copyVars, timerQueueVars, bufVars>>
  \/ /\ part = "decoder" /\ Decoder!Next
     /\ UNCHANGED <<part, vars, convertVars, copyVars, timerQueueVars, bufVars>>
  \/ /\ part = "conversion" /\ Convert!Next
     /\ UNCHANGED <<part, vars, decoderVars, copyVars, timerQueueVars, bufVars>>
  \/ /\ part = "memory" /\ Copy!Next
     /\ UNCHANGED <<part, vars, decoderVars, convertVars, timerQueueVars, bufVars>>
  \/ /\ part = "timers" /\ TimerQueue!Next
     /\ UNCHANGED <<part, vars, decoderVars, convertVars, copyVars, bufVars>>
  \/ /\ part = "buffers" /\ Buf!Next
     /\ UNCHANGED <<part, vars, decoderVars, convertVars, copyVars, timerQueueVars>>

AllSpec == AllInit /\ [][AllNext]_allVars

ASSUME SequentialAssumption ==
         /\ Decoder!DecoderAssumption /\ Convert!ConversionAssumption
         /\ Copy!MemoryAssumption /\ TimerQueue!TimerAssumption
         /\ Buf!BuffersAssumption

-----------------------------------------------------------------------------
(* The messages delivered are those sent, however the stream is cut, and   *)
(* one that has arrived is not held back.                                  *)
Delivered == part = "decoder" => Decoder!Framed /\ Decoder!Prompt

(* What is printed is the number, in the space it was given, and what is   *)
(* parsed is the number the text begins with.                              *)
Converted == part = "conversion" => Convert!Printed /\ Convert!Parsed

(* Copying and clearing change exactly the bytes they were asked to.       *)
Moved == part = "memory" => Copy!Moved

(* The lists of the timer queues are well linked and hold their timers.    *)
ListsIntact == part = "timers" => TimerQueue!ListsIntact

(* When an expire() of a timer queue ends, every timer whose time had come *)
(* has been handed to the handler.                                         *)
NoneLate == TimerQueue!NoneLate

(* Blocks live as long as they are held, and buffers hold what was written *)
(* to them.                                                                *)
BuffersHold == part = "buffers" => Buf!BuffersHold
=============================================================================
