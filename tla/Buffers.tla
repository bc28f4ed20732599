------------------------------ MODULE Buffers ------------------------------
(***************************************************************************)
(* The two buffers of byte_buffer.h under any sequence of calls: a         *)
(* ByteBuffer owns its block or has handed it on; SharedBuffers count how  *)
(* many of them hold a block, each with its own window on the data, while  *)
(* the block has one "use", behind which all of them write.                *)
(*                                                                         *)
(* The calls of a ByteBuffer are operators of ByteBuffer.tla.  What a call *)
(* should leave in a buffer is written down next to it, in "want".         *)
(*                                                                         *)
(* A program that assigns a SharedBuffer to itself, or that reads a        *)
(* ByteBuffer it has handed on, is not considered.                         *)
(***************************************************************************)
EXTENDS ByteBuffer, FiniteSets

CONSTANTS ByteBuffers, SharedBuffers,   \* the objects
          Blocks,                       \* the blocks new Buffer_ may return
          Bytes, Sizes,                 \* bytes written, sizes asked for
          None,
          MaxCalls                      \* bound on the calls

(* What a block and a SharedBuffer may be; None is neither.                *)
Cells == Bytes \cup {Unset, "NUL"}
BlockValues == [cells : Seq(Cells), use : Nat, count : Nat, owner : BOOLEAN]
Windows == [block : Blocks, begin : Nat, end : Nat]

BuffersAssumption ==
  /\ "NUL" \notin Bytes /\ Sizes \subseteq Nat \ {0} /\ MaxCalls \in Nat
  /\ None \notin BlockValues /\ None \notin Windows
  /\ ByteBuffers \cap SharedBuffers = {}
  /\ IsFiniteSet(SharedBuffers) /\ IsFiniteSet(Blocks)
  /\ Cardinality(Blocks) > Cardinality(SharedBuffers)

VARIABLES buffer,   \* the ByteBuffers
          block,    \* per block: cells, use_size_, refcount_, owner_, or None
          shared,   \* per SharedBuffer: its block and indices, or None
          want,     \* the data that should be in each buffer (history)
          astray,   \* buffers whose data a call has misplaced (history)
          calls

vars == <<buffer, block, shared, want, astray, calls>>

Init == /\ buffer = [b \in ByteBuffers |-> NewBuffer(0)]
        /\ block = [k \in Blocks |-> None]
        /\ shared = [s \in SharedBuffers |-> None]
        /\ want = [x \in ByteBuffers \cup SharedBuffers |-> << >>]
        /\ astray = {} /\ calls = 0

Call == calls < MaxCalls /\ calls' = calls + 1

-----------------------------------------------------------------------------
(* ByteBuffer                                                              *)
Becomes(b, value, data) == /\ buffer' = [buffer EXCEPT ![b] = value]
                           /\ want' = [want EXCEPT ![b] = data]
                           /\ UNCHANGED <<block, shared, astray>>

WriteByte(b, c) ==
  Becomes(b, Write(buffer[b], <<c>>),
          IF buffer[b].owner THEN Append(want[b], c) ELSE want[b])

ReadBytes(b, n) ==
  /\ buffer[b].owner
  /\ Becomes(b, AfterRead(buffer[b], n),
             IF n <= Len(want[b]) THEN SubSeq(want[b], n + 1, Len(want[b])) ELSE want[b])

(* The program puts a byte behind the data and says so with advance().     *)
Receive(b, c) ==
  /\ buffer[b].owner
  /\ Becomes(b, Advance([buffer[b] EXCEPT !.cells = Overwrite(@, buffer[b].end, <<c>>)], 1),
             IF FreeSize(buffer[b]) > 0 THEN Append(want[b], c) ELSE want[b])

(* reserve() keeps the data only if it has nothing to do.                  *)
ReserveBytes(b, n) ==
  Becomes(b, Reserve(buffer[b], n),
          IF buffer[b].owner /\ n <= BufferSize(buffer[b]) THEN want[b] ELSE << >>)

Truncate(b, n) ==   \* data_end(n), within the data
  /\ buffer[b].owner /\ n \in buffer[b].begin .. buffer[b].end
  /\ Becomes(b, SetEnd(buffer[b], n), SubSeq(want[b], 1, n - buffer[b].begin))

Skip(b, n) ==       \* data_begin(n)
  /\ buffer[b].owner /\ n >= buffer[b].begin
  /\ Becomes(b, SetBegin(buffer[b], n),
             SubSeq(want[b], n - buffer[b].begin + 1, Len(want[b])))

(* The copy constructor and operator=: the block changes hands.            *)
Assign(b, c) ==
  /\ b # c
  /\ buffer' = [buffer EXCEPT ![b] = Taken(buffer[c]), ![c] = Given(@)]
  /\ want' = [want EXCEPT ![b] = IF buffer[c].owner THEN want[c] ELSE << >>]
  /\ UNCHANGED <<block, shared, astray>>

ByteBufferCall(b) ==
  /\ Call
  /\ \/ \E c \in Bytes : \/ WriteByte(b, c)
                         \/ Receive(b, c)
                         \/ \E owner \in BOOLEAN :
                              Becomes(b, SetData(buffer[b], <<c>>, owner), <<c>>)
     \/ \E n \in Sizes : ReadBytes(b, n) \/ ReserveBytes(b, n) \/ Truncate(b, n) \/ Skip(b, n)
     \/ Becomes(b, CStr(buffer[b]), want[b])
     \/ Becomes(b, ResetBuffer(buffer[b]), << >>)
     \/ Becomes(b, ClearBuffer(buffer[b]), << >>)
     \/ \E c \in ByteBuffers : Assign(b, c)

-----------------------------------------------------------------------------
(* SharedBuffer                                                            *)
Buffer_(cells, use, owner) ==
  [cells |-> cells, use |-> use, count |-> 1, owner |-> owner]
NewBlock == CHOOSE k \in Blocks : block[k] = None
Window(k, begin, end) == [block |-> k, begin |-> begin, end |-> end]

Holders(k) == { s \in SharedBuffers : shared[s] # None /\ shared[s].block = k }
Live == { s \in SharedBuffers : shared[s] # None }

(* increment_refcount(); release() of the last holder deletes the block.   *)
Held(blocks, k) == [blocks EXCEPT ![k].count = @ + 1]
Release(blocks, k) ==
  LET B == blocks[k]
  IN  [blocks EXCEPT ![k] = IF B.count = 1 THEN None
                            ELSE [B EXCEPT !.count = B.count - 1]]

Shares(s, blocks, window, data) ==
  /\ block' = blocks
  /\ shared' = [shared EXCEPT ![s] = window]
  /\ want' = [want EXCEPT ![s] = data]

Construct(s, B, n, data) ==
  /\ shared[s] = None
  /\ Shares(s, [block EXCEPT ![NewBlock] = B], Window(NewBlock, 0, n), data)
  /\ astray' = astray \ {s}
  /\ UNCHANGED buffer

(* The copy is astray if the original is.                                  *)
Follow(s, t) == astray' = IF t \in astray THEN astray \cup {s} ELSE astray \ {s}

Copy(s, t) ==
  /\ shared[s] = None
  /\ Shares(s, Held(block, shared[t].block), shared[t], want[t])
  /\ Follow(s, t) /\ UNCHANGED buffer

AssignUncounted(s, t) ==  \* mutant: the block is not counted again
  /\ s # t
  /\ Shares(s, Release(block, shared[s].block), shared[t], want[t])
  /\ Follow(s, t) /\ UNCHANGED buffer

AssignShared(s, t) ==
  /\ s # t
  /\ Shares(s, Held(Release(block, shared[s].block), shared[t].block),
            shared[t], want[t])
  /\ Follow(s, t) /\ UNCHANGED buffer

Destroy(s) ==
  /\ Shares(s, Release(block, shared[s].block), None, << >>)
  /\ UNCHANGED <<buffer, astray>>

(* data(bytes, size, owner): a block of its own, or the caller's memory,   *)
(* of which nothing counts as data.                                        *)
SetShared(s, c, owner) ==
  /\ Shares(s, [Release(block, shared[s].block) EXCEPT
                 ![NewBlock] = Buffer_(<<c>>, IF owner THEN 1 ELSE 0, owner)],
            Window(NewBlock, 0, IF owner THEN 1 ELSE 0), IF owner THEN <<c>> ELSE << >>)
  /\ astray' = astray \ {s} /\ UNCHANGED buffer

(* operator=(ByteBuffer &): its block and indices; use_size_ stays 0.      *)
TakeBytes(s, b) ==
  /\ buffer[b].owner
  /\ IF buffer[b].cells = << >>
     THEN Shares(s, [block EXCEPT ![shared[s].block].owner = TRUE],
                 Window(shared[s].block, 0, 0), << >>)
     ELSE Shares(s, [Release(block, shared[s].block) EXCEPT
                      ![NewBlock] = Buffer_(buffer[b].cells, 0, TRUE)],
                 Window(NewBlock, buffer[b].begin, buffer[b].end), want[b])
  /\ buffer' = [buffer EXCEPT ![b] = Given(@)]
  /\ astray' = astray \ {s}

-----------------------------------------------------------------------------
(* A write lands at use_size_: it is in the window if that is where the    *)
(* window ends, and it hits the data of holders whose window is longer.    *)
Hit(k, at) == { t \in Holders(k) : shared[t].end > at }
Misplaced(s) == LET k == shared[s].block
                    use == block[k].use
                IN  Hit(k, use) \cup (IF shared[s].end = use THEN {} ELSE {s})

(* Buffer_::write(), which grows its own memory only.                      *)
Fits(B) == Len(B.cells) > B.use
Written(B, c) ==
  LET n == IF Fits(B) THEN Len(B.cells) ELSE 2 * Len(B.cells) + 1
  IN  [B EXCEPT !.cells = Overwrite([i \in 1 .. n |-> IF i \in DOMAIN @ THEN @[i] ELSE Unset],
                                    B.use, <<c>>),
                !.use = @ + 1]

WriteShared(s, c) ==
  LET k == shared[s].block
  IN  /\ Fits(block[k]) \/ block[k].owner
      /\ Shares(s, [block EXCEPT ![k] = Written(@, c)],
                [shared[s] EXCEPT !.end = @ + 1], Append(want[s], c))
      /\ astray' = astray \cup Misplaced(s)
      /\ UNCHANGED buffer

(* c_str(): write('\0') and --data_end_index_, but not use_size_.          *)
CStrShared(s) ==
  LET k == shared[s].block
  IN  /\ shared[s].end > shared[s].begin
      /\ shared[s].end <= Len(block[k].cells)
      /\ block[k].cells[shared[s].end] # "NUL"
      /\ Fits(block[k]) \/ block[k].owner
      /\ block' = [block EXCEPT ![k] = Written(@, "NUL")]
      /\ astray' = astray \cup Hit(k, block[k].use)
      /\ UNCHANGED <<buffer, shared, want>>

(* A byte is received behind the data; advance() does not count it as used.*)
ReceiveShared(s, c) ==
  LET k == shared[s].block
  IN  /\ shared[s].end < Len(block[k].cells)
      /\ Shares(s, [block EXCEPT ![k].cells = Overwrite(@, shared[s].end, <<c>>)],
                [shared[s] EXCEPT !.end = @ + 1], Append(want[s], c))
      /\ astray' = astray \cup Hit(k, shared[s].end)
      /\ UNCHANGED buffer

ReadShared(s, n) ==
  /\ shared[s].end - shared[s].begin >= n
  /\ Shares(s, block, [shared[s] EXCEPT !.begin = @ + n],
            SubSeq(want[s], n + 1, Len(want[s])))
  /\ UNCHANGED <<buffer, astray>>

ReserveShared(s, n) ==
  LET k == shared[s].block
  IN  /\ block[k].owner /\ n > Len(block[k].cells)
      /\ block' = [block EXCEPT ![k].cells =
                     [i \in 1 .. n |-> IF i \in DOMAIN @ THEN @[i] ELSE Unset]]
      /\ UNCHANGED <<buffer, shared, want, astray>>

ResetShared(s) ==
  /\ Shares(s, block, [shared[s] EXCEPT !.begin = 0, !.end = 0], << >>)
  /\ astray' = astray \ {s} /\ UNCHANGED buffer

(* clear() frees the block of all holders.                                 *)
ClearShared(s) ==
  /\ Shares(s, [block EXCEPT ![shared[s].block] = [@ EXCEPT !.cells = << >>,
                                                           !.use = 0]],
            [shared[s] EXCEPT !.begin = 0, !.end = 0], << >>)
  /\ astray' = (astray \ {s}) \cup (Hit(shared[s].block, 0) \ {s})
  /\ UNCHANGED buffer

SharedBufferCall(s) ==
  /\ Call
  /\ \/ \E n \in Sizes : Construct(s, Buffer_([i \in 1 .. n |-> Unset], 0, TRUE), 0, << >>)
     \/ \E c \in Bytes : Construct(s, Buffer_(<<c>>, 1, TRUE), 1, <<c>>)
     \/ \E t \in Live : Copy(s, t)
     \/ /\ s \in Live
        /\ \/ \E t \in Live : AssignShared(s, t)
           \/ \E c \in Bytes : \/ WriteShared(s, c)
                               \/ ReceiveShared(s, c)
                               \/ \E owner \in BOOLEAN : SetShared(s, c, owner)
           \/ \E n \in Sizes : ReadShared(s, n) \/ ReserveShared(s, n)
           \/ \E b \in ByteBuffers : TakeBytes(s, b)
           \/ CStrShared(s) \/ ResetShared(s) \/ ClearShared(s) \/ Destroy(s)

Next == (\E b \in ByteBuffers : ByteBufferCall(b)) \/ (\E s \in SharedBuffers : SharedBufferCall(s))

Spec == Init /\ [][Next]_vars

-----------------------------------------------------------------------------
(* Every block is counted once for each SharedBuffer that holds it, so it  *)
(* is deleted with the last of them and not before; and through growing,   *)
(* reserving, c_str() and changes of hands, the data of a buffer is what   *)
(* was written to it: of a ByteBuffer always, of a SharedBuffer unless a   *)
(* write through it, or through another holder of the block, was           *)
(* misplaced.                                                              *)
BuffersHold ==
  /\ \A k \in Blocks : IF block[k] = None THEN Holders(k) = {}
                       ELSE block[k].count = Cardinality(Holders(k))
  /\ \A b \in ByteBuffers : buffer[b].owner => DataOf(buffer[b]) = want[b]
  /\ \A s \in Live \ astray :
       LET w == shared[s]
       IN  SubSeq(block[w.block].cells, w.begin + 1, w.end) = want[s]
=============================================================================
