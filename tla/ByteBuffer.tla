----------------------------- MODULE ByteBuffer -----------------------------
(***************************************************************************)
(* The operations of a ByteBuffer (byte_buffer.h) on its value: the cells  *)
(* of its block, the indices of its data, and whether it owns the block.   *)
(* Memory is never short.                                                  *)
(***************************************************************************)
EXTENDS Naturals, Sequences

Unset == "unset"   \* a cell that malloc() or realloc() has not initialised

Blank(n) == [i \in 1 .. n |-> Unset]

NewBuffer(size) ==
  [cells |-> Blank(size), begin |-> 0, end |-> 0, owner |-> TRUE]
BufferOf(bytes) ==
  [cells |-> bytes, begin |-> 0, end |-> Len(bytes), owner |-> TRUE]
NoData == [cells |-> << >>, begin |-> 0, end |-> 0, owner |-> FALSE]

BufferSize(b) == Len(b.cells)
DataSize(b) == b.end - b.begin
FreeSize(b) == BufferSize(b) - b.end
DataOf(b) == SubSeq(b.cells, b.begin + 1, b.end)
IsEmptyBuffer(b) == DataSize(b) = 0

ResetBuffer(b) == [b EXCEPT !.begin = 0, !.end = 0]
ClearBuffer(b) == NewBuffer(0)

(* data_begin(n) and data_end(n): the one index drags the other along.     *)
Least(m, n) == IF m < n THEN m ELSE n
SetBegin(b, n) == LET i == Least(n, BufferSize(b))
                  IN  [b EXCEPT !.begin = i, !.end = IF @ < i THEN i ELSE @]
SetEnd(b, n) == LET i == Least(n, BufferSize(b))
                IN  [b EXCEPT !.end = i, !.begin = Least(@, i)]
Advance(b, n) == IF b.end + n <= BufferSize(b) THEN [b EXCEPT !.end = @ + n] ELSE b

(* The cells from an index on are overwritten.                             *)
Overwrite(cells, at, bytes) ==
  [ i \in DOMAIN cells |-> IF i \in at + 1 .. at + Len(bytes) THEN bytes[i - at]
                           ELSE cells[i] ]

(* realloc() keeps the bytes, but reserve() forgets which of them are data.*)
Grown(cells, n) == cells \o Blank(n - Len(cells))

Reserve(b, n) ==
  IF b.owner /\ n <= BufferSize(b) THEN b
  ELSE [ cells |-> IF b.owner THEN Grown(b.cells, n) ELSE Blank(n),
         begin |-> 0, end |-> 0, owner |-> TRUE ]

(* write() fails if the block is not owned, and doubles it if it is full.  *)
Write(b, bytes) ==
  IF ~b.owner THEN b
  ELSE LET n == IF FreeSize(b) >= Len(bytes) THEN BufferSize(b)
                ELSE 2 * BufferSize(b) + Len(bytes)
       IN  [b EXCEPT !.cells = Overwrite(Grown(b.cells, n), b.end, bytes),
                     !.end = @ + Len(bytes)]

(* read(): the bytes, if there are as many, and what is left.              *)
CanRead(b, n) == DataSize(b) >= n
AfterRead(b, n) == IF CanRead(b, n) THEN [b EXCEPT !.begin = @ + n] ELSE b

(* c_str() writes a NUL behind the data, unless there is one, and does not *)
(* count it.                                                               *)
CStr(b) == IF IsEmptyBuffer(b) \/ b.cells[b.end] = "NUL" \/ ~b.owner THEN b
           ELSE [Write(b, <<"NUL">>) EXCEPT !.end = @ - 1]

(* Copying, moving and assigning: the block changes hands, and the buffer  *)
(* that is copied still points to it.                                      *)
Taken(b) == IF b.owner THEN b ELSE NoData
Given(b) == [b EXCEPT !.owner = FALSE]

(* data(bytes, size, owner)                                                *)
SetData(b, bytes, owner) ==
  IF bytes = << >> THEN b
  ELSE [cells |-> bytes, begin |-> 0, end |-> Len(bytes), owner |-> owner]
=============================================================================
