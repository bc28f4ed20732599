---------------------------- MODULE SedaTimerList ----------------------------
(***************************************************************************)
(* The intrusive doubly linked list of timers (SedaTimerList in            *)
(* seda_timer_queue.h), as operators on the memory the lists live in: a    *)
(* record of the fields next_ and prev_ of every node and of the size_ of  *)
(* every list.  A list is named by its head_ node, whose next_ is its      *)
(* first node and whose prev_ is its last; the first node's prev_ and the  *)
(* last node's next_ are the node itself, and so are the fields of the     *)
(* head of an empty list.                                                  *)
(***************************************************************************)
EXTENDS Naturals, Sequences

SetNext(m, n, to) == [m EXCEPT !.next[n] = to]
SetPrev(m, n, to) == [m EXCEPT !.prev[n] = to]
SetSelf(m, n) == SetNext(SetPrev(m, n, n), n, n)
Grow(m, list) == [m EXCEPT !.size[list] = @ + 1]

(* if (--size_ == 0) { head_.init(); }                                     *)
Shrink(m, list) ==
  LET m1 == [m EXCEPT !.size[list] = @ - 1]
  IN  IF m1.size[list] = 0 THEN SetSelf(m1, list) ELSE m1

Alone(m, n) == m.next[n] = n

PushFront(m, list, t) ==
  LET m1 == IF Alone(m, list) THEN SetPrev(SetNext(m, t, t), list, t)
            ELSE SetPrev(SetNext(m, t, m.next[list]), m.next[list], t)
  IN  Grow(SetNext(SetPrev(m1, t, t), list, t), list)

PushBack(m, list, t) ==
  LET m1 == IF Alone(m, list) THEN SetNext(SetPrev(m, t, t), list, t)
            ELSE SetNext(SetPrev(m, t, m.prev[list]), m.prev[list], t)
  IN  Grow(SetPrev(SetNext(m1, t, t), list, t), list)

PopFront(m, list) ==
  IF Alone(m, list) THEN m
  ELSE LET first == m.next[m.next[list]]
       IN  Shrink(SetPrev(SetNext(m, list, first), first, first), list)

InsertAfter(m, list, pos, t) ==
  LET m1 == SetPrev(SetNext(m, t, m.next[pos]), t, pos)
      m2 == IF m1.next[pos] # pos THEN SetPrev(m1, m1.next[pos], t) ELSE m1
      m3 == SetNext(m2, pos, t)
  IN  Grow(IF m3.prev[list] = pos THEN SetNext(SetPrev(m3, list, t), t, t) ELSE m3,
           list)

(* remove(): the links around t are closed, before either end of the list  *)
(* is looked at.                                                           *)
CloseAround(m, t) ==
  LET m1 == SetNext(m, m.prev[t], m.next[t])
  IN  SetPrev(m1, m1.next[t], m1.prev[t])

DropFirst(m, list, t) ==
  IF m.next[list] # t THEN m
  ELSE SetPrev(SetNext(m, list, m.next[t]), m.next[t], m.next[t])

DropLast(m, list, t) ==
  IF m.prev[list] # t THEN m
  ELSE SetNext(SetPrev(m, list, m.prev[t]), m.prev[t], m.prev[t])

(* It ends with timer->init(), which makes t alone.                        *)
RemoveFrom(m, list, t) ==
  IF m.size[list] = 0 THEN m
  ELSE LET closed == DropLast(DropFirst(CloseAround(m, t), list, t), list, t)
       IN  SetSelf(Shrink(closed, list), t)

-----------------------------------------------------------------------------
(* Walking size_ nodes along next_ from the head, or along prev_.          *)
Forward(m, list) ==
  LET node[i \in 1 .. m.size[list]] ==
        IF i = 1 THEN m.next[list] ELSE m.next[node[i - 1]]
  IN  [i \in 1 .. m.size[list] |-> node[i]]

Backward(m, list) ==
  LET node[i \in 1 .. m.size[list]] ==
        IF i = 1 THEN m.prev[list] ELSE m.prev[node[i - 1]]
  IN  [i \in 1 .. m.size[list] |-> node[i]]

(* Both walks visit the same nodes, none twice, in opposite orders, and an *)
(* empty list has a head that is alone.                                    *)
WellLinked(m, list) ==
  LET n == m.size[list]
      f == Forward(m, list)
      b == Backward(m, list)
  IN  /\ \A i \in 1 .. n : b[i] = f[n + 1 - i]
      /\ \A i, j \in 1 .. n : f[i] = f[j] => i = j
      /\ n = 0 => m.next[list] = list /\ m.prev[list] = list
=============================================================================
