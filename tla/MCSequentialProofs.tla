------------------------- MODULE MCSequentialProofs -------------------------
(***************************************************************************)
(* What one thread runs, for every value of the constants.                 *)
(*                                                                         *)
(* SedaTimerQueue: for every size of the pool and every sequence of calls, *)
(* the two lists are well linked and hold the timers they should, and no   *)
(* expire() leaves behind a timer whose time has come.                     *)
(*                                                                         *)
(* Buffers: for all buffers, bytes, sizes and sequences of calls, a block  *)
(* is counted once for each SharedBuffer that holds it, and the data of a  *)
(* buffer are the bytes written to it, unless it is astray.                *)
(*                                                                         *)
(* Memory: copying and clearing any number of bytes store exactly those.   *)
(***************************************************************************)
EXTENDS MCSequential, TLAPS, FiniteSetTheorems, SequenceTheorems,
        WellFoundedInduction

Timers == TimerQueue!Pool
TimerHeads == {FreeList, ActiveList}

-----------------------------------------------------------------------------
(* What the operations of SedaTimerList do to lists that are well linked.  *)
(* Linked(m, l, k, f) says that the list l of the memory m has the k       *)
(* timers f[1], ..., f[k], none twice, with next_ and prev_ as the module  *)
(* describes them.  There is one lemma for every operation: the list it    *)
(* works on has one timer more or less, at the place the operation is      *)
(* named for, and no other list is touched (Apart, and LinkedElsewhere).   *)
(* From Linked follows what the walks along the list find.                 *)
ListNodes == TimerHeads \cup Timers

Shaped(m) ==
  /\ TimerHeads \cap Timers = {}
  /\ m \in [next : [ListNodes -> ListNodes], prev : [ListNodes -> ListNodes],
            size : [TimerHeads -> Nat]]

On(k, f) == { f[i] : i \in 1 .. k }

Linked(m, l, k, f) ==
  /\ k \in Nat /\ m.size[l] = k
  /\ f \in [1 .. k -> Timers]
  /\ \A i, j \in 1 .. k : f[i] = f[j] => i = j
  /\ k = 0 => m.next[l] = l /\ m.prev[l] = l
  /\ k > 0 => m.next[l] = f[1] /\ m.prev[l] = f[k]
  /\ \A i \in 1 .. k :
       /\ m.next[f[i]] = IF i = k THEN f[i] ELSE f[i + 1]
       /\ m.prev[f[i]] = IF i = 1 THEN f[i] ELSE f[i - 1]

(* t behind the i-th timer of a list, and the list without the i-th one.   *)
Put(k, f, i, t) ==
  [j \in 1 .. k + 1 |-> IF j <= i THEN f[j] ELSE IF j = i + 1 THEN t ELSE f[j - 1]]
Without(k, f, i) == [j \in 1 .. k - 1 |-> IF j < i THEN f[j] ELSE f[j + 1]]

(* Nothing changes but the list l and the nodes of X.                      *)
Apart(m, m2, l, X) ==
  /\ \A x \in ListNodes : x # l /\ x \notin X =>
       m2.next[x] = m.next[x] /\ m2.prev[x] = m.prev[x]
  /\ \A x \in TimerHeads : x # l => m2.size[x] = m.size[x]

(* m2 is m with t put behind the i-th timer of the list, or with the i-th  *)
(* timer taken out of it (what becomes of that one's links is left open).  *)
Inserted(m, m2, l, k, f, i, t) ==
  /\ Shaped(m2)
  /\ \A x \in TimerHeads : m2.size[x] = IF x = l THEN k + 1 ELSE m.size[x]
  /\ \A x \in ListNodes :
       /\ m2.next[x] = IF x = (IF i = 0 THEN l ELSE f[i]) THEN t
                       ELSE IF x # t THEN m.next[x]
                       ELSE IF i = k THEN t ELSE f[i + 1]
       /\ m2.prev[x] = IF x = (IF i = k THEN l ELSE f[i + 1]) THEN t
                       ELSE IF x # t THEN m.prev[x]
                       ELSE IF i = 0 THEN t ELSE f[i]

Removed(m, m2, l, k, f, i) ==
  /\ Shaped(m2)
  /\ \A x \in TimerHeads : m2.size[x] = IF x = l THEN k - 1 ELSE m.size[x]
  /\ \A x \in ListNodes \ {f[i]} :
       /\ m2.next[x] = IF k = 1 /\ x = l THEN x
                       ELSE IF x # (IF i = 1 THEN l ELSE f[i - 1]) THEN m.next[x]
                       ELSE IF i = k THEN x ELSE f[i + 1]
       /\ m2.prev[x] = IF k = 1 /\ x = l THEN x
                       ELSE IF x # (IF i = k THEN l ELSE f[i + 1]) THEN m.prev[x]
                       ELSE IF i = 1 THEN x ELSE f[i - 1]

-----------------------------------------------------------------------------
(* The assignments.                                                        *)
LEMMA SetNextIs ==
  ASSUME NEW m, Shaped(m), NEW x \in ListNodes, NEW y \in ListNodes
  PROVE  /\ Shaped(TimerQueue!SetNext(m, x, y))
         /\ TimerQueue!SetNext(m, x, y).prev = m.prev
         /\ TimerQueue!SetNext(m, x, y).size = m.size
         /\ \A z \in ListNodes :
              TimerQueue!SetNext(m, x, y).next[z] = IF z = x THEN y ELSE m.next[z]
BY DEF Shaped, TimerQueue!SetNext

LEMMA SetPrevIs ==
  ASSUME NEW m, Shaped(m), NEW x \in ListNodes, NEW y \in ListNodes
  PROVE  /\ Shaped(TimerQueue!SetPrev(m, x, y))
         /\ TimerQueue!SetPrev(m, x, y).next = m.next
         /\ TimerQueue!SetPrev(m, x, y).size = m.size
         /\ \A z \in ListNodes :
              TimerQueue!SetPrev(m, x, y).prev[z] = IF z = x THEN y ELSE m.prev[z]
BY DEF Shaped, TimerQueue!SetPrev

LEMMA GrowIs ==
  ASSUME NEW m, Shaped(m), NEW l \in TimerHeads
  PROVE  /\ Shaped(TimerQueue!Grow(m, l))
         /\ TimerQueue!Grow(m, l).next = m.next /\ TimerQueue!Grow(m, l).prev = m.prev
         /\ \A z \in TimerHeads :
              TimerQueue!Grow(m, l).size[z] = IF z = l THEN m.size[l] + 1 ELSE m.size[z]
BY DEF Shaped, TimerQueue!Grow

LEMMA SetSelfIs ==
  ASSUME NEW m, Shaped(m), NEW x \in ListNodes
  PROVE  /\ Shaped(TimerQueue!SetSelf(m, x)) /\ TimerQueue!SetSelf(m, x).size = m.size
         /\ \A z \in ListNodes :
              /\ TimerQueue!SetSelf(m, x).next[z] = IF z = x THEN x ELSE m.next[z]
              /\ TimerQueue!SetSelf(m, x).prev[z] = IF z = x THEN x ELSE m.prev[z]
<1> DEFINE a == TimerQueue!SetPrev(m, x, x)
<1>1. /\ Shaped(a) /\ a.next = m.next /\ a.size = m.size
      /\ \A z \in ListNodes : a.prev[z] = IF z = x THEN x ELSE m.prev[z]
  BY SetPrevIs
<1> HIDE DEF a
<1>2. /\ Shaped(TimerQueue!SetNext(a, x, x))
      /\ TimerQueue!SetNext(a, x, x).prev = a.prev
      /\ TimerQueue!SetNext(a, x, x).size = a.size
      /\ \A z \in ListNodes :
           TimerQueue!SetNext(a, x, x).next[z] = IF z = x THEN x ELSE a.next[z]
  BY <1>1, SetNextIs
<1> QED BY <1>1, <1>2 DEF TimerQueue!SetSelf, a

LEMMA ShrinkIs ==
  ASSUME NEW m, Shaped(m), NEW l \in TimerHeads, m.size[l] > 0
  PROVE  /\ Shaped(TimerQueue!Shrink(m, l))
         /\ \A z \in TimerHeads :
              TimerQueue!Shrink(m, l).size[z] = IF z = l THEN m.size[l] - 1 ELSE m.size[z]
         /\ \A z \in ListNodes :
              /\ TimerQueue!Shrink(m, l).next[z] = IF z = l /\ m.size[l] = 1 THEN l ELSE m.next[z]
              /\ TimerQueue!Shrink(m, l).prev[z] = IF z = l /\ m.size[l] = 1 THEN l ELSE m.prev[z]
<1> DEFINE a == [m EXCEPT !.size[l] = @ - 1]
<1>1. /\ Shaped(a) /\ a.next = m.next /\ a.prev = m.prev
      /\ \A z \in TimerHeads : a.size[z] = IF z = l THEN m.size[l] - 1 ELSE m.size[z]
  BY DEF Shaped
<1>2. TimerQueue!Shrink(m, l) = IF a.size[l] = 0 THEN TimerQueue!SetSelf(a, l) ELSE a
  BY DEF TimerQueue!Shrink
<1> HIDE DEF a
<1>3. l \in ListNodes /\ m.size[l] \in Nat
  BY DEF ListNodes, Shaped
<1>4. /\ Shaped(TimerQueue!SetSelf(a, l)) /\ TimerQueue!SetSelf(a, l).size = a.size
      /\ \A z \in ListNodes :
              /\ TimerQueue!SetSelf(a, l).next[z] = IF z = l THEN l ELSE a.next[z]
              /\ TimerQueue!SetSelf(a, l).prev[z] = IF z = l THEN l ELSE a.prev[z]
  BY <1>1, <1>3, SetSelfIs
<1> QED BY <1>1, <1>2, <1>3, <1>4

-----------------------------------------------------------------------------
(* A list that is linked as before, because no other was touched.          *)
LEMMA LinkedElsewhere ==
  ASSUME NEW m, NEW m2, Shaped(m), NEW l \in TimerHeads, NEW x \in TimerHeads, x # l,
         NEW X \in SUBSET Timers, Apart(m, m2, l, X),
         NEW k, NEW f, Linked(m, x, k, f), On(k, f) \cap X = {}
  PROVE  Linked(m2, x, k, f)
<1>1. /\ x \in ListNodes /\ x \notin X /\ x # l
      /\ \A i \in 1 .. k : f[i] \in ListNodes /\ f[i] \notin X /\ f[i] # l
  BY DEF ListNodes, Shaped, Linked, On
<1>2. /\ m2.next[x] = m.next[x] /\ m2.prev[x] = m.prev[x] /\ m2.size[x] = m.size[x]
      /\ \A i \in 1 .. k : m2.next[f[i]] = m.next[f[i]] /\ m2.prev[f[i]] = m.prev[f[i]]
  BY <1>1 DEF Apart
<1>3. \A i \in 1 .. k : /\ m2.next[f[i]] = IF i = k THEN f[i] ELSE f[i + 1]
                        /\ m2.prev[f[i]] = IF i = 1 THEN f[i] ELSE f[i - 1]
  <2>1. \A i \in 1 .. k : /\ m.next[f[i]] = IF i = k THEN f[i] ELSE f[i + 1]
                          /\ m.prev[f[i]] = IF i = 1 THEN f[i] ELSE f[i - 1]
    BY Zenon DEF Linked
  <2> TAKE i \in 1 .. k
  <2>2. /\ m2.next[f[i]] = m.next[f[i]] /\ m2.prev[f[i]] = m.prev[f[i]]
        /\ m.next[f[i]] = IF i = k THEN f[i] ELSE f[i + 1]
        /\ m.prev[f[i]] = IF i = 1 THEN f[i] ELSE f[i - 1]
    BY <1>2, <2>1, Zenon
  <2> QED BY <2>2, Zenon
<1>4. /\ k = 0 => m2.next[x] = x /\ m2.prev[x] = x
      /\ k > 0 => m2.next[x] = f[1] /\ m2.prev[x] = f[k]
  BY <1>2, Zenon DEF Linked
<1> QED BY <1>2, <1>3, <1>4, Zenon DEF Linked

(* An empty list, and only that, has a head that is alone.                 *)
LEMMA LinkedIs ==
  ASSUME NEW m, Shaped(m), NEW l \in TimerHeads, NEW k, NEW f, Linked(m, l, k, f)
  PROVE  /\ k \in Nat /\ m.size[l] = k /\ l \in ListNodes /\ l \notin Timers
         /\ \A i \in 1 .. k : f[i] \in Timers /\ f[i] \in ListNodes /\ f[i] # l
         /\ TimerQueue!Alone(m, l) <=> k = 0
         /\ k = 0 => m.next[l] = l /\ m.prev[l] = l
         /\ k > 0 => /\ m.next[l] = f[1] /\ m.prev[l] = f[k]
                     /\ 1 \in 1 .. k /\ k \in 1 .. k
<1>1. /\ k \in Nat /\ m.size[l] = k /\ l \in ListNodes /\ l \notin Timers
      /\ \A i \in 1 .. k : f[i] \in Timers /\ f[i] \in ListNodes /\ f[i] # l
  BY DEF Linked, Shaped, ListNodes
<1>2. k = 0 => m.next[l] = l /\ m.prev[l] = l
  BY DEF Linked
<1>3. k > 0 => m.next[l] = f[1] /\ m.prev[l] = f[k] /\ 1 \in 1 .. k /\ k \in 1 .. k
  BY <1>1 DEF Linked
<1> QED BY <1>1, <1>2, <1>3 DEF TimerQueue!Alone

LEMMA PushFrontIs ==
  ASSUME NEW m, Shaped(m), NEW l \in TimerHeads, NEW t \in Timers,
         NEW k, NEW f, Linked(m, l, k, f), t \notin On(k, f)
  PROVE  Inserted(m, TimerQueue!PushFront(m, l, t), l, k, f, 0, t)
<1> DEFINE first == IF k = 0 THEN t ELSE f[1]
           old == IF k = 0 THEN l ELSE f[1]
           a == TimerQueue!SetNext(m, t, first)
           b == TimerQueue!SetPrev(a, old, t)
           c == TimerQueue!SetPrev(b, t, t)
           d == TimerQueue!SetNext(c, l, t)
<1>0. /\ t \in ListNodes /\ t # l /\ l \in ListNodes /\ k \in Nat /\ m.size[l] = k
      /\ k # 0 => f[1] \in ListNodes /\ f[1] # l /\ f[1] # t /\ m.next[l] = f[1]
      /\ TimerQueue!Alone(m, l) <=> k = 0
  BY LinkedIs DEF ListNodes, On
<1>1. TimerQueue!PushFront(m, l, t) = TimerQueue!Grow(d, l) /\ first \in ListNodes /\ old \in ListNodes
  BY <1>0 DEF TimerQueue!PushFront
<1> HIDE DEF first, old
<1>2. /\ Shaped(a) /\ a.prev = m.prev /\ a.size = m.size
      /\ \A x \in ListNodes : a.next[x] = IF x = t THEN first ELSE m.next[x]
  BY <1>0, <1>1, SetNextIs
<1> HIDE DEF a
<1>3. /\ Shaped(b) /\ b.next = a.next /\ b.size = a.size
      /\ \A x \in ListNodes : b.prev[x] = IF x = old THEN t ELSE a.prev[x]
  <2>1. Shaped(a) /\ old \in ListNodes /\ t \in ListNodes
    BY <1>0, <1>1, <1>2
  <2> QED BY <2>1, SetPrevIs
<1> HIDE DEF b
<1>4. /\ Shaped(c) /\ c.next = b.next /\ c.size = b.size
      /\ \A x \in ListNodes : c.prev[x] = IF x = t THEN t ELSE b.prev[x]
  BY <1>0, <1>3, SetPrevIs
<1> HIDE DEF c
<1>5. /\ Shaped(d) /\ d.prev = c.prev /\ d.size = c.size
      /\ \A x \in ListNodes : d.next[x] = IF x = l THEN t ELSE c.next[x]
  <2>1. Shaped(c) /\ l \in ListNodes /\ t \in ListNodes
    BY <1>0, <1>4
  <2> QED BY <2>1, SetNextIs
<1> HIDE DEF d
<1>6. /\ Shaped(TimerQueue!Grow(d, l)) /\ TimerQueue!Grow(d, l).next = d.next
      /\ TimerQueue!Grow(d, l).prev = d.prev
      /\ \A x \in TimerHeads :
           TimerQueue!Grow(d, l).size[x] = IF x = l THEN d.size[l] + 1 ELSE d.size[x]
  BY <1>5, GrowIs
<1> QED BY <1>0, <1>1, <1>2, <1>3, <1>4, <1>5, <1>6 DEF first, old, Inserted

LEMMA PushBackIs ==
  ASSUME NEW m, Shaped(m), NEW l \in TimerHeads, NEW t \in Timers,
         NEW k, NEW f, Linked(m, l, k, f), t \notin On(k, f)
  PROVE  Inserted(m, TimerQueue!PushBack(m, l, t), l, k, f, k, t)
<1> DEFINE last == IF k = 0 THEN t ELSE f[k]
           old == IF k = 0 THEN l ELSE f[k]
           a == TimerQueue!SetPrev(m, t, last)
           b == TimerQueue!SetNext(a, old, t)
           c == TimerQueue!SetNext(b, t, t)
           d == TimerQueue!SetPrev(c, l, t)
<1>0. /\ t \in ListNodes /\ t # l /\ l \in ListNodes /\ k \in Nat /\ m.size[l] = k
      /\ k # 0 => f[k] \in ListNodes /\ f[k] # l /\ f[k] # t /\ m.prev[l] = f[k]
      /\ TimerQueue!Alone(m, l) <=> k = 0
  BY LinkedIs DEF ListNodes, On
<1>1. TimerQueue!PushBack(m, l, t) = TimerQueue!Grow(d, l) /\ last \in ListNodes /\ old \in ListNodes
  BY <1>0 DEF TimerQueue!PushBack
<1> HIDE DEF last, old
<1>2. /\ Shaped(a) /\ a.next = m.next /\ a.size = m.size
      /\ \A x \in ListNodes : a.prev[x] = IF x = t THEN last ELSE m.prev[x]
  BY <1>0, <1>1, SetPrevIs
<1> HIDE DEF a
<1>3. /\ Shaped(b) /\ b.prev = a.prev /\ b.size = a.size
      /\ \A x \in ListNodes : b.next[x] = IF x = old THEN t ELSE a.next[x]
  <2>1. Shaped(a) /\ old \in ListNodes /\ t \in ListNodes
    BY <1>0, <1>1, <1>2
  <2> QED BY <2>1, SetNextIs
<1> HIDE DEF b
<1>4. /\ Shaped(c) /\ c.prev = b.prev /\ c.size = b.size
      /\ \A x \in ListNodes : c.next[x] = IF x = t THEN t ELSE b.next[x]
  BY <1>0, <1>3, SetNextIs
<1> HIDE DEF c
<1>5. /\ Shaped(d) /\ d.next = c.next /\ d.size = c.size
      /\ \A x \in ListNodes : d.prev[x] = IF x = l THEN t ELSE c.prev[x]
  <2>1. Shaped(c) /\ l \in ListNodes /\ t \in ListNodes
    BY <1>0, <1>4
  <2> QED BY <2>1, SetPrevIs
<1> HIDE DEF d
<1>6. /\ Shaped(TimerQueue!Grow(d, l)) /\ TimerQueue!Grow(d, l).prev = d.prev
      /\ TimerQueue!Grow(d, l).next = d.next
      /\ \A x \in TimerHeads :
           TimerQueue!Grow(d, l).size[x] = IF x = l THEN d.size[l] + 1 ELSE d.size[x]
  BY <1>5, GrowIs
<1> QED BY <1>0, <1>1, <1>2, <1>3, <1>4, <1>5, <1>6 DEF last, old, Inserted

LEMMA PopFrontIs ==
  ASSUME NEW m, Shaped(m), NEW l \in TimerHeads,
         NEW k, NEW f, Linked(m, l, k, f), k > 0
  PROVE  Removed(m, TimerQueue!PopFront(m, l), l, k, f, 1)
<1> DEFINE first == IF k = 1 THEN f[1] ELSE f[2]
           a == TimerQueue!SetNext(m, l, first)
           b == TimerQueue!SetPrev(a, first, first)
<1>0. /\ l \in ListNodes /\ first \in ListNodes /\ first # l
      /\ m.next[m.next[l]] = first
      /\ ~TimerQueue!Alone(m, l) /\ k \in Nat /\ m.size[l] = k
  <2>1. f[1] \in Timers /\ 1 \in 1 .. k /\ m.next[l] = f[1] /\ l \in ListNodes
        /\ k \in Nat /\ ~TimerQueue!Alone(m, l) /\ m.size[l] = k
    BY LinkedIs
  <2>2. m.next[f[1]] = first
    BY <2>1 DEF Linked
  <2>3. first \in ListNodes /\ first # l
    BY <2>1, LinkedIs
  <2> QED BY <2>1, <2>2, <2>3
<1>1. TimerQueue!PopFront(m, l) = TimerQueue!Shrink(b, l)
  BY <1>0 DEF TimerQueue!PopFront
<1> HIDE DEF first
<1>2. /\ Shaped(a) /\ a.prev = m.prev /\ a.size = m.size
      /\ \A x \in ListNodes : a.next[x] = IF x = l THEN first ELSE m.next[x]
  BY <1>0, SetNextIs
<1> HIDE DEF a
<1>3. /\ Shaped(b) /\ b.next = a.next /\ b.size = a.size
      /\ \A x \in ListNodes : b.prev[x] = IF x = first THEN first ELSE a.prev[x]
  <2>1. Shaped(a) /\ first \in ListNodes
    BY <1>0, <1>2
  <2> QED BY <2>1, SetPrevIs
<1> HIDE DEF b
<1>4. b.size[l] = k
  BY <1>0, <1>2, <1>3
<1>5. /\ Shaped(TimerQueue!Shrink(b, l))
      /\ \A z \in TimerHeads :
           TimerQueue!Shrink(b, l).size[z] = IF z = l THEN k - 1 ELSE b.size[z]
      /\ \A z \in ListNodes :
           /\ TimerQueue!Shrink(b, l).next[z] = IF z = l /\ k = 1 THEN l ELSE b.next[z]
           /\ TimerQueue!Shrink(b, l).prev[z] = IF z = l /\ k = 1 THEN l ELSE b.prev[z]
  BY <1>3, <1>4, ShrinkIs
<1> QED BY <1>0, <1>1, <1>2, <1>3, <1>5 DEF first, Removed

LEMMA InsertAfterIs ==
  ASSUME NEW m, Shaped(m), NEW l \in TimerHeads, NEW t \in Timers,
         NEW k, NEW f, Linked(m, l, k, f), t \notin On(k, f), NEW i \in 1 .. k
  PROVE  Inserted(m, TimerQueue!InsertAfter(m, l, f[i], t), l, k, f, i, t)
<1> DEFINE pos == f[i]
           after == m.next[pos]
           a == TimerQueue!SetNext(m, t, after)
           b == TimerQueue!SetPrev(a, t, pos)
           c == TimerQueue!SetPrev(b, after, t)
           c2 == IF i = k THEN b ELSE c
           d == TimerQueue!SetNext(c2, pos, t)
           e == TimerQueue!SetPrev(d, l, t)
           g == TimerQueue!SetNext(e, t, t)
           h == IF i = k THEN g ELSE d
<1>0. /\ t \in ListNodes /\ t # l /\ l \in ListNodes /\ k \in Nat /\ m.size[l] = k
      /\ pos \in ListNodes /\ pos # l /\ pos # t
      /\ after \in ListNodes /\ after # l /\ after # t
      /\ after = (IF i = k THEN pos ELSE f[i + 1])
      /\ m.prev[l] = f[k] /\ (f[k] = pos <=> i = k) /\ (after = pos <=> i = k)
  <2>1. /\ k \in Nat /\ k > 0 /\ m.prev[l] = f[k] /\ m.size[l] = k
        /\ t \in ListNodes /\ t # l /\ l \in ListNodes
        /\ \A j \in 1 .. k : f[j] \in ListNodes /\ f[j] # l /\ f[j] # t
    BY LinkedIs DEF ListNodes, On
  <2>2. /\ after = (IF i = k THEN pos ELSE f[i + 1])
        /\ f[k] = pos <=> i = k
        /\ i # k => i + 1 \in 1 .. k /\ f[i + 1] # f[i]
    BY <2>1 DEF Linked
  <2>3. pos \in ListNodes /\ after \in ListNodes /\ after # l /\ after # t
    BY <2>1, <2>2
  <2> QED BY <2>1, <2>2, <2>3
<1> HIDE DEF pos, after
<1>2. /\ Shaped(a) /\ a.prev = m.prev /\ a.size = m.size
      /\ \A x \in ListNodes : a.next[x] = IF x = t THEN after ELSE m.next[x]
  <2>1. t \in ListNodes /\ after \in ListNodes
    BY <1>0
  <2> QED BY <2>1, SetNextIs
<1> HIDE DEF a
<1>3. /\ Shaped(b) /\ b.next = a.next /\ b.size = a.size
      /\ \A x \in ListNodes : b.prev[x] = IF x = t THEN pos ELSE a.prev[x]
  <2>1. Shaped(a) /\ pos \in ListNodes /\ t \in ListNodes
    BY <1>0, <1>2
  <2> QED BY <2>1, SetPrevIs
<1> HIDE DEF b
<1>4. /\ Shaped(c) /\ c.next = b.next /\ c.size = b.size
      /\ \A x \in ListNodes : c.prev[x] = IF x = after THEN t ELSE b.prev[x]
  <2>1. Shaped(b) /\ after \in ListNodes /\ t \in ListNodes
    BY <1>0, <1>3
  <2> QED BY <2>1, SetPrevIs
<1> HIDE DEF c
<1>5. /\ Shaped(c2) /\ c2.next = a.next /\ c2.size = m.size
      /\ \A x \in ListNodes :
           c2.prev[x] = IF i # k /\ x = after THEN t ELSE IF x = t THEN pos ELSE m.prev[x]
  BY <1>2, <1>3, <1>4
<1> HIDE DEF c2
<1>6. /\ Shaped(d) /\ d.prev = c2.prev /\ d.size = c2.size
      /\ \A x \in ListNodes : d.next[x] = IF x = pos THEN t ELSE c2.next[x]
  <2>1. Shaped(c2) /\ pos \in ListNodes /\ t \in ListNodes
    BY <1>0, <1>5
  <2> QED BY <2>1, SetNextIs
<1> HIDE DEF d
<1>7. /\ Shaped(e) /\ e.next = d.next /\ e.size = d.size
      /\ \A x \in ListNodes : e.prev[x] = IF x = l THEN t ELSE d.prev[x]
  <2>1. Shaped(d) /\ l \in ListNodes /\ t \in ListNodes
    BY <1>0, <1>6
  <2> QED BY <2>1, SetPrevIs
<1> HIDE DEF e
<1>8. /\ Shaped(g) /\ g.prev = e.prev /\ g.size = e.size
      /\ \A x \in ListNodes : g.next[x] = IF x = t THEN t ELSE e.next[x]
  <2>1. Shaped(e) /\ t \in ListNodes
    BY <1>0, <1>7
  <2> QED BY <2>1, SetNextIs
<1> HIDE DEF g
<1>9. /\ Shaped(h) /\ h.size = m.size
      /\ \A x \in ListNodes :
           /\ h.next[x] = IF x = t THEN (IF i = k THEN t ELSE after)
                          ELSE IF x = pos THEN t ELSE m.next[x]
           /\ h.prev[x] = IF x = t THEN pos
                          ELSE IF x = (IF i = k THEN l ELSE after) THEN t ELSE m.prev[x]
  BY <1>0, <1>2, <1>5, <1>6, <1>7, <1>8
<1>10. TimerQueue!InsertAfter(m, l, f[i], t) = TimerQueue!Grow(h, l)
  <2>1. b.next[pos] = after /\ d.prev[l] = f[k]
    BY <1>0, <1>2, <1>3, <1>5, <1>6 DEF after
  <2>2. TimerQueue!InsertAfter(m, l, pos, t) = TimerQueue!Grow(h, l)
    BY <1>0, <2>1 DEF TimerQueue!InsertAfter, a, b, c, c2, d, e, g, h, after
  <2> QED BY <2>2 DEF pos
<1> HIDE DEF h
<1>11. /\ Shaped(TimerQueue!Grow(h, l)) /\ TimerQueue!Grow(h, l).next = h.next
       /\ TimerQueue!Grow(h, l).prev = h.prev
       /\ \A x \in TimerHeads :
            TimerQueue!Grow(h, l).size[x] = IF x = l THEN k + 1 ELSE m.size[x]
  BY <1>0, <1>9, GrowIs
<1> QED BY <1>0, <1>9, <1>10, <1>11 DEF pos, Inserted

LEMMA RemoveFromIs ==
  ASSUME NEW m, Shaped(m), NEW l \in TimerHeads,
         NEW k, NEW f, Linked(m, l, k, f), NEW i \in 1 .. k
  PROVE  /\ Removed(m, TimerQueue!RemoveFrom(m, l, f[i]), l, k, f, i)
         /\ TimerQueue!RemoveFrom(m, l, f[i]).next[f[i]] = f[i]
         /\ TimerQueue!RemoveFrom(m, l, f[i]).prev[f[i]] = f[i]
<1> DEFINE t == f[i]
           p == m.prev[t]
           q == m.next[t]
           a == TimerQueue!SetNext(m, p, q)
           b == TimerQueue!SetPrev(a, q, p)
           c == TimerQueue!SetNext(b, l, q)
           c2 == TimerQueue!SetPrev(c, q, q)
           c3 == IF i = 1 THEN c2 ELSE b
           d == TimerQueue!SetPrev(c3, l, p)
           d2 == TimerQueue!SetNext(d, p, p)
           d3 == IF i = k THEN d2 ELSE c3
           e == TimerQueue!Shrink(d3, l)
<1>0. /\ t \in ListNodes /\ t # l /\ l \in ListNodes /\ k \in Nat /\ m.size[l] = k /\ k > 0
      /\ p \in ListNodes /\ p # l /\ q \in ListNodes /\ q # l
      /\ p = (IF i = 1 THEN t ELSE f[i - 1]) /\ q = (IF i = k THEN t ELSE f[i + 1])
      /\ (p = t <=> i = 1) /\ (q = t <=> i = k)
      /\ (p = q => k = 1)
      /\ m.prev[l] = f[k] /\ (f[k] = t <=> i = k)
      /\ m.next[l] = f[1] /\ (f[1] = t <=> i = 1)
  <2>1. /\ k \in Nat /\ k > 0 /\ m.prev[l] = f[k] /\ m.next[l] = f[1] /\ m.size[l] = k
        /\ l \in ListNodes
        /\ \A j \in 1 .. k : f[j] \in ListNodes /\ f[j] # l
    BY LinkedIs
  <2>2. /\ p = (IF i = 1 THEN t ELSE f[i - 1]) /\ q = (IF i = k THEN t ELSE f[i + 1])
        /\ (f[k] = t <=> i = k) /\ (f[1] = t <=> i = 1)
        /\ i # k => i + 1 \in 1 .. k /\ f[i + 1] # t
        /\ i # 1 => i - 1 \in 1 .. k /\ f[i - 1] # t
        /\ i # k /\ i # 1 => f[i + 1] # f[i - 1]
    BY <2>1 DEF Linked
  <2> QED BY <2>1, <2>2
<1> HIDE DEF t, p, q
<1>1. /\ Shaped(a) /\ a.prev = m.prev /\ a.size = m.size
      /\ \A x \in ListNodes : a.next[x] = IF x = p THEN q ELSE m.next[x]
  <2>1. p \in ListNodes /\ q \in ListNodes
    BY <1>0
  <2> QED BY <2>1, SetNextIs
<1> HIDE DEF a
<1>2. /\ Shaped(b) /\ b.next = a.next /\ b.size = a.size
      /\ \A x \in ListNodes : b.prev[x] = IF x = q THEN p ELSE a.prev[x]
  <2>1. Shaped(a) /\ p \in ListNodes /\ q \in ListNodes
    BY <1>0, <1>1
  <2> QED BY <2>1, SetPrevIs
<1> HIDE DEF b
<1>3. /\ Shaped(c) /\ c.prev = b.prev /\ c.size = b.size
      /\ \A x \in ListNodes : c.next[x] = IF x = l THEN q ELSE b.next[x]
  <2>1. Shaped(b) /\ l \in ListNodes /\ q \in ListNodes
    BY <1>0, <1>2
  <2> QED BY <2>1, SetNextIs
<1> HIDE DEF c
<1>4. /\ Shaped(c2) /\ c2.next = c.next /\ c2.size = c.size
      /\ \A x \in ListNodes : c2.prev[x] = IF x = q THEN q ELSE c.prev[x]
  <2>1. Shaped(c) /\ q \in ListNodes
    BY <1>0, <1>3
  <2> QED BY <2>1, SetPrevIs
<1> HIDE DEF c2
<1>5. /\ Shaped(c3) /\ c3.size = m.size
      /\ \A x \in ListNodes :
           /\ c3.next[x] = IF i = 1 /\ x = l THEN q ELSE IF x = p THEN q ELSE m.next[x]
           /\ c3.prev[x] = IF x = q THEN (IF i = 1 THEN q ELSE p) ELSE m.prev[x]
  BY <1>1, <1>2, <1>3, <1>4
<1>6. b.next[l] = f[1] /\ (i = 1 => b.next[t] = q /\ c.next[t] = q)
  BY <1>0, <1>1, <1>2, <1>3
<1> HIDE DEF c3
<1>7. /\ Shaped(d) /\ d.next = c3.next /\ d.size = c3.size
      /\ \A x \in ListNodes : d.prev[x] = IF x = l THEN p ELSE c3.prev[x]
  <2>1. Shaped(c3) /\ p \in ListNodes /\ l \in ListNodes
    BY <1>0, <1>5
  <2> QED BY <2>1, SetPrevIs
<1> HIDE DEF d
<1>8. /\ Shaped(d2) /\ d2.prev = d.prev /\ d2.size = d.size
      /\ \A x \in ListNodes : d2.next[x] = IF x = p THEN p ELSE d.next[x]
  <2>1. Shaped(d) /\ p \in ListNodes
    BY <1>0, <1>7
  <2> QED BY <2>1, SetNextIs
<1> HIDE DEF d2
<1>9. /\ Shaped(d3) /\ d3.size = m.size
      /\ \A x \in ListNodes :
           /\ d3.next[x] = IF x = p THEN (IF i = k THEN p ELSE q)
                           ELSE IF i = 1 /\ x = l THEN q ELSE m.next[x]
           /\ d3.prev[x] = IF i = k /\ x = l THEN p
                           ELSE IF x = q THEN (IF i = 1 THEN q ELSE p) ELSE m.prev[x]
  BY <1>0, <1>5, <1>7, <1>8
<1>10. c3.prev[l] = f[k] /\ (i = k => c3.prev[t] = p /\ d.prev[t] = p)
  BY <1>0, <1>5, <1>7
<1> HIDE DEF d3
<1>11. /\ Shaped(e)
       /\ \A x \in TimerHeads : e.size[x] = IF x = l THEN k - 1 ELSE m.size[x]
       /\ \A x \in ListNodes :
            /\ e.next[x] = IF x = l /\ k = 1 THEN l ELSE d3.next[x]
            /\ e.prev[x] = IF x = l /\ k = 1 THEN l ELSE d3.prev[x]
  BY <1>0, <1>9, ShrinkIs
<1> HIDE DEF e
<1>12. /\ Shaped(TimerQueue!SetSelf(e, t)) /\ TimerQueue!SetSelf(e, t).size = e.size
       /\ \A x \in ListNodes :
            /\ TimerQueue!SetSelf(e, t).next[x] = IF x = t THEN t ELSE e.next[x]
            /\ TimerQueue!SetSelf(e, t).prev[x] = IF x = t THEN t ELSE e.prev[x]
  BY <1>0, <1>11, SetSelfIs
<1>13. TimerQueue!RemoveFrom(m, l, f[i]) = TimerQueue!SetSelf(e, t)
  <2>1. a.next[t] = q /\ a.prev[t] = p
    BY <1>0, <1>1 DEF p, q
  <2>2. a = TimerQueue!SetNext(m, m.prev[t], m.next[t])
       /\ b = TimerQueue!SetPrev(a, a.next[t], a.prev[t])
    BY <2>1 DEF a, b, p, q
  <2>3. c3 = IF b.next[l] # t THEN b
             ELSE TimerQueue!SetPrev(TimerQueue!SetNext(b, l, b.next[t]), b.next[t], b.next[t])
    BY <1>0, <1>6 DEF c, c2, c3
  <2>4. d3 = IF c3.prev[l] # t THEN c3
             ELSE TimerQueue!SetNext(TimerQueue!SetPrev(c3, l, c3.prev[t]), c3.prev[t], c3.prev[t])
    BY <1>0, <1>10 DEF d, d2, d3
  <2>5. TimerQueue!CloseAround(m, t) = b /\ TimerQueue!DropFirst(b, l, t) = c3
       /\ TimerQueue!DropLast(c3, l, t) = d3
    <3>1. TimerQueue!CloseAround(m, t) = b
      BY <2>2 DEF TimerQueue!CloseAround
    <3>2. TimerQueue!DropFirst(b, l, t) = c3
      BY <2>3 DEF TimerQueue!DropFirst
    <3>3. TimerQueue!DropLast(c3, l, t) = d3
      BY <2>4 DEF TimerQueue!DropLast
    <3> QED BY <3>1, <3>2, <3>3
  <2>6. TimerQueue!RemoveFrom(m, l, t) = TimerQueue!SetSelf(e, t)
    BY <1>0, <2>5 DEF TimerQueue!RemoveFrom, e
  <2> QED BY <2>6 DEF t
<1>14. \A x \in ListNodes :
         /\ TimerQueue!SetSelf(e, t).next[x] = IF x = t THEN x
                         ELSE IF k = 1 /\ x = l THEN x
                         ELSE IF x = (IF i = 1 THEN l ELSE p) THEN (IF i = k THEN x ELSE q)
                         ELSE m.next[x]
         /\ TimerQueue!SetSelf(e, t).prev[x] = IF x = t THEN x
                         ELSE IF k = 1 /\ x = l THEN x
                         ELSE IF x = (IF i = k THEN l ELSE q) THEN (IF i = 1 THEN x ELSE p)
                         ELSE m.prev[x]
  BY <1>0, <1>9, <1>11, <1>12
<1> QED BY <1>0, <1>11, <1>12, <1>13, <1>14 DEF t, Removed

-----------------------------------------------------------------------------
(* The lists that result.                                                  *)
LEMMA PutIs ==
  ASSUME NEW k \in Nat, NEW f \in [1 .. k -> Timers],
         \A i, j \in 1 .. k : f[i] = f[j] => i = j,
         NEW i \in 0 .. k, NEW t \in Timers, t \notin On(k, f)
  PROVE  /\ Put(k, f, i, t) \in [1 .. k + 1 -> Timers]
         /\ \A j1, j2 \in 1 .. k + 1 :
              Put(k, f, i, t)[j1] = Put(k, f, i, t)[j2] => j1 = j2
         /\ On(k + 1, Put(k, f, i, t)) = On(k, f) \cup {t}
<1> DEFINE g == Put(k, f, i, t)
<1>1. \A j \in 1 .. k + 1 :
        /\ j <= i => g[j] = f[j] /\ j \in 1 .. k
        /\ j = i + 1 => g[j] = t
        /\ j > i + 1 => g[j] = f[j - 1] /\ j - 1 \in 1 .. k
  BY DEF Put
<1>2. g \in [1 .. k + 1 -> Timers]
  BY DEF Put
<1> HIDE DEF g
<1>3. \A j1, j2 \in 1 .. k + 1 : g[j1] = g[j2] => j1 = j2
  <2> SUFFICES ASSUME NEW j1 \in 1 .. k + 1, NEW j2 \in 1 .. k + 1, g[j1] = g[j2]
               PROVE  j1 = j2
    OBVIOUS
  <2>1. \A j \in 1 .. k : f[j] # t
    BY DEF On
  <2>2. CASE j1 = i + 1 \/ j2 = i + 1
    BY <1>1, <2>1, <2>2
  <2>3. CASE j1 # i + 1 /\ j2 # i + 1
    BY <1>1, <2>3
  <2> QED BY <2>2, <2>3
<1>4. On(k + 1, g) \subseteq On(k, f) \cup {t}
  BY <1>1 DEF On
<1>5. t \in On(k + 1, g)
  <2>1. i + 1 \in 1 .. k + 1 /\ g[i + 1] = t
    BY <1>1
  <2> QED BY <2>1 DEF On
<1>6. ASSUME NEW j \in 1 .. k
      PROVE  f[j] \in On(k + 1, g)
  <2>1. CASE j <= i
    <3>1. j \in 1 .. k + 1 /\ g[j] = f[j]
      BY <1>1, <2>1
    <3> QED BY <3>1 DEF On
  <2>2. CASE j > i
    <3>1. j + 1 \in 1 .. k + 1 /\ g[j + 1] = f[j]
      BY <1>1, <2>2
    <3> QED BY <3>1 DEF On
  <2> QED BY <2>1, <2>2
<1>7. On(k, f) \subseteq On(k + 1, g)
  BY <1>6 DEF On
<1> QED BY <1>2, <1>3, <1>4, <1>5, <1>7 DEF g

LEMMA WithoutIs ==
  ASSUME NEW k \in Nat, NEW f \in [1 .. k -> Timers],
         \A i, j \in 1 .. k : f[i] = f[j] => i = j, NEW i \in 1 .. k
  PROVE  /\ Without(k, f, i) \in [1 .. k - 1 -> Timers]
         /\ \A j1, j2 \in 1 .. k - 1 :
              Without(k, f, i)[j1] = Without(k, f, i)[j2] => j1 = j2
         /\ On(k - 1, Without(k, f, i)) = On(k, f) \ {f[i]}
<1> DEFINE g == Without(k, f, i)
<1>1. \A j \in 1 .. k - 1 :
        /\ j < i => g[j] = f[j] /\ j \in 1 .. k /\ j # i
        /\ j >= i => g[j] = f[j + 1] /\ j + 1 \in 1 .. k /\ j + 1 # i
  BY DEF Without
<1>2. g \in [1 .. k - 1 -> Timers]
  BY DEF Without
<1> HIDE DEF g
<1>3. \A j1, j2 \in 1 .. k - 1 : g[j1] = g[j2] => j1 = j2
  BY <1>1
<1>4. On(k - 1, g) \subseteq On(k, f) \ {f[i]}
  BY <1>1 DEF On
<1>5. ASSUME NEW j \in 1 .. k, j # i
      PROVE  f[j] \in On(k - 1, g)
  <2>1. CASE j < i
    <3>1. j \in 1 .. k - 1 /\ g[j] = f[j]
      BY <1>1, <2>1
    <3> QED BY <3>1 DEF On
  <2>2. CASE j > i
    <3>1. j - 1 \in 1 .. k - 1 /\ g[j - 1] = f[j]
      BY <1>1, <2>2
    <3> QED BY <3>1 DEF On
  <2> QED BY <1>5, <2>1, <2>2
<1>6. On(k, f) \ {f[i]} \subseteq On(k - 1, g)
  BY <1>5 DEF On
<1> QED BY <1>2, <1>3, <1>4, <1>6 DEF g

LEMMA InsertedLinked ==
  ASSUME NEW m, NEW m2, Shaped(m), NEW l \in TimerHeads, NEW k, NEW f, Linked(m, l, k, f),
         NEW i \in 0 .. k, NEW t \in Timers, t \notin On(k, f),
         Inserted(m, m2, l, k, f, i, t)
  PROVE  /\ Shaped(m2) /\ Linked(m2, l, k + 1, Put(k, f, i, t))
         /\ On(k + 1, Put(k, f, i, t)) = On(k, f) \cup {t}
         /\ Apart(m, m2, l, On(k, f) \cup {t})
<1> DEFINE g == Put(k, f, i, t)
<1>1. /\ k \in Nat /\ f \in [1 .. k -> Timers]
      /\ \A j1, j2 \in 1 .. k : f[j1] = f[j2] => j1 = j2
  BY DEF Linked
<1>2. /\ l \in ListNodes /\ l \notin Timers /\ t \in ListNodes /\ t # l
      /\ \A j \in 1 .. k : f[j] \in ListNodes /\ f[j] # t /\ f[j] # l
  BY <1>1 DEF Shaped, ListNodes, On
<1>3. /\ g \in [1 .. k + 1 -> Timers]
      /\ \A j1, j2 \in 1 .. k + 1 : g[j1] = g[j2] => j1 = j2
      /\ On(k + 1, g) = On(k, f) \cup {t}
  BY <1>1, PutIs
<1>4. \A j \in 1 .. k + 1 :
        /\ j <= i => g[j] = f[j] /\ j \in 1 .. k
        /\ j = i + 1 => g[j] = t
        /\ j > i + 1 => g[j] = f[j - 1] /\ j - 1 \in 1 .. k
  BY <1>1 DEF Put
<1> HIDE DEF g
<1>5. \A x \in ListNodes :
       /\ m2.next[x] = IF x = (IF i = 0 THEN l ELSE f[i]) THEN t
                       ELSE IF x # t THEN m.next[x]
                       ELSE IF i = k THEN t ELSE f[i + 1]
       /\ m2.prev[x] = IF x = (IF i = k THEN l ELSE f[i + 1]) THEN t
                       ELSE IF x # t THEN m.prev[x]
                       ELSE IF i = 0 THEN t ELSE f[i]
  BY DEF Inserted
<1>6. m2.size[l] = k + 1 /\ k + 1 \in Nat /\ Shaped(m2)
  BY <1>1 DEF Inserted
<1>7. /\ k > 0 => m.next[l] = f[1] /\ m.prev[l] = f[k]
      /\ \A j \in 1 .. k : /\ m.next[f[j]] = IF j = k THEN f[j] ELSE f[j + 1]
                           /\ m.prev[f[j]] = IF j = 1 THEN f[j] ELSE f[j - 1]
  BY DEF Linked
<1>8. m2.next[l] = g[1]
  <2>1. CASE i = 0
    BY <1>1, <1>2, <1>4, <1>5, <2>1
  <2>2. CASE i > 0
    BY <1>1, <1>2, <1>4, <1>5, <1>7, <2>2
  <2> QED BY <2>1, <2>2
<1>9. m2.prev[l] = g[k + 1]
  <2>1. CASE i = k
    BY <1>1, <1>2, <1>4, <1>5, <2>1
  <2>2. CASE i < k
    BY <1>1, <1>2, <1>4, <1>5, <1>7, <2>2
  <2> QED BY <1>1, <2>1, <2>2
<1>10. ASSUME NEW j \in 1 .. k + 1
       PROVE  /\ m2.next[g[j]] = IF j = k + 1 THEN g[j] ELSE g[j + 1]
              /\ m2.prev[g[j]] = IF j = 1 THEN g[j] ELSE g[j - 1]
  <2>1. CASE j = i + 1
    <3>1. m2.next[t] = IF i = k THEN t ELSE f[i + 1]
      BY <1>1, <1>2, <1>5
    <3>2. m2.prev[t] = IF i = 0 THEN t ELSE f[i]
      BY <1>1, <1>2, <1>5
    <3>3. g[j] = t /\ (i # k => g[j + 1] = f[i + 1]) /\ (i # 0 => g[j - 1] = f[i])
      BY <1>1, <1>4, <2>1
    <3> QED BY <1>1, <3>1, <3>2, <3>3, <2>1
  <2>2. CASE j < i + 1
    <3>1. g[j] = f[j] /\ j \in 1 .. k /\ g[j + 1] = (IF j = i THEN t ELSE f[j + 1])
          /\ (j # 1 => g[j - 1] = f[j - 1])
      BY <1>1, <1>4, <2>2
    <3>2. m2.next[f[j]] = IF j = i THEN t ELSE m.next[f[j]]
      BY <1>1, <1>2, <1>5, <2>2, <3>1
    <3>3. m2.prev[f[j]] = m.prev[f[j]]
      BY <1>1, <1>2, <1>5, <2>2, <3>1
    <3> QED BY <1>1, <1>7, <3>1, <3>2, <3>3, <2>2
  <2>3. CASE j > i + 1
    <3>1. g[j] = f[j - 1] /\ j - 1 \in 1 .. k /\ g[j - 1] = (IF j - 1 = i + 1 THEN t ELSE f[j - 2])
          /\ (j # k + 1 => g[j + 1] = f[j])
      BY <1>1, <1>4, <2>3
    <3>2. m2.prev[f[j - 1]] = IF j - 1 = i + 1 THEN t ELSE m.prev[f[j - 1]]
      BY <1>1, <1>2, <1>5, <2>3, <3>1
    <3>3. m2.next[f[j - 1]] = m.next[f[j - 1]]
      BY <1>1, <1>2, <1>5, <2>3, <3>1
    <3> QED BY <1>1, <1>7, <3>1, <3>2, <3>3, <2>3
  <2> QED BY <1>1, <2>1, <2>2, <2>3
<1>11. Linked(m2, l, k + 1, g)
  BY <1>3, <1>6, <1>8, <1>9, <1>10 DEF Linked
<1>12. Apart(m, m2, l, On(k, f) \cup {t})
  <2>1. ASSUME NEW x \in ListNodes, x # l, x \notin On(k, f) \cup {t}
        PROVE  m2.next[x] = m.next[x] /\ m2.prev[x] = m.prev[x]
    <3>1. (i # 0 => x # f[i]) /\ (i # k => x # f[i + 1])
      BY <1>1, <2>1 DEF On
    <3> QED BY <1>5, <2>1, <3>1
  <2>2. \A x \in TimerHeads : x # l => m2.size[x] = m.size[x]
    BY DEF Inserted
  <2> QED BY <2>1, <2>2 DEF Apart
<1> QED BY <1>3, <1>6, <1>11, <1>12 DEF g

LEMMA RemovedLinked ==
  ASSUME NEW m, NEW m2, Shaped(m), NEW l \in TimerHeads, NEW k, NEW f, Linked(m, l, k, f),
         NEW i \in 1 .. k, Removed(m, m2, l, k, f, i)
  PROVE  /\ Shaped(m2) /\ Linked(m2, l, k - 1, Without(k, f, i))
         /\ On(k - 1, Without(k, f, i)) = On(k, f) \ {f[i]}
         /\ Apart(m, m2, l, On(k, f))
<1> DEFINE g == Without(k, f, i)
<1>1. /\ k \in Nat /\ f \in [1 .. k -> Timers]
      /\ \A j1, j2 \in 1 .. k : f[j1] = f[j2] => j1 = j2
  BY DEF Linked
<1>2. /\ l \in ListNodes /\ l \notin Timers
      /\ \A j \in 1 .. k : f[j] \in ListNodes /\ f[j] # l
  BY <1>1 DEF Shaped, ListNodes
<1>3. /\ g \in [1 .. k - 1 -> Timers]
      /\ \A j1, j2 \in 1 .. k - 1 : g[j1] = g[j2] => j1 = j2
      /\ On(k - 1, g) = On(k, f) \ {f[i]}
  BY <1>1, WithoutIs
<1>4. \A j \in 1 .. k - 1 :
        /\ j < i => g[j] = f[j] /\ j \in 1 .. k
        /\ j >= i => g[j] = f[j + 1] /\ j + 1 \in 1 .. k
  BY <1>1 DEF Without
<1> HIDE DEF g
<1>5. \A x \in ListNodes \ {f[i]} :
       /\ m2.next[x] = IF k = 1 /\ x = l THEN x
                       ELSE IF x # (IF i = 1 THEN l ELSE f[i - 1]) THEN m.next[x]
                       ELSE IF i = k THEN x ELSE f[i + 1]
       /\ m2.prev[x] = IF k = 1 /\ x = l THEN x
                       ELSE IF x # (IF i = k THEN l ELSE f[i + 1]) THEN m.prev[x]
                       ELSE IF i = 1 THEN x ELSE f[i - 1]
  BY DEF Removed
<1>6. m2.size[l] = k - 1 /\ k - 1 \in Nat /\ Shaped(m2)
  BY <1>1 DEF Removed
<1>7. /\ m.next[l] = f[1] /\ m.prev[l] = f[k]
      /\ \A j \in 1 .. k : /\ m.next[f[j]] = IF j = k THEN f[j] ELSE f[j + 1]
                           /\ m.prev[f[j]] = IF j = 1 THEN f[j] ELSE f[j - 1]
  BY <1>1 DEF Linked
<1>8. k = 1 => m2.next[l] = l /\ m2.prev[l] = l
  BY <1>2, <1>5
<1>9. k > 1 => m2.next[l] = g[1]
  <2>1. CASE i = 1
    BY <1>1, <1>2, <1>4, <1>5, <2>1
  <2>2. CASE i > 1
    BY <1>1, <1>2, <1>4, <1>5, <1>7, <2>2
  <2> QED BY <2>1, <2>2
<1>10. k > 1 => m2.prev[l] = g[k - 1]
  <2>1. CASE i = k
    BY <1>1, <1>2, <1>4, <1>5, <2>1
  <2>2. CASE i < k
    BY <1>1, <1>2, <1>4, <1>5, <1>7, <2>2
  <2> QED BY <1>1, <2>1, <2>2
<1>11. ASSUME NEW j \in 1 .. k - 1
       PROVE  /\ m2.next[g[j]] = IF j = k - 1 THEN g[j] ELSE g[j + 1]
              /\ m2.prev[g[j]] = IF j = 1 THEN g[j] ELSE g[j - 1]
  <2>1. CASE j < i
    <3>1. g[j] = f[j] /\ j \in 1 .. k /\ f[j] # f[i]
          /\ (j # 1 => g[j - 1] = f[j - 1])
          /\ (j # k - 1 => g[j + 1] = (IF j = i - 1 THEN f[i + 1] ELSE f[j + 1]))
      BY <1>1, <1>4, <2>1
    <3>2. m2.next[f[j]] = IF j = i - 1 THEN (IF i = k THEN f[j] ELSE f[i + 1])
                          ELSE m.next[f[j]]
      BY <1>1, <1>2, <1>5, <2>1, <3>1
    <3>3. m2.prev[f[j]] = m.prev[f[j]]
      BY <1>1, <1>2, <1>5, <2>1, <3>1
    <3> QED BY <1>1, <1>7, <3>1, <3>2, <3>3, <2>1
  <2>2. CASE j >= i
    <3>1. g[j] = f[j + 1] /\ j + 1 \in 1 .. k /\ f[j + 1] # f[i]
          /\ (j # 1 => g[j - 1] = (IF j = i THEN f[i - 1] ELSE f[j]))
          /\ (j # k - 1 => g[j + 1] = f[j + 2])
      BY <1>1, <1>4, <2>2
    <3>2. m2.prev[f[j + 1]] = IF j = i THEN (IF i = 1 THEN f[j + 1] ELSE f[i - 1])
                              ELSE m.prev[f[j + 1]]
      BY <1>1, <1>2, <1>5, <2>2, <3>1
    <3>3. m2.next[f[j + 1]] = m.next[f[j + 1]]
      BY <1>1, <1>2, <1>5, <2>2, <3>1
    <3> QED BY <1>1, <1>7, <3>1, <3>2, <3>3, <2>2
  <2> QED BY <1>1, <2>1, <2>2
<1>12. Linked(m2, l, k - 1, g)
  BY <1>3, <1>6, <1>8, <1>9, <1>10, <1>11 DEF Linked
<1>13. Apart(m, m2, l, On(k, f))
  <2>1. ASSUME NEW x \in ListNodes, x # l, x \notin On(k, f)
        PROVE  m2.next[x] = m.next[x] /\ m2.prev[x] = m.prev[x]
    <3>1. (i # 1 => x # f[i - 1]) /\ (i # k => x # f[i + 1]) /\ x # f[i]
      BY <1>1, <2>1 DEF On
    <3> QED BY <1>5, <2>1, <3>1
  <2>2. \A x \in TimerHeads : x # l => m2.size[x] = m.size[x]
    BY DEF Removed
  <2> QED BY <2>1, <2>2 DEF Apart
<1> QED BY <1>3, <1>6, <1>12, <1>13 DEF g

-----------------------------------------------------------------------------
(* The walks.  There is one sequence that begins with a given node and     *)
(* goes on along a given link.                                            *)
LEMMA LeastIs ==
  ASSUME NEW S, S \subseteq Nat, S # {}
  PROVE  \E i \in S : \A j \in S : i <= j
<1> DEFINE Less == OpToRel(<, Nat)
<1>1. IsWellFoundedOn(Less, Nat)
  BY NatLessThanWellFounded
<1>2. \A i, j \in Nat : i < j => <<i, j>> \in Less
  BY DEF OpToRel
<1> HIDE DEF Less
<1>3. PICK i \in S : \A j \in S : ~(<<j, i>> \in Less)
  BY <1>1, WFMin
<1>4. \A j \in S : i <= j
  <2> TAKE j \in S
  <2>1. ~(j < i)
    BY <1>2, <1>3
  <2> QED BY <2>1
<1> QED BY <1>4

Walk(k, link, start, f) ==
  f = [i \in 1 .. k |-> IF i = 1 THEN start ELSE link[f[i - 1]]]

LEMMA OneWalk ==
  ASSUME NEW k \in Nat, NEW link, NEW start, NEW f, NEW g,
         Walk(k, link, start, f), Walk(k, link, start, g)
  PROVE  f = g
<1> DEFINE S == { i \in 1 .. k : f[i] # g[i] }
<1>1. \A i \in 1 .. k : /\ f[i] = IF i = 1 THEN start ELSE link[f[i - 1]]
                        /\ g[i] = IF i = 1 THEN start ELSE link[g[i - 1]]
  BY DEF Walk
<1>2. f = [i \in 1 .. k |-> f[i]] /\ g = [i \in 1 .. k |-> g[i]]
  BY Zenon DEF Walk
<1>3. S = {}
  <2> SUFFICES ASSUME S # {}
               PROVE  FALSE
    OBVIOUS
  <2>1. PICK i \in S : \A j \in S : i <= j
    <3>1. S \subseteq Nat
      OBVIOUS
    <3> HIDE DEF S
    <3> QED BY <3>1, LeastIs
  <2>2. CASE i = 1
    BY <1>1, <2>2
  <2>3. CASE i # 1
    <3>1. i \in 1 .. k /\ i - 1 \in 1 .. k /\ ~(i <= i - 1)
      BY <2>3
    <3>2. i - 1 \notin S
      <4> HIDE DEF S
      <4> QED BY <2>1, <3>1
    <3> QED BY <1>1, <2>3, <3>1, <3>2
  <2> QED BY <2>2, <2>3
<1>4. \A i \in 1 .. k : f[i] = g[i]
  BY <1>3
<1> HIDE DEF S
<1>5. [i \in 1 .. k |-> f[i]] = [i \in 1 .. k |-> g[i]]
  BY <1>4
<1> QED BY <1>2, <1>5, Zenon

LEMMA ForwardIs ==
  ASSUME NEW m, NEW l, NEW k, NEW f, Linked(m, l, k, f)
  PROVE  TimerQueue!Forward(m, l) = f
<1> DEFINE node == CHOOSE g : Walk(m.size[l], m.next, m.next[l], g)
<1>1. k \in Nat /\ m.size[l] = k /\ f \in [1 .. k -> Timers]
  BY DEF Linked
<1>2. \A i \in 1 .. k : f[i] = IF i = 1 THEN m.next[l] ELSE m.next[f[i - 1]]
  <2>1. \A i \in 1 .. k : i # 1 => i - 1 \in 1 .. k /\ i - 1 # k
    BY <1>1
  <2> QED BY <1>1, <2>1 DEF Linked
<1>3. Walk(k, m.next, m.next[l], f)
  BY <1>1, <1>2 DEF Walk
<1>4. Walk(k, m.next, m.next[l], node)
  BY <1>1, <1>3
<1>5. TimerQueue!Forward(m, l) = [i \in 1 .. m.size[l] |-> node[i]]
  BY DEF TimerQueue!Forward, Walk
<1> HIDE DEF node
<1>6. f = node
  BY <1>1, <1>3, <1>4, OneWalk
<1> QED BY <1>1, <1>5, <1>6

LEMMA BackwardIs ==
  ASSUME NEW m, NEW l, NEW k, NEW f, Linked(m, l, k, f)
  PROVE  TimerQueue!Backward(m, l) = [i \in 1 .. k |-> f[k + 1 - i]]
<1> DEFINE node == CHOOSE g : Walk(m.size[l], m.prev, m.prev[l], g)
           b == [i \in 1 .. k |-> f[k + 1 - i]]
<1>1. k \in Nat /\ m.size[l] = k /\ f \in [1 .. k -> Timers]
  BY DEF Linked
<1>2. ASSUME NEW i \in 1 .. k
      PROVE  b[i] = IF i = 1 THEN m.prev[l] ELSE m.prev[b[i - 1]]
  <2>1. CASE i = 1
    <3>1. b[i] = f[k]
      BY <1>1, <2>1
    <3>2. m.prev[l] = f[k]
      BY <1>1 DEF Linked
    <3> QED BY <2>1, <3>1, <3>2
  <2>2. CASE i # 1
    <3>1. k + 2 - i \in 1 .. k /\ k + 2 - i # 1 /\ (k + 2 - i) - 1 = k + 1 - i
      BY <1>1, <2>2
    <3>2. b[i - 1] = f[k + 2 - i] /\ b[i] = f[k + 1 - i]
      BY <1>1, <2>2
    <3>3. m.prev[f[k + 2 - i]] = f[(k + 2 - i) - 1]
      BY <3>1 DEF Linked
    <3> QED BY <2>2, <3>1, <3>2, <3>3
  <2> QED BY <2>1, <2>2
<1>3. Walk(k, m.prev, m.prev[l], b)
  BY <1>1, <1>2 DEF Walk
<1>4. Walk(k, m.prev, m.prev[l], node)
  BY <1>1, <1>3
<1>5. TimerQueue!Backward(m, l) = [i \in 1 .. m.size[l] |-> node[i]]
  BY DEF TimerQueue!Backward, Walk
<1> HIDE DEF node
<1>6. b = node
  <2> HIDE DEF b
  <2> QED BY <1>1, <1>3, <1>4, OneWalk
<1> QED BY <1>1, <1>5, <1>6

LEMMA LinkedWellLinked ==
  ASSUME NEW m, NEW l, NEW k, NEW f, Linked(m, l, k, f)
  PROVE  /\ TimerQueue!WellLinked(m, l)
         /\ { TimerQueue!Forward(m, l)[i] : i \in 1 .. m.size[l] } = On(k, f)
<1>1. /\ TimerQueue!Forward(m, l) = f /\ TimerQueue!Backward(m, l) = [i \in 1 .. k |-> f[k + 1 - i]]
      /\ m.size[l] = k /\ k \in Nat
  <2>1. TimerQueue!Forward(m, l) = f
    BY ForwardIs, Zenon
  <2>2. TimerQueue!Backward(m, l) = [i \in 1 .. k |-> f[k + 1 - i]]
    BY BackwardIs, ZenonT(30)
  <2> QED BY <2>1, <2>2 DEF Linked
<1>2. \A i, j \in 1 .. k : f[i] = f[j] => i = j
  BY DEF Linked
<1>3. k = 0 => m.next[l] = l /\ m.prev[l] = l
  BY DEF Linked
<1> QED BY <1>1, <1>2, <1>3 DEF TimerQueue!WellLinked, On

-----------------------------------------------------------------------------
(* The lists of one memory: every head has a list, and no timer is in two. *)
Carries(k, f, S) == On(k, f) = S

At(K, l, k) == [K EXCEPT ![l] = k]

Family(m, K, F) ==
  /\ Shaped(m)
  /\ K = [l \in TimerHeads |-> K[l]] /\ F = [l \in TimerHeads |-> F[l]]
  /\ \A l \in TimerHeads : Linked(m, l, K[l], F[l])
  /\ \A l, x \in TimerHeads : l # x => On(K[l], F[l]) \cap On(K[x], F[x]) = {}

LEMMA FamilyKept ==
  ASSUME NEW m, NEW m2, NEW K, NEW F, Family(m, K, F), NEW l \in TimerHeads,
         Shaped(m2), NEW k, NEW f, Linked(m2, l, k, f),
         NEW X \in SUBSET Timers, Apart(m, m2, l, X),
         \A x \in TimerHeads : x # l => On(K[x], F[x]) \cap (X \cup On(k, f)) = {}
  PROVE  Family(m2, At(K, l, k), At(F, l, f))
<1> DEFINE K2 == At(K, l, k)
           F2 == At(F, l, f)
<1>1. /\ K2[l] = k /\ F2[l] = f
      /\ \A x \in TimerHeads : x # l => K2[x] = K[x] /\ F2[x] = F[x]
      /\ K2 = [x \in TimerHeads |-> K2[x]] /\ F2 = [x \in TimerHeads |-> F2[x]]
  <2>1. K = [x \in TimerHeads |-> K[x]] /\ F = [x \in TimerHeads |-> F[x]]
    BY Zenon DEF Family
  <2> QED BY <2>1 DEF At
<1> HIDE DEF K2, F2
<1>2. ASSUME NEW x \in TimerHeads, x # l
      PROVE  Linked(m2, x, K[x], F[x])
  <2>1. /\ Shaped(m) /\ Linked(m, x, K[x], F[x])
        /\ On(K[x], F[x]) \cap X = {}
    BY <1>2 DEF Family
  <2> QED BY <1>2, <2>1, LinkedElsewhere
<1>3. \A x \in TimerHeads : Linked(m2, x, K2[x], F2[x])
  BY <1>1, <1>2
<1>4. \A x, y \in TimerHeads : x # y => On(K2[x], F2[x]) \cap On(K2[y], F2[y]) = {}
  <2> SUFFICES ASSUME NEW x \in TimerHeads, NEW y \in TimerHeads, x # y
               PROVE  On(K2[x], F2[x]) \cap On(K2[y], F2[y]) = {}
    OBVIOUS
  <2>1. CASE x = l
    BY <1>1, <2>1
  <2>2. CASE y = l
    BY <1>1, <2>2
  <2>3. CASE x # l /\ y # l
    BY <1>1, <2>3 DEF Family
  <2> QED BY <2>1, <2>2, <2>3
<1>5. Family(m2, K2, F2)
  BY <1>1, <1>3, <1>4 DEF Family
<1> QED BY <1>5 DEF K2, F2

LEMMA FamilyPut ==
  ASSUME NEW m, NEW m2, NEW K, NEW F, Family(m, K, F), NEW l \in TimerHeads,
         NEW i \in 0 .. K[l], NEW t \in Timers,
         \A x \in TimerHeads : t \notin On(K[x], F[x]),
         Inserted(m, m2, l, K[l], F[l], i, t)
  PROVE  /\ Family(m2, At(K, l, K[l] + 1),
                        At(F, l, Put(K[l], F[l], i, t)))
         /\ Carries(K[l] + 1, Put(K[l], F[l], i, t), On(K[l], F[l]) \cup {t})
<1> DEFINE k == K[l]
           f == F[l]
           g == Put(k, f, i, t)
           X == On(k, f) \cup {t}
<1>1. /\ Shaped(m) /\ Linked(m, l, k, f) /\ t \notin On(k, f)
      /\ i \in 0 .. k /\ Inserted(m, m2, l, k, f, i, t)
  BY DEF Family
<1>2. X \in SUBSET Timers
  <2>1. On(k, f) \subseteq Timers
    BY <1>1 DEF Linked, On
  <2> QED BY <2>1
<1>3. \A x \in TimerHeads : x # l => On(K[x], F[x]) \cap X = {}
  BY DEF Family
<1> HIDE DEF g, k, f
<1>4. Shaped(m2) /\ Linked(m2, l, k + 1, g) /\ On(k + 1, g) = X /\ Apart(m, m2, l, X)
  <2>1. /\ Shaped(m2) /\ Linked(m2, l, k + 1, Put(k, f, i, t))
        /\ On(k + 1, Put(k, f, i, t)) = On(k, f) \cup {t}
        /\ Apart(m, m2, l, On(k, f) \cup {t})
    BY <1>1, InsertedLinked, Zenon
  <2> QED BY <2>1 DEF g
<1> HIDE DEF X
<1>5. \A x \in TimerHeads : x # l => On(K[x], F[x]) \cap (X \cup On(k + 1, g)) = {}
  BY <1>3, <1>4
<1>6. Family(m2, At(K, l, k + 1), At(F, l, g))
  BY <1>2, <1>4, <1>5, FamilyKept
<1> QED BY <1>4, <1>6 DEF g, X, k, f, Carries

LEMMA FamilyTake ==
  ASSUME NEW m, NEW m2, NEW K, NEW F, Family(m, K, F), NEW l \in TimerHeads,
         NEW i \in 1 .. K[l], Removed(m, m2, l, K[l], F[l], i)
  PROVE  /\ Family(m2, At(K, l, K[l] - 1),
                        At(F, l, Without(K[l], F[l], i)))
         /\ Carries(K[l] - 1, Without(K[l], F[l], i), On(K[l], F[l]) \ {F[l][i]})
<1> DEFINE k == K[l]
           f == F[l]
           g == Without(k, f, i)
           X == On(k, f)
<1>1. Shaped(m) /\ Linked(m, l, k, f)
  BY DEF Family
<1>2. X \in SUBSET Timers
  BY <1>1 DEF Linked, On
<1>3. \A x \in TimerHeads : x # l => On(K[x], F[x]) \cap X = {}
  BY DEF Family
<1> HIDE DEF g
<1>4. /\ Shaped(m2) /\ Linked(m2, l, k - 1, g) /\ On(k - 1, g) = X \ {f[i]}
      /\ Apart(m, m2, l, X)
  BY <1>1, RemovedLinked DEF g
<1> HIDE DEF X
<1>5. \A x \in TimerHeads : x # l => On(K[x], F[x]) \cap (X \cup On(k - 1, g)) = {}
  BY <1>3, <1>4
<1>6. Family(m2, At(K, l, k - 1), At(F, l, g))
  BY <1>2, <1>4, <1>5, FamilyKept
<1> QED BY <1>4, <1>6 DEF g, X, Carries

(* timer->init() of a timer that is in no list.                            *)
LEMMA FamilySelf ==
  ASSUME NEW m, NEW K, NEW F, Family(m, K, F), NEW t \in Timers,
         \A x \in TimerHeads : t \notin On(K[x], F[x])
  PROVE  Family(TimerQueue!SetSelf(m, t), K, F)
<1>1. /\ t \in ListNodes /\ Shaped(m)
      /\ \A x \in TimerHeads : x \in ListNodes /\ x # t
  BY DEF ListNodes, Family, Shaped
<1>2. /\ Shaped(TimerQueue!SetSelf(m, t)) /\ TimerQueue!SetSelf(m, t).size = m.size
      /\ \A z \in ListNodes : z # t =>
           /\ TimerQueue!SetSelf(m, t).next[z] = m.next[z]
           /\ TimerQueue!SetSelf(m, t).prev[z] = m.prev[z]
  BY <1>1, SetSelfIs
<1>3. ASSUME NEW x \in TimerHeads
      PROVE  Linked(TimerQueue!SetSelf(m, t), x, K[x], F[x])
  <2>1. Linked(m, x, K[x], F[x])
    BY DEF Family
  <2>2. \A i \in 1 .. K[x] : F[x][i] \in ListNodes /\ F[x][i] # t
    BY <2>1 DEF Linked, ListNodes, On
  <2>3. /\ TimerQueue!SetSelf(m, t).next[x] = m.next[x] /\ TimerQueue!SetSelf(m, t).prev[x] = m.prev[x]
        /\ TimerQueue!SetSelf(m, t).size[x] = m.size[x]
    BY <1>1, <1>2
  <2>4. \A i \in 1 .. K[x] : /\ TimerQueue!SetSelf(m, t).next[F[x][i]] = m.next[F[x][i]]
                             /\ TimerQueue!SetSelf(m, t).prev[F[x][i]] = m.prev[F[x][i]]
    BY <1>2, <2>2
  <2> HIDE DEF TimerQueue!SetSelf
  <2> QED BY <2>1, <2>3, <2>4 DEF Linked
<1> QED BY <1>2, <1>3 DEF Family

-----------------------------------------------------------------------------
(* The two lists of a queue: the timers of A are active, those of U free.  *)
Lists(m, A, U, K, F) ==
  /\ Family(m, K, F)
  /\ On(K[ActiveList], F[ActiveList]) = A
  /\ On(K[FreeList], F[FreeList]) = U

Ascending(k, f, key) == \A i, j \in 1 .. k : i <= j => key[f[i]] <= key[f[j]]

LEMMA HeadsAre ==
  ASSUME TimerQueue!TimerAssumption
  PROVE  /\ FreeList \in TimerHeads /\ ActiveList \in TimerHeads
         /\ FreeList # ActiveList
         /\ \A l \in TimerHeads : l = FreeList \/ l = ActiveList
BY DEF TimerQueue!TimerAssumption, TimerHeads

LEMMA ListsAre ==
  ASSUME TimerQueue!TimerAssumption, NEW m, NEW A, NEW U, NEW K, NEW F,
         Lists(m, A, U, K, F), NEW l \in TimerHeads
  PROVE  /\ K[l] \in Nat /\ F[l] \in [1 .. K[l] -> Timers] /\ m.size[l] = K[l]
         /\ Shaped(m) /\ Linked(m, l, K[l], F[l])
         /\ A \subseteq Timers /\ U \subseteq Timers /\ A \cap U = {}
         /\ K[l] > 0 => /\ m.next[l] = F[l][1] /\ 1 \in 1 .. K[l]
                        /\ F[l][1] \in On(K[l], F[l])
<1>1. /\ Shaped(m) /\ \A x \in TimerHeads : Linked(m, x, K[x], F[x])
      /\ Linked(m, l, K[l], F[l])
  BY DEF Lists, Family
<1>2. /\ K[l] \in Nat /\ F[l] \in [1 .. K[l] -> Timers] /\ m.size[l] = K[l]
      /\ K[l] > 0 => m.next[l] = F[l][1] /\ 1 \in 1 .. K[l]
  BY <1>1 DEF Linked
<1>3. ASSUME NEW x \in TimerHeads
      PROVE  On(K[x], F[x]) \subseteq Timers
  <2>1. Linked(m, x, K[x], F[x])
    BY <1>1
  <2> QED BY <2>1 DEF Linked, On
<1>4. A \subseteq Timers /\ U \subseteq Timers
  BY <1>3, HeadsAre DEF Lists
<1>5. A \cap U = {}
  BY HeadsAre DEF Lists, Family
<1>6. K[l] > 0 => F[l][1] \in On(K[l], F[l])
  BY <1>2 DEF On
<1> QED BY <1>1, <1>2, <1>4, <1>5, <1>6

(* A timer taken from, or put into, one of the lists.                      *)
LEMMA ListsTake ==
  ASSUME TimerQueue!TimerAssumption, NEW m, NEW m2, NEW A, NEW U, NEW K, NEW F,
         Lists(m, A, U, K, F), NEW l \in TimerHeads,
         NEW i \in 1 .. K[l], Removed(m, m2, l, K[l], F[l], i)
  PROVE  Lists(m2, IF l = ActiveList THEN A \ {F[l][i]} ELSE A,
                   IF l = FreeList THEN U \ {F[l][i]} ELSE U,
                   At(K, l, K[l] - 1),
                   At(F, l, Without(K[l], F[l], i)))
<1>1. Family(m, K, F)
  BY DEF Lists
<1>2. /\ Family(m2, At(K, l, K[l] - 1),
                          At(F, l, Without(K[l], F[l], i)))
      /\ On(K[l] - 1, Without(K[l], F[l], i))
           = On(K[l], F[l]) \ {F[l][i]}
  <2>1. Family(m2, At(K, l, K[l] - 1),
                          At(F, l, Without(K[l], F[l], i)))
    BY <1>1, FamilyTake
  <2>2. Carries(K[l] - 1, Without(K[l], F[l], i),
                      On(K[l], F[l]) \ {F[l][i]})
    BY <1>1, FamilyTake
  <2> QED BY <2>1, <2>2 DEF Carries
<1> DEFINE k == K[l] - 1
           g == Without(K[l], F[l], i)
           K2 == At(K, l, k)
           F2 == At(F, l, g)
<1>3. /\ K2[l] = k /\ F2[l] = g
      /\ \A x \in TimerHeads : x # l => K2[x] = K[x] /\ F2[x] = F[x]
  <2>1. /\ K = [x \in TimerHeads |-> K[x]]
        /\ F = [x \in TimerHeads |-> F[x]]
    BY <1>1, Zenon DEF Family
  <2> QED BY <2>1 DEF At
<1>4. Family(m2, K2, F2) /\ On(k, g) = On(K[l], F[l]) \ {F[l][i]}
  BY <1>2
<1> HIDE DEF K2, F2, g, k
<1>5. Lists(m2, IF l = ActiveList THEN A \ {F[l][i]} ELSE A,
                IF l = FreeList THEN U \ {F[l][i]} ELSE U, K2, F2)
  <2>1. CASE l = ActiveList
    BY <1>1, <1>3, <1>4, <2>1, HeadsAre DEF Lists
  <2>2. CASE l = FreeList
    BY <1>1, <1>3, <1>4, <2>2, HeadsAre DEF Lists
  <2> QED BY <2>1, <2>2, HeadsAre
<1> QED BY <1>5 DEF K2, F2, g, k

LEMMA ListsPut ==
  ASSUME TimerQueue!TimerAssumption, NEW m, NEW m2, NEW A, NEW U, NEW K, NEW F,
         Lists(m, A, U, K, F), NEW l \in TimerHeads,
         NEW t \in Timers, t \notin A, t \notin U,
         NEW i \in 0 .. K[l], Inserted(m, m2, l, K[l], F[l], i, t)
  PROVE  Lists(m2, IF l = ActiveList THEN A \cup {t} ELSE A,
                   IF l = FreeList THEN U \cup {t} ELSE U,
                   At(K, l, K[l] + 1),
                   At(F, l, Put(K[l], F[l], i, t)))
<1>1. /\ Family(m, K, F)
      /\ \A x \in TimerHeads : t \notin On(K[x], F[x])
  BY HeadsAre DEF Lists
<1>2. /\ Family(m2, At(K, l, K[l] + 1),
                          At(F, l, Put(K[l], F[l], i, t)))
      /\ On(K[l] + 1, Put(K[l], F[l], i, t))
           = On(K[l], F[l]) \cup {t}
  <2>1. Family(m2, At(K, l, K[l] + 1),
                          At(F, l, Put(K[l], F[l], i, t)))
    BY <1>1, FamilyPut
  <2>2. Carries(K[l] + 1, Put(K[l], F[l], i, t),
                      On(K[l], F[l]) \cup {t})
    BY <1>1, FamilyPut
  <2> QED BY <2>1, <2>2 DEF Carries
<1> DEFINE k == K[l] + 1
           g == Put(K[l], F[l], i, t)
           K2 == At(K, l, k)
           F2 == At(F, l, g)
<1>3. /\ K2[l] = k /\ F2[l] = g
      /\ \A x \in TimerHeads : x # l => K2[x] = K[x] /\ F2[x] = F[x]
  <2>1. /\ K = [x \in TimerHeads |-> K[x]]
        /\ F = [x \in TimerHeads |-> F[x]]
    BY <1>1, Zenon DEF Family
  <2> QED BY <2>1 DEF At
<1>4. Family(m2, K2, F2) /\ On(k, g) = On(K[l], F[l]) \cup {t}
  BY <1>2
<1> HIDE DEF K2, F2, g, k
<1>5. Lists(m2, IF l = ActiveList THEN A \cup {t} ELSE A,
                IF l = FreeList THEN U \cup {t} ELSE U, K2, F2)
  <2>1. CASE l = ActiveList
    BY <1>1, <1>3, <1>4, <2>1, HeadsAre DEF Lists
  <2>2. CASE l = FreeList
    BY <1>1, <1>3, <1>4, <2>2, HeadsAre DEF Lists
  <2> QED BY <2>1, <2>2, HeadsAre
<1> QED BY <1>5 DEF K2, F2, g, k

(* Sorted lists stay sorted.                                               *)
LEMMA WithoutAscends ==
  ASSUME NEW k \in Nat, NEW f, NEW key, Ascending(k, f, key), NEW i \in 1 .. k
  PROVE  Ascending(k - 1, Without(k, f, i), key)
BY DEF Ascending, Without

LEMMA PutAscends ==
  ASSUME NEW k \in Nat, NEW f \in [1 .. k -> Timers], NEW key \in [Timers -> Nat],
         Ascending(k, f, key), NEW i \in 0 .. k, NEW t \in Timers,
         \A j \in 1 .. k : j <= i => key[f[j]] <= key[t],
         \A j \in 1 .. k : j > i => key[t] <= key[f[j]]
  PROVE  Ascending(k + 1, Put(k, f, i, t), key)
<1> DEFINE g == Put(k, f, i, t)
<1>1. \A j \in 1 .. k + 1 :
        /\ j <= i => g[j] = f[j] /\ j \in 1 .. k
        /\ j = i + 1 => g[j] = t
        /\ j > i + 1 => g[j] = f[j - 1] /\ j - 1 \in 1 .. k
  BY DEF Put
<1> HIDE DEF g
<1> SUFFICES ASSUME NEW x \in 1 .. k + 1, NEW y \in 1 .. k + 1, x <= y
             PROVE  key[g[x]] <= key[g[y]]
  BY DEF Ascending, g
<1>2. CASE x = i + 1
  BY <1>1, <1>2
<1>3. CASE y = i + 1
  BY <1>1, <1>3
<1>4. CASE x # i + 1 /\ y # i + 1
  <2> DEFINE x2 == IF x <= i THEN x ELSE x - 1
             y2 == IF y <= i THEN y ELSE y - 1
  <2>1. /\ x2 \in 1 .. k /\ y2 \in 1 .. k /\ x2 <= y2
        /\ g[x] = f[x2] /\ g[y] = f[y2]
    BY <1>1, <1>4
  <2> HIDE DEF x2, y2
  <2> QED BY <2>1 DEF Ascending
<1> QED BY <1>2, <1>3, <1>4

-----------------------------------------------------------------------------
(* What the calls do to the two lists.                                     *)
Sorted(K, F, key) == Ascending(K[ActiveList], F[ActiveList], key)

Become(m, A, U, K, F) ==
  \E K2, F2 : /\ Lists(m, A, U, K2, F2)
              /\ \A key : Sorted(K, F, key) => Sorted(K2, F2, key)

LEMMA FromFree ==
  ASSUME TimerQueue!TimerAssumption, NEW m, NEW A, NEW U, NEW K, NEW F,
         Lists(m, A, U, K, F), m.size[FreeList] > 0
  PROVE  LET t == m.next[FreeList]
             m2 == TimerQueue!SetSelf(TimerQueue!PopFront(m, FreeList), t)
         IN  /\ t \in U
             /\ Become(m2, A, U \ {t}, K, F)
<1> DEFINE k == K[FreeList]
           f == F[FreeList]
           m1 == TimerQueue!PopFront(m, FreeList)
           K2 == At(K, FreeList, k - 1)
           F2 == At(F, FreeList, Without(k, f, 1))
<1>1. FreeList \in TimerHeads /\ FreeList # ActiveList /\ ActiveList \in TimerHeads
  BY HeadsAre
<1>2. /\ Shaped(m) /\ Linked(m, FreeList, k, f) /\ k > 0
      /\ m.next[FreeList] = f[1] /\ f[1] \in U /\ 1 \in 1 .. k /\ U \subseteq Timers
      /\ A \cap U = {}
  <2>1. /\ k \in Nat /\ f \in [1 .. k -> Timers] /\ m.size[FreeList] = k
        /\ Shaped(m) /\ Linked(m, FreeList, k, f)
        /\ U \subseteq Timers /\ A \cap U = {}
        /\ k > 0 => /\ m.next[FreeList] = f[1] /\ 1 \in 1 .. k
                     /\ f[1] \in On(k, f)
    BY <1>1, ListsAre
  <2>2. On(k, f) = U
    BY Zenon DEF Lists
  <2>3. k > 0
    BY <2>1
  <2> QED BY <2>1, <2>2, <2>3, Zenon
<1>3. Removed(m, m1, FreeList, k, f, 1)
  BY <1>1, <1>2, PopFrontIs
<1>4. Lists(m1, A, U \ {f[1]}, K2, F2)
  BY <1>1, <1>2, <1>3, ListsTake
<1>5. K2[ActiveList] = K[ActiveList] /\ F2[ActiveList] = F[ActiveList]
  <2>1. /\ K = [x \in TimerHeads |-> K[x]]
        /\ F = [x \in TimerHeads |-> F[x]]
    BY Zenon DEF Lists, Family
  <2> QED BY <1>1, <2>1 DEF At
<1> HIDE DEF K2, F2, m1
<1>6. Lists(TimerQueue!SetSelf(m1, f[1]), A, U \ {f[1]}, K2, F2)
  <2>1. /\ Family(m1, K2, F2) /\ f[1] \in Timers
        /\ \A x \in TimerHeads : f[1] \notin On(K2[x], F2[x])
    BY <1>2, <1>4, HeadsAre DEF Lists
  <2>2. Family(TimerQueue!SetSelf(m1, f[1]), K2, F2)
    BY <2>1, FamilySelf
  <2> QED BY <1>4, <2>2 DEF Lists
<1>7. TimerQueue!SetSelf(TimerQueue!PopFront(m, FreeList), f[1]) = TimerQueue!SetSelf(m1, f[1])
  BY DEF m1
<1> QED BY <1>2, <1>5, <1>6, <1>7 DEF Sorted, Become

LEMMA ToFree ==
  ASSUME TimerQueue!TimerAssumption, NEW m, NEW A, NEW U, NEW K, NEW F,
         Lists(m, A, U, K, F), NEW t \in Timers, t \notin A, t \notin U
  PROVE  Become(TimerQueue!PushFront(m, FreeList, t), A, U \cup {t}, K, F)
<1> DEFINE k == K[FreeList]
           f == F[FreeList]
           m2 == TimerQueue!PushFront(m, FreeList, t)
           K2 == At(K, FreeList, k + 1)
           F2 == At(F, FreeList, Put(k, f, 0, t))
<1>1. FreeList \in TimerHeads /\ FreeList # ActiveList /\ ActiveList \in TimerHeads
  BY HeadsAre
<1>2. /\ Shaped(m) /\ Linked(m, FreeList, k, f) /\ 0 \in 0 .. k
      /\ t \notin On(k, f)
  BY <1>1, ListsAre DEF Lists
<1>3. Inserted(m, m2, FreeList, k, f, 0, t)
  BY <1>1, <1>2, PushFrontIs
<1>4. Lists(m2, A, U \cup {t}, K2, F2)
  BY <1>1, <1>2, <1>3, ListsPut
<1>5. K2[ActiveList] = K[ActiveList] /\ F2[ActiveList] = F[ActiveList]
  <2>1. /\ K = [x \in TimerHeads |-> K[x]]
        /\ F = [x \in TimerHeads |-> F[x]]
    BY Zenon DEF Lists, Family
  <2> QED BY <1>1, <2>1 DEF At
<1>6. TimerQueue!PushFront(m, FreeList, t) = m2
  BY Zenon DEF m2
<1> HIDE DEF K2, F2, m2
<1> QED BY <1>4, <1>5, <1>6 DEF Sorted, Become

LEMMA FromActive ==
  ASSUME TimerQueue!TimerAssumption, NEW m, NEW m2, NEW A, NEW U, NEW K, NEW F,
         Lists(m, A, U, K, F), NEW i \in 1 .. K[ActiveList],
         Removed(m, m2, ActiveList, K[ActiveList], F[ActiveList], i)
  PROVE  Become(m2, A \ {F[ActiveList][i]}, U, K, F)
<1> DEFINE k == K[ActiveList]
           f == F[ActiveList]
           K2 == At(K, ActiveList, k - 1)
           F2 == At(F, ActiveList, Without(k, f, i))
<1>1. FreeList # ActiveList /\ ActiveList \in TimerHeads
  BY HeadsAre
<1>2. k \in Nat
  BY <1>1, ListsAre
<1>3. Lists(m2, A \ {f[i]}, U, K2, F2)
  BY <1>1, ListsTake
<1>4. K2[ActiveList] = k - 1 /\ F2[ActiveList] = Without(k, f, i)
  <2>1. /\ K = [x \in TimerHeads |-> K[x]]
        /\ F = [x \in TimerHeads |-> F[x]]
    BY Zenon DEF Lists, Family
  <2> QED BY <1>1, <2>1 DEF At
<1>5. \A key : Ascending(k, f, key) => Ascending(k - 1, Without(k, f, i), key)
  BY <1>2, WithoutAscends
<1> HIDE DEF K2, F2
<1> QED BY <1>3, <1>4, <1>5 DEF Sorted, Become

LEMMA RemoveActive ==
  ASSUME TimerQueue!TimerAssumption, NEW m, NEW A, NEW U, NEW K, NEW F,
         Lists(m, A, U, K, F), NEW t \in A
  PROVE  Become(TimerQueue!RemoveFrom(m, ActiveList, t), A \ {t}, U, K, F)
<1>1. PICK i \in 1 .. K[ActiveList] : t = F[ActiveList][i]
  BY DEF Lists, On
<1>2. /\ ActiveList \in TimerHeads /\ Shaped(m)
      /\ Linked(m, ActiveList, K[ActiveList], F[ActiveList])
  BY HeadsAre, ListsAre
<1>3. Removed(m, TimerQueue!RemoveFrom(m, ActiveList, F[ActiveList][i]), ActiveList,
                   K[ActiveList], F[ActiveList], i)
  BY <1>2, RemoveFromIs
<1>4. Removed(m, TimerQueue!RemoveFrom(m, ActiveList, t), ActiveList,
              K[ActiveList], F[ActiveList], i)
  BY <1>1, <1>3
<1>5. Become(TimerQueue!RemoveFrom(m, ActiveList, t), A \ {F[ActiveList][i]}, U, K, F)
  BY <1>4, FromActive
<1> QED BY <1>1, <1>5

LEMMA PopActive ==
  ASSUME TimerQueue!TimerAssumption, NEW m, NEW A, NEW U, NEW K, NEW F,
         Lists(m, A, U, K, F), m.size[ActiveList] > 0
  PROVE  /\ m.next[ActiveList] \in A
         /\ Become(TimerQueue!PopFront(m, ActiveList), A \ {m.next[ActiveList]}, U, K, F)
<1>1. /\ ActiveList \in TimerHeads /\ Shaped(m)
      /\ Linked(m, ActiveList, K[ActiveList], F[ActiveList])
      /\ K[ActiveList] > 0 /\ 1 \in 1 .. K[ActiveList]
      /\ m.next[ActiveList] = F[ActiveList][1]
      /\ F[ActiveList][1] \in A
  BY HeadsAre, ListsAre DEF Lists
<1>2. Removed(m, TimerQueue!PopFront(m, ActiveList), ActiveList,
                   K[ActiveList], F[ActiveList], 1)
  BY <1>1, PopFrontIs
<1>3. Become(TimerQueue!PopFront(m, ActiveList), A \ {F[ActiveList][1]}, U, K, F)
  BY <1>1, <1>2, FromActive
<1> QED BY <1>1, <1>3

LEMMA InsertPlace ==
  ASSUME TimerQueue!TimerAssumption, lru \in BOOLEAN, end_clock_ms \in [Timers -> Nat],
         NEW m, NEW A, NEW U, NEW K, NEW F,
         Lists(m, A, U, K, F), NEW t \in Timers, t \notin A, t \notin U, NEW end \in Nat
  PROVE  \E i \in 0 .. K[ActiveList] :
           /\ Inserted(m, TimerQueue!Insert(m, t, end), ActiveList,
                            K[ActiveList], F[ActiveList], i, t)
           /\ lru => i = K[ActiveList]
           /\ ~lru /\ Sorted(K, F, end_clock_ms) =>
                \A j \in 1 .. K[ActiveList] :
                  /\ j <= i => end_clock_ms[F[ActiveList][j]] <= end
                  /\ j > i => end <= end_clock_ms[F[ActiveList][j]]
<1> DEFINE k == K[ActiveList]
           f == F[ActiveList]
<1>1. /\ ActiveList \in TimerHeads /\ Shaped(m)
      /\ Linked(m, ActiveList, k, f) /\ k \in Nat /\ m.size[ActiveList] = k
      /\ f \in [1 .. k -> Timers] /\ t \notin On(k, f)
  BY HeadsAre, ListsAre DEF Lists
<1>2. CASE m.size[ActiveList] = 0 \/ lru
  <2>1. TimerQueue!Insert(m, t, end) = TimerQueue!PushBack(m, ActiveList, t)
    BY <1>2 DEF TimerQueue!Insert
  <2>2. Inserted(m, TimerQueue!PushBack(m, ActiveList, t), ActiveList, k, f, k, t)
    BY <1>1, PushBackIs
  <2> QED BY <1>1, <1>2, <2>1, <2>2
<1>3. CASE m.size[ActiveList] # 0 /\ ~lru
  <2> DEFINE back == TimerQueue!Backward(m, ActiveList)
             before == { i \in DOMAIN back : end > end_clock_ms[back[i]] }
  <2>1. DOMAIN back = 1 .. k /\ \A i \in 1 .. k : back[i] = f[k + 1 - i]
    <3>1. back = [i \in 1 .. k |-> f[k + 1 - i]]
      BY <1>1, BackwardIs
    <3> QED BY <3>1
  <2> HIDE DEF back
  <2>2. before \subseteq 1 .. k
    BY <2>1
  <2>3. TimerQueue!Insert(m, t, end) = TimerQueue!InsertSorted(m, t, end)
    BY <1>3 DEF TimerQueue!Insert
  <2>4. CASE before = {}
    <3>1. TimerQueue!Insert(m, t, end) = TimerQueue!PushFront(m, ActiveList, t)
      BY <2>3, <2>4 DEF TimerQueue!InsertSorted, back
    <3>2. Inserted(m, TimerQueue!PushFront(m, ActiveList, t), ActiveList, k, f, 0, t)
      BY <1>1, PushFrontIs
    <3>3. ASSUME NEW j \in 1 .. k
          PROVE  end <= end_clock_ms[f[j]]
      <4>1. k + 1 - j \in 1 .. k /\ k + 1 - (k + 1 - j) = j
        BY <1>1
      <4>2. back[k + 1 - j] = f[j]
        BY <2>1, <4>1
      <4>3. ~(end > end_clock_ms[f[j]])
        BY <2>1, <2>4, <4>1, <4>2
      <4>4. end_clock_ms[f[j]] \in Nat
        <5>1. f[j] \in Timers
          BY <1>1
        <5> HIDE DEF f, before
        <5> QED BY <5>1
      <4> HIDE DEF f, before
      <4> QED BY <4>3, <4>4
    <3> QED BY <1>1, <1>3, <3>1, <3>2, <3>3
  <2>5. CASE before # {}
    <3> DEFINE p == CHOOSE i \in before : \A j \in before : i <= j
               i == k + 1 - p
    <3>1. p \in before /\ \A j \in before : p <= j
      <4>1. before \subseteq Nat
        BY <2>2
      <4> HIDE DEF before
      <4>2. \E x \in before : \A j \in before : x <= j
        BY <4>1, <2>5, LeastIs
      <4> QED BY <4>2
    <3>2. /\ p \in 1 .. k /\ i \in 1 .. k /\ back[p] = f[i] /\ end > end_clock_ms[f[i]]
      <4>1. p \in before
        BY <3>1
      <4> HIDE DEF p
      <4> QED BY <1>1, <2>1, <4>1
    <3>3. TimerQueue!Insert(m, t, end) = TimerQueue!InsertAfter(m, ActiveList, back[p], t)
      BY <2>3, <2>5, Zenon DEF TimerQueue!InsertSorted, back
    <3> HIDE DEF p, i
    <3>4. Inserted(m, TimerQueue!InsertAfter(m, ActiveList, f[i], t), ActiveList, k, f, i, t)
      BY <1>1, <3>2, InsertAfterIs
    <3>5. TimerQueue!Insert(m, t, end) = TimerQueue!InsertAfter(m, ActiveList, f[i], t)
      BY <3>2, <3>3
    <3>6. ASSUME NEW j \in 1 .. k, j > i
          PROVE  end <= end_clock_ms[f[j]]
      <4>1. k + 1 - j \in 1 .. k /\ k + 1 - (k + 1 - j) = j /\ k + 1 - j < p
        BY <1>1, <3>2, <3>6 DEF i
      <4>2. back[k + 1 - j] = f[j]
        BY <2>1, <4>1
      <4>3. k + 1 - j \notin before
        BY <3>1, <3>2, <4>1
      <4>4. ~(end > end_clock_ms[f[j]])
        BY <2>1, <4>1, <4>2, <4>3
      <4>5. end_clock_ms[f[j]] \in Nat
        <5>1. f[j] \in Timers
          BY <1>1
        <5> HIDE DEF f, before
        <5> QED BY <5>1
      <4> HIDE DEF f, before
      <4> QED BY <4>4, <4>5
    <3>7. ASSUME NEW j \in 1 .. k, j <= i, Sorted(K, F, end_clock_ms)
          PROVE  end_clock_ms[f[j]] <= end
      <4>1. end_clock_ms[f[j]] <= end_clock_ms[f[i]]
        BY <3>2, <3>7 DEF Sorted, Ascending
      <4> QED BY <1>1, <3>2, <4>1
    <3> QED BY <1>1, <1>3, <3>2, <3>4, <3>5, <3>6, <3>7
  <2> QED BY <2>4, <2>5
<1> QED BY <1>2, <1>3

LEMMA SortedSame ==
  ASSUME TimerQueue!TimerAssumption, NEW m, NEW A, NEW U, NEW K, NEW F,
         Lists(m, A, U, K, F), NEW key, NEW key2, \A x \in A : key[x] = key2[x],
         Sorted(K, F, key)
  PROVE  Sorted(K, F, key2)
<1>1. \A i \in 1 .. K[ActiveList] : F[ActiveList][i] \in A
  BY DEF Lists, On
<1> QED BY <1>1 DEF Sorted, Ascending

LEMMA ToActive ==
  ASSUME TimerQueue!TimerAssumption, lru \in BOOLEAN, end_clock_ms \in [Timers -> Nat],
         NEW m, NEW A, NEW U, NEW K, NEW F, Lists(m, A, U, K, F),
         NEW t \in Timers, t \notin A, t \notin U, NEW end \in Nat,
         NEW key \in [Timers -> Nat], Sorted(K, F, key),
         lru => \A x \in A : key[x] <= key[t],
         ~lru => key[t] = end /\ \A x \in A : key[x] = end_clock_ms[x]
  PROVE  \E K2, F2 : /\ Lists(TimerQueue!Insert(m, t, end), A \cup {t}, U, K2, F2)
                     /\ Sorted(K2, F2, key)
<1> DEFINE k == K[ActiveList]
           f == F[ActiveList]
           m2 == TimerQueue!Insert(m, t, end)
<1>1. /\ FreeList # ActiveList /\ ActiveList \in TimerHeads
      /\ k \in Nat /\ f \in [1 .. k -> Timers]
      /\ \A j \in 1 .. k : f[j] \in A
  <2>1. \A j \in 1 .. k : f[j] \in A
    BY DEF Lists, On
  <2> QED BY <2>1, HeadsAre, ListsAre
<1>2. PICK i \in 0 .. k :
           /\ Inserted(m, m2, ActiveList, k, f, i, t)
           /\ lru => i = k
           /\ ~lru /\ Sorted(K, F, end_clock_ms) =>
                \A j \in 1 .. k : /\ j <= i => end_clock_ms[f[j]] <= end
                                  /\ j > i => end <= end_clock_ms[f[j]]
  BY InsertPlace
<1> DEFINE K2 == At(K, ActiveList, k + 1)
           F2 == At(F, ActiveList, Put(k, f, i, t))
<1> HIDE DEF m2
<1>3. Lists(m2, A \cup {t}, U, K2, F2)
  BY <1>1, <1>2, ListsPut
<1>4. K2[ActiveList] = k + 1 /\ F2[ActiveList] = Put(k, f, i, t)
  <2>1. /\ K = [x \in TimerHeads |-> K[x]]
        /\ F = [x \in TimerHeads |-> F[x]]
    BY Zenon DEF Lists, Family
  <2> QED BY <1>1, <2>1 DEF At
<1>5. /\ \A j \in 1 .. k : j <= i => key[f[j]] <= key[t]
      /\ \A j \in 1 .. k : j > i => key[t] <= key[f[j]]
  <2>1. CASE lru
    BY <1>1, <1>2, <2>1
  <2>2. CASE ~lru
    <3>1. \A j \in 1 .. k : key[f[j]] = end_clock_ms[f[j]]
      BY <1>1, <2>2
    <3>3. Sorted(K, F, end_clock_ms)
      <4>1. \A i1, i2 \in 1 .. k : i1 <= i2 => key[f[i1]] <= key[f[i2]]
        BY DEF Sorted, Ascending
      <4>2. \A i1, i2 \in 1 .. k : i1 <= i2 => end_clock_ms[f[i1]] <= end_clock_ms[f[i2]]
        <5> HIDE DEF k, f
        <5> QED BY <3>1, <4>1
      <4> QED BY <4>2 DEF Sorted, Ascending
    <3> QED BY <1>2, <2>2, <3>1, <3>3
  <2> QED BY <2>1, <2>2
<1>6. Ascending(k + 1, Put(k, f, i, t), key)
  BY <1>1, <1>5, PutAscends DEF Sorted
<1> HIDE DEF K2, F2
<1> QED BY <1>3, <1>4, <1>6 DEF Sorted, m2

-----------------------------------------------------------------------------
(* The invariant.  The active list is sorted by the time that its order    *)
(* goes by, which is at most the time at which a timer should expire.      *)
Held == TimerQueue!Held
Key == IF lru THEN due ELSE end_clock_ms

TimerTypes ==
  /\ lru \in BOOLEAN
  /\ end_clock_ms \in [Timers -> Nat] /\ interval_ms \in [Timers -> Nat]
  /\ is_active \in [Timers -> BOOLEAN]
  /\ asked \in [Timers -> Nat] /\ due \in [Timers -> Nat]
  /\ clock \in Nat /\ last_clock_ms \in Nat /\ expire_clock \in Nat
  /\ expire_pc \in {"idle", "loop", "handler"}

HeldTimers ==
  \A t \in Held : /\ is_active[t] /\ end_clock_ms[t] <= due[t]
                  /\ lru => asked[t] = LruInterval /\ due[t] <= clock + LruInterval

TimerLists ==
  \E K, F : Lists(links, Held, Timers \ Held, K, F) /\ Sorted(K, F, Key)

TimerInv == TimerTypes /\ HeldTimers /\ TimerLists

LEMMA TimerListsNext ==
  ASSUME TimerQueue!TimerAssumption, NEW K, NEW F, NEW m, NEW A, NEW U, NEW key,
         Lists(m, A, U, K, F), Sorted(K, F, key),
         m = links', A = Held', U = Timers \ Held', \A x \in A : key[x] = Key'[x]
  PROVE  TimerLists'
<1>1. Sorted(K, F, Key')
  BY SortedSame
<1>2. Lists(links', Held', (Timers \ Held)', K, F)
  BY DEF Timers, TimerQueue!Pool
<1> QED BY <1>1, <1>2 DEF TimerLists, Lists, Sorted

-----------------------------------------------------------------------------
(* init(): with the timers 1, ..., k pushed, the free list holds these, in *)
(* this order.                                                             *)
Filled(k) ==
  [next |-> [x \in TimerQueue!Nodes |->
               IF x = FreeList THEN IF k = 0 THEN x ELSE 1
               ELSE IF x \in 1 .. k - 1 THEN x + 1 ELSE x],
   prev |-> [x \in TimerQueue!Nodes |->
               IF x = FreeList THEN IF k = 0 THEN x ELSE k
               ELSE IF x \in 2 .. k THEN x - 1 ELSE x],
   size |-> [l \in TimerHeads |-> IF l = FreeList THEN k ELSE 0]]

First(k) == [i \in 1 .. k |-> i]

LEMMA InsertedOnce ==
  ASSUME NEW m, NEW m2, NEW m3, NEW l, NEW k, NEW f, NEW i, NEW t,
         Inserted(m, m2, l, k, f, i, t), Inserted(m, m3, l, k, f, i, t)
  PROVE  m2 = m3
<1>1. /\ m2 \in [next : [ListNodes -> ListNodes],
                 prev : [ListNodes -> ListNodes], size : [TimerHeads -> Nat]]
      /\ m3 \in [next : [ListNodes -> ListNodes],
                 prev : [ListNodes -> ListNodes], size : [TimerHeads -> Nat]]
  BY DEF Inserted, Shaped
<1>2. \A x \in ListNodes : m2.next[x] = m3.next[x]
  BY DEF Inserted
<1>3. \A x \in ListNodes : m2.prev[x] = m3.prev[x]
  BY DEF Inserted
<1>4. \A x \in TimerHeads : m2.size[x] = m3.size[x]
  BY DEF Inserted
<1>5. m2.next = m3.next
  BY <1>1, <1>2
<1>6. m2.prev = m3.prev
  BY <1>1, <1>3
<1>7. m2.size = m3.size
  BY <1>1, <1>4
<1> QED BY <1>1, <1>5, <1>6, <1>7

LEMMA FilledIs ==
  ASSUME TimerQueue!TimerAssumption, NEW k \in 0 .. PoolSize
  PROVE  /\ Shaped(Filled(k))
         /\ Linked(Filled(k), FreeList, k, First(k))
         /\ Linked(Filled(k), ActiveList, 0, First(0))
<1>1. /\ PoolSize \in Nat /\ k \in Nat /\ Timers = 1 .. PoolSize
      /\ FreeList \notin 1 .. PoolSize /\ ActiveList \notin 1 .. PoolSize
      /\ FreeList # ActiveList
      /\ TimerQueue!Nodes = 1 .. PoolSize \cup {FreeList, ActiveList}
      /\ ListNodes = TimerQueue!Nodes
  BY DEF TimerQueue!TimerAssumption, Timers, TimerQueue!Pool, TimerQueue!Nodes,
         ListNodes, TimerHeads
<1> DEFINE Nodes3 == 1 .. PoolSize \cup {FreeList, ActiveList}
           m == Filled(k)
<1>0. /\ m = [next |-> m.next, prev |-> m.prev, size |-> m.size]
      /\ m.next = [x \in Nodes3 |->
                     IF x = FreeList THEN IF k = 0 THEN x ELSE 1
                     ELSE IF x \in 1 .. k - 1 THEN x + 1 ELSE x]
      /\ m.prev = [x \in Nodes3 |->
                     IF x = FreeList THEN IF k = 0 THEN x ELSE k
                     ELSE IF x \in 2 .. k THEN x - 1 ELSE x]
      /\ m.size = [l \in TimerHeads |-> IF l = FreeList THEN k ELSE 0]
  BY <1>1, Zenon DEF Filled
<1> HIDE DEF m
<1>2. /\ m.next \in [Nodes3 -> Nodes3] /\ m.prev \in [Nodes3 -> Nodes3]
      /\ m.size \in [TimerHeads -> Nat]
  <2>1. \A x \in Nodes3 : m.next[x] \in Nodes3
    BY <1>0, <1>1
  <2>2. \A x \in Nodes3 : m.prev[x] \in Nodes3
    BY <1>0, <1>1
  <2>3. m.size \in [TimerHeads -> Nat]
    BY <1>0, <1>1
  <2> QED BY <1>0, <2>1, <2>2, <2>3
<1>3. Shaped(m)
  <2>1. TimerHeads \cap Timers = {}
    BY <1>1 DEF TimerHeads
  <2>2. m \in [next : [ListNodes -> ListNodes],
                       prev : [ListNodes -> ListNodes], size : [TimerHeads -> Nat]]
    BY <1>0, <1>1, <1>2
  <2> QED BY <2>1, <2>2 DEF Shaped
<1>4. Linked(m, FreeList, k, First(k))
  <2>1. First(k) \in [1 .. k -> Timers] /\ \A i \in 1 .. k : First(k)[i] = i
    BY <1>1 DEF First
  <2>2. /\ m.size[FreeList] = k
        /\ m.next[FreeList] = IF k = 0 THEN FreeList ELSE 1
        /\ m.prev[FreeList] = IF k = 0 THEN FreeList ELSE k
    BY <1>0, <1>1 DEF TimerHeads
  <2>3. ASSUME NEW i \in 1 .. k
        PROVE  /\ m.next[i] = IF i = k THEN i ELSE i + 1
               /\ m.prev[i] = IF i = 1 THEN i ELSE i - 1
    <3>1. /\ i \in Nodes3 /\ i # FreeList /\ i \in Nat
          /\ i \in 1 .. k - 1 <=> i # k
          /\ i \in 2 .. k <=> i # 1
      BY <1>1
    <3>2. m.next[i] = IF i \in 1 .. k - 1 THEN i + 1 ELSE i
      BY <1>0, <3>1, Zenon
    <3>3. m.prev[i] = IF i \in 2 .. k THEN i - 1 ELSE i
      BY <1>0, <3>1, Zenon
    <3> QED BY <3>1, <3>2, <3>3, Zenon
  <2>4. \A i \in 1 .. k :
          /\ m.next[First(k)[i]] = IF i = k THEN First(k)[i] ELSE First(k)[i + 1]
          /\ m.prev[First(k)[i]] = IF i = 1 THEN First(k)[i] ELSE First(k)[i - 1]
    <3>1. \A i \in 1 .. k : /\ i # k => i + 1 \in 1 .. k
                            /\ i # 1 => i - 1 \in 1 .. k
      BY <1>1
    <3> QED BY <2>1, <2>3, <3>1
  <2>5. k # 0 => First(k)[1] = 1 /\ First(k)[k] = k
    BY <1>1, <2>1
  <2> QED BY <1>1, <2>1, <2>2, <2>4, <2>5 DEF Linked
<1>5. Linked(m, ActiveList, 0, First(0))
  <2>1. First(0) \in [1 .. 0 -> Timers]
    BY DEF First
  <2>2. /\ m.size[ActiveList] = 0
        /\ m.next[ActiveList] = ActiveList
        /\ m.prev[ActiveList] = ActiveList
    BY <1>0, <1>1 DEF TimerHeads
  <2> QED BY <2>1, <2>2 DEF Linked
<1> QED BY <1>3, <1>4, <1>5 DEF m

LEMMA FilledNext ==
  ASSUME TimerQueue!TimerAssumption, NEW k \in 1 .. PoolSize
  PROVE  TimerQueue!PushBack(Filled(k - 1), FreeList, k) = Filled(k)
<1> DEFINE p == k - 1
<1>1. /\ PoolSize \in Nat /\ k \in Nat /\ p \in 0 .. PoolSize /\ k \in 0 .. PoolSize
      /\ k = p + 1 /\ Timers = 1 .. PoolSize
      /\ FreeList \notin 1 .. PoolSize /\ ActiveList \notin 1 .. PoolSize
      /\ FreeList # ActiveList /\ FreeList \in TimerHeads
      /\ TimerQueue!Nodes = 1 .. PoolSize \cup {FreeList, ActiveList}
      /\ ListNodes = TimerQueue!Nodes
  BY DEF TimerQueue!TimerAssumption, Timers, TimerQueue!Pool, TimerQueue!Nodes,
         ListNodes, TimerHeads
<1> HIDE DEF p
<1>2. /\ Shaped(Filled(p)) /\ Linked(Filled(p), FreeList, p, First(p))
      /\ Shaped(Filled(k))
  BY <1>1, FilledIs
<1>3. k \in Timers /\ k \notin On(p, First(p))
  BY <1>1 DEF On, First
<1>4. Inserted(Filled(p), TimerQueue!PushBack(Filled(p), FreeList, k), FreeList, p,
                    First(p), p, k)
  BY <1>1, <1>2, <1>3, PushBackIs
<1>5. Inserted(Filled(p), Filled(k), FreeList, p, First(p), p, k)
  <2>1. \A x \in TimerHeads :
          Filled(k).size[x] = IF x = FreeList THEN p + 1 ELSE Filled(p).size[x]
    BY <1>1 DEF Filled
  <2>2. ASSUME NEW x \in ListNodes
        PROVE  Filled(k).next[x] =
                 IF x = (IF p = 0 THEN FreeList ELSE First(p)[p]) THEN k
                 ELSE IF x # k THEN Filled(p).next[x]
                 ELSE IF p = p THEN k ELSE First(p)[p + 1]
    <3>1. p # 0 => First(p)[p] = p
      BY <1>1 DEF First
    <3> QED BY <1>1, <3>1 DEF Filled
  <2>3. ASSUME NEW x \in ListNodes
        PROVE  Filled(k).prev[x] =
                 IF x = (IF p = p THEN FreeList ELSE First(p)[p + 1]) THEN k
                 ELSE IF x # k THEN Filled(p).prev[x]
                 ELSE IF p = 0 THEN k ELSE First(p)[p]
    <3>1. p # 0 => First(p)[p] = p
      BY <1>1 DEF First
    <3> QED BY <1>1, <3>1 DEF Filled
  <2> QED BY <1>2, <2>1, <2>2, <2>3 DEF Inserted
<1>6. TimerQueue!PushBack(Filled(p), FreeList, k) = Filled(k)
  BY <1>4, <1>5, InsertedOnce
<1> QED BY <1>6 DEF p

Pushed(g) ==
  g = [k \in 0 .. PoolSize |->
         IF k = 0 THEN TimerQueue!NoLinks
         ELSE TimerQueue!PushBack(g[k - 1], FreeList, k)]

LEMMA PoolLinksAre ==
  ASSUME TimerQueue!TimerAssumption
  PROVE  TimerQueue!PoolLinks = Filled(PoolSize)
<1> DEFINE pushed == CHOOSE g : Pushed(g)
           fill == [k \in 0 .. PoolSize |-> Filled(k)]
<1>1. TimerQueue!PoolLinks = pushed[PoolSize]
  BY DEF TimerQueue!PoolLinks, Pushed
<1>2. Filled(0) = TimerQueue!NoLinks
  BY HeadsAre DEF Filled, TimerQueue!NoLinks, TimerHeads
<1>3. PoolSize \in Nat
  BY DEF TimerQueue!TimerAssumption
<1>4. Pushed(fill)
  <2>1. ASSUME NEW k \in 0 .. PoolSize
        PROVE  Filled(k) = IF k = 0 THEN TimerQueue!NoLinks
                           ELSE TimerQueue!PushBack(fill[k - 1], FreeList, k)
    <3>1. CASE k = 0
      BY <1>2, <3>1
    <3>2. CASE k # 0
      <4>1. k \in 1 .. PoolSize /\ k - 1 \in 0 .. PoolSize
        BY <1>3, <3>2
      <4>2. fill[k - 1] = Filled(k - 1)
        BY <4>1
      <4>3. TimerQueue!PushBack(Filled(k - 1), FreeList, k) = Filled(k)
        BY <4>1, FilledNext
      <4> QED BY <3>2, <4>2, <4>3
    <3> QED BY <3>1, <3>2
  <2> QED BY <2>1, Zenon DEF Pushed
<1>5. Pushed(pushed)
  BY <1>4
<1> HIDE DEF pushed, fill
<1>6. \A k \in 0 .. PoolSize :
        pushed[k] = IF k = 0 THEN TimerQueue!NoLinks
                    ELSE TimerQueue!PushBack(pushed[k - 1], FreeList, k)
  BY <1>5, Zenon DEF Pushed
<1> DEFINE Wrong == { k \in 0 .. PoolSize : pushed[k] # Filled(k) }
<1>7. Wrong = {}
  <2> SUFFICES ASSUME Wrong # {}
               PROVE  FALSE
    OBVIOUS
  <2>1. PICK k \in Wrong : \A j \in Wrong : k <= j
    <3>1. Wrong \subseteq Nat
      BY <1>3
    <3> HIDE DEF Wrong
    <3> QED BY <3>1, LeastIs
  <2>2. k \in 0 .. PoolSize /\ pushed[k] # Filled(k)
    OBVIOUS
  <2>3. k # 0
    BY <1>2, <1>6, <2>2
  <2>4. k \in 1 .. PoolSize /\ k - 1 \in 0 .. PoolSize /\ ~(k <= k - 1)
    BY <1>3, <2>2, <2>3
  <2>5. pushed[k - 1] = Filled(k - 1)
    <3>1. k - 1 \notin Wrong
      <4> HIDE DEF Wrong
      <4> QED BY <2>1, <2>4
    <3> QED BY <2>4, <3>1
  <2>6. pushed[k] = TimerQueue!PushBack(Filled(k - 1), FreeList, k)
    BY <1>6, <2>2, <2>3, <2>5
  <2>7. TimerQueue!PushBack(Filled(k - 1), FreeList, k) = Filled(k)
    BY <2>4, FilledNext
  <2> QED BY <2>2, <2>6, <2>7
<1> QED BY <1>1, <1>3, <1>7

-----------------------------------------------------------------------------
(* The invariant holds from the start and through every step.              *)
LEMMA InitTimers ==
  ASSUME TimerQueue!TimerAssumption, TimerQueue!Init
  PROVE  TimerInv
<1> DEFINE K == [l \in TimerHeads |-> IF l = FreeList THEN PoolSize ELSE 0]
           F == [l \in TimerHeads |-> First(K[l])]
<1>1. /\ PoolSize \in Nat /\ PoolSize \in 0 .. PoolSize /\ Timers = 1 .. PoolSize
      /\ TimerHeads = {FreeList, ActiveList} /\ FreeList # ActiveList
  BY DEF TimerQueue!TimerAssumption, Timers, TimerQueue!Pool, TimerHeads
<1>2. TimerTypes
  BY DEF TimerQueue!Init, TimerTypes, Timers
<1>3. Held = {}
  BY DEF Held, TimerQueue!Held, TimerQueue!Init, Timers
<1>4. links = Filled(PoolSize)
  BY PoolLinksAre DEF TimerQueue!Init
<1>5. /\ K[FreeList] = PoolSize /\ F[FreeList] = First(PoolSize)
      /\ K[ActiveList] = 0 /\ F[ActiveList] = First(0)
      /\ K = [l \in TimerHeads |-> K[l]] /\ F = [l \in TimerHeads |-> F[l]]
  BY <1>1
<1> HIDE DEF K, F
<1>6. /\ On(PoolSize, First(PoolSize)) = Timers
      /\ On(0, First(0)) = {}
  BY <1>1 DEF On, First
<1>7. Family(links, K, F)
  <2>1. /\ Shaped(links) /\ Linked(links, FreeList, PoolSize, First(PoolSize))
        /\ Linked(links, ActiveList, 0, First(0))
    BY <1>1, <1>4, FilledIs
  <2>2. \A l \in TimerHeads : Linked(links, l, K[l], F[l])
    BY <1>1, <1>5, <2>1
  <2>3. \A l, x \in TimerHeads :
          l # x => On(K[l], F[l]) \cap On(K[x], F[x]) = {}
    BY <1>1, <1>5, <1>6
  <2> QED BY <1>5, <2>1, <2>2, <2>3 DEF Family
<1>8. Lists(links, Held, Timers \ Held, K, F)
  BY <1>3, <1>5, <1>6, <1>7 DEF Lists
<1>9. Sorted(K, F, Key)
  BY <1>5 DEF Sorted, Ascending
<1> QED BY <1>2, <1>3, <1>8, <1>9 DEF TimerInv, HeldTimers, TimerLists

(* A timer that is in neither list comes into the active one.              *)
LEMMA Activated ==
  ASSUME TimerQueue!TimerAssumption, TimerTypes,
         NEW m, NEW A, NEW U, NEW K, NEW F, Lists(m, A, U, K, F), Sorted(K, F, Key),
         NEW t \in Timers, t \notin A, t \notin U, NEW end \in Nat,
         Key' \in [Timers -> Nat], \A x \in A : Key'[x] = Key[x],
         lru => \A x \in A : Key[x] <= Key'[t],
         ~lru => Key'[t] = end,
         links' = TimerQueue!Insert(m, t, end),
         Held' = A \cup {t}, U = Timers \ Held'
  PROVE  TimerLists'
<1>1. lru \in BOOLEAN /\ end_clock_ms \in [Timers -> Nat]
  BY DEF TimerTypes
<1>2. ~lru => \A x \in A : Key[x] = end_clock_ms[x]
  BY DEF Key
<1> DEFINE key2 == Key'
<1>3. /\ key2 \in [Timers -> Nat] /\ \A x \in A : key2[x] = Key[x]
      /\ lru => \A x \in A : key2[x] <= key2[t]
      /\ ~lru => key2[t] = end /\ \A x \in A : key2[x] = end_clock_ms[x]
  BY <1>2
<1>4. Sorted(K, F, key2)
  <2>1. \A x \in A : Key[x] = key2[x]
    BY <1>3
  <2> HIDE DEF key2
  <2> QED BY <2>1, SortedSame
<1>5. PICK K2, F2 : /\ Lists(TimerQueue!Insert(m, t, end), A \cup {t}, U, K2, F2)
                    /\ Sorted(K2, F2, key2)
  <2> HIDE DEF key2
  <2> QED BY <1>1, <1>3, <1>4, ToActive
<1>6. Lists(links', A \cup {t}, U, K2, F2) /\ Sorted(K2, F2, key2)
  BY <1>5
<1>7. \A x \in A \cup {t} : key2[x] = Key'[x]
  OBVIOUS
<1> HIDE DEF key2
<1> QED BY <1>6, <1>7, TimerListsNext

LEMMA SetTimerKeeps ==
  ASSUME TimerQueue!TimerAssumption, TimerInv,
         NEW interval \in Intervals, TimerQueue!SetTimer(interval)
  PROVE  TimerInv'
<1> DEFINE t == links.next[FreeList]
           m1 == TimerQueue!SetSelf(TimerQueue!PopFront(links, FreeList), t)
           end == clock + interval
           U == (Timers \ Held) \ {t}
<1> USE DEF TimerInv
<1>1. /\ links.size[FreeList] > 0 /\ (lru => interval = LruInterval)
      /\ links' = TimerQueue!Insert(m1, t, end)
      /\ interval_ms' = [interval_ms EXCEPT ![t] = interval]
      /\ end_clock_ms' = [end_clock_ms EXCEPT ![t] = end]
      /\ is_active' = [is_active EXCEPT ![t] = TRUE]
      /\ asked' = [asked EXCEPT ![t] = interval]
      /\ due' = [due EXCEPT ![t] = end]
      /\ UNCHANGED <<lru, clock, last_clock_ms, expire_clock, expire_pc>>
  BY DEF TimerQueue!SetTimer, TimerQueue!expiring
<1>2. PICK K, F : Lists(links, Held, Timers \ Held, K, F) /\ Sorted(K, F, Key)
  BY DEF TimerLists
<1>3. t \in Timers \ Held /\ Become(m1, Held, U, K, F)
  BY <1>1, <1>2, FromFree
<1>4. interval \in Nat /\ interval > 0 /\ clock \in Nat /\ end \in Nat
  BY DEF TimerQueue!TimerAssumption, TimerTypes
<1> HIDE DEF m1
<1>5. PICK K1, F1 : Lists(m1, Held, U, K1, F1) /\ Sorted(K1, F1, Key)
  BY <1>2, <1>3 DEF Become
<1> HIDE DEF t, end
<1>6. TimerTypes'
  BY <1>1, <1>3, <1>4 DEF TimerTypes, Timers, TimerQueue!Pool
<1>7. Held' = Held \cup {t} /\ Held \subseteq Timers
  BY <1>1, <1>3, <1>4
     DEF Held, TimerQueue!Held, Timers, TimerQueue!Pool, TimerTypes
<1>8. HeldTimers'
  <2>1. ASSUME NEW x \in Held'
        PROVE  /\ is_active'[x] /\ end_clock_ms'[x] <= due'[x]
               /\ lru' => asked'[x] = LruInterval /\ due'[x] <= clock' + LruInterval
    <3>1. CASE x = t
      BY <1>1, <1>3, <1>4, <3>1 DEF TimerTypes, end
    <3>2. CASE x # t
      BY <1>1, <1>3, <1>7, <2>1, <3>2 DEF TimerTypes, HeldTimers
    <3> QED BY <3>1, <3>2
  <2> QED BY <2>1 DEF HeldTimers
<1>9. /\ Key' \in [Timers -> Nat] /\ \A x \in Held : Key'[x] = Key[x]
      /\ lru => \A x \in Held : Key[x] <= Key'[t]
      /\ ~lru => Key'[t] = end
  <2>1. Key' = [Key EXCEPT ![t] = end] /\ Key \in [Timers -> Nat]
    BY <1>1 DEF Key, TimerTypes
  <2>2. lru => \A x \in Held : Key[x] <= end
    BY <1>1 DEF Key, HeldTimers, end
  <2> HIDE DEF Key
  <2> QED BY <1>3, <1>4, <1>7, <2>1, <2>2
<1>10. TimerLists'
  <2>1. t \in Timers /\ t \notin Held /\ t \notin U /\ U = Timers \ Held'
    BY <1>3, <1>7 DEF t
  <2> HIDE DEF U
  <2> QED BY <1>1, <1>4, <1>5, <1>7, <1>9, <2>1, Activated
<1> QED BY <1>6, <1>8, <1>10

LEMMA UpdateTimerKeeps ==
  ASSUME TimerQueue!TimerAssumption, TimerInv,
         NEW t \in Timers, TimerQueue!UpdateTimer(t)
  PROVE  TimerInv'
<1> DEFINE m1 == TimerQueue!RemoveFrom(links, ActiveList, t)
           A == Held \ {t}
           U == Timers \ Held
<1> USE DEF TimerInv
<1>1. /\ t \in Held /\ links' = TimerQueue!Insert(m1, t, clock)
      /\ interval_ms' = [interval_ms EXCEPT ![t] = 0]
      /\ end_clock_ms' = [end_clock_ms EXCEPT ![t] = clock]
      /\ is_active' = [is_active EXCEPT ![t] = TRUE]
      /\ due' = [due EXCEPT ![t] = clock + asked[t]]
      /\ UNCHANGED <<lru, clock, last_clock_ms, expire_clock, expire_pc, asked>>
  BY DEF TimerQueue!UpdateTimer, TimerQueue!expiring, Held
<1>2. PICK K, F : Lists(links, Held, U, K, F) /\ Sorted(K, F, Key)
  BY DEF TimerLists
<1>3. Become(m1, A, U, K, F)
  BY <1>1, <1>2, RemoveActive
<1> HIDE DEF m1
<1>4. PICK K1, F1 : Lists(m1, A, U, K1, F1) /\ Sorted(K1, F1, Key)
  BY <1>2, <1>3 DEF Become
<1>5. clock \in Nat /\ asked[t] \in Nat /\ (lru => asked[t] = LruInterval)
  BY <1>1 DEF TimerTypes, HeldTimers
<1>6. TimerTypes'
  BY <1>1, <1>5 DEF TimerTypes, Timers, TimerQueue!Pool
<1>7. Held' = Held /\ Held = A \cup {t} /\ Held \subseteq Timers
  BY <1>1 DEF Held, TimerQueue!Held, Timers, TimerQueue!Pool
<1>8. HeldTimers'
  <2>1. ASSUME NEW x \in Held'
        PROVE  /\ is_active'[x] /\ end_clock_ms'[x] <= due'[x]
               /\ lru' => asked'[x] = LruInterval /\ due'[x] <= clock' + LruInterval
    <3>1. CASE x = t
      BY <1>1, <1>5, <3>1 DEF TimerTypes
    <3>2. CASE x # t
      BY <1>1, <1>7, <2>1, <3>2 DEF TimerTypes, HeldTimers
    <3> QED BY <3>1, <3>2
  <2> QED BY <2>1 DEF HeldTimers
<1>9. /\ Key' \in [Timers -> Nat] /\ \A x \in A : Key'[x] = Key[x]
      /\ lru => \A x \in A : Key[x] <= Key'[t]
      /\ ~lru => Key'[t] = clock
  <2>1. /\ Key' = [Key EXCEPT ![t] = IF lru THEN clock + asked[t] ELSE clock]
        /\ Key \in [Timers -> Nat]
    BY <1>1 DEF Key, TimerTypes
  <2>2. lru => \A x \in Held : Key[x] <= clock + asked[t]
    BY <1>5 DEF Key, HeldTimers
  <2> HIDE DEF Key
  <2>3. Key' \in [Timers -> Nat]
    BY <1>5, <2>1
  <2>4. \A x \in A : Key'[x] = Key[x]
    BY <1>7, <2>1
  <2>5. Key'[t] = IF lru THEN clock + asked[t] ELSE clock
    BY <2>1
  <2> QED BY <1>7, <2>2, <2>3, <2>4, <2>5
<1>10. TimerLists'
  <2>1. t \notin A /\ t \notin U /\ Held' = A \cup {t} /\ U = Timers \ Held'
    BY <1>1, <1>7
  <2> HIDE DEF A, U
  <2> QED BY <1>1, <1>4, <1>5, <1>9, <2>1, Activated
<1> QED BY <1>6, <1>8, <1>10

(* A timer comes from the active list into the free one.                   *)
LEMMA Released ==
  ASSUME TimerQueue!TimerAssumption, TimerTypes, NEW t \in Held, NEW m, NEW K, NEW F,
         Become(m, Held \ {t}, Timers \ Held, K, F), Sorted(K, F, Key),
         links' = TimerQueue!PushFront(m, FreeList, t),
         Held' = Held \ {t}, \A x \in Held' : Key'[x] = Key[x]
  PROVE  TimerLists'
<1> DEFINE A == Held \ {t}
           U == Timers \ Held
<1>1. PICK K1, F1 : Lists(m, A, U, K1, F1) /\ Sorted(K1, F1, Key)
  BY DEF Become
<1>2. t \in Timers /\ t \notin A /\ t \notin U /\ Held \subseteq Timers
  BY DEF Held, TimerQueue!Held, Timers
<1>3. U \cup {t} = Timers \ Held' /\ A = Held'
  BY <1>2
<1> HIDE DEF A, U
<1>4. Become(TimerQueue!PushFront(m, FreeList, t), A, U \cup {t}, K1, F1)
  BY <1>1, <1>2, ToFree
<1>5. PICK K2, F2 : /\ Lists(TimerQueue!PushFront(m, FreeList, t), A, U \cup {t}, K2, F2)
                    /\ Sorted(K2, F2, Key)
  BY <1>1, <1>4 DEF Become
<1>6. Lists(links', Held', Timers \ Held', K2, F2) /\ Sorted(K2, F2, Key)
  BY <1>3, <1>5
<1>7. \A x \in Held' : Key[x] = Key'[x]
  OBVIOUS
<1> QED BY <1>6, <1>7, TimerListsNext

LEMMA CancelTimerKeeps ==
  ASSUME TimerQueue!TimerAssumption, TimerInv,
         NEW t \in Timers, TimerQueue!CancelTimer(t)
  PROVE  TimerInv'
<1> DEFINE m1 == TimerQueue!RemoveFrom(links, ActiveList, t)
<1> USE DEF TimerInv
<1>1. /\ t \in Held /\ links' = TimerQueue!PushFront(m1, FreeList, t)
      /\ interval_ms' = [interval_ms EXCEPT ![t] = 0]
      /\ end_clock_ms' = [end_clock_ms EXCEPT ![t] = 0]
      /\ is_active' = [is_active EXCEPT ![t] = FALSE]
      /\ asked' = [asked EXCEPT ![t] = 0]
      /\ due' = [due EXCEPT ![t] = 0]
      /\ UNCHANGED <<lru, clock, last_clock_ms, expire_clock, expire_pc>>
  BY DEF TimerQueue!CancelTimer, TimerQueue!expiring, Held
<1>2. PICK K, F : Lists(links, Held, Timers \ Held, K, F) /\ Sorted(K, F, Key)
  BY DEF TimerLists
<1>3. Become(m1, Held \ {t}, Timers \ Held, K, F)
  BY <1>1, <1>2, RemoveActive
<1> HIDE DEF m1
<1>4. TimerTypes'
  BY <1>1 DEF TimerTypes, Timers, TimerQueue!Pool
<1>5. Held' = Held \ {t} /\ Held \subseteq Timers
  BY <1>1 DEF Held, TimerQueue!Held, Timers, TimerQueue!Pool, TimerTypes
<1>6. HeldTimers'
  <2>1. ASSUME NEW x \in Held'
        PROVE  /\ is_active'[x] /\ end_clock_ms'[x] <= due'[x]
               /\ lru' => asked'[x] = LruInterval /\ due'[x] <= clock' + LruInterval
    BY <1>1, <1>5, <2>1 DEF TimerTypes, HeldTimers
  <2> QED BY <2>1 DEF HeldTimers
<1>7. \A x \in Held' : Key'[x] = Key[x]
  BY <1>1, <1>5 DEF Key, TimerTypes
<1>8. TimerLists'
  BY <1>1, <1>2, <1>3, <1>5, <1>7, Released
<1> QED BY <1>4, <1>6, <1>8

LEMMA ExpireFrontKeeps ==
  ASSUME TimerQueue!TimerAssumption, TimerInv, TimerQueue!ExpireFront
  PROVE  TimerInv'
<1> DEFINE t == links.next[ActiveList]
           m1 == TimerQueue!PopFront(links, ActiveList)
<1> USE DEF TimerInv
<1>1. /\ links.size[ActiveList] > 0
      /\ links' = TimerQueue!PushFront(m1, FreeList, t)
      /\ asked' = [asked EXCEPT ![t] = 0]
      /\ due' = [due EXCEPT ![t] = 0]
      /\ expire_pc' = "handler"
      /\ UNCHANGED <<lru, clock, last_clock_ms, expire_clock, end_clock_ms,
                     interval_ms, is_active>>
  BY DEF TimerQueue!ExpireFront, TimerQueue!FrontDue, TimerQueue!timers
<1>2. PICK K, F : Lists(links, Held, Timers \ Held, K, F) /\ Sorted(K, F, Key)
  BY DEF TimerLists
<1>3. t \in Held /\ Become(m1, Held \ {t}, Timers \ Held, K, F)
  BY <1>1, <1>2, PopActive
<1> HIDE DEF m1, t
<1>4. TimerTypes'
  BY <1>1 DEF TimerTypes, Timers, TimerQueue!Pool
<1>5. Held' = Held \ {t} /\ Held \subseteq Timers
  BY <1>1, <1>3 DEF Held, TimerQueue!Held, Timers, TimerQueue!Pool, TimerTypes
<1>6. HeldTimers'
  <2>1. ASSUME NEW x \in Held'
        PROVE  /\ is_active'[x] /\ end_clock_ms'[x] <= due'[x]
               /\ lru' => asked'[x] = LruInterval /\ due'[x] <= clock' + LruInterval
    BY <1>1, <1>5, <2>1 DEF TimerTypes, HeldTimers
  <2> QED BY <2>1 DEF HeldTimers
<1>7. \A x \in Held' : Key'[x] = Key[x]
  BY <1>1, <1>5 DEF Key, TimerTypes
<1>8. TimerLists'
  BY <1>1, <1>2, <1>3, <1>5, <1>7, Released
<1> QED BY <1>4, <1>6, <1>8

(* The steps that leave the timers alone.                                  *)
LEMMA OthersKeep ==
  ASSUME TimerQueue!TimerAssumption, TimerInv,
         \/ TimerQueue!ExpireBegin \/ TimerQueue!HandlerReturns \/ TimerQueue!ExpireEnd
         \/ TimerQueue!Tick \/ UNCHANGED TimerQueue!vars
  PROVE  TimerInv'
<1> USE DEF TimerInv, TimerQueue!ExpireBegin, TimerQueue!HandlerReturns,
            TimerQueue!ExpireEnd, TimerQueue!Tick, TimerQueue!vars, TimerQueue!timers,
            TimerQueue!expiring, TimerQueue!held
<1>1. UNCHANGED <<lru, links, end_clock_ms, interval_ms, is_active, asked, due>>
  OBVIOUS
<1>2. TimerTypes'
  BY <1>1 DEF TimerTypes, Timers, TimerQueue!Pool
<1>3. Held' = Held /\ Key' = Key
  BY <1>1 DEF Held, TimerQueue!Held, TimerQueue!Pool, Key
<1>4. HeldTimers'
  <2>1. clock' >= clock /\ clock \in Nat /\ clock' \in Nat
    BY DEF TimerTypes
  <2>2. ASSUME NEW x \in Held, lru
        PROVE  due[x] <= clock' + LruInterval
    <3>1. due[x] <= clock + LruInterval /\ due[x] \in Nat /\ LruInterval \in Nat
      BY <2>2 DEF HeldTimers, TimerTypes, TimerQueue!TimerAssumption, Held,
                  TimerQueue!Held, Timers
    <3> QED BY <2>1, <3>1
  <2> QED BY <1>1, <1>3, <2>2 DEF HeldTimers
<1>5. TimerLists'
  <2>1. PICK K, F : Lists(links, Held, Timers \ Held, K, F) /\ Sorted(K, F, Key)
    BY DEF TimerLists
  <2>2. Lists(links', Held', Timers \ Held', K, F) /\ \A x \in Held' : Key[x] = Key'[x]
    BY <1>1, <1>3, <2>1
  <2> QED BY <2>1, <2>2, TimerListsNext
<1> QED BY <1>2, <1>4, <1>5

LEMMA NextTimers ==
  ASSUME TimerQueue!TimerAssumption, TimerInv, [TimerQueue!Next]_TimerQueue!vars
  PROVE  TimerInv'
<1>1. ASSUME NEW interval \in Intervals, TimerQueue!SetTimer(interval)
      PROVE  TimerInv'
  BY <1>1, SetTimerKeeps
<1>2. ASSUME NEW t \in Timers, TimerQueue!CancelTimer(t)
      PROVE  TimerInv'
  BY <1>2, CancelTimerKeeps
<1>3. ASSUME NEW t \in Timers, TimerQueue!UpdateTimer(t)
      PROVE  TimerInv'
  BY <1>3, UpdateTimerKeeps
<1>4. CASE TimerQueue!ExpireFront
  BY <1>4, ExpireFrontKeeps
<1>5. CASE \/ TimerQueue!ExpireBegin \/ TimerQueue!HandlerReturns
           \/ TimerQueue!ExpireEnd \/ TimerQueue!Tick \/ UNCHANGED TimerQueue!vars
  BY <1>5, OthersKeep
<1> QED BY <1>1, <1>2, <1>3, <1>4, <1>5 DEF TimerQueue!Next, Timers

-----------------------------------------------------------------------------
(* What the invariant says of the lists, and of an expire() that ends.     *)
LEMMA TimersIntact ==
  ASSUME TimerQueue!TimerAssumption, TimerInv
  PROVE  TimerQueue!ListsIntact
<1>1. PICK K, F : Lists(links, Held, Timers \ Held, K, F) /\ Sorted(K, F, Key)
  BY DEF TimerInv, TimerLists
<1>2. ASSUME NEW l \in TimerHeads
      PROVE  /\ TimerQueue!WellLinked(links, l)
             /\ TimerQueue!NodesOf(l) = On(K[l], F[l])
  <2>1. Linked(links, l, K[l], F[l])
    BY <1>1, ListsAre
  <2>2. /\ TimerQueue!WellLinked(links, l)
        /\ { TimerQueue!Forward(links, l)[i] : i \in 1 .. links.size[l] } = On(K[l], F[l])
    BY <2>1, LinkedWellLinked, Zenon
  <2> QED BY <2>2, Zenon DEF TimerQueue!NodesOf
<1>3. TimerQueue!TypeOK
  <2>1. links \in [next : [ListNodes -> ListNodes],
                   prev : [ListNodes -> ListNodes], size : [TimerHeads -> Nat]]
    BY <1>1 DEF Lists, Family, Shaped
  <2>2. ListNodes = TimerQueue!Nodes /\ TimerHeads = {FreeList, ActiveList}
    BY DEF ListNodes, TimerQueue!Nodes, TimerHeads, Timers
  <2>3. /\ links.next \in [TimerQueue!Nodes -> TimerQueue!Nodes]
        /\ links.prev \in [TimerQueue!Nodes -> TimerQueue!Nodes]
        /\ links.size \in [{FreeList, ActiveList} -> Nat]
    BY <2>1, <2>2
  <2> QED BY <2>3 DEF TimerQueue!TypeOK, TimerInv, TimerTypes, Timers
<1>4. /\ On(K[ActiveList], F[ActiveList]) = Held
      /\ On(K[FreeList], F[FreeList]) = Timers \ Held
  BY <1>1 DEF Lists
<1> QED BY <1>2, <1>3, <1>4, HeadsAre
        DEF TimerQueue!ListsIntact, TimerInv, HeldTimers, Held, Timers

LEMMA EndsInTime ==
  ASSUME TimerQueue!TimerAssumption, TimerInv, TimerQueue!ExpireEnd
  PROVE  \A t \in TimerQueue!Held : due[t] > expire_clock
<1>1. PICK K, F : Lists(links, Held, Timers \ Held, K, F) /\ Sorted(K, F, Key)
  BY DEF TimerInv, TimerLists
<1>2. SUFFICES ASSUME NEW t \in Held
               PROVE  due[t] > expire_clock
  BY DEF Held
<1> DEFINE front == links.next[ActiveList]
<1>3. PICK i \in 1 .. K[ActiveList] : t = F[ActiveList][i]
  BY <1>1 DEF Lists, On
<1>4. /\ links.size[ActiveList] > 0 /\ 1 \in 1 .. K[ActiveList] /\ 1 <= i
      /\ front = F[ActiveList][1] /\ front \in Held
  <2>1. K[ActiveList] \in Nat /\ links.size[ActiveList] = K[ActiveList]
    BY <1>1, HeadsAre, ListsAre
  <2>2. K[ActiveList] > 0
    BY <2>1
  <2>3. front = F[ActiveList][1]
    BY <1>1, <2>2, HeadsAre, ListsAre
  <2>4. F[ActiveList][1] \in On(K[ActiveList], F[ActiveList])
    BY <1>1, <2>2, HeadsAre, ListsAre
  <2> QED BY <1>1, <2>1, <2>2, <2>3, <2>4 DEF Lists
<1> HIDE DEF front
<1>5. Key[front] <= Key[t]
  BY <1>1, <1>3, <1>4 DEF Sorted, Ascending
<1>6. /\ end_clock_ms[front] <= due[front] /\ end_clock_ms[t] <= due[t]
      /\ end_clock_ms[front] \in Nat /\ end_clock_ms[t] \in Nat
      /\ due[front] \in Nat /\ due[t] \in Nat /\ expire_clock \in Nat
  BY <1>4 DEF TimerInv, HeldTimers, TimerTypes, Held, TimerQueue!Held, Timers
<1>7. end_clock_ms[front] <= due[t]
  BY <1>5, <1>6 DEF Key
<1>8. expire_clock < end_clock_ms[front]
  BY <1>4, <1>6 DEF TimerQueue!ExpireEnd, TimerQueue!FrontDue, front
<1> QED BY <1>6, <1>7, <1>8

-----------------------------------------------------------------------------
(* Whichever component takes the steps of a behaviour, the timer queue is  *)
(* in a state of this invariant.                                           *)
LEMMA TimersInvariance == AllSpec => []TimerInv
<1> USE SequentialAssumption
<1>1. AllInit => TimerInv
  BY InitTimers DEF AllInit, TimerQueueStill
<1>2. TimerInv /\ [AllNext]_allVars => TimerInv'
  <2> SUFFICES ASSUME TimerInv, [AllNext]_allVars
               PROVE  TimerInv'
    OBVIOUS
  <2>1. [TimerQueue!Next]_TimerQueue!vars
    BY DEF AllNext, allVars, timerQueueVars, TimerQueue!vars, TimerQueue!timers,
           TimerQueue!expiring, TimerQueue!held
  <2> QED BY <2>1, NextTimers
<1> QED BY <1>1, <1>2, PTL DEF AllSpec

(* Through any sequence of sets, cancels, updates and expirations, of any  *)
(* number of timers and with any intervals, nested in a handler or not:    *)
(* both lists are well linked, the active list holds exactly the timers    *)
(* the program holds, and the free list all others.                        *)
THEOREM TimerListsStayIntact == AllSpec => []ListsIntact
<1>1. TimerInv => ListsIntact
  BY SequentialAssumption, TimersIntact DEF ListsIntact
<1> QED BY <1>1, TimersInvariance, PTL

(* When an expire() ends, no timer whose time had come is left in the      *)
(* list: not behind a later one, although an updated timer is sorted by    *)
(* another time than that at which it should expire.                       *)
THEOREM NoTimerIsLeftBehind == AllSpec => NoneLate
<1>1. TimerInv /\ [AllNext]_allVars
        => [TimerQueue!ExpireEnd =>
              \A t \in TimerQueue!Held : due[t] > expire_clock]_TimerQueue!vars
  BY SequentialAssumption, EndsInTime
<1> QED BY <1>1, TimersInvariance, PTL DEF AllSpec, NoneLate, TimerQueue!NoneLate

-----------------------------------------------------------------------------
(* Buffers.  The cells from begin on, to end, hold the bytes of w.         *)
Cells == Buf!Cells
Holds(cells, begin, end, w) ==
  /\ begin <= end /\ end <= Len(cells) /\ Len(w) = end - begin
  /\ \A i \in 1 .. end - begin : w[i] = cells[begin + i]

LEMMA HoldsIs ==
  ASSUME NEW cells \in Seq(Cells), NEW begin \in Nat, NEW end \in Nat, NEW w \in Seq(Cells),
         Holds(cells, begin, end, w)
  PROVE  SubSeq(cells, begin + 1, end) = w
<1> DEFINE v == SubSeq(cells, begin + 1, end)
<1>1. /\ begin <= end /\ end <= Len(cells) /\ Len(w) = end - begin /\ Len(cells) \in Nat
      /\ \A i \in 1 .. end - begin : w[i] = cells[begin + i]
  BY LenProperties DEF Holds
<1>2. \A i \in begin + 1 .. end : cells[i] \in Cells
  <2> TAKE i \in begin + 1 .. end
  <2>1. i \in 1 .. Len(cells)
    BY <1>1
  <2> QED BY <2>1, ElementOfSeq
<1>3. begin + 1 \in Int /\ end \in Int
  OBVIOUS
<1>4. /\ v \in Seq(Cells)
      /\ Len(v) = IF begin + 1 <= end THEN end - (begin + 1) + 1 ELSE 0
      /\ \A i \in 1 .. end - (begin + 1) + 1 : v[i] = cells[(begin + 1) + i - 1]
  BY <1>2, <1>3, SubSeqProperties
<1> HIDE DEF v
<1>5. Len(v) = Len(w)
  BY <1>1, <1>4
<1>6. \A i \in 1 .. Len(v) : v[i] = w[i]
  <2> TAKE i \in 1 .. Len(v)
  <2>1. /\ i \in 1 .. end - begin /\ i \in 1 .. end - (begin + 1) + 1
        /\ (begin + 1) + i - 1 = begin + i
    BY <1>1, <1>5
  <2> QED BY <1>1, <1>4, <2>1
<1>7. v = w
  BY <1>4, <1>5, <1>6, SeqEqual
<1> QED BY <1>7 DEF v

LEMMA HoldsNothing ==
  ASSUME NEW cells \in Seq(Cells), NEW begin \in Nat, begin <= Len(cells)
  PROVE  Holds(cells, begin, begin, << >>) /\ << >> \in Seq(Cells)
BY EmptySeq DEF Holds

(* The cells up to the end stay, and there may be one more.                *)
LEMMA HoldsStill ==
  ASSUME NEW cells \in Seq(Cells), NEW begin \in Nat, NEW end \in Nat, NEW w,
         Holds(cells, begin, end, w), NEW cells2, end <= Len(cells2),
         \A i \in 1 .. end : cells2[i] = cells[i]
  PROVE  Holds(cells2, begin, end, w)
<1>1. \A i \in 1 .. end - begin : w[i] = cells2[begin + i]
  <2> TAKE i \in 1 .. end - begin
  <2>1. begin + i \in 1 .. end
    BY DEF Holds
  <2> QED BY <2>1 DEF Holds
<1> QED BY <1>1 DEF Holds

LEMMA HoldsOneMore ==
  ASSUME NEW cells \in Seq(Cells), NEW begin \in Nat, NEW end \in Nat, NEW w \in Seq(Cells),
         Holds(cells, begin, end, w), NEW cells2, NEW c \in Cells,
         Len(cells2) \in Nat, end < Len(cells2),
         \A i \in 1 .. end : cells2[i] = cells[i], cells2[end + 1] = c
  PROVE  Holds(cells2, begin, end + 1, Append(w, c)) /\ Append(w, c) \in Seq(Cells)
<1> DEFINE v == Append(w, c)
<1>1. /\ v \in Seq(Cells) /\ Len(v) = Len(w) + 1 /\ v[Len(w) + 1] = c
      /\ \A i \in 1 .. Len(w) : v[i] = w[i]
  BY AppendProperties
<1>2. /\ begin <= end /\ Len(w) = end - begin
      /\ \A i \in 1 .. end - begin : w[i] = cells[begin + i]
  BY DEF Holds
<1> HIDE DEF v
<1>3. ASSUME NEW i \in 1 .. end + 1 - begin
      PROVE  v[i] = cells2[begin + i]
  <2>1. CASE i = end + 1 - begin
    <3>1. i = Len(w) + 1 /\ begin + i = end + 1
      BY <1>2, <2>1
    <3> QED BY <1>1, <3>1
  <2>2. CASE i # end + 1 - begin
    <3>1. i \in 1 .. end - begin /\ i \in 1 .. Len(w) /\ begin + i \in 1 .. end
      BY <1>2, <2>2
    <3>2. v[i] = cells[begin + i]
      BY <1>1, <1>2, <3>1
    <3> QED BY <3>1, <3>2
  <2> QED BY <2>1, <2>2
<1>4. begin <= end + 1 /\ end + 1 <= Len(cells2) /\ Len(v) = end + 1 - begin
  BY <1>1, <1>2
<1>5. Holds(cells2, begin, end + 1, v)
  BY <1>3, <1>4 DEF Holds
<1> QED BY <1>1, <1>5 DEF v

(* Bytes are read off the beginning, or cut off at the end.                *)
LEMMA HoldsRest ==
  ASSUME NEW cells \in Seq(Cells), NEW begin \in Nat, NEW end \in Nat, NEW w \in Seq(Cells),
         Holds(cells, begin, end, w), NEW k \in Nat, begin + k <= end
  PROVE  /\ Holds(cells, begin + k, end, SubSeq(w, k + 1, Len(w)))
         /\ SubSeq(w, k + 1, Len(w)) \in Seq(Cells)
<1> DEFINE v == SubSeq(w, k + 1, Len(w))
<1>1. /\ begin <= end /\ end <= Len(cells) /\ Len(w) = end - begin /\ Len(w) \in Nat
      /\ \A i \in 1 .. end - begin : w[i] = cells[begin + i]
  BY LenProperties DEF Holds
<1>2. \A i \in k + 1 .. Len(w) : w[i] \in Cells
  <2> TAKE i \in k + 1 .. Len(w)
  <2>1. i \in 1 .. Len(w)
    BY <1>1
  <2> QED BY <2>1, ElementOfSeq
<1>3. k + 1 \in Int /\ Len(w) \in Int
  BY <1>1
<1>4. /\ v \in Seq(Cells)
      /\ Len(v) = IF k + 1 <= Len(w) THEN Len(w) - (k + 1) + 1 ELSE 0
      /\ \A i \in 1 .. Len(w) - (k + 1) + 1 : v[i] = w[(k + 1) + i - 1]
  BY <1>2, <1>3, SubSeqProperties
<1> HIDE DEF v
<1>5. Len(v) = end - (begin + k)
  BY <1>1, <1>4
<1>6. \A i \in 1 .. end - (begin + k) : v[i] = cells[(begin + k) + i]
  <2> TAKE i \in 1 .. end - (begin + k)
  <2>1. /\ i \in 1 .. Len(w) - (k + 1) + 1 /\ (k + 1) + i - 1 \in 1 .. end - begin
        /\ begin + ((k + 1) + i - 1) = (begin + k) + i
    BY <1>1
  <2> QED BY <1>1, <1>4, <2>1
<1>7. Holds(cells, begin + k, end, v)
  BY <1>1, <1>5, <1>6 DEF Holds
<1> QED BY <1>4, <1>7 DEF v

LEMMA HoldsFirst ==
  ASSUME NEW cells \in Seq(Cells), NEW begin \in Nat, NEW end \in Nat, NEW w \in Seq(Cells),
         Holds(cells, begin, end, w), NEW k \in begin .. end
  PROVE  /\ Holds(cells, begin, k, SubSeq(w, 1, k - begin))
         /\ SubSeq(w, 1, k - begin) \in Seq(Cells)
<1> DEFINE m == k - begin
           v == SubSeq(w, 1, m)
<1>1. /\ begin <= end /\ end <= Len(cells) /\ Len(w) = end - begin /\ Len(w) \in Nat
      /\ Len(cells) \in Nat
      /\ \A i \in 1 .. end - begin : w[i] = cells[begin + i]
  BY LenProperties DEF Holds
<1>2. m \in Nat /\ m <= Len(w) /\ k = begin + m
  BY <1>1
<1> HIDE DEF m
<1>3. \A i \in 1 .. m : w[i] \in Cells
  <2> TAKE i \in 1 .. m
  <2>1. i \in 1 .. Len(w)
    BY <1>1, <1>2
  <2> QED BY <2>1, ElementOfSeq
<1>4. 1 \in Int /\ m \in Int
  BY <1>2
<1>5. /\ v \in Seq(Cells)
      /\ Len(v) = IF 1 <= m THEN m - 1 + 1 ELSE 0
      /\ \A i \in 1 .. m - 1 + 1 : v[i] = w[1 + i - 1]
  BY <1>3, <1>4, SubSeqProperties
<1> HIDE DEF v
<1>6. Len(v) = k - begin
  BY <1>2, <1>5
<1>7. \A i \in 1 .. k - begin : v[i] = cells[begin + i]
  <2> TAKE i \in 1 .. k - begin
  <2>1. i \in 1 .. m - 1 + 1 /\ 1 + i - 1 = i /\ i \in 1 .. end - begin
    BY <1>1, <1>2
  <2> QED BY <1>1, <1>5, <2>1
<1>8. begin <= k /\ k <= Len(cells)
  BY <1>1, <1>2
<1>9. Holds(cells, begin, k, v)
  BY <1>6, <1>7, <1>8 DEF Holds
<1> QED BY <1>5, <1>9 DEF v, m

-----------------------------------------------------------------------------
(* Cells: fresh ones, a grown block, a byte written.                       *)
LEMMA BlankIs ==
  ASSUME NEW k \in Nat
  PROVE  Buf!Blank(k) \in Seq(Cells) /\ Len(Buf!Blank(k)) = k
<1>1. Buf!Unset \in Cells
  BY DEF Cells, Buf!Cells
<1>2. Buf!Blank(k) = [i \in 1 .. k |-> Buf!Unset]
  BY DEF Buf!Blank
<1> HIDE DEF Cells
<1> QED BY <1>1, <1>2

LEMMA GrownIs ==
  ASSUME NEW cells \in Seq(Cells), NEW k \in Nat, Len(cells) <= k
  PROVE  /\ Buf!Grown(cells, k) \in Seq(Cells) /\ Len(Buf!Grown(cells, k)) = k
         /\ \A i \in 1 .. Len(cells) : Buf!Grown(cells, k)[i] = cells[i]
<1> DEFINE m == k - Len(cells)
           b == Buf!Blank(m)
<1>1. Len(cells) \in Nat /\ m \in Nat /\ Len(cells) + m = k
  BY LenProperties
<1>2. b \in Seq(Cells) /\ Len(b) = m
  BY <1>1, BlankIs
<1>3. Buf!Grown(cells, k) = cells \o b
  BY DEF Buf!Grown
<1> HIDE DEF b, m
<1>4. /\ cells \o b \in Seq(Cells) /\ Len(cells \o b) = Len(cells) + Len(b)
      /\ \A i \in 1 .. Len(cells) + Len(b) :
           (cells \o b)[i] = IF i <= Len(cells) THEN cells[i] ELSE b[i - Len(cells)]
  BY <1>2, ConcatProperties
<1>5. \A i \in 1 .. Len(cells) : (cells \o b)[i] = cells[i]
  BY <1>1, <1>2, <1>4
<1> QED BY <1>1, <1>2, <1>3, <1>4, <1>5

LEMMA OverwriteIs ==
  ASSUME NEW cells \in Seq(Cells), NEW place \in Nat, NEW c \in Cells
  PROVE  LET o == Buf!Overwrite(cells, place, <<c>>)
         IN  /\ o \in Seq(Cells) /\ Len(o) = Len(cells)
             /\ place < Len(cells) => o[place + 1] = c
             /\ \A i \in 1 .. Len(cells) : i # place + 1 => o[i] = cells[i]
<1> DEFINE o == Buf!Overwrite(cells, place, <<c>>)
<1>1. Len(cells) \in Nat /\ DOMAIN cells = 1 .. Len(cells)
  BY LenProperties
<1>2. o = [i \in 1 .. Len(cells) |-> IF i = place + 1 THEN c ELSE cells[i]]
  <2>1. Len(<<c>>) = 1 /\ <<c>>[1] = c
    OBVIOUS
  <2>2. \A i \in 1 .. Len(cells) : i \in place + 1 .. place + Len(<<c>>) <=> i = place + 1
    BY <2>1
  <2>3. \A i \in 1 .. Len(cells) : i = place + 1 => <<c>>[i - place] = c
    BY <2>1
  <2> QED BY <1>1, <2>2, <2>3 DEF Buf!Overwrite
<1>3. \A i \in 1 .. Len(cells) : cells[i] \in Cells
  BY ElementOfSeq
<1> HIDE DEF o, Cells
<1>4. o \in Seq(Cells) /\ Len(o) = Len(cells)
  BY <1>1, <1>2, <1>3
<1>5. place < Len(cells) => o[place + 1] = c
  BY <1>1, <1>2
<1>6. \A i \in 1 .. Len(cells) : i # place + 1 => o[i] = cells[i]
  BY <1>2
<1> QED BY <1>4, <1>5, <1>6 DEF o

-----------------------------------------------------------------------------
(* A ByteBuffer: its indices are in its block, and if it owns the block    *)
(* its data are w.                                                         *)
ByteBufferValues == [cells : Seq(Cells), begin : Nat, end : Nat, owner : BOOLEAN]
BufferIs(b, w) ==
  /\ b \in ByteBufferValues /\ w \in Seq(Cells)
  /\ b.begin <= b.end /\ b.end <= Len(b.cells)
  /\ b.owner => Holds(b.cells, b.begin, b.end, w)

LEMMA NewIs ==
  ASSUME NEW k \in Nat
  PROVE  BufferIs(Buf!NewBuffer(k), << >>)
<1>1. Buf!Blank(k) \in Seq(Cells) /\ Len(Buf!Blank(k)) = k
  BY BlankIs
<1>2. Buf!NewBuffer(k) = [cells |-> Buf!Blank(k), begin |-> 0, end |-> 0, owner |-> TRUE]
  BY DEF Buf!NewBuffer
<1>3. Holds(Buf!Blank(k), 0, 0, << >>) /\ << >> \in Seq(Cells)
  BY <1>1, HoldsNothing
<1> HIDE DEF Cells
<1> QED BY <1>1, <1>2, <1>3 DEF BufferIs, ByteBufferValues

(* A value whose parts are as they should be.                              *)
LEMMA PartsOf ==
  ASSUME NEW b \in ByteBufferValues
  PROVE  /\ b.cells \in Seq(Cells) /\ b.begin \in Nat /\ b.end \in Nat /\ b.owner \in BOOLEAN
         /\ Len(b.cells) \in Nat
BY LenProperties DEF ByteBufferValues

(* write(): a byte, and the NUL of c_str() that is not counted.            *)
LEMMA WriteIs ==
  ASSUME NEW b, NEW w, BufferIs(b, w), NEW c \in Cells, b.owner
  PROVE  LET v == Buf!Write(b, <<c>>)
         IN  /\ v \in ByteBufferValues /\ v.begin = b.begin /\ v.end = b.end + 1 /\ v.owner
             /\ v.end <= Len(v.cells) /\ v.cells[b.end + 1] = c
             /\ \A i \in 1 .. b.end : v.cells[i] = b.cells[i]
<1> DEFINE m == Len(b.cells)
           k == IF Buf!FreeSize(b) >= Len(<<c>>) THEN Buf!BufferSize(b)
                ELSE 2 * Buf!BufferSize(b) + Len(<<c>>)
           g == Buf!Grown(b.cells, k)
           o == Buf!Overwrite(g, b.end, <<c>>)
           v == Buf!Write(b, <<c>>)
<1>1. /\ b \in ByteBufferValues /\ b.cells \in Seq(Cells) /\ b.begin \in Nat /\ b.end \in Nat
      /\ m \in Nat /\ b.end <= m
  BY PartsOf DEF BufferIs
<1>2. Len(<<c>>) = 1
  OBVIOUS
<1>3. k \in Nat /\ m <= k /\ b.end < k
  BY <1>1, <1>2 DEF Buf!FreeSize, Buf!BufferSize
<1>4. v = [b EXCEPT !.cells = o, !.end = @ + 1]
  BY <1>2 DEF Buf!Write
<1> HIDE DEF k
<1>5. g \in Seq(Cells) /\ Len(g) = k /\ \A i \in 1 .. m : g[i] = b.cells[i]
  BY <1>1, <1>3, GrownIs
<1> HIDE DEF g
<1>6. /\ o \in Seq(Cells) /\ Len(o) = k /\ o[b.end + 1] = c
      /\ \A i \in 1 .. k : i # b.end + 1 => o[i] = g[i]
  BY <1>1, <1>3, <1>5, OverwriteIs
<1> HIDE DEF o, v
<1>7. \A i \in 1 .. b.end : o[i] = b.cells[i]
  <2> TAKE i \in 1 .. b.end
  <2>1. i \in 1 .. k /\ i \in 1 .. m /\ i # b.end + 1
    BY <1>1, <1>3
  <2> QED BY <1>5, <1>6, <2>1
<1> HIDE DEF m
<1>8. v.cells = o /\ v.begin = b.begin /\ v.end = b.end + 1 /\ v.owner = b.owner
  BY <1>1, <1>4 DEF ByteBufferValues
<1>9. v \in ByteBufferValues
  <2>1. b.end + 1 \in Nat
    BY <1>1
  <2> QED BY <1>1, <1>4, <1>6, <2>1 DEF ByteBufferValues
<1>10. v.end <= Len(v.cells)
  BY <1>1, <1>3, <1>6, <1>8
<1> QED BY <1>6, <1>7, <1>8, <1>9, <1>10 DEF v

LEMMA WriteHolds ==
  ASSUME NEW b, NEW w, BufferIs(b, w), NEW c \in Cells
  PROVE  BufferIs(Buf!Write(b, <<c>>), IF b.owner THEN Append(w, c) ELSE w)
<1>1. CASE ~b.owner
  BY <1>1 DEF Buf!Write
<1>2. CASE b.owner
  <2> DEFINE v == Buf!Write(b, <<c>>)
  <2>1. /\ v \in ByteBufferValues /\ v.begin = b.begin /\ v.end = b.end + 1 /\ v.owner
        /\ v.end <= Len(v.cells) /\ v.cells[b.end + 1] = c
        /\ \A i \in 1 .. b.end : v.cells[i] = b.cells[i]
    BY <1>2, WriteIs
  <2> HIDE DEF v
  <2>2. /\ b.cells \in Seq(Cells) /\ b.begin \in Nat /\ b.end \in Nat /\ w \in Seq(Cells)
        /\ b.begin <= b.end /\ Holds(b.cells, b.begin, b.end, w) /\ Len(v.cells) \in Nat
    BY <1>2, <2>1, PartsOf DEF BufferIs
  <2>3. b.end < Len(v.cells)
    BY <2>1, <2>2
  <2> DEFINE g == v.cells
  <2>a. /\ Len(g) \in Nat /\ b.end < Len(g) /\ g[b.end + 1] = c
        /\ \A i \in 1 .. b.end : g[i] = b.cells[i]
    BY <2>1, <2>2, <2>3
  <2> HIDE DEF g
  <2>4. Holds(g, b.begin, b.end + 1, Append(w, c)) /\ Append(w, c) \in Seq(Cells)
    BY <2>2, <2>a, HoldsOneMore
  <2>5. v.begin <= v.end
    BY <2>1, <2>2
  <2>6. BufferIs(v, Append(w, c))
    BY <2>1, <2>4, <2>5 DEF BufferIs, g
  <2> QED BY <1>2, <2>6 DEF v
<1> QED BY <1>1, <1>2

LEMMA CStrHolds ==
  ASSUME NEW b, NEW w, BufferIs(b, w)
  PROVE  BufferIs(Buf!CStr(b), w)
<1>1. CASE Buf!CStr(b) = b
  BY <1>1
<1>2. CASE Buf!CStr(b) # b
  <2> DEFINE v == Buf!Write(b, <<"NUL">>)
             u == [v EXCEPT !.end = @ - 1]
  <2>0. b.owner /\ Buf!CStr(b) = u
    BY <1>2 DEF Buf!CStr, BufferIs, ByteBufferValues
  <2>1. "NUL" \in Cells
    BY DEF Cells, Buf!Cells
  <2>2. /\ v \in ByteBufferValues /\ v.begin = b.begin /\ v.end = b.end + 1 /\ v.owner
        /\ v.end <= Len(v.cells) /\ \A i \in 1 .. b.end : v.cells[i] = b.cells[i]
    BY <2>0, <2>1, WriteIs
  <2> HIDE DEF v
  <2>3. /\ b.cells \in Seq(Cells) /\ b.begin \in Nat /\ b.end \in Nat /\ w \in Seq(Cells)
        /\ b.begin <= b.end /\ Holds(b.cells, b.begin, b.end, w) /\ Len(v.cells) \in Nat
    BY <2>0, <2>2, PartsOf DEF BufferIs
  <2>4. b.end <= Len(v.cells)
    BY <2>2, <2>3
  <2>5. Holds(v.cells, b.begin, b.end, w)
    BY <2>2, <2>3, <2>4, HoldsStill
  <2>6. /\ u.cells = v.cells /\ u.begin = b.begin /\ u.end = b.end /\ u.owner = v.owner
        /\ u \in ByteBufferValues
    <3>1. v.end - 1 = b.end
      BY <2>2, <2>3
    <3> QED BY <2>2, <2>3, <3>1 DEF ByteBufferValues
  <2> HIDE DEF u
  <2>7. BufferIs(u, w)
    BY <2>3, <2>4, <2>5, <2>6 DEF BufferIs
  <2> QED BY <2>0, <2>7
<1> QED BY <1>1, <1>2

LEMMA ReadHolds ==
  ASSUME NEW b, NEW w, BufferIs(b, w), b.owner, NEW k \in Nat
  PROVE  BufferIs(Buf!AfterRead(b, k), IF k <= Len(w) THEN SubSeq(w, k + 1, Len(w)) ELSE w)
<1>1. /\ b.cells \in Seq(Cells) /\ b.begin \in Nat /\ b.end \in Nat /\ w \in Seq(Cells)
      /\ b.begin <= b.end /\ Holds(b.cells, b.begin, b.end, w) /\ b \in ByteBufferValues
      /\ b.end <= Len(b.cells)
  BY PartsOf DEF BufferIs
<1>2. Len(w) = b.end - b.begin
  BY DEF BufferIs, Holds
<1>3. Buf!CanRead(b, k) <=> k <= Len(w)
  BY <1>1, <1>2 DEF Buf!CanRead, Buf!DataSize
<1>4. CASE k <= Len(w)
  <2> DEFINE v == SubSeq(w, k + 1, Len(w))
             u == [b EXCEPT !.begin = @ + k]
  <2>1. b.begin + k <= b.end /\ b.begin + k \in Nat
    BY <1>1, <1>2, <1>4
  <2>2. Holds(b.cells, b.begin + k, b.end, v) /\ v \in Seq(Cells)
    BY <1>1, <2>1, HoldsRest
  <2>3. Buf!AfterRead(b, k) = u
    BY <1>3, <1>4 DEF Buf!AfterRead
  <2> HIDE DEF v
  <2>4. /\ u.cells = b.cells /\ u.begin = b.begin + k /\ u.end = b.end
        /\ u.owner = b.owner /\ u \in ByteBufferValues
    BY <1>1, <2>1 DEF ByteBufferValues
  <2> HIDE DEF u
  <2>5. BufferIs(u, v)
    BY <1>1, <2>1, <2>2, <2>4 DEF BufferIs
  <2> QED BY <1>4, <2>3, <2>5 DEF v
<1>5. CASE ~(k <= Len(w))
  BY <1>3, <1>5 DEF Buf!AfterRead
<1> QED BY <1>4, <1>5

LEMMA ReceiveHolds ==
  ASSUME NEW b, NEW w, BufferIs(b, w), b.owner, NEW c \in Cells
  PROVE  BufferIs(Buf!Advance([b EXCEPT !.cells = Buf!Overwrite(@, b.end, <<c>>)], 1),
                  IF Buf!FreeSize(b) > 0 THEN Append(w, c) ELSE w)
<1> DEFINE o == Buf!Overwrite(b.cells, b.end, <<c>>)
           v == [b EXCEPT !.cells = Buf!Overwrite(@, b.end, <<c>>)]
           u == [v EXCEPT !.end = @ + 1]
<1>1. /\ b.cells \in Seq(Cells) /\ b.begin \in Nat /\ b.end \in Nat /\ w \in Seq(Cells)
      /\ b.begin <= b.end /\ Holds(b.cells, b.begin, b.end, w) /\ b \in ByteBufferValues
      /\ b.end <= Len(b.cells) /\ Len(b.cells) \in Nat
  BY PartsOf DEF BufferIs
<1>2. /\ o \in Seq(Cells) /\ Len(o) = Len(b.cells)
      /\ b.end < Len(b.cells) => o[b.end + 1] = c
      /\ \A i \in 1 .. Len(b.cells) : i # b.end + 1 => o[i] = b.cells[i]
  BY <1>1, OverwriteIs
<1> HIDE DEF o
<1>3. /\ v \in ByteBufferValues /\ v.cells = o /\ v.begin = b.begin /\ v.end = b.end
      /\ v.owner = b.owner
  BY <1>1, <1>2 DEF ByteBufferValues, o
<1> HIDE DEF v
<1>4. \A i \in 1 .. b.end : o[i] = b.cells[i]
  <2> TAKE i \in 1 .. b.end
  <2>1. i \in 1 .. Len(b.cells) /\ i # b.end + 1
    BY <1>1
  <2> QED BY <1>2, <2>1
<1>5. Buf!FreeSize(b) > 0 <=> b.end + 1 <= Len(b.cells)
  BY <1>1 DEF Buf!FreeSize, Buf!BufferSize
<1>6. Buf!BufferSize(v) = Len(b.cells)
  BY <1>2, <1>3 DEF Buf!BufferSize
<1>7. CASE b.end + 1 <= Len(b.cells)
  <2>1. Buf!Advance(v, 1) = u
    BY <1>3, <1>6, <1>7 DEF Buf!Advance
  <2>2. b.end < Len(o) /\ o[b.end + 1] = c /\ Len(o) \in Nat
    BY <1>1, <1>2, <1>7
  <2>3. Holds(o, b.begin, b.end + 1, Append(w, c)) /\ Append(w, c) \in Seq(Cells)
    BY <1>1, <1>4, <2>2, HoldsOneMore
  <2>4. /\ u.cells = o /\ u.begin = b.begin /\ u.end = b.end + 1 /\ u.owner = b.owner
        /\ u \in ByteBufferValues
    <3>1. v.end + 1 = b.end + 1 /\ b.end + 1 \in Nat
      BY <1>1, <1>3
    <3> QED BY <1>1, <1>3, <3>1 DEF ByteBufferValues
  <2> HIDE DEF u
  <2>5. b.begin <= b.end + 1 /\ b.end + 1 <= Len(o)
    BY <1>1, <2>2
  <2>6. BufferIs(u, Append(w, c))
    BY <2>3, <2>4, <2>5 DEF BufferIs
  <2> QED BY <1>5, <1>7, <2>1, <2>6 DEF v
<1>8. CASE ~(b.end + 1 <= Len(b.cells))
  <2>1. Buf!Advance(v, 1) = v
    BY <1>3, <1>6, <1>8 DEF Buf!Advance
  <2>2. Holds(o, b.begin, b.end, w)
    BY <1>1, <1>2, <1>4, HoldsStill
  <2>3. BufferIs(v, w)
    BY <1>1, <1>2, <1>3, <2>2 DEF BufferIs
  <2> QED BY <1>5, <1>8, <2>1, <2>3 DEF v
<1> QED BY <1>7, <1>8

LEMMA ReserveHolds ==
  ASSUME NEW b, NEW w, BufferIs(b, w), NEW k \in Nat
  PROVE  BufferIs(Buf!Reserve(b, k), IF b.owner /\ k <= Buf!BufferSize(b) THEN w ELSE << >>)
<1>1. b.cells \in Seq(Cells) /\ Len(b.cells) \in Nat
  BY PartsOf DEF BufferIs
<1>2. CASE b.owner /\ k <= Buf!BufferSize(b)
  BY <1>2 DEF Buf!Reserve
<1>3. CASE ~(b.owner /\ k <= Buf!BufferSize(b))
  <2> DEFINE g == IF b.owner THEN Buf!Grown(b.cells, k) ELSE Buf!Blank(k)
             u == [cells |-> g, begin |-> 0, end |-> 0, owner |-> TRUE]
  <2>1. Buf!Reserve(b, k) = u
    BY <1>3 DEF Buf!Reserve
  <2>2. g \in Seq(Cells) /\ 0 <= Len(g)
    <3>1. CASE b.owner
      <4>1. Len(b.cells) <= k
        BY <1>1, <1>3, <3>1 DEF Buf!BufferSize
      <4>2. Buf!Grown(b.cells, k) \in Seq(Cells) /\ Len(Buf!Grown(b.cells, k)) = k
        BY <1>1, <4>1, GrownIs
      <4> QED BY <3>1, <4>2
    <3>2. CASE ~b.owner
      BY <3>2, BlankIs
    <3> QED BY <3>1, <3>2
  <2> HIDE DEF g
  <2>3. Holds(g, 0, 0, << >>) /\ << >> \in Seq(Cells)
    BY <2>2, HoldsNothing
  <2>4. u \in ByteBufferValues
    BY <2>2 DEF ByteBufferValues
  <2>5. BufferIs(u, << >>)
    BY <2>2, <2>3, <2>4 DEF BufferIs
  <2> QED BY <1>3, <2>1, <2>5
<1> QED BY <1>2, <1>3

(* data_end(), within the data, and data_begin(), which may go beyond them.*)
LEMMA EndHolds ==
  ASSUME NEW b, NEW w, BufferIs(b, w), b.owner, NEW k \in b.begin .. b.end
  PROVE  BufferIs(Buf!SetEnd(b, k), SubSeq(w, 1, k - b.begin))
<1> DEFINE u == Buf!SetEnd(b, k)
           v == SubSeq(w, 1, k - b.begin)
<1>1. /\ b.cells \in Seq(Cells) /\ b.begin \in Nat /\ b.end \in Nat /\ w \in Seq(Cells)
      /\ b.begin <= b.end /\ Holds(b.cells, b.begin, b.end, w) /\ b \in ByteBufferValues
      /\ b.end <= Len(b.cells) /\ Len(b.cells) \in Nat
  BY PartsOf DEF BufferIs
<1>2. k \in Nat /\ b.begin <= k /\ k <= b.end /\ k <= Len(b.cells)
  BY <1>1
<1>3. Buf!Least(k, Buf!BufferSize(b)) = k /\ Buf!Least(b.begin, k) = b.begin
  BY <1>1, <1>2 DEF Buf!Least, Buf!BufferSize
<1>4. u = [b EXCEPT !.end = k, !.begin = b.begin]
  BY <1>3 DEF Buf!SetEnd
<1> HIDE DEF u
<1>5. /\ u.cells = b.cells /\ u.begin = b.begin /\ u.end = k /\ u.owner = b.owner
      /\ u \in ByteBufferValues
  BY <1>1, <1>2, <1>4 DEF ByteBufferValues
<1>6. Holds(b.cells, b.begin, k, v) /\ v \in Seq(Cells)
  BY <1>1, HoldsFirst
<1> HIDE DEF v
<1>7. BufferIs(u, v)
  BY <1>1, <1>2, <1>5, <1>6 DEF BufferIs
<1> QED BY <1>7 DEF u, v

LEMMA BeginHolds ==
  ASSUME NEW b, NEW w, BufferIs(b, w), b.owner, NEW k \in Nat, k >= b.begin
  PROVE  BufferIs(Buf!SetBegin(b, k), SubSeq(w, k - b.begin + 1, Len(w)))
<1> DEFINE u == Buf!SetBegin(b, k)
           j == k - b.begin
           v == SubSeq(w, j + 1, Len(w))
<1>1. /\ b.cells \in Seq(Cells) /\ b.begin \in Nat /\ b.end \in Nat /\ w \in Seq(Cells)
      /\ b.begin <= b.end /\ Holds(b.cells, b.begin, b.end, w) /\ b \in ByteBufferValues
      /\ b.end <= Len(b.cells) /\ Len(b.cells) \in Nat /\ Len(w) = b.end - b.begin
  BY PartsOf DEF BufferIs, Holds
<1>2. j \in Nat /\ b.begin + j = k
  BY <1>1
<1> HIDE DEF j
<1>3. CASE k <= b.end
  <2>1. Buf!Least(k, Buf!BufferSize(b)) = k
    BY <1>1, <1>3 DEF Buf!Least, Buf!BufferSize
  <2>2. u = [b EXCEPT !.begin = k, !.end = b.end]
    <3>1. (IF b.end < k THEN k ELSE b.end) = b.end
      BY <1>1, <1>2, <1>3
    <3> QED BY <2>1, <3>1 DEF Buf!SetBegin
  <2> HIDE DEF u
  <2>3. /\ u.cells = b.cells /\ u.begin = k /\ u.end = b.end /\ u.owner = b.owner
        /\ u \in ByteBufferValues
    BY <1>1, <2>2 DEF ByteBufferValues
  <2>4. Holds(b.cells, b.begin + j, b.end, v) /\ v \in Seq(Cells)
    BY <1>1, <1>2, <1>3, HoldsRest
  <2> HIDE DEF v
  <2>5. BufferIs(u, v)
    BY <1>1, <1>2, <1>3, <2>3, <2>4 DEF BufferIs
  <2> QED BY <2>5 DEF u, v, j
<1>4. CASE ~(k <= b.end)
  <2> DEFINE i == Buf!Least(k, Buf!BufferSize(b))
  <2>1. i \in Nat /\ b.end <= i /\ i <= Len(b.cells)
    BY <1>1, <1>4 DEF Buf!Least, Buf!BufferSize
  <2>2. u = [b EXCEPT !.begin = i, !.end = i]
    <3>1. (IF b.end < i THEN i ELSE b.end) = i
      BY <1>1, <2>1
    <3> QED BY <3>1 DEF Buf!SetBegin
  <2> HIDE DEF u, i
  <2>3. /\ u.cells = b.cells /\ u.begin = i /\ u.end = i /\ u.owner = b.owner
        /\ u \in ByteBufferValues
    BY <1>1, <2>1, <2>2 DEF ByteBufferValues
  <2>4. v = << >>
    <3>1. j + 1 > Len(w) /\ j + 1 \in Int /\ Len(w) \in Int
      BY <1>1, <1>2, <1>4
    <3> QED BY <3>1, SubSeqEmpty
  <2>5. Holds(b.cells, i, i, << >>) /\ << >> \in Seq(Cells)
    BY <1>1, <2>1, HoldsNothing
  <2>6. BufferIs(u, << >>)
    BY <2>1, <2>3, <2>5 DEF BufferIs
  <2> QED BY <2>4, <2>6 DEF u, v, j
<1> QED BY <1>3, <1>4

(* reset(), data(bytes, size, owner), and a block that changes hands.      *)
LEMMA ResetHolds ==
  ASSUME NEW b, NEW w, BufferIs(b, w)
  PROVE  BufferIs(Buf!ResetBuffer(b), << >>)
<1> DEFINE u == Buf!ResetBuffer(b)
<1>1. b.cells \in Seq(Cells) /\ b \in ByteBufferValues /\ Len(b.cells) \in Nat
  BY PartsOf DEF BufferIs
<1>2. u = [b EXCEPT !.begin = 0, !.end = 0]
  BY DEF Buf!ResetBuffer
<1> HIDE DEF u
<1>3. /\ u.cells = b.cells /\ u.begin = 0 /\ u.end = 0 /\ u.owner = b.owner
      /\ u \in ByteBufferValues
  BY <1>1, <1>2 DEF ByteBufferValues
<1>4. Holds(b.cells, 0, 0, << >>) /\ << >> \in Seq(Cells)
  BY <1>1, HoldsNothing
<1>5. BufferIs(u, << >>)
  BY <1>1, <1>3, <1>4 DEF BufferIs
<1> QED BY <1>5 DEF u

LEMMA ByteHeld ==
  ASSUME NEW c \in Cells
  PROVE  <<c>> \in Seq(Cells) /\ Len(<<c>>) = 1 /\ Holds(<<c>>, 0, 1, <<c>>)
<1>1. <<c>> \in Seq(Cells) /\ Len(<<c>>) = 1
  OBVIOUS
<1>2. \A i \in 1 .. 1 : <<c>>[i] = <<c>>[0 + i]
  OBVIOUS
<1> QED BY <1>1, <1>2 DEF Holds

LEMMA DataHolds ==
  ASSUME NEW b, NEW w, BufferIs(b, w), NEW c \in Cells, NEW owner \in BOOLEAN
  PROVE  BufferIs(Buf!SetData(b, <<c>>, owner), <<c>>)
<1> DEFINE u == [cells |-> <<c>>, begin |-> 0, end |-> 1, owner |-> owner]
<1>1. <<c>> \in Seq(Cells) /\ Len(<<c>>) = 1 /\ Holds(<<c>>, 0, 1, <<c>>)
  BY ByteHeld
<1>2. <<c>> # << >>
  OBVIOUS
<1>3. Buf!SetData(b, <<c>>, owner) = u
  BY <1>1, <1>2 DEF Buf!SetData
<1>4. u \in ByteBufferValues
  BY <1>1 DEF ByteBufferValues
<1>5. BufferIs(u, <<c>>)
  BY <1>1, <1>4 DEF BufferIs
<1> QED BY <1>3, <1>5

LEMMA HandsHold ==
  ASSUME NEW b, NEW w, BufferIs(b, w)
  PROVE  /\ BufferIs(Buf!Given(b), w)
         /\ BufferIs(Buf!Taken(b), IF b.owner THEN w ELSE << >>)
<1>1. b \in ByteBufferValues /\ w \in Seq(Cells) /\ b.begin <= b.end /\ b.end <= Len(b.cells)
  BY DEF BufferIs
<1>2. BufferIs(Buf!Given(b), w)
  <2> DEFINE u == [b EXCEPT !.owner = FALSE]
  <2>1. /\ u.cells = b.cells /\ u.begin = b.begin /\ u.end = b.end /\ u.owner = FALSE
        /\ u \in ByteBufferValues
    BY <1>1 DEF ByteBufferValues
  <2> HIDE DEF u
  <2>2. BufferIs(u, w)
    BY <1>1, <2>1 DEF BufferIs
  <2> QED BY <2>2 DEF u, Buf!Given
<1>3. ASSUME ~b.owner
      PROVE  BufferIs(Buf!NoData, << >>)
  BY EmptySeq DEF Buf!NoData, BufferIs, ByteBufferValues
<1> QED BY <1>2, <1>3 DEF Buf!Taken

-----------------------------------------------------------------------------
(* The SharedBuffers: each block is counted once for each of its holders.  *)
HoldersOf(S, k) == { s \in SharedBuffers : S[s] # None /\ S[s].block = k }

Counted(B, S) ==
  /\ B \in [Blocks -> Buf!BlockValues \cup {None}]
  /\ S \in [SharedBuffers -> Buf!Windows \cup {None}]
  /\ \A k \in Blocks : B[k] # None => B[k].use <= Len(B[k].cells)
  /\ \A k \in Blocks : IF B[k] = None THEN HoldersOf(S, k) = {}
                       ELSE HoldersOf(S, k) # {} /\ B[k].count = Cardinality(HoldersOf(S, k))

LEMMA BuffersAssumed ==
  /\ None \notin Buf!BlockValues /\ None \notin Buf!Windows
  /\ "NUL" \in Cells /\ Buf!Unset \in Cells /\ Bytes \subseteq Cells
  /\ BufferSizes \subseteq Nat \ {0} /\ ByteBuffers \cap SharedBuffers = {}
  /\ IsFiniteSet(SharedBuffers) /\ IsFiniteSet(Blocks)
  /\ Cardinality(Blocks) > Cardinality(SharedBuffers)
BY SequentialAssumption DEF Buf!BuffersAssumption, Cells, Buf!Cells, Buf!IsFiniteSet,
   IsFiniteSet, Buf!Cardinality, Cardinality

LEMMA BlockParts ==
  ASSUME NEW v \in Buf!BlockValues
  PROVE  /\ v.cells \in Seq(Cells) /\ v.use \in Nat /\ v.count \in Nat /\ v.owner \in BOOLEAN
         /\ Len(v.cells) \in Nat
BY LenProperties DEF Buf!BlockValues, Cells

LEMMA HoldersFinite ==
  ASSUME NEW S, NEW k
  PROVE  IsFiniteSet(HoldersOf(S, k)) /\ Cardinality(HoldersOf(S, k)) \in Nat
<1>1. HoldersOf(S, k) \in SUBSET SharedBuffers
  BY DEF HoldersOf
<1>2. IsFiniteSet(HoldersOf(S, k))
  BY <1>1, BuffersAssumed, FS_Subset
<1> QED BY <1>2, FS_CardinalityType

(* A SharedBuffer that holds a block.                                      *)
LEMMA HolderIs ==
  ASSUME NEW B, NEW S, Counted(B, S), NEW s \in SharedBuffers, S[s] # None
  PROVE  /\ S[s] \in Buf!Windows /\ S[s].block \in Blocks
         /\ S[s].begin \in Nat /\ S[s].end \in Nat
         /\ B[S[s].block] \in Buf!BlockValues /\ B[S[s].block] # None
         /\ s \in HoldersOf(S, S[s].block)
<1>1. S[s] \in Buf!Windows
  BY DEF Counted
<1>2. S[s].block \in Blocks /\ S[s].begin \in Nat /\ S[s].end \in Nat
  BY <1>1 DEF Buf!Windows
<1>3. s \in HoldersOf(S, S[s].block)
  BY DEF HoldersOf
<1>4. B[S[s].block] # None
  BY <1>2, <1>3 DEF Counted
<1>5. B[S[s].block] \in Buf!BlockValues
  BY <1>2, <1>4 DEF Counted
<1> QED BY <1>1, <1>2, <1>3, <1>4, <1>5

(* There is always a block that nobody holds.                              *)
LEMMA BlockIsFree ==
  ASSUME NEW B, NEW S, Counted(B, S)
  PROVE  \E k \in Blocks : B[k] = None
<1> SUFFICES ASSUME \A k \in Blocks : B[k] # None
             PROVE  FALSE
  OBVIOUS
<1> DEFINE f == [k \in Blocks |-> CHOOSE s : s \in HoldersOf(S, k)]
<1>1. \A k \in Blocks : f[k] \in HoldersOf(S, k)
  <2> TAKE k \in Blocks
  <2>1. HoldersOf(S, k) # {}
    BY DEF Counted
  <2>2. \E s : s \in HoldersOf(S, k)
    BY <2>1
  <2> HIDE DEF HoldersOf
  <2> QED BY <2>2
<1>2. f = [k \in Blocks |-> f[k]]
  OBVIOUS
<1> HIDE DEF f
<1>3. f \in [Blocks -> SharedBuffers]
  <2>1. \A k \in Blocks : f[k] \in SharedBuffers
    BY <1>1 DEF HoldersOf
  <2> QED BY <1>2, <2>1
<1>4. Cardinality(SharedBuffers) < Cardinality(Blocks)
  <2>1. Cardinality(SharedBuffers) \in Nat /\ Cardinality(Blocks) \in Nat
    BY BuffersAssumed, FS_CardinalityType
  <2> QED BY <2>1, BuffersAssumed
<1>5. PICK x \in Blocks, y \in Blocks : x # y /\ f[x] = f[y]
  BY <1>3, <1>4, BuffersAssumed, FS_PigeonHole
<1>6. S[f[x]].block = x /\ S[f[y]].block = y
  BY <1>1 DEF HoldersOf
<1> QED BY <1>5, <1>6

LEMMA NewBlockIs ==
  ASSUME Counted(block, shared)
  PROVE  Buf!NewBlock \in Blocks /\ block[Buf!NewBlock] = None
<1>1. \E k \in Blocks : block[k] = None
  BY BlockIsFree
<1> QED BY <1>1 DEF Buf!NewBlock

(* release(): the holder leaves, and the last one deletes the block.       *)
LEMMA ReleaseCounts ==
  ASSUME NEW B, NEW S, Counted(B, S), NEW s \in SharedBuffers, S[s] # None
  PROVE  /\ Counted(Buf!Release(B, S[s].block), [S EXCEPT ![s] = None])
         /\ \A k \in Blocks : B[k] = None => Buf!Release(B, S[s].block)[k] = None
         /\ \A t \in SharedBuffers : t # s /\ S[t] # None =>
              Buf!Release(B, S[s].block)[S[t].block].cells = B[S[t].block].cells
<1> DEFINE k == S[s].block
           v == IF B[k].count = 1 THEN None ELSE [B[k] EXCEPT !.count = @ - 1]
           C == [B EXCEPT ![k] = v]
           T == [S EXCEPT ![s] = None]
<1>1. /\ S[s] \in Buf!Windows /\ k \in Blocks /\ B[k] \in Buf!BlockValues /\ B[k] # None
      /\ s \in HoldersOf(S, k)
  BY HolderIs
<1>2. Buf!Release(B, k) = C
  BY DEF Buf!Release
<1>3. /\ B \in [Blocks -> Buf!BlockValues \cup {None}]
      /\ S \in [SharedBuffers -> Buf!Windows \cup {None}]
  BY DEF Counted
<1>4. B[k].count = Cardinality(HoldersOf(S, k)) /\ B[k].use <= Len(B[k].cells)
  BY <1>1 DEF Counted
<1> DEFINE h == HoldersOf(S, k)
<1>5. IsFiniteSet(h) /\ Cardinality(h) \in Nat
  BY HoldersFinite
<1>6. Cardinality(h \ {s}) = Cardinality(h) - 1 /\ IsFiniteSet(h \ {s})
  BY <1>1, <1>5, FS_RemoveElement
<1>7. Cardinality(h \ {s}) \in Nat /\ (Cardinality(h \ {s}) = 0 <=> h \ {s} = {})
  BY <1>6, FS_CardinalityType, FS_EmptySet
<1>8. B[k].count # 1 =>
        /\ v \in Buf!BlockValues /\ v # None /\ v.count = B[k].count - 1
        /\ v.cells = B[k].cells /\ v.use = B[k].use
  <2> SUFFICES ASSUME B[k].count # 1
               PROVE  /\ v \in Buf!BlockValues /\ v # None /\ v.count = B[k].count - 1
                      /\ v.cells = B[k].cells /\ v.use = B[k].use
    OBVIOUS
  <2>1. v = [B[k] EXCEPT !.count = @ - 1]
    OBVIOUS
  <2>2. B[k].count - 1 \in Nat
    BY <1>4, <1>6, <1>7
  <2> HIDE DEF v, k
  <2>3. /\ v \in Buf!BlockValues /\ v.count = B[k].count - 1
        /\ v.cells = B[k].cells /\ v.use = B[k].use
    BY <1>1, <2>1, <2>2 DEF Buf!BlockValues
  <2> QED BY <2>3, BuffersAssumed
<1>9. B[k].count = 1 => v = None
  OBVIOUS
<1> HIDE DEF v, k
<1>10. /\ C \in [Blocks -> Buf!BlockValues \cup {None}]
       /\ T \in [SharedBuffers -> Buf!Windows \cup {None}]
       /\ \A j \in Blocks : C[j] = IF j = k THEN v ELSE B[j]
       /\ \A t \in SharedBuffers : T[t] = IF t = s THEN None ELSE S[t]
  <2>1. v \in Buf!BlockValues \cup {None}
    BY <1>8, <1>9
  <2> QED BY <1>1, <1>3, <2>1
<1> HIDE DEF C, T
<1>11. HoldersOf(T, k) = h \ {s}
  BY <1>10 DEF HoldersOf
<1>12. \A j \in Blocks : j # k => HoldersOf(T, j) = HoldersOf(S, j)
  BY <1>10 DEF HoldersOf, k
<1> HIDE DEF h
<1>13. ASSUME NEW j \in Blocks
       PROVE  /\ C[j] # None => C[j].use <= Len(C[j].cells)
              /\ IF C[j] = None THEN HoldersOf(T, j) = {}
                 ELSE HoldersOf(T, j) # {} /\ C[j].count = Cardinality(HoldersOf(T, j))
  <2>1. CASE j # k
    <3>1. C[j] = B[j] /\ HoldersOf(T, j) = HoldersOf(S, j)
      BY <1>10, <1>12, <2>1
    <3> QED BY <3>1 DEF Counted
  <2>2. CASE j = k /\ B[k].count = 1
    <3>1. C[j] = None
      BY <1>9, <1>10, <2>2
    <3>2. h \ {s} = {}
      BY <1>4, <1>6, <1>7, <2>2 DEF h
    <3> QED BY <1>11, <2>2, <3>1, <3>2
  <2>3. CASE j = k /\ B[k].count # 1
    <3>1. C[j] = v /\ v # None /\ v.use <= Len(v.cells)
      BY <1>4, <1>8, <1>10, <2>3
    <3>2. v.count = Cardinality(h \ {s}) /\ h \ {s} # {}
      BY <1>4, <1>6, <1>7, <1>8, <2>3 DEF h
    <3> QED BY <1>11, <2>3, <3>1, <3>2
  <2> QED BY <2>1, <2>2, <2>3
<1>14. Counted(C, T)
  BY <1>10, <1>13 DEF Counted
<1>15. \A j \in Blocks : B[j] = None => C[j] = None
  BY <1>1, <1>10
<1>16. ASSUME NEW t \in SharedBuffers, t # s, S[t] # None
       PROVE  C[S[t].block].cells = B[S[t].block].cells
  <2>1. S[t].block \in Blocks
    BY <1>16, HolderIs
  <2>2. T[t] # None /\ T[t].block = S[t].block
    BY <1>10, <1>16
  <2>3. C[S[t].block] # None
    BY <1>14, <2>2, HolderIs
  <2>4. CASE S[t].block # k
    BY <1>10, <2>1, <2>4
  <2>5. CASE S[t].block = k
    BY <1>8, <1>9, <1>10, <2>1, <2>3, <2>5
  <2> QED BY <2>4, <2>5
<1> QED BY <1>2, <1>14, <1>15, <1>16 DEF C, T, k

(* A SharedBuffer that holds nothing takes a new block, or one that is     *)
(* held already.                                                           *)
LEMMA NewCounts ==
  ASSUME NEW B, NEW S, Counted(B, S), NEW s \in SharedBuffers, S[s] = None,
         NEW k \in Blocks, B[k] = None,
         NEW v \in Buf!BlockValues, v.count = 1, v.use <= Len(v.cells),
         NEW win \in Buf!Windows, win.block = k
  PROVE  /\ Counted([B EXCEPT ![k] = v], [S EXCEPT ![s] = win])
         /\ [B EXCEPT ![k] = v][k] = v
         /\ \A t \in SharedBuffers : S[t] # None =>
              [B EXCEPT ![k] = v][S[t].block] = B[S[t].block]
<1> DEFINE C == [B EXCEPT ![k] = v]
           T == [S EXCEPT ![s] = win]
<1>1. /\ B \in [Blocks -> Buf!BlockValues \cup {None}]
      /\ S \in [SharedBuffers -> Buf!Windows \cup {None}]
      /\ HoldersOf(S, k) = {}
  BY DEF Counted
<1>2. v # None /\ win # None
  BY BuffersAssumed
<1>3. /\ C \in [Blocks -> Buf!BlockValues \cup {None}]
      /\ T \in [SharedBuffers -> Buf!Windows \cup {None}]
      /\ \A j \in Blocks : C[j] = IF j = k THEN v ELSE B[j]
      /\ \A t \in SharedBuffers : T[t] = IF t = s THEN win ELSE S[t]
  BY <1>1
<1> HIDE DEF C, T
<1>4. HoldersOf(T, k) = {s}
  BY <1>1, <1>2, <1>3 DEF HoldersOf
<1>5. \A j \in Blocks : j # k => HoldersOf(T, j) = HoldersOf(S, j)
  BY <1>3 DEF HoldersOf
<1>6. Cardinality({s}) = 1
  BY FS_Singleton
<1>7. ASSUME NEW j \in Blocks
      PROVE  /\ C[j] # None => C[j].use <= Len(C[j].cells)
             /\ IF C[j] = None THEN HoldersOf(T, j) = {}
                ELSE HoldersOf(T, j) # {} /\ C[j].count = Cardinality(HoldersOf(T, j))
  <2>1. CASE j # k
    <3>1. C[j] = B[j] /\ HoldersOf(T, j) = HoldersOf(S, j)
      BY <1>3, <1>5, <2>1
    <3> QED BY <3>1 DEF Counted
  <2>2. CASE j = k
    BY <1>2, <1>3, <1>4, <1>6, <2>2
  <2> QED BY <2>1, <2>2
<1>8. Counted(C, T)
  BY <1>3, <1>7 DEF Counted
<1>9. ASSUME NEW t \in SharedBuffers, S[t] # None
      PROVE  C[S[t].block] = B[S[t].block]
  <2>1. S[t].block \in Blocks /\ B[S[t].block] # None
    BY <1>9, HolderIs
  <2> QED BY <1>3, <2>1
<1>10. C[k] = v
  BY <1>3
<1> QED BY <1>8, <1>9, <1>10 DEF C, T

LEMMA HeldCounts ==
  ASSUME NEW B, NEW S, Counted(B, S), NEW s \in SharedBuffers, S[s] = None,
         NEW win \in Buf!Windows, B[win.block] # None
  PROVE  /\ Counted(Buf!Held(B, win.block), [S EXCEPT ![s] = win])
         /\ \A t \in SharedBuffers : S[t] # None =>
              Buf!Held(B, win.block)[S[t].block].cells = B[S[t].block].cells
         /\ Buf!Held(B, win.block)[win.block].cells = B[win.block].cells
<1> DEFINE k == win.block
           v == [B[k] EXCEPT !.count = @ + 1]
           C == [B EXCEPT ![k] = v]
           T == [S EXCEPT ![s] = win]
           h == HoldersOf(S, k)
<1>1. /\ B \in [Blocks -> Buf!BlockValues \cup {None}]
      /\ S \in [SharedBuffers -> Buf!Windows \cup {None}] /\ k \in Blocks
  BY DEF Counted, Buf!Windows
<1>2. /\ B[k] \in Buf!BlockValues /\ h # {} /\ B[k].count = Cardinality(h)
      /\ B[k].use <= Len(B[k].cells)
  BY <1>1 DEF Counted
<1>3. Buf!Held(B, k) = C
  BY <1>1 DEF Buf!Held
<1>4. /\ v \in Buf!BlockValues /\ v.count = B[k].count + 1 /\ v.cells = B[k].cells
      /\ v.use = B[k].use
  <2> HIDE DEF k
  <2> QED BY <1>2 DEF Buf!BlockValues
<1>5. v # None /\ win # None
  BY <1>4, BuffersAssumed
<1> HIDE DEF v, k
<1>6. /\ C \in [Blocks -> Buf!BlockValues \cup {None}]
      /\ T \in [SharedBuffers -> Buf!Windows \cup {None}]
      /\ \A j \in Blocks : C[j] = IF j = k THEN v ELSE B[j]
      /\ \A t \in SharedBuffers : T[t] = IF t = s THEN win ELSE S[t]
  BY <1>1, <1>4
<1> HIDE DEF C, T
<1>7. HoldersOf(T, k) = h \cup {s}
  BY <1>5, <1>6 DEF HoldersOf, k
<1>8. \A j \in Blocks : j # k => HoldersOf(T, j) = HoldersOf(S, j)
  BY <1>6 DEF HoldersOf, k
<1>9. Cardinality(h \cup {s}) = Cardinality(h) + 1
  <2>1. IsFiniteSet(h)
    BY HoldersFinite
  <2>2. s \notin h
    BY DEF HoldersOf
  <2> HIDE DEF h
  <2> QED BY <2>1, <2>2, FS_AddElement
<1> HIDE DEF h
<1>10. ASSUME NEW j \in Blocks
       PROVE  /\ C[j] # None => C[j].use <= Len(C[j].cells)
              /\ IF C[j] = None THEN HoldersOf(T, j) = {}
                 ELSE HoldersOf(T, j) # {} /\ C[j].count = Cardinality(HoldersOf(T, j))
  <2>1. CASE j # k
    <3>1. C[j] = B[j] /\ HoldersOf(T, j) = HoldersOf(S, j)
      BY <1>6, <1>8, <2>1
    <3> QED BY <3>1 DEF Counted
  <2>2. CASE j = k
    <3>1. C[j] = v /\ v.use <= Len(v.cells) /\ HoldersOf(T, j) = h \cup {s}
      BY <1>2, <1>4, <1>6, <1>7, <2>2
    <3>2. v.count = Cardinality(h \cup {s})
      BY <1>2, <1>4, <1>9
    <3> QED BY <1>5, <3>1, <3>2
  <2> QED BY <2>1, <2>2
<1>11. Counted(C, T)
  BY <1>6, <1>10 DEF Counted
<1>12. \A j \in Blocks : C[j].cells = B[j].cells
  BY <1>4, <1>6
<1>13. \A t \in SharedBuffers : S[t] # None => S[t].block \in Blocks
  BY HolderIs
<1> QED BY <1>1, <1>3, <1>11, <1>12, <1>13 DEF C, T, k

(* A holder stays with its block, whatever is done to the cells.           *)
LEMMA SameCounts ==
  ASSUME NEW B, NEW S, Counted(B, S), NEW s \in SharedBuffers, S[s] # None,
         NEW v \in Buf!BlockValues, v.count = B[S[s].block].count, v.use <= Len(v.cells),
         NEW win \in Buf!Windows, win.block = S[s].block
  PROVE  Counted([B EXCEPT ![S[s].block] = v], [S EXCEPT ![s] = win])
<1> DEFINE k == S[s].block
           C == [B EXCEPT ![k] = v]
           T == [S EXCEPT ![s] = win]
<1>1. /\ B \in [Blocks -> Buf!BlockValues \cup {None}] /\ k \in Blocks /\ B[k] # None
      /\ S \in [SharedBuffers -> Buf!Windows \cup {None}]
  BY HolderIs DEF Counted
<1>2. v # None /\ win # None
  BY BuffersAssumed
<1> HIDE DEF k
<1>3. /\ C \in [Blocks -> Buf!BlockValues \cup {None}]
      /\ T \in [SharedBuffers -> Buf!Windows \cup {None}]
      /\ \A j \in Blocks : C[j] = IF j = k THEN v ELSE B[j]
      /\ \A t \in SharedBuffers : T[t] = IF t = s THEN win ELSE S[t]
  BY <1>1
<1> HIDE DEF C, T
<1>4. \A j \in Blocks : HoldersOf(T, j) = HoldersOf(S, j)
  BY <1>2, <1>3 DEF HoldersOf, k
<1>5. ASSUME NEW j \in Blocks
      PROVE  /\ C[j] # None => C[j].use <= Len(C[j].cells)
             /\ IF C[j] = None THEN HoldersOf(T, j) = {}
                ELSE HoldersOf(T, j) # {} /\ C[j].count = Cardinality(HoldersOf(T, j))
  <2>1. CASE j # k
    <3>1. C[j] = B[j] /\ HoldersOf(T, j) = HoldersOf(S, j)
      BY <1>3, <1>4, <2>1
    <3> QED BY <3>1 DEF Counted
  <2>2. CASE j = k
    <3>1. C[j] = v /\ v.count = B[k].count /\ HoldersOf(T, j) = HoldersOf(S, k)
      BY <1>3, <1>4, <2>2 DEF k
    <3>2. HoldersOf(S, k) # {} /\ B[k].count = Cardinality(HoldersOf(S, k))
      BY <1>1 DEF Counted
    <3> QED BY <1>2, <3>1, <3>2
  <2> QED BY <2>1, <2>2
<1>6. Counted(C, T)
  BY <1>3, <1>5 DEF Counted
<1> QED BY <1>6 DEF C, T, k

-----------------------------------------------------------------------------
(* The data of the buffers are the bytes written to them, of a SharedBuffer *)
(* that is not astray within its window.                                    *)
WindowIs(B, win, w) == Holds(B[win.block].cells, win.begin, win.end, w)

BuffersInv ==
  /\ buffer \in [ByteBuffers -> ByteBufferValues]
  /\ want \in [ByteBuffers \cup SharedBuffers -> Seq(Cells)]
  /\ \A b \in ByteBuffers : BufferIs(buffer[b], want[b])
  /\ Counted(block, shared)
  /\ \A s \in SharedBuffers : shared[s] # None /\ s \notin astray =>
       WindowIs(block, shared[s], want[s])

LEMMA InitBuffers == Buf!Init => BuffersInv
<1> SUFFICES ASSUME Buf!Init
             PROVE  BuffersInv
  OBVIOUS
<1>1. /\ buffer = [b \in ByteBuffers |-> Buf!NewBuffer(0)]
      /\ block = [k \in Blocks |-> None] /\ shared = [s \in SharedBuffers |-> None]
      /\ want = [x \in ByteBuffers \cup SharedBuffers |-> << >>]
  BY DEF Buf!Init
<1>2. BufferIs(Buf!NewBuffer(0), << >>)
  BY NewIs
<1>3. \A b \in ByteBuffers : BufferIs(buffer[b], want[b])
  BY <1>1, <1>2
<1>4. buffer \in [ByteBuffers -> ByteBufferValues]
  <2>1. Buf!NewBuffer(0) \in ByteBufferValues
    BY <1>2 DEF BufferIs
  <2> QED BY <1>1, <2>1
<1>5. want \in [ByteBuffers \cup SharedBuffers -> Seq(Cells)]
  <2>1. << >> \in Seq(Cells)
    BY EmptySeq
  <2> QED BY <1>1, <2>1
<1>6. \A k \in Blocks : block[k] = None /\ HoldersOf(shared, k) = {}
  BY <1>1 DEF HoldersOf
<1>7. Counted(block, shared)
  BY <1>1, <1>6 DEF Counted
<1>8. \A s \in SharedBuffers : shared[s] = None
  BY <1>1
<1> QED BY <1>3, <1>4, <1>5, <1>7, <1>8 DEF BuffersInv

(* A call of one ByteBuffer.                                               *)
LEMMA BecomesKeeps ==
  ASSUME BuffersInv, NEW b \in ByteBuffers, NEW v, NEW w, BufferIs(v, w),
         Buf!Becomes(b, v, w)
  PROVE  BuffersInv'
<1>1. /\ buffer \in [ByteBuffers -> ByteBufferValues]
      /\ want \in [ByteBuffers \cup SharedBuffers -> Seq(Cells)]
      /\ \A x \in ByteBuffers : BufferIs(buffer[x], want[x])
      /\ Counted(block, shared)
      /\ \A s \in SharedBuffers : shared[s] # None /\ s \notin astray =>
           WindowIs(block, shared[s], want[s])
  BY DEF BuffersInv
<1>2. /\ buffer' = [buffer EXCEPT ![b] = v] /\ want' = [want EXCEPT ![b] = w]
      /\ block' = block /\ shared' = shared /\ astray' = astray
  BY DEF Buf!Becomes
<1>3. v \in ByteBufferValues /\ w \in Seq(Cells)
  BY DEF BufferIs
<1>4. /\ buffer' \in [ByteBuffers -> ByteBufferValues]
      /\ want' \in [ByteBuffers \cup SharedBuffers -> Seq(Cells)]
  BY <1>1, <1>2, <1>3
<1>5. \A x \in ByteBuffers : BufferIs(buffer'[x], want'[x])
  <2> TAKE x \in ByteBuffers
  <2>1. x = b => buffer'[x] = v /\ want'[x] = w
    BY <1>1, <1>2
  <2>2. x # b => buffer'[x] = buffer[x] /\ want'[x] = want[x]
    BY <1>1, <1>2
  <2> QED BY <1>1, <2>1, <2>2
<1>6. \A s \in SharedBuffers : want'[s] = want[s]
  BY <1>1, <1>2, BuffersAssumed
<1>7. \A s \in SharedBuffers : shared[s] # None /\ s \notin astray =>
        WindowIs(block, shared[s], want'[s])
  BY <1>1, <1>6
<1> QED BY <1>1, <1>2, <1>4, <1>5, <1>7 DEF BuffersInv

LEMMA AssignKeeps ==
  ASSUME BuffersInv, NEW b \in ByteBuffers, NEW c \in ByteBuffers, Buf!Assign(b, c)
  PROVE  BuffersInv'
<1> DEFINE v == Buf!Taken(buffer[c])
           g == Buf!Given(buffer[c])
           w == IF buffer[c].owner THEN want[c] ELSE << >>
<1>1. /\ buffer \in [ByteBuffers -> ByteBufferValues]
      /\ want \in [ByteBuffers \cup SharedBuffers -> Seq(Cells)]
      /\ \A x \in ByteBuffers : BufferIs(buffer[x], want[x])
      /\ Counted(block, shared)
      /\ \A s \in SharedBuffers : shared[s] # None /\ s \notin astray =>
           WindowIs(block, shared[s], want[s])
  BY DEF BuffersInv
<1>2. /\ b # c
      /\ buffer' = [buffer EXCEPT ![b] = v, ![c] = g] /\ want' = [want EXCEPT ![b] = w]
      /\ block' = block /\ shared' = shared /\ astray' = astray
  BY <1>1 DEF Buf!Assign
<1>3. BufferIs(g, want[c]) /\ BufferIs(v, w)
  BY <1>1, HandsHold
<1> HIDE DEF v, g, w
<1>4. v \in ByteBufferValues /\ g \in ByteBufferValues /\ w \in Seq(Cells)
  BY <1>3 DEF BufferIs
<1>5. /\ buffer' \in [ByteBuffers -> ByteBufferValues]
      /\ want' \in [ByteBuffers \cup SharedBuffers -> Seq(Cells)]
  BY <1>1, <1>2, <1>4
<1>6. \A x \in ByteBuffers : BufferIs(buffer'[x], want'[x])
  <2> TAKE x \in ByteBuffers
  <2>1. x = b => buffer'[x] = v /\ want'[x] = w
    BY <1>1, <1>2
  <2>2. x = c => buffer'[x] = g /\ want'[x] = want[c]
    BY <1>1, <1>2
  <2>3. x # b /\ x # c => buffer'[x] = buffer[x] /\ want'[x] = want[x]
    BY <1>1, <1>2
  <2> QED BY <1>1, <1>3, <2>1, <2>2, <2>3
<1>7. \A s \in SharedBuffers : want'[s] = want[s]
  BY <1>1, <1>2, BuffersAssumed
<1>8. \A s \in SharedBuffers : shared[s] # None /\ s \notin astray =>
        WindowIs(block, shared[s], want'[s])
  BY <1>1, <1>7
<1> QED BY <1>1, <1>2, <1>5, <1>6, <1>8 DEF BuffersInv

LEMMA ByteBufferKeeps ==
  ASSUME BuffersInv, NEW b \in ByteBuffers, Buf!ByteBufferCall(b)
  PROVE  BuffersInv'
<1>1. BufferIs(buffer[b], want[b])
  BY DEF BuffersInv
<1>2. Bytes \subseteq Cells /\ BufferSizes \subseteq Nat
  BY BuffersAssumed
<1>3. ASSUME NEW c \in Bytes, Buf!WriteByte(b, c)
      PROVE  BuffersInv'
  <2>1. BufferIs(Buf!Write(buffer[b], <<c>>),
                 IF buffer[b].owner THEN Append(want[b], c) ELSE want[b])
    BY <1>1, <1>2, WriteHolds
  <2> QED BY <1>3, <2>1, BecomesKeeps DEF Buf!WriteByte
<1>4. ASSUME NEW c \in Bytes, Buf!Receive(b, c)
      PROVE  BuffersInv'
  <2>1. buffer[b].owner
    BY <1>4 DEF Buf!Receive
  <2>2. BufferIs(Buf!Advance([buffer[b] EXCEPT !.cells =
                                Buf!Overwrite(@, buffer[b].end, <<c>>)], 1),
                 IF Buf!FreeSize(buffer[b]) > 0 THEN Append(want[b], c) ELSE want[b])
    BY <1>1, <1>2, <2>1, ReceiveHolds
  <2> QED BY <1>4, <2>2, BecomesKeeps DEF Buf!Receive
<1>5. ASSUME NEW c \in Bytes, NEW owner \in BOOLEAN,
             Buf!Becomes(b, Buf!SetData(buffer[b], <<c>>, owner), <<c>>)
      PROVE  BuffersInv'
  <2>1. BufferIs(Buf!SetData(buffer[b], <<c>>, owner), <<c>>)
    BY <1>1, <1>2, DataHolds
  <2> QED BY <1>5, <2>1, BecomesKeeps
<1>6. ASSUME NEW k \in BufferSizes, Buf!ReadBytes(b, k)
      PROVE  BuffersInv'
  <2>1. buffer[b].owner /\ k \in Nat
    BY <1>2, <1>6 DEF Buf!ReadBytes
  <2>2. BufferIs(Buf!AfterRead(buffer[b], k),
                 IF k <= Len(want[b]) THEN SubSeq(want[b], k + 1, Len(want[b]))
                 ELSE want[b])
    BY <1>1, <2>1, ReadHolds
  <2> QED BY <1>6, <2>2, BecomesKeeps DEF Buf!ReadBytes
<1>7. ASSUME NEW k \in BufferSizes, Buf!ReserveBytes(b, k)
      PROVE  BuffersInv'
  <2>1. BufferIs(Buf!Reserve(buffer[b], k),
                 IF buffer[b].owner /\ k <= Buf!BufferSize(buffer[b]) THEN want[b]
                 ELSE << >>)
    BY <1>1, <1>2, ReserveHolds
  <2> QED BY <1>7, <2>1, BecomesKeeps DEF Buf!ReserveBytes
<1>8. ASSUME NEW k \in BufferSizes, Buf!Truncate(b, k)
      PROVE  BuffersInv'
  <2>1. buffer[b].owner /\ k \in buffer[b].begin .. buffer[b].end
    BY <1>8 DEF Buf!Truncate
  <2>2. BufferIs(Buf!SetEnd(buffer[b], k), SubSeq(want[b], 1, k - buffer[b].begin))
    BY <1>1, <2>1, EndHolds
  <2> QED BY <1>8, <2>2, BecomesKeeps DEF Buf!Truncate
<1>9. ASSUME NEW k \in BufferSizes, Buf!Skip(b, k)
      PROVE  BuffersInv'
  <2>1. buffer[b].owner /\ k >= buffer[b].begin /\ k \in Nat
    BY <1>2, <1>9 DEF Buf!Skip
  <2>2. BufferIs(Buf!SetBegin(buffer[b], k),
                 SubSeq(want[b], k - buffer[b].begin + 1, Len(want[b])))
    BY <1>1, <2>1, BeginHolds
  <2> QED BY <1>9, <2>2, BecomesKeeps DEF Buf!Skip
<1>10. ASSUME Buf!Becomes(b, Buf!CStr(buffer[b]), want[b])
       PROVE  BuffersInv'
  BY <1>1, <1>10, CStrHolds, BecomesKeeps
<1>11. ASSUME Buf!Becomes(b, Buf!ResetBuffer(buffer[b]), << >>)
       PROVE  BuffersInv'
  BY <1>1, <1>11, ResetHolds, BecomesKeeps
<1>12. ASSUME Buf!Becomes(b, Buf!ClearBuffer(buffer[b]), << >>)
       PROVE  BuffersInv'
  <2>1. BufferIs(Buf!ClearBuffer(buffer[b]), << >>)
    BY NewIs DEF Buf!ClearBuffer
  <2> QED BY <1>12, <2>1, BecomesKeeps
<1>13. ASSUME NEW c \in ByteBuffers, Buf!Assign(b, c)
       PROVE  BuffersInv'
  BY <1>13, AssignKeeps
<1> QED BY <1>3, <1>4, <1>5, <1>6, <1>7, <1>8, <1>9, <1>10, <1>11, <1>12, <1>13
        DEF Buf!ByteBufferCall

-----------------------------------------------------------------------------
(* A call of one SharedBuffer: the others keep their windows, and their    *)
(* data unless they are astray.                                            *)
LEMMA SharesKeeps ==
  ASSUME BuffersInv, NEW s \in SharedBuffers, NEW C, NEW win, NEW w \in Seq(Cells),
         Buf!Shares(s, C, win, w),
         Counted(C, [shared EXCEPT ![s] = win]),
         win # None /\ s \notin astray' => WindowIs(C, win, w),
         \A t \in SharedBuffers : t # s /\ shared[t] # None /\ t \notin astray' =>
           t \notin astray /\ WindowIs(C, shared[t], want[t]),
         buffer' \in [ByteBuffers -> ByteBufferValues],
         \A b \in ByteBuffers : BufferIs(buffer'[b], want[b])
  PROVE  BuffersInv'
<1>1. /\ want \in [ByteBuffers \cup SharedBuffers -> Seq(Cells)]
      /\ shared \in [SharedBuffers -> Buf!Windows \cup {None}]
  BY DEF BuffersInv, Counted
<1>2. /\ block' = C /\ shared' = [shared EXCEPT ![s] = win]
      /\ want' = [want EXCEPT ![s] = w]
  BY DEF Buf!Shares
<1>3. want' \in [ByteBuffers \cup SharedBuffers -> Seq(Cells)]
  BY <1>1, <1>2
<1>4. \A b \in ByteBuffers : want'[b] = want[b]
  BY <1>1, <1>2, BuffersAssumed
<1>5. \A b \in ByteBuffers : BufferIs(buffer'[b], want'[b])
  BY <1>4
<1>6. shared'[s] = win /\ want'[s] = w
  BY <1>1, <1>2
<1>7. \A t \in SharedBuffers : t # s => shared'[t] = shared[t] /\ want'[t] = want[t]
  BY <1>1, <1>2
<1>8. Counted(block', shared')
  BY <1>2
<1>9. ASSUME NEW t \in SharedBuffers, shared'[t] # None, t \notin astray'
      PROVE  WindowIs(block', shared'[t], want'[t])
  <2>1. CASE t = s
    BY <1>2, <1>6, <1>9, <2>1
  <2>2. CASE t # s
    BY <1>2, <1>7, <1>9, <2>2
  <2> QED BY <2>1, <2>2
<1> QED BY <1>3, <1>5, <1>8, <1>9 DEF BuffersInv

LEMMA SharedParts ==
  ASSUME BuffersInv, NEW s \in SharedBuffers
  PROVE  /\ Counted(block, shared) /\ want[s] \in Seq(Cells)
         /\ buffer \in [ByteBuffers -> ByteBufferValues]
         /\ \A b \in ByteBuffers : BufferIs(buffer[b], want[b])
         /\ shared \in [SharedBuffers -> Buf!Windows \cup {None}]
         /\ block \in [Blocks -> Buf!BlockValues \cup {None}]
         /\ \A t \in SharedBuffers : shared[t] # None /\ t \notin astray =>
              WindowIs(block, shared[t], want[t])
BY DEF BuffersInv, Counted

(* The others keep their data if their cells are the same.                 *)
LEMMA OtherCellsSame ==
  ASSUME BuffersInv, NEW s \in SharedBuffers, NEW C, astray \ {s} \subseteq astray',
         \A t \in SharedBuffers : t # s /\ shared[t] # None =>
           C[shared[t].block].cells = block[shared[t].block].cells
  PROVE  \A t \in SharedBuffers : t # s /\ shared[t] # None /\ t \notin astray' =>
           t \notin astray /\ WindowIs(C, shared[t], want[t])
<1> TAKE t \in SharedBuffers
<1> HAVE t # s /\ shared[t] # None /\ t \notin astray'
<1>1. t \notin astray
  OBVIOUS
<1>2. WindowIs(block, shared[t], want[t])
  BY <1>1, SharedParts
<1> QED BY <1>1, <1>2 DEF WindowIs

(* They keep them too if the cells of s change behind their windows.       *)
LEMMA OtherCellsBehind ==
  ASSUME BuffersInv, NEW s \in SharedBuffers, shared[s] # None,
         NEW v \in Buf!BlockValues, NEW place \in Nat, place <= Len(v.cells),
         \A i \in 1 .. place : v.cells[i] = block[shared[s].block].cells[i],
         astray \ {s} \subseteq astray',
         Buf!Hit(shared[s].block, place) \ {s} \subseteq astray'
  PROVE  \A t \in SharedBuffers : t # s /\ shared[t] # None /\ t \notin astray' =>
           t \notin astray /\
           WindowIs([block EXCEPT ![shared[s].block] = v], shared[t], want[t])
<1> DEFINE k == shared[s].block
           C == [block EXCEPT ![k] = v]
<1> TAKE t \in SharedBuffers
<1> HAVE t # s /\ shared[t] # None /\ t \notin astray'
<1>1. t \notin astray
  OBVIOUS
<1>2. WindowIs(block, shared[t], want[t]) /\ Counted(block, shared)
  BY <1>1, SharedParts
<1>3. /\ shared[t].block \in Blocks /\ shared[t].begin \in Nat /\ shared[t].end \in Nat
      /\ block[shared[t].block].cells \in Seq(Cells) /\ k \in Blocks
      /\ v.cells \in Seq(Cells) /\ Len(v.cells) \in Nat
  BY <1>2, HolderIs, BlockParts
<1>4. block \in [Blocks -> Buf!BlockValues \cup {None}]
  BY SharedParts
<1>5. CASE shared[t].block # k
  <2>1. C[shared[t].block] = block[shared[t].block]
    BY <1>3, <1>4, <1>5
  <2> QED BY <1>1, <1>2, <2>1 DEF WindowIs
<1>6. CASE shared[t].block = k
  <2>1. C[shared[t].block] = v
    BY <1>3, <1>4, <1>6
  <2>2. ~(shared[t].end > place)
    BY <1>6 DEF Buf!Hit, Buf!Holders
  <2> DEFINE cells == block[k].cells
             begin == shared[t].begin
             end == shared[t].end
             w == want[t]
  <2>3. Holds(cells, begin, end, w) /\ cells \in Seq(Cells) /\ begin \in Nat /\ end \in Nat
    BY <1>2, <1>3, <1>6 DEF WindowIs
  <2>4. \A i \in 1 .. place : v.cells[i] = cells[i]
    OBVIOUS
  <2> HIDE DEF cells, begin, w
  <2>5. end <= place /\ end <= Len(v.cells)
    BY <1>3, <2>2, <2>3
  <2> HIDE DEF end
  <2>6. \A i \in 1 .. end : v.cells[i] = cells[i]
    <3> TAKE i \in 1 .. end
    <3>1. i \in 1 .. place
      BY <2>3, <2>5
    <3> QED BY <2>4, <3>1
  <2>7. Holds(v.cells, begin, end, w)
    BY <2>3, <2>5, <2>6, HoldsStill
  <2>8. WindowIs(C, shared[t], want[t])
    BY <2>1, <2>7 DEF WindowIs, begin, end, w
  <2> QED BY <1>1, <2>8
<1> QED BY <1>5, <1>6

(* Its own cells change: the window stays on the block.                    *)
LEMMA SameBlockKeeps ==
  ASSUME BuffersInv, NEW s \in SharedBuffers, shared[s] # None,
         NEW v \in Buf!BlockValues, v.count = block[shared[s].block].count,
         v.use <= Len(v.cells), NEW win \in Buf!Windows, win.block = shared[s].block,
         NEW w \in Seq(Cells),
         Buf!Shares(s, [block EXCEPT ![shared[s].block] = v], win, w),
         s \notin astray' => Holds(v.cells, win.begin, win.end, w),
         \A t \in SharedBuffers : t # s /\ shared[t] # None /\ t \notin astray' =>
           t \notin astray /\
           WindowIs([block EXCEPT ![shared[s].block] = v], shared[t], want[t]),
         buffer' \in [ByteBuffers -> ByteBufferValues],
         \A b \in ByteBuffers : BufferIs(buffer'[b], want[b])
  PROVE  BuffersInv'
<1> DEFINE C == [block EXCEPT ![shared[s].block] = v]
<1>1. Counted(block, shared)
  BY SharedParts
<1>2. Counted(C, [shared EXCEPT ![s] = win])
  BY <1>1, SameCounts
<1>3. C[win.block] = v
  BY <1>1, HolderIs, SharedParts
<1> HIDE DEF C
<1>4. win # None /\ s \notin astray' => WindowIs(C, win, w)
  BY <1>3 DEF WindowIs
<1>5. \A t \in SharedBuffers : t # s /\ shared[t] # None /\ t \notin astray' =>
        t \notin astray /\ WindowIs(C, shared[t], want[t])
  BY DEF C
<1>6. Buf!Shares(s, C, win, w)
  BY DEF C
<1> QED BY <1>2, <1>4, <1>5, <1>6, SharesKeeps

-----------------------------------------------------------------------------
(* Memory that realloc() extends, and Buffer_::write().                    *)
LEMMA ExtendedIs ==
  ASSUME NEW cells \in Seq(Cells), NEW k \in Nat, Len(cells) <= k
  PROVE  LET g == [i \in 1 .. k |-> IF i \in DOMAIN cells THEN cells[i] ELSE Buf!Unset]
         IN  /\ g \in Seq(Cells) /\ Len(g) = k
             /\ \A i \in 1 .. Len(cells) : g[i] = cells[i]
<1> DEFINE g == [i \in 1 .. k |-> IF i \in DOMAIN cells THEN cells[i] ELSE Buf!Unset]
<1>1. Len(cells) \in Nat /\ DOMAIN cells = 1 .. Len(cells)
  BY LenProperties
<1>2. \A i \in 1 .. k : (IF i \in DOMAIN cells THEN cells[i] ELSE Buf!Unset) \in Cells
  BY <1>1, ElementOfSeq, BuffersAssumed
<1>3. g \in Seq(Cells) /\ Len(g) = k
  <2> HIDE DEF Cells
  <2> QED BY <1>2
<1>4. \A i \in 1 .. Len(cells) : g[i] = cells[i]
  BY <1>1
<1> QED BY <1>3, <1>4

LEMMA WrittenIs ==
  ASSUME NEW v \in Buf!BlockValues, v.use <= Len(v.cells), NEW c \in Cells
  PROVE  LET u == Buf!Written(v, c)
         IN  /\ u \in Buf!BlockValues /\ u.count = v.count /\ u.use = v.use + 1
             /\ u.use <= Len(u.cells) /\ u.cells[v.use + 1] = c
             /\ \A i \in 1 .. v.use : u.cells[i] = v.cells[i]
<1> DEFINE m == Len(v.cells)
           k == IF Buf!Fits(v) THEN m ELSE 2 * m + 1
           g == [i \in 1 .. k |-> IF i \in DOMAIN v.cells THEN v.cells[i] ELSE Buf!Unset]
           o == Buf!Overwrite(g, v.use, <<c>>)
           u == Buf!Written(v, c)
<1>1. v.cells \in Seq(Cells) /\ v.use \in Nat /\ m \in Nat
  BY BlockParts
<1>2. k \in Nat /\ m <= k /\ v.use < k
  BY <1>1 DEF Buf!Fits
<1>3. u = [v EXCEPT !.cells = o, !.use = v.use + 1]
  BY DEF Buf!Written
<1> HIDE DEF k
<1>4. g \in Seq(Cells) /\ Len(g) = k /\ \A i \in 1 .. m : g[i] = v.cells[i]
  BY <1>1, <1>2, ExtendedIs
<1> HIDE DEF g
<1>5. /\ o \in Seq(Cells) /\ Len(o) = k /\ o[v.use + 1] = c
      /\ \A i \in 1 .. k : i # v.use + 1 => o[i] = g[i]
  BY <1>1, <1>2, <1>4, OverwriteIs
<1> HIDE DEF o, u
<1>6. \A i \in 1 .. v.use : o[i] = v.cells[i]
  <2> TAKE i \in 1 .. v.use
  <2>1. i \in 1 .. k /\ i \in 1 .. m /\ i # v.use + 1
    BY <1>1, <1>2
  <2> QED BY <1>4, <1>5, <2>1
<1>7. v.use + 1 \in Nat /\ v.use + 1 <= k
  BY <1>1, <1>2
<1> HIDE DEF m
<1>8. /\ u \in Buf!BlockValues /\ u.count = v.count /\ u.use = v.use + 1 /\ u.cells = o
  BY <1>3, <1>5, <1>7 DEF Buf!BlockValues, Cells
<1>9. u.use <= Len(u.cells)
  BY <1>5, <1>7, <1>8
<1> QED BY <1>5, <1>6, <1>8, <1>9 DEF u

(* What a holder has, and the bounds of its window.                        *)
LEMMA HolderParts ==
  ASSUME BuffersInv, NEW s \in SharedBuffers, shared[s] # None
  PROVE  /\ shared[s] \in Buf!Windows /\ shared[s].block \in Blocks
         /\ shared[s].begin \in Nat /\ shared[s].end \in Nat
         /\ block[shared[s].block] \in Buf!BlockValues /\ block[shared[s].block] # None
         /\ block[shared[s].block].use <= Len(block[shared[s].block].cells)
         /\ block[shared[s].block].cells \in Seq(Cells)
         /\ block[shared[s].block].use \in Nat
         /\ Len(block[shared[s].block].cells) \in Nat
<1>1. Counted(block, shared)
  BY SharedParts
<1>2. /\ shared[s] \in Buf!Windows /\ shared[s].block \in Blocks
      /\ shared[s].begin \in Nat /\ shared[s].end \in Nat
      /\ block[shared[s].block] \in Buf!BlockValues /\ block[shared[s].block] # None
  BY <1>1, HolderIs
<1>3. block[shared[s].block].use <= Len(block[shared[s].block].cells)
  BY <1>1, <1>2 DEF Counted
<1> QED BY <1>2, <1>3, BlockParts

LEMMA WriteSharedKeeps ==
  ASSUME BuffersInv, NEW s \in SharedBuffers, shared[s] # None, NEW c \in Bytes,
         Buf!WriteShared(s, c)
  PROVE  BuffersInv'
<1> DEFINE k == shared[s].block
           v == block[k]
           u == Buf!Written(v, c)
           win == [shared[s] EXCEPT !.end = @ + 1]
           w == Append(want[s], c)
<1>1. c \in Cells
  BY BuffersAssumed
<1>2. /\ shared[s] \in Buf!Windows /\ k \in Blocks /\ shared[s].begin \in Nat
      /\ shared[s].end \in Nat /\ v \in Buf!BlockValues /\ v.use <= Len(v.cells)
      /\ v.cells \in Seq(Cells) /\ v.use \in Nat
  BY HolderParts
<1>3. /\ u \in Buf!BlockValues /\ u.count = v.count /\ u.use = v.use + 1
      /\ u.use <= Len(u.cells) /\ u.cells[v.use + 1] = c
      /\ \A i \in 1 .. v.use : u.cells[i] = v.cells[i]
  BY <1>1, <1>2, WrittenIs
<1>4. /\ Buf!Shares(s, [block EXCEPT ![k] = u], win, w)
      /\ astray' = astray \cup Buf!Misplaced(s) /\ buffer' = buffer
  <2>1. block \in [Blocks -> Buf!BlockValues \cup {None}]
    BY SharedParts
  <2> QED BY <1>2, <2>1 DEF Buf!WriteShared
<1>5. /\ Buf!Hit(k, v.use) \subseteq astray' /\ astray \subseteq astray'
      /\ s \notin astray' => shared[s].end = v.use
  BY <1>4 DEF Buf!Misplaced
<1>6. want[s] \in Seq(Cells)
  BY SharedParts
<1> HIDE DEF u
<1>7. win \in Buf!Windows /\ win.block = k /\ win.begin = shared[s].begin
      /\ win.end = shared[s].end + 1
  <2>1. shared[s].end + 1 \in Nat
    BY <1>2
  <2> QED BY <1>2, <2>1 DEF Buf!Windows
<1>8. w \in Seq(Cells)
  BY <1>1, <1>6, AppendProperties
<1>9. ASSUME s \notin astray'
      PROVE  Holds(u.cells, win.begin, win.end, w)
  <2>1. shared[s].end = v.use /\ s \notin astray
    BY <1>5, <1>9
  <2>2. Holds(v.cells, shared[s].begin, shared[s].end, want[s])
    BY <2>1, SharedParts DEF WindowIs
  <2>3. Len(u.cells) \in Nat
    BY <1>3, BlockParts
  <2>4. shared[s].end < Len(u.cells)
    BY <1>2, <1>3, <2>1, <2>3
  <2> DEFINE g == u.cells
             begin == shared[s].begin
             end == shared[s].end
  <2>5. /\ begin \in Nat /\ end \in Nat /\ Holds(v.cells, begin, end, want[s])
        /\ Len(g) \in Nat /\ end < Len(g) /\ g[end + 1] = c
        /\ \A i \in 1 .. end : g[i] = v.cells[i]
    BY <1>2, <1>3, <2>1, <2>2, <2>3, <2>4
  <2> HIDE DEF g, begin, end, v
  <2>6. Holds(g, begin, end + 1, Append(want[s], c))
    BY <1>1, <1>2, <1>6, <2>5, HoldsOneMore
  <2> QED BY <1>7, <2>6 DEF g, begin, end
<1>10. v.use <= Len(u.cells)
  <2>1. Len(u.cells) \in Nat
    BY <1>3, BlockParts
  <2> QED BY <1>2, <1>3, <2>1
<1>11. \A t \in SharedBuffers : t # s /\ shared[t] # None /\ t \notin astray' =>
         t \notin astray /\ WindowIs([block EXCEPT ![k] = u], shared[t], want[t])
  BY <1>2, <1>3, <1>5, <1>10, OtherCellsBehind
<1>12. /\ buffer' \in [ByteBuffers -> ByteBufferValues]
       /\ \A b \in ByteBuffers : BufferIs(buffer'[b], want[b])
  BY <1>4, SharedParts
<1> HIDE DEF win, w
<1> QED BY <1>3, <1>4, <1>7, <1>8, <1>9, <1>11, <1>12, SameBlockKeeps

LEMMA CStrSharedKeeps ==
  ASSUME BuffersInv, NEW s \in SharedBuffers, shared[s] # None, Buf!CStrShared(s)
  PROVE  BuffersInv'
<1> DEFINE k == shared[s].block
           v == block[k]
           u == Buf!Written(v, "NUL")
<1>1. "NUL" \in Cells
  BY BuffersAssumed
<1>2. /\ shared[s] \in Buf!Windows /\ k \in Blocks /\ shared[s].begin \in Nat
      /\ shared[s].end \in Nat /\ v \in Buf!BlockValues /\ v.use <= Len(v.cells)
      /\ v.cells \in Seq(Cells) /\ v.use \in Nat
  BY HolderParts
<1>3. /\ u \in Buf!BlockValues /\ u.count = v.count /\ u.use = v.use + 1
      /\ u.use <= Len(u.cells) /\ \A i \in 1 .. v.use : u.cells[i] = v.cells[i]
  BY <1>1, <1>2, WrittenIs
<1>4. /\ block' = [block EXCEPT ![k] = u] /\ shared' = shared /\ want' = want
      /\ astray' = astray \cup Buf!Hit(k, v.use) /\ buffer' = buffer
  <2>1. block \in [Blocks -> Buf!BlockValues \cup {None}]
    BY SharedParts
  <2> QED BY <1>2, <2>1 DEF Buf!CStrShared
<1> HIDE DEF u
<1>5. Buf!Shares(s, [block EXCEPT ![k] = u], shared[s], want[s])
  <2>1. /\ want \in [ByteBuffers \cup SharedBuffers -> Seq(Cells)]
        /\ shared \in [SharedBuffers -> Buf!Windows \cup {None}]
    BY SharedParts DEF BuffersInv
  <2>2. shared = [shared EXCEPT ![s] = shared[s]] /\ want = [want EXCEPT ![s] = want[s]]
    BY <2>1
  <2> QED BY <1>4, <2>2 DEF Buf!Shares
<1>6. Len(u.cells) \in Nat /\ v.use <= Len(u.cells)
  <2>1. Len(u.cells) \in Nat
    BY <1>3, BlockParts
  <2> QED BY <1>2, <1>3, <2>1
<1>7. want[s] \in Seq(Cells)
  BY SharedParts
<1>8. ASSUME s \notin astray'
      PROVE  Holds(u.cells, shared[s].begin, shared[s].end, want[s])
  <2> DEFINE end == shared[s].end
  <2>1. s \notin astray /\ s \notin Buf!Hit(k, v.use)
    BY <1>4, <1>8
  <2>2. Holds(v.cells, shared[s].begin, end, want[s])
    BY <2>1, SharedParts DEF WindowIs
  <2>3. ~(end > v.use)
    BY <2>1 DEF Buf!Hit, Buf!Holders
  <2>4. end \in Nat /\ end <= v.use /\ end <= Len(u.cells)
    BY <1>2, <1>6, <2>3
  <2> HIDE DEF end
  <2>5. \A i \in 1 .. end : u.cells[i] = v.cells[i]
    <3> TAKE i \in 1 .. end
    <3>1. i \in 1 .. v.use
      BY <1>2, <2>4
    <3> QED BY <1>3, <3>1
  <2>6. Holds(u.cells, shared[s].begin, end, want[s])
    BY <1>2, <2>2, <2>4, <2>5, HoldsStill
  <2> QED BY <2>6 DEF end
<1>9. \A t \in SharedBuffers : t # s /\ shared[t] # None /\ t \notin astray' =>
        t \notin astray /\ WindowIs([block EXCEPT ![k] = u], shared[t], want[t])
  BY <1>2, <1>3, <1>4, <1>6, OtherCellsBehind
<1>10. /\ buffer' \in [ByteBuffers -> ByteBufferValues]
       /\ \A b \in ByteBuffers : BufferIs(buffer'[b], want[b])
  BY <1>4, SharedParts
<1> QED BY <1>2, <1>3, <1>5, <1>7, <1>8, <1>9, <1>10, SameBlockKeeps

LEMMA ReceiveSharedKeeps ==
  ASSUME BuffersInv, NEW s \in SharedBuffers, shared[s] # None, NEW c \in Bytes,
         Buf!ReceiveShared(s, c)
  PROVE  BuffersInv'
<1> DEFINE k == shared[s].block
           v == block[k]
           end == shared[s].end
           o == Buf!Overwrite(v.cells, end, <<c>>)
           u == [v EXCEPT !.cells = o]
           win == [shared[s] EXCEPT !.end = @ + 1]
           w == Append(want[s], c)
<1>1. c \in Cells
  BY BuffersAssumed
<1>2. /\ shared[s] \in Buf!Windows /\ k \in Blocks /\ shared[s].begin \in Nat
      /\ end \in Nat /\ v \in Buf!BlockValues /\ v.use <= Len(v.cells)
      /\ v.cells \in Seq(Cells) /\ v.use \in Nat /\ Len(v.cells) \in Nat
  BY HolderParts
<1>3. /\ end < Len(v.cells)
      /\ Buf!Shares(s, [block EXCEPT ![k] = u], win, w)
      /\ astray' = astray \cup Buf!Hit(k, end) /\ buffer' = buffer
  <2>1. block \in [Blocks -> Buf!BlockValues \cup {None}]
    BY SharedParts
  <2> QED BY <1>2, <2>1 DEF Buf!ReceiveShared
<1>4. /\ o \in Seq(Cells) /\ Len(o) = Len(v.cells) /\ o[end + 1] = c
      /\ \A i \in 1 .. Len(v.cells) : i # end + 1 => o[i] = v.cells[i]
  BY <1>1, <1>2, <1>3, OverwriteIs
<1>5. want[s] \in Seq(Cells)
  BY SharedParts
<1> HIDE DEF o
<1>6. /\ u \in Buf!BlockValues /\ u.count = v.count /\ u.use = v.use /\ u.cells = o
  BY <1>2, <1>4 DEF Buf!BlockValues, Cells
<1> HIDE DEF u
<1>7. \A i \in 1 .. end : o[i] = v.cells[i]
  <2> TAKE i \in 1 .. end
  <2>1. i \in 1 .. Len(v.cells) /\ i # end + 1
    BY <1>2, <1>3
  <2> QED BY <1>4, <2>1
<1>8. /\ win \in Buf!Windows /\ win.block = k /\ win.begin = shared[s].begin
      /\ win.end = end + 1
  <2>1. end + 1 \in Nat
    BY <1>2
  <2> QED BY <1>2, <2>1 DEF Buf!Windows
<1>9. w \in Seq(Cells)
  BY <1>1, <1>5, AppendProperties
<1>10. ASSUME s \notin astray'
       PROVE  Holds(u.cells, win.begin, win.end, w)
  <2>1. s \notin astray
    BY <1>3, <1>10
  <2>2. Holds(v.cells, shared[s].begin, end, want[s])
    BY <2>1, SharedParts DEF WindowIs
  <2>3. Len(o) \in Nat /\ end < Len(o)
    BY <1>2, <1>3, <1>4
  <2>4. Holds(o, shared[s].begin, end + 1, w)
    BY <1>1, <1>2, <1>4, <1>5, <1>7, <2>2, <2>3, HoldsOneMore
  <2> QED BY <1>6, <1>8, <2>4
<1>11. end <= Len(u.cells) /\ u.use <= Len(u.cells)
  BY <1>2, <1>3, <1>4, <1>6
<1>12. \A t \in SharedBuffers : t # s /\ shared[t] # None /\ t \notin astray' =>
         t \notin astray /\ WindowIs([block EXCEPT ![k] = u], shared[t], want[t])
  <2>1. \A i \in 1 .. end : u.cells[i] = v.cells[i]
    BY <1>6, <1>7
  <2>2. astray \ {s} \subseteq astray' /\ Buf!Hit(k, end) \ {s} \subseteq astray'
    BY <1>3
  <2> QED BY <1>2, <1>6, <1>11, <2>1, <2>2, OtherCellsBehind
<1>13. /\ buffer' \in [ByteBuffers -> ByteBufferValues]
       /\ \A b \in ByteBuffers : BufferIs(buffer'[b], want[b])
  BY <1>3, SharedParts
<1> HIDE DEF win, w
<1> QED BY <1>3, <1>6, <1>8, <1>9, <1>10, <1>11, <1>12, <1>13, SameBlockKeeps

(* The window moves, or the block changes in other fields than its cells.  *)
LEMMA SameCellsKeep ==
  ASSUME BuffersInv, NEW s \in SharedBuffers, shared[s] # None,
         NEW v \in Buf!BlockValues, v.count = block[shared[s].block].count,
         v.use <= Len(v.cells), v.cells = block[shared[s].block].cells,
         NEW win \in Buf!Windows, win.block = shared[s].block,
         NEW w \in Seq(Cells),
         Buf!Shares(s, [block EXCEPT ![shared[s].block] = v], win, w),
         astray \ {s} \subseteq astray',
         s \notin astray' => Holds(v.cells, win.begin, win.end, w),
         buffer' \in [ByteBuffers -> ByteBufferValues],
         \A b \in ByteBuffers : BufferIs(buffer'[b], want[b])
  PROVE  BuffersInv'
<1> DEFINE k == shared[s].block
           C == [block EXCEPT ![k] = v]
<1>1. block \in [Blocks -> Buf!BlockValues \cup {None}] /\ k \in Blocks
  BY SharedParts, HolderParts
<1>2. ASSUME NEW t \in SharedBuffers, shared[t] # None
      PROVE  C[shared[t].block].cells = block[shared[t].block].cells
  <2>1. shared[t].block \in Blocks
    BY <1>2, HolderParts
  <2> QED BY <1>1, <2>1
<1> HIDE DEF C
<1>3. \A t \in SharedBuffers : t # s /\ shared[t] # None /\ t \notin astray' =>
        t \notin astray /\ WindowIs(C, shared[t], want[t])
  BY <1>2, OtherCellsSame
<1>4. \A t \in SharedBuffers : t # s /\ shared[t] # None /\ t \notin astray' =>
        t \notin astray /\
        WindowIs([block EXCEPT ![shared[s].block] = v], shared[t], want[t])
  BY <1>3 DEF C
<1> QED BY <1>4, SameBlockKeeps

LEMMA ReadSharedKeeps ==
  ASSUME BuffersInv, NEW s \in SharedBuffers, shared[s] # None, NEW m \in BufferSizes,
         Buf!ReadShared(s, m)
  PROVE  BuffersInv'
<1> DEFINE k == shared[s].block
           begin == shared[s].begin
           end == shared[s].end
           win == [shared[s] EXCEPT !.begin = @ + m]
           w == SubSeq(want[s], m + 1, Len(want[s]))
<1>1. /\ shared[s] \in Buf!Windows /\ k \in Blocks /\ begin \in Nat /\ end \in Nat
      /\ block[k] \in Buf!BlockValues /\ block[k].use <= Len(block[k].cells)
      /\ block[k].cells \in Seq(Cells)
  BY HolderParts
<1>2. m \in Nat
  BY BuffersAssumed
<1>3. /\ end - begin >= m /\ Buf!Shares(s, block, win, w)
      /\ astray' = astray /\ buffer' = buffer
  BY DEF Buf!ReadShared
<1>4. [block EXCEPT ![k] = block[k]] = block
  BY <1>1, SharedParts
<1>5. begin + m \in Nat /\ begin + m <= end
  BY <1>1, <1>2, <1>3
<1>6. win \in Buf!Windows /\ win.block = k /\ win.begin = begin + m /\ win.end = end
  BY <1>1, <1>5 DEF Buf!Windows
<1>7. want[s] \in Seq(Cells)
  BY SharedParts
<1>8. w \in Seq(Cells)
  <2>1. \A i \in m + 1 .. Len(want[s]) : want[s][i] \in Cells
    <3> TAKE i \in m + 1 .. Len(want[s])
    <3>1. i \in 1 .. Len(want[s])
      BY <1>2, <1>7, LenProperties
    <3> QED BY <1>7, <3>1, ElementOfSeq
  <2>2. m + 1 \in Int /\ Len(want[s]) \in Int
    BY <1>2, <1>7, LenProperties
  <2> QED BY <2>1, <2>2, SubSeqProperties
<1>9. ASSUME s \notin astray'
      PROVE  Holds(block[k].cells, win.begin, win.end, w)
  <2>1. Holds(block[k].cells, begin, end, want[s])
    BY <1>3, <1>9, SharedParts DEF WindowIs
  <2> HIDE DEF k, begin, end
  <2>2. Holds(block[k].cells, begin + m, end, w)
    BY <1>1, <1>2, <1>5, <1>7, <2>1, HoldsRest
  <2> QED BY <1>6, <2>2
<1>10. /\ buffer' \in [ByteBuffers -> ByteBufferValues]
       /\ \A b \in ByteBuffers : BufferIs(buffer'[b], want[b])
  BY <1>3, SharedParts
<1>11. Buf!Shares(s, [block EXCEPT ![k] = block[k]], win, w)
  BY <1>3, <1>4
<1>12. astray \ {s} \subseteq astray'
  BY <1>3
<1> HIDE DEF win, w
<1> QED BY <1>1, <1>6, <1>8, <1>9, <1>10, <1>11, <1>12, SameCellsKeep

LEMMA ResetSharedKeeps ==
  ASSUME BuffersInv, NEW s \in SharedBuffers, shared[s] # None, Buf!ResetShared(s)
  PROVE  BuffersInv'
<1> DEFINE k == shared[s].block
           win == [shared[s] EXCEPT !.begin = 0, !.end = 0]
<1>1. /\ shared[s] \in Buf!Windows /\ k \in Blocks
      /\ block[k] \in Buf!BlockValues /\ block[k].use <= Len(block[k].cells)
      /\ block[k].cells \in Seq(Cells) /\ Len(block[k].cells) \in Nat
  BY HolderParts
<1>2. /\ Buf!Shares(s, block, win, << >>) /\ astray' = astray \ {s} /\ buffer' = buffer
  BY DEF Buf!ResetShared
<1>3. [block EXCEPT ![k] = block[k]] = block
  BY <1>1, SharedParts
<1>4. win \in Buf!Windows /\ win.block = k /\ win.begin = 0 /\ win.end = 0
  BY <1>1 DEF Buf!Windows
<1>5. Holds(block[k].cells, 0, 0, << >>) /\ << >> \in Seq(Cells)
  BY <1>1, HoldsNothing
<1>6. /\ buffer' \in [ByteBuffers -> ByteBufferValues]
      /\ \A b \in ByteBuffers : BufferIs(buffer'[b], want[b])
  BY <1>2, SharedParts
<1>7. Buf!Shares(s, [block EXCEPT ![k] = block[k]], win, << >>)
  BY <1>2, <1>3
<1>8. astray \ {s} \subseteq astray'
  BY <1>2
<1>9. Holds(block[k].cells, win.begin, win.end, << >>)
  BY <1>4, <1>5
<1> HIDE DEF win
<1> QED BY <1>1, <1>4, <1>5, <1>6, <1>7, <1>8, <1>9, SameCellsKeep

LEMMA ReserveSharedKeeps ==
  ASSUME BuffersInv, NEW s \in SharedBuffers, shared[s] # None, NEW m \in BufferSizes,
         Buf!ReserveShared(s, m)
  PROVE  BuffersInv'
<1> DEFINE k == shared[s].block
           v == block[k]
           g == [i \in 1 .. m |-> IF i \in DOMAIN v.cells THEN v.cells[i] ELSE Buf!Unset]
           u == [v EXCEPT !.cells = g]
           place == Len(v.cells)
<1>1. /\ shared[s] \in Buf!Windows /\ k \in Blocks /\ shared[s].begin \in Nat
      /\ shared[s].end \in Nat /\ v \in Buf!BlockValues /\ v.use <= Len(v.cells)
      /\ v.cells \in Seq(Cells) /\ v.use \in Nat /\ place \in Nat
  BY HolderParts
<1>2. m \in Nat
  BY BuffersAssumed
<1>3. /\ m > place /\ block' = [block EXCEPT ![k] = u]
      /\ shared' = shared /\ want' = want /\ astray' = astray /\ buffer' = buffer
  <2>1. block \in [Blocks -> Buf!BlockValues \cup {None}]
    BY SharedParts
  <2> QED BY <1>1, <2>1 DEF Buf!ReserveShared
<1>4. g \in Seq(Cells) /\ Len(g) = m /\ \A i \in 1 .. place : g[i] = v.cells[i]
  <2>1. place <= m
    BY <1>1, <1>2, <1>3
  <2> QED BY <1>1, <1>2, <2>1, ExtendedIs
<1> HIDE DEF g
<1>5. u \in Buf!BlockValues /\ u.count = v.count /\ u.use = v.use /\ u.cells = g
  BY <1>1, <1>4 DEF Buf!BlockValues, Cells
<1> HIDE DEF u
<1>6. Buf!Shares(s, [block EXCEPT ![k] = u], shared[s], want[s])
  <2>1. /\ want \in [ByteBuffers \cup SharedBuffers -> Seq(Cells)]
        /\ shared \in [SharedBuffers -> Buf!Windows \cup {None}]
    BY SharedParts DEF BuffersInv
  <2>2. shared = [shared EXCEPT ![s] = shared[s]] /\ want = [want EXCEPT ![s] = want[s]]
    BY <2>1
  <2> QED BY <1>3, <2>2 DEF Buf!Shares
<1>7. want[s] \in Seq(Cells)
  BY SharedParts
<1>8. u.use <= Len(u.cells) /\ place <= Len(u.cells)
  BY <1>1, <1>2, <1>3, <1>4, <1>5
<1> DEFINE cells == v.cells
<1>9. \A t \in SharedBuffers : shared[t] # None /\ t \notin astray /\ shared[t].block = k =>
        Holds(cells, shared[t].begin, shared[t].end, want[t])
  BY SharedParts DEF WindowIs
<1>10. ASSUME s \notin astray'
       PROVE  Holds(u.cells, shared[s].begin, shared[s].end, want[s])
  <2> DEFINE end == shared[s].end
  <2>1. Holds(cells, shared[s].begin, end, want[s])
    BY <1>3, <1>9, <1>10
  <2>2. end <= place
    BY <2>1 DEF Holds
  <2> HIDE DEF end
  <2>3. end \in Nat /\ end <= Len(u.cells)
    BY <1>1, <1>2, <1>3, <1>4, <1>5, <2>2 DEF end
  <2>4. \A i \in 1 .. end : u.cells[i] = cells[i]
    <3> TAKE i \in 1 .. end
    <3>1. i \in 1 .. place
      BY <1>1, <2>2, <2>3
    <3> QED BY <1>4, <1>5, <3>1
  <2>5. Holds(u.cells, shared[s].begin, end, want[s])
    BY <1>1, <2>1, <2>3, <2>4, HoldsStill
  <2> QED BY <2>5 DEF end
<1>11. ASSUME NEW t \in SharedBuffers, t # s, shared[t] # None, t \notin astray'
       PROVE  t \notin astray /\ WindowIs([block EXCEPT ![k] = u], shared[t], want[t])
  <2>0. /\ t \notin astray /\ shared[t].block \in Blocks /\ shared[t].begin \in Nat
        /\ shared[t].end \in Nat
    BY <1>3, <1>11, HolderParts
  <2>1. block \in [Blocks -> Buf!BlockValues \cup {None}]
    BY SharedParts
  <2>2. CASE shared[t].block # k
    <3>1. [block EXCEPT ![k] = u][shared[t].block] = block[shared[t].block]
      BY <2>0, <2>1, <2>2
    <3> QED BY <1>11, <2>0, <3>1, SharedParts DEF WindowIs
  <2>3. CASE shared[t].block = k
    <3> DEFINE end == shared[t].end
    <3>1. Holds(cells, shared[t].begin, end, want[t])
      BY <1>9, <1>11, <2>0, <2>3
    <3>2. end <= place
      BY <3>1 DEF Holds
    <3> HIDE DEF end
    <3>3. end \in Nat /\ end <= Len(u.cells)
      BY <1>1, <1>2, <1>3, <1>4, <1>5, <2>0, <3>2 DEF end
    <3>4. \A i \in 1 .. end : u.cells[i] = cells[i]
      <4> TAKE i \in 1 .. end
      <4>1. i \in 1 .. place
        BY <1>1, <3>2, <3>3
      <4> QED BY <1>4, <1>5, <4>1
    <3>5. Holds(u.cells, shared[t].begin, end, want[t])
      BY <1>1, <2>0, <3>1, <3>3, <3>4, HoldsStill
    <3>6. [block EXCEPT ![k] = u][shared[t].block] = u
      BY <1>1, <2>1, <2>3
    <3> QED BY <2>0, <3>5, <3>6 DEF WindowIs, end
  <2> QED BY <2>2, <2>3
<1>12. /\ buffer' \in [ByteBuffers -> ByteBufferValues]
       /\ \A b \in ByteBuffers : BufferIs(buffer'[b], want[b])
  BY <1>3, SharedParts
<1> QED BY <1>1, <1>5, <1>6, <1>7, <1>8, <1>10, <1>11, <1>12, SameBlockKeeps

LEMMA ClearSharedKeeps ==
  ASSUME BuffersInv, NEW s \in SharedBuffers, shared[s] # None, Buf!ClearShared(s)
  PROVE  BuffersInv'
<1> DEFINE k == shared[s].block
           v == block[k]
           u == [v EXCEPT !.cells = << >>, !.use = 0]
           win == [shared[s] EXCEPT !.begin = 0, !.end = 0]
<1>1. /\ shared[s] \in Buf!Windows /\ k \in Blocks /\ v \in Buf!BlockValues
  BY HolderParts
<1>2. /\ Buf!Shares(s, [block EXCEPT ![k] = u], win, << >>)
      /\ astray' = (astray \ {s}) \cup (Buf!Hit(k, 0) \ {s}) /\ buffer' = buffer
  <2>1. block \in [Blocks -> Buf!BlockValues \cup {None}]
    BY SharedParts
  <2> QED BY <1>1, <2>1 DEF Buf!ClearShared
<1>3. << >> \in Seq(Cells) /\ Len(<< >>) = 0
  BY EmptySeq
<1>4. /\ u \in Buf!BlockValues /\ u.count = v.count /\ u.use = 0 /\ u.cells = << >>
  BY <1>1, <1>3 DEF Buf!BlockValues, Cells
<1> HIDE DEF u
<1>5. win \in Buf!Windows /\ win.block = k /\ win.begin = 0 /\ win.end = 0
  BY <1>1 DEF Buf!Windows
<1>6. Holds(u.cells, win.begin, win.end, << >>)
  <2>1. Holds(<< >>, 0, 0, << >>)
    <3>1. 0 \in Nat /\ 0 <= Len(<< >>)
      BY <1>3
    <3> HIDE DEF Cells
    <3> QED BY <1>3, <3>1, HoldsNothing
  <2> QED BY <1>4, <1>5, <2>1
<1>7. u.use <= Len(u.cells) /\ 0 <= Len(u.cells) /\ 0 \in Nat
  BY <1>3, <1>4
<1>8. \A t \in SharedBuffers : t # s /\ shared[t] # None /\ t \notin astray' =>
        t \notin astray /\ WindowIs([block EXCEPT ![k] = u], shared[t], want[t])
  <2>1. \A i \in 1 .. 0 : u.cells[i] = v.cells[i]
    OBVIOUS
  <2>2. astray \ {s} \subseteq astray' /\ Buf!Hit(k, 0) \ {s} \subseteq astray'
    BY <1>2
  <2> QED BY <1>4, <1>7, <2>1, <2>2, OtherCellsBehind
<1>9. /\ buffer' \in [ByteBuffers -> ByteBufferValues]
      /\ \A b \in ByteBuffers : BufferIs(buffer'[b], want[b])
  BY <1>2, SharedParts
<1> HIDE DEF win
<1> QED BY <1>2, <1>3, <1>4, <1>5, <1>6, <1>7, <1>8, <1>9, SameBlockKeeps

-----------------------------------------------------------------------------
(* Blocks that are taken and left: the constructors, copying, assigning,   *)
(* destroying.                                                             *)

(* A SharedBuffer s with no block takes a new one, in blocks B in which    *)
(* the others are as before.                                               *)
LEMMA NewBlockKeeps ==
  ASSUME BuffersInv, NEW s \in SharedBuffers, NEW B, NEW k \in Blocks, B[k] = None,
         Counted(B, [shared EXCEPT ![s] = None]),
         \A t \in SharedBuffers : t # s /\ shared[t] # None =>
           B[shared[t].block].cells = block[shared[t].block].cells,
         NEW v \in Buf!BlockValues, v.count = 1, v.use <= Len(v.cells),
         NEW win \in Buf!Windows, win.block = k, NEW w \in Seq(Cells),
         Buf!Shares(s, [B EXCEPT ![k] = v], win, w),
         astray \ {s} \subseteq astray',
         Holds(v.cells, win.begin, win.end, w),
         buffer' \in [ByteBuffers -> ByteBufferValues],
         \A b \in ByteBuffers : BufferIs(buffer'[b], want[b])
  PROVE  BuffersInv'
<1> DEFINE S == [shared EXCEPT ![s] = None]
           C == [B EXCEPT ![k] = v]
<1>1. shared \in [SharedBuffers -> Buf!Windows \cup {None}]
  BY SharedParts
<1>2. /\ S[s] = None /\ [S EXCEPT ![s] = win] = [shared EXCEPT ![s] = win]
      /\ \A t \in SharedBuffers : t # s => S[t] = shared[t]
  BY <1>1
<1> HIDE DEF S
<1>3. /\ Counted(C, [S EXCEPT ![s] = win]) /\ C[k] = v
      /\ \A t \in SharedBuffers : S[t] # None => C[S[t].block] = B[S[t].block]
  <2>1. Counted(B, S)
    BY DEF S
  <2> QED BY <1>2, <2>1, NewCounts
<1> HIDE DEF C
<1>4. Counted(C, [shared EXCEPT ![s] = win])
  BY <1>2, <1>3
<1>5. \A t \in SharedBuffers : t # s /\ shared[t] # None =>
        C[shared[t].block].cells = block[shared[t].block].cells
  BY <1>2, <1>3
<1>6. \A t \in SharedBuffers : t # s /\ shared[t] # None /\ t \notin astray' =>
        t \notin astray /\ WindowIs(C, shared[t], want[t])
  BY <1>5, OtherCellsSame
<1>7. win # None /\ s \notin astray' => WindowIs(C, win, w)
  BY <1>3 DEF WindowIs
<1>8. Buf!Shares(s, C, win, w)
  BY DEF C
<1> QED BY <1>4, <1>6, <1>7, <1>8, SharesKeeps

LEMMA ConstructKeeps ==
  ASSUME BuffersInv, NEW s \in SharedBuffers,
         NEW v \in Buf!BlockValues, v.count = 1, v.use <= Len(v.cells),
         NEW m \in Nat, NEW w \in Seq(Cells), Holds(v.cells, 0, m, w),
         Buf!Construct(s, v, m, w)
  PROVE  BuffersInv'
<1> DEFINE k == Buf!NewBlock
           win == Buf!Window(k, 0, m)
<1>1. /\ shared[s] = None /\ Buf!Shares(s, [block EXCEPT ![k] = v], win, w)
      /\ astray' = astray \ {s} /\ buffer' = buffer
  BY DEF Buf!Construct
<1>2. Counted(block, shared) /\ shared \in [SharedBuffers -> Buf!Windows \cup {None}]
  BY SharedParts
<1>3. k \in Blocks /\ block[k] = None
  BY <1>2, NewBlockIs
<1> HIDE DEF k
<1>4. win \in Buf!Windows /\ win.block = k /\ win.begin = 0 /\ win.end = m
  BY <1>3 DEF Buf!Window, Buf!Windows
<1> HIDE DEF win
<1>5. shared = [shared EXCEPT ![s] = None]
  BY <1>1, <1>2
<1>6. Counted(block, [shared EXCEPT ![s] = None])
  BY <1>2, <1>5
<1>7. /\ buffer' \in [ByteBuffers -> ByteBufferValues]
      /\ \A b \in ByteBuffers : BufferIs(buffer'[b], want[b])
  BY <1>1, SharedParts
<1>8. astray \ {s} \subseteq astray' /\ Holds(v.cells, win.begin, win.end, w)
  BY <1>1, <1>4
<1> QED BY <1>1, <1>3, <1>4, <1>6, <1>7, <1>8, NewBlockKeeps

(* A SharedBuffer s with no block takes the one another holds.             *)
LEMMA HeldKeeps ==
  ASSUME BuffersInv, NEW s \in SharedBuffers, NEW t \in SharedBuffers, s # t,
         shared[t] # None, NEW B, Counted(B, [shared EXCEPT ![s] = None]),
         \A x \in SharedBuffers : x # s /\ shared[x] # None =>
           B[shared[x].block].cells = block[shared[x].block].cells,
         Buf!Shares(s, Buf!Held(B, shared[t].block), shared[t], want[t]),
         Buf!Follow(s, t), buffer' = buffer
  PROVE  BuffersInv'
<1> DEFINE S == [shared EXCEPT ![s] = None]
           win == shared[t]
           C == Buf!Held(B, win.block)
<1>1. /\ shared \in [SharedBuffers -> Buf!Windows \cup {None}] /\ win \in Buf!Windows
      /\ want[t] \in Seq(Cells)
  BY SharedParts, HolderParts
<1>2. /\ S[s] = None /\ [S EXCEPT ![s] = win] = [shared EXCEPT ![s] = win]
      /\ \A x \in SharedBuffers : x # s => S[x] = shared[x]
  BY <1>1
<1> HIDE DEF S
<1>3. Counted(B, S)
  BY DEF S
<1>4. B[win.block] # None
  <2>1. S[t] # None /\ S[t] = win
    BY <1>2
  <2> QED BY <1>3, <2>1, HolderIs
<1>5. /\ Counted(C, [S EXCEPT ![s] = win])
      /\ \A x \in SharedBuffers : S[x] # None => C[S[x].block].cells = B[S[x].block].cells
  BY <1>1, <1>2, <1>3, <1>4, HeldCounts
<1> HIDE DEF C
<1>6. Counted(C, [shared EXCEPT ![s] = win])
  BY <1>2, <1>5
<1>7. \A x \in SharedBuffers : x # s /\ shared[x] # None =>
        C[shared[x].block].cells = block[shared[x].block].cells
  BY <1>2, <1>5
<1>8. /\ astray \ {s} \subseteq astray'
      /\ s \notin astray' => t \notin astray
  BY DEF Buf!Follow
<1>9. \A x \in SharedBuffers : x # s /\ shared[x] # None /\ x \notin astray' =>
        x \notin astray /\ WindowIs(C, shared[x], want[x])
  BY <1>7, <1>8, OtherCellsSame
<1>10. win # None /\ s \notin astray' => WindowIs(C, win, want[t])
  <2> SUFFICES ASSUME s \notin astray'
               PROVE  WindowIs(C, win, want[t])
    OBVIOUS
  <2>1. WindowIs(block, win, want[t])
    BY <1>8, SharedParts
  <2>2. C[win.block].cells = block[win.block].cells
    BY <1>7
  <2> QED BY <2>1, <2>2 DEF WindowIs
<1>11. /\ buffer' \in [ByteBuffers -> ByteBufferValues]
       /\ \A b \in ByteBuffers : BufferIs(buffer'[b], want[b])
  BY SharedParts
<1>12. Buf!Shares(s, C, win, want[t])
  BY DEF C
<1> QED BY <1>1, <1>6, <1>9, <1>10, <1>11, <1>12, SharesKeeps

LEMMA CopyKeeps ==
  ASSUME BuffersInv, NEW s \in SharedBuffers, NEW t \in Buf!Live, Buf!Copy(s, t)
  PROVE  BuffersInv'
<1>1. /\ shared[s] = None /\ buffer' = buffer /\ Buf!Follow(s, t)
      /\ Buf!Shares(s, Buf!Held(block, shared[t].block), shared[t], want[t])
  BY DEF Buf!Copy
<1>2. t \in SharedBuffers /\ shared[t] # None /\ s # t
  BY <1>1 DEF Buf!Live
<1>3. Counted(block, shared) /\ shared \in [SharedBuffers -> Buf!Windows \cup {None}]
  BY SharedParts
<1>4. shared = [shared EXCEPT ![s] = None]
  BY <1>1, <1>3
<1>5. Counted(block, [shared EXCEPT ![s] = None])
  BY <1>3, <1>4
<1> QED BY <1>1, <1>2, <1>5, HeldKeeps

LEMMA ReleaseNow ==
  ASSUME BuffersInv, NEW s \in SharedBuffers, shared[s] # None
  PROVE  LET B == Buf!Release(block, shared[s].block)
         IN  /\ Counted(B, [shared EXCEPT ![s] = None])
             /\ \A x \in Blocks : block[x] = None => B[x] = None
             /\ \A x \in SharedBuffers : x # s /\ shared[x] # None =>
                  B[shared[x].block].cells = block[shared[x].block].cells
<1>1. Counted(block, shared)
  BY SharedParts
<1> QED BY <1>1, ReleaseCounts

LEMMA AssignSharedKeeps ==
  ASSUME BuffersInv, NEW s \in SharedBuffers, shared[s] # None, NEW t \in Buf!Live,
         Buf!AssignShared(s, t)
  PROVE  BuffersInv'
<1> DEFINE B == Buf!Release(block, shared[s].block)
<1>1. /\ s # t /\ buffer' = buffer /\ Buf!Follow(s, t)
      /\ Buf!Shares(s, Buf!Held(B, shared[t].block), shared[t], want[t])
  BY DEF Buf!AssignShared
<1>2. t \in SharedBuffers /\ shared[t] # None
  BY DEF Buf!Live
<1>3. /\ Counted(B, [shared EXCEPT ![s] = None])
      /\ \A x \in SharedBuffers : x # s /\ shared[x] # None =>
           B[shared[x].block].cells = block[shared[x].block].cells
  BY ReleaseNow
<1> HIDE DEF B
<1> QED BY <1>1, <1>2, <1>3, HeldKeeps

LEMMA DestroyKeeps ==
  ASSUME BuffersInv, NEW s \in SharedBuffers, shared[s] # None, Buf!Destroy(s)
  PROVE  BuffersInv'
<1> DEFINE B == Buf!Release(block, shared[s].block)
<1>1. Buf!Shares(s, B, None, << >>) /\ buffer' = buffer /\ astray' = astray
  BY DEF Buf!Destroy
<1>2. /\ Counted(B, [shared EXCEPT ![s] = None])
      /\ \A x \in SharedBuffers : x # s /\ shared[x] # None =>
           B[shared[x].block].cells = block[shared[x].block].cells
  BY ReleaseNow
<1> HIDE DEF B
<1>3. \A x \in SharedBuffers : x # s /\ shared[x] # None /\ x \notin astray' =>
        x \notin astray /\ WindowIs(B, shared[x], want[x])
  BY <1>1, <1>2, OtherCellsSame
<1>4. /\ buffer' \in [ByteBuffers -> ByteBufferValues]
      /\ \A b \in ByteBuffers : BufferIs(buffer'[b], want[b])
  BY <1>1, SharedParts
<1>5. << >> \in Seq(Cells)
  BY EmptySeq
<1> QED BY <1>1, <1>2, <1>3, <1>4, <1>5, SharesKeeps

(* data() and operator=(ByteBuffer &): the block is left for a new one.    *)
LEMMA RenewKeeps ==
  ASSUME BuffersInv, NEW s \in SharedBuffers, shared[s] # None,
         NEW v \in Buf!BlockValues, v.count = 1, v.use <= Len(v.cells),
         NEW m \in Nat, NEW j \in Nat, NEW w \in Seq(Cells), Holds(v.cells, m, j, w),
         Buf!Shares(s, [Buf!Release(block, shared[s].block) EXCEPT ![Buf!NewBlock] = v],
                    Buf!Window(Buf!NewBlock, m, j), w),
         astray' = astray \ {s},
         buffer' \in [ByteBuffers -> ByteBufferValues],
         \A b \in ByteBuffers : BufferIs(buffer'[b], want[b])
  PROVE  BuffersInv'
<1> DEFINE B == Buf!Release(block, shared[s].block)
           k == Buf!NewBlock
           win == Buf!Window(k, m, j)
<1>1. Counted(block, shared)
  BY SharedParts
<1>2. k \in Blocks /\ block[k] = None
  BY <1>1, NewBlockIs
<1>3. /\ Counted(B, [shared EXCEPT ![s] = None])
      /\ \A x \in Blocks : block[x] = None => B[x] = None
      /\ \A x \in SharedBuffers : x # s /\ shared[x] # None =>
           B[shared[x].block].cells = block[shared[x].block].cells
  BY ReleaseNow
<1>4. Buf!Shares(s, [B EXCEPT ![k] = v], win, w)
  OBVIOUS
<1> HIDE DEF B, k
<1>5. win \in Buf!Windows /\ win.block = k /\ win.begin = m /\ win.end = j
  BY <1>2 DEF Buf!Window, Buf!Windows
<1> HIDE DEF win
<1>6. B[k] = None
  BY <1>2, <1>3
<1>7. astray \ {s} \subseteq astray' /\ Holds(v.cells, win.begin, win.end, w)
  BY <1>5
<1> QED BY <1>2, <1>3, <1>4, <1>5, <1>6, <1>7, NewBlockKeeps

LEMMA SetSharedKeeps ==
  ASSUME BuffersInv, NEW s \in SharedBuffers, shared[s] # None, NEW c \in Bytes,
         NEW owner \in BOOLEAN, Buf!SetShared(s, c, owner)
  PROVE  BuffersInv'
<1> DEFINE m == IF owner THEN 1 ELSE 0
           v == Buf!Buffer_(<<c>>, m, owner)
           w == IF owner THEN <<c>> ELSE << >>
<1>1. /\ Buf!Shares(s, [Buf!Release(block, shared[s].block) EXCEPT ![Buf!NewBlock] = v],
                    Buf!Window(Buf!NewBlock, 0, m), w)
      /\ astray' = astray \ {s} /\ buffer' = buffer
  BY DEF Buf!SetShared
<1>2. c \in Cells
  BY BuffersAssumed
<1>3. <<c>> \in Seq(Cells) /\ Len(<<c>>) = 1 /\ Holds(<<c>>, 0, 1, <<c>>)
  BY <1>2, ByteHeld
<1>4. m \in Nat /\ m <= 1
  OBVIOUS
<1>5. Holds(<<c>>, 0, m, w) /\ w \in Seq(Cells)
  <2>1. 0 \in Nat /\ 0 <= Len(<<c>>)
    BY <1>3
  <2>2. Holds(<<c>>, 0, 0, << >>) /\ << >> \in Seq(Cells)
    BY <1>3, <2>1, HoldsNothing
  <2> QED BY <1>3, <2>2
<1> HIDE DEF m, w
<1>6. v = [cells |-> <<c>>, use |-> m, count |-> 1, owner |-> owner]
  BY DEF Buf!Buffer_
<1> HIDE DEF v
<1>7. v \in Buf!BlockValues /\ v.count = 1 /\ v.use = m /\ v.cells = <<c>>
  BY <1>3, <1>4, <1>6 DEF Buf!BlockValues, Cells
<1>8. v.use <= Len(v.cells)
  BY <1>3, <1>4, <1>7
<1>9. /\ buffer' \in [ByteBuffers -> ByteBufferValues]
      /\ \A b \in ByteBuffers : BufferIs(buffer'[b], want[b])
  BY <1>1, SharedParts
<1>10. Holds(v.cells, 0, m, w) /\ 0 \in Nat
  BY <1>5, <1>7
<1> QED BY <1>1, <1>4, <1>5, <1>7, <1>8, <1>9, <1>10, RenewKeeps

LEMMA TakeBytesKeeps ==
  ASSUME BuffersInv, NEW s \in SharedBuffers, shared[s] # None, NEW b \in ByteBuffers,
         Buf!TakeBytes(s, b)
  PROVE  BuffersInv'
<1> DEFINE k == shared[s].block
           from == buffer[b]
           g == Buf!Given(from)
<1>1. /\ from.owner /\ buffer' = [buffer EXCEPT ![b] = g] /\ astray' = astray \ {s}
  BY SharedParts DEF Buf!TakeBytes
<1>2. BufferIs(from, want[b]) /\ BufferIs(g, want[b])
  BY SharedParts, HandsHold
<1>3. /\ buffer' \in [ByteBuffers -> ByteBufferValues]
      /\ \A x \in ByteBuffers : BufferIs(buffer'[x], want[x])
  <2> HIDE DEF g
  <2>1. g \in ByteBufferValues /\ buffer \in [ByteBuffers -> ByteBufferValues]
    BY <1>2, SharedParts DEF BufferIs
  <2>2. buffer'[b] = g /\ \A x \in ByteBuffers : x # b => buffer'[x] = buffer[x]
    BY <1>1, <2>1
  <2> QED BY <1>1, <1>2, <2>1, <2>2, SharedParts
<1> HIDE DEF g
<1>4. /\ from.cells \in Seq(Cells) /\ from.begin \in Nat /\ from.end \in Nat
      /\ want[b] \in Seq(Cells) /\ Holds(from.cells, from.begin, from.end, want[b])
      /\ Len(from.cells) \in Nat
  BY <1>1, <1>2, PartsOf DEF BufferIs
<1>5. CASE from.cells = << >>
  <2> DEFINE v == [block[k] EXCEPT !.owner = TRUE]
             win == Buf!Window(k, 0, 0)
  <2>1. /\ k \in Blocks /\ block[k] \in Buf!BlockValues /\ block[k].cells \in Seq(Cells)
        /\ block[k].use <= Len(block[k].cells) /\ Len(block[k].cells) \in Nat
        /\ block \in [Blocks -> Buf!BlockValues \cup {None}]
    BY SharedParts, HolderParts
  <2>2. Buf!Shares(s, [block EXCEPT ![k] = v], win, << >>)
    BY <1>5, <2>1 DEF Buf!TakeBytes
  <2>3. /\ v \in Buf!BlockValues /\ v.count = block[k].count
        /\ v.use = block[k].use /\ v.cells = block[k].cells
    <3> HIDE DEF k
    <3> QED BY <2>1 DEF Buf!BlockValues
  <2>4. win \in Buf!Windows /\ win.block = k /\ win.begin = 0 /\ win.end = 0
    BY <2>1 DEF Buf!Window, Buf!Windows
  <2>5. Holds(v.cells, 0, 0, << >>) /\ << >> \in Seq(Cells)
    BY <2>1, <2>3, HoldsNothing
  <2> HIDE DEF v, win
  <2>6. v.use <= Len(v.cells) /\ Holds(v.cells, win.begin, win.end, << >>)
    BY <2>1, <2>3, <2>4, <2>5
  <2>7. astray \ {s} \subseteq astray'
    BY <1>1
  <2> QED BY <1>3, <2>2, <2>3, <2>4, <2>5, <2>6, <2>7, SameCellsKeep
<1>6. CASE from.cells # << >>
  <2> DEFINE v == Buf!Buffer_(from.cells, 0, TRUE)
  <2>1. Buf!Shares(s, [Buf!Release(block, k) EXCEPT ![Buf!NewBlock] = v],
                   Buf!Window(Buf!NewBlock, from.begin, from.end), want[b])
    BY <1>6 DEF Buf!TakeBytes
  <2>2. v \in Buf!BlockValues /\ v.count = 1 /\ v.use = 0 /\ v.cells = from.cells
    BY <1>4 DEF Buf!Buffer_, Buf!BlockValues, Cells
  <2> HIDE DEF v
  <2>3. v.use <= Len(v.cells) /\ Holds(v.cells, from.begin, from.end, want[b])
    BY <1>4, <2>2
  <2> HIDE DEF from
  <2> QED BY <1>1, <1>3, <1>4, <2>1, <2>2, <2>3, RenewKeeps
<1> QED BY <1>5, <1>6

LEMMA SharedBufferKeeps ==
  ASSUME BuffersInv, NEW s \in SharedBuffers, Buf!SharedBufferCall(s)
  PROVE  BuffersInv'
<1>1. ASSUME NEW m \in BufferSizes,
             Buf!Construct(s, Buf!Buffer_([i \in 1 .. m |-> Buf!Unset], 0, TRUE), 0, << >>)
      PROVE  BuffersInv'
  <2> DEFINE cells == Buf!Blank(m)
             v == Buf!Buffer_(cells, 0, TRUE)
  <2>1. m \in Nat
    BY BuffersAssumed
  <2>2. cells \in Seq(Cells) /\ Len(cells) = m /\ cells = [i \in 1 .. m |-> Buf!Unset]
    BY <2>1, BlankIs DEF Buf!Blank
  <2>3. Buf!Construct(s, v, 0, << >>)
    BY <1>1, <2>2
  <2> HIDE DEF cells
  <2>4. v \in Buf!BlockValues /\ v.count = 1 /\ v.use = 0 /\ v.cells = cells
    BY <2>2 DEF Buf!Buffer_, Buf!BlockValues, Cells
  <2> HIDE DEF v
  <2>5. v.use <= Len(v.cells)
    BY <2>1, <2>2, <2>4
  <2>6. Holds(v.cells, 0, 0, << >>) /\ << >> \in Seq(Cells) /\ 0 \in Nat
    BY <2>1, <2>2, <2>4, HoldsNothing
  <2> QED BY <2>3, <2>4, <2>5, <2>6, ConstructKeeps
<1>2. ASSUME NEW c \in Bytes, Buf!Construct(s, Buf!Buffer_(<<c>>, 1, TRUE), 1, <<c>>)
      PROVE  BuffersInv'
  <2> DEFINE v == Buf!Buffer_(<<c>>, 1, TRUE)
  <2>1. c \in Cells
    BY BuffersAssumed
  <2>2. <<c>> \in Seq(Cells) /\ Len(<<c>>) = 1 /\ Holds(<<c>>, 0, 1, <<c>>)
    BY <2>1, ByteHeld
  <2>3. v \in Buf!BlockValues /\ v.count = 1 /\ v.use = 1 /\ v.cells = <<c>>
    BY <2>2 DEF Buf!Buffer_, Buf!BlockValues, Cells
  <2>4. Buf!Construct(s, v, 1, <<c>>)
    BY <1>2
  <2> HIDE DEF v
  <2>5. v.use <= Len(v.cells) /\ Holds(v.cells, 0, 1, <<c>>) /\ 1 \in Nat
    BY <2>2, <2>3
  <2> QED BY <2>2, <2>3, <2>4, <2>5, ConstructKeeps
<1>3. ASSUME NEW t \in Buf!Live, Buf!Copy(s, t)
      PROVE  BuffersInv'
  BY <1>3, CopyKeeps
<1>4. s \in Buf!Live => shared[s] # None
  BY DEF Buf!Live
<1>5. ASSUME s \in Buf!Live, NEW t \in Buf!Live, Buf!AssignShared(s, t)
      PROVE  BuffersInv'
  BY <1>4, <1>5, AssignSharedKeeps
<1>6. ASSUME s \in Buf!Live, NEW c \in Bytes, Buf!WriteShared(s, c)
      PROVE  BuffersInv'
  BY <1>4, <1>6, WriteSharedKeeps
<1>7. ASSUME s \in Buf!Live, NEW c \in Bytes, Buf!ReceiveShared(s, c)
      PROVE  BuffersInv'
  BY <1>4, <1>7, ReceiveSharedKeeps
<1>8. ASSUME s \in Buf!Live, NEW c \in Bytes, NEW owner \in BOOLEAN,
             Buf!SetShared(s, c, owner)
      PROVE  BuffersInv'
  BY <1>4, <1>8, SetSharedKeeps
<1>9. ASSUME s \in Buf!Live, NEW m \in BufferSizes, Buf!ReadShared(s, m)
      PROVE  BuffersInv'
  BY <1>4, <1>9, ReadSharedKeeps
<1>10. ASSUME s \in Buf!Live, NEW m \in BufferSizes, Buf!ReserveShared(s, m)
       PROVE  BuffersInv'
  BY <1>4, <1>10, ReserveSharedKeeps
<1>11. ASSUME s \in Buf!Live, NEW b \in ByteBuffers, Buf!TakeBytes(s, b)
       PROVE  BuffersInv'
  BY <1>4, <1>11, TakeBytesKeeps
<1>12. ASSUME s \in Buf!Live,
              \/ Buf!CStrShared(s) \/ Buf!ResetShared(s)
              \/ Buf!ClearShared(s) \/ Buf!Destroy(s)
       PROVE  BuffersInv'
  BY <1>4, <1>12, CStrSharedKeeps, ResetSharedKeeps, ClearSharedKeeps,
     DestroyKeeps
<1> QED BY <1>1, <1>2, <1>3, <1>5, <1>6, <1>7, <1>8, <1>9, <1>10, <1>11, <1>12
        DEF Buf!SharedBufferCall

LEMMA NextBuffers ==
  ASSUME BuffersInv, Buf!Next
  PROVE  BuffersInv'
BY ByteBufferKeeps, SharedBufferKeeps DEF Buf!Next

LEMMA BuffersHeld ==
  ASSUME BuffersInv
  PROVE  Buf!BuffersHold
<1>1. ASSUME NEW k \in Blocks
      PROVE  IF block[k] = None THEN Buf!Holders(k) = {}
             ELSE block[k].count = Buf!Cardinality(Buf!Holders(k))
  <2>1. Buf!Holders(k) = HoldersOf(shared, k)
    BY DEF Buf!Holders, HoldersOf
  <2>2. \A H : Buf!Cardinality(H) = Cardinality(H)
    BY DEF Buf!Cardinality, Cardinality
  <2> QED BY <2>1, <2>2, SharedParts DEF BuffersInv, Counted
<1>2. ASSUME NEW b \in ByteBuffers, buffer[b].owner
      PROVE  Buf!DataOf(buffer[b]) = want[b]
  <2>1. BufferIs(buffer[b], want[b])
    BY DEF BuffersInv
  <2>2. /\ buffer[b].cells \in Seq(Cells) /\ buffer[b].begin \in Nat
        /\ buffer[b].end \in Nat /\ want[b] \in Seq(Cells)
        /\ Holds(buffer[b].cells, buffer[b].begin, buffer[b].end, want[b])
    BY <1>2, <2>1, PartsOf DEF BufferIs
  <2> QED BY <2>2, HoldsIs DEF Buf!DataOf
<1>3. ASSUME NEW s \in Buf!Live \ astray
      PROVE  SubSeq(block[shared[s].block].cells, shared[s].begin + 1, shared[s].end) = want[s]
  <2>1. s \in SharedBuffers /\ shared[s] # None /\ s \notin astray
    BY DEF Buf!Live
  <2>2. /\ block[shared[s].block].cells \in Seq(Cells) /\ shared[s].begin \in Nat
        /\ shared[s].end \in Nat /\ want[s] \in Seq(Cells)
    BY <2>1, HolderParts, SharedParts
  <2>3. Holds(block[shared[s].block].cells, shared[s].begin, shared[s].end, want[s])
    BY <2>1, SharedParts DEF WindowIs
  <2> QED BY <2>2, <2>3, HoldsIs
<1> QED BY <1>1, <1>2, <1>3 DEF Buf!BuffersHold

(* Whichever component takes the steps, the buffers satisfy BuffersInv.    *)
LEMMA BuffersInvariance == AllSpec => []BuffersInv
<1>1. AllInit => BuffersInv
  BY InitBuffers DEF AllInit, BufStill
<1>2. BuffersInv /\ [AllNext]_allVars => BuffersInv'
  <2> SUFFICES ASSUME BuffersInv, [AllNext]_allVars
               PROVE  BuffersInv'
    OBVIOUS
  <2>1. CASE Buf!Next
    BY <2>1, NextBuffers
  <2>2. CASE UNCHANGED bufVars
    BY <2>2 DEF bufVars, BuffersInv
  <2> QED BY <2>1, <2>2 DEF AllNext, allVars
<1> QED BY <1>1, <1>2, PTL DEF AllSpec

(* Through any sequence of calls of any number of ByteBuffers and          *)
(* SharedBuffers, with any bytes and sizes: a block is counted once for    *)
(* each SharedBuffer that holds it, so the last one, and no other, deletes *)
(* it; a ByteBuffer that owns its block has the bytes written to it and    *)
(* not yet read; and so has a SharedBuffer, unless a write through it or   *)
(* through another holder of its block was misplaced.                      *)
THEOREM BuffersKeepTheirData == AllSpec => []BuffersHold
<1>1. BuffersInv => BuffersHold
  BY BuffersHeld DEF BuffersHold
<1> QED BY <1>1, BuffersInvariance, PTL

-----------------------------------------------------------------------------
(* Memory.  Every case of the two switches stores as many bytes as its     *)
(* label says.                                                             *)
StoresExactly(entry, mods, k) ==
  Copy!Stored(Copy!Words(entry), Copy!Widths(entry, mods)) = k

LEMMA CopyCasesAreRight ==
  ASSUME NEW k \in 1 .. 256
  PROVE  StoresExactly(Copy!CopyCases[k], Copy!CopyMods, k)
BY SMTT(60) DEF StoresExactly, Copy!Stored, Copy!Words, Copy!Widths, Copy!CopyCases,
                Copy!CopyMods

LEMMA ClearCasesAreRight ==
  ASSUME NEW k \in 1 .. 256
  PROVE  StoresExactly(Copy!ClearCases[k], Copy!ClearMods, k)
BY SMTT(60) DEF StoresExactly, Copy!Stored, Copy!Words, Copy!Widths, Copy!ClearCases,
                Copy!ClearMods

LEMMA CaseCovers ==
  ASSUME NEW k \in Nat, NEW entry, NEW mods, StoresExactly(entry, mods, k)
  PROVE  Copy!Covered(Copy!Words(entry), Copy!Widths(entry, mods))
           = memory_at .. memory_at + k - 1
BY DEF StoresExactly, Copy!Covered

(* The bytes up to dest_64 are done, and n are left.                       *)
MemoryInv ==
  /\ call \in [op : {"memcpy", "memclear"}, size : MemorySizes]
  /\ memory_at \in Nat /\ n \in Nat /\ memory_at + n = call.size
  /\ LET moved == IF done THEN 0 .. call.size - 1 ELSE 0 .. memory_at - 1
     IN  IF call.op = "memcpy" THEN copied = moved /\ cleared = {}
         ELSE cleared = moved /\ copied = {}

LEMMA InitMemory ==
  ASSUME Copy!MemoryAssumption, Copy!Init
  PROVE  MemoryInv
<1>1. call.size \in Nat
  BY DEF Copy!Init, Copy!MemoryAssumption
<1>2. 0 .. 0 - 1 = {}
  OBVIOUS
<1> QED BY <1>1, <1>2 DEF Copy!Init, MemoryInv

LEMMA BlockKeeps ==
  ASSUME Copy!MemoryAssumption, MemoryInv, Copy!CopyBlock \/ Copy!ClearBlock
  PROVE  MemoryInv'
<1> DEFINE more == memory_at .. memory_at + 256 - 1
<1>1. /\ memory_at \in Nat /\ n \in Nat /\ memory_at + n = call.size
      /\ n > 256 /\ ~done /\ memory_at' = memory_at + 256 /\ n' = n - 256
      /\ call' = call /\ done' = done
  BY DEF Copy!MemoryAssumption, MemoryInv, Copy!CopyBlock, Copy!ClearBlock
<1>2. memory_at' \in Nat /\ n' \in Nat /\ memory_at' + n' = call.size
  BY <1>1
<1>3. Copy!Covered(32, <<0, 0, 0>>) = more
  BY <1>1 DEF Copy!Covered, Copy!Stored
<1>4. (0 .. memory_at - 1) \cup more = 0 .. memory_at' - 1
  BY <1>1
<1> HIDE DEF more
<1>5. CASE Copy!CopyBlock
  <2>1. call.op = "memcpy" /\ copied' = copied \cup more /\ cleared' = cleared
    BY <1>3, <1>5 DEF Copy!CopyBlock
  <2> QED BY <1>1, <1>2, <1>4, <2>1 DEF MemoryInv
<1>6. CASE Copy!ClearBlock
  <2>1. call.op = "memclear" /\ cleared' = cleared \cup more /\ copied' = copied
    BY <1>3, <1>6 DEF Copy!ClearBlock
  <2> QED BY <1>1, <1>2, <1>4, <2>1 DEF MemoryInv
<1> QED BY <1>5, <1>6

LEMMA CaseKeeps ==
  ASSUME Copy!MemoryAssumption, MemoryInv, Copy!CopyCase \/ Copy!ClearCase
  PROVE  MemoryInv'
<1> DEFINE more == memory_at .. memory_at + n - 1
<1>1. /\ memory_at \in Nat /\ n \in 0 .. 256 /\ memory_at + n = call.size
      /\ ~done /\ memory_at' = memory_at /\ n' = n /\ call' = call /\ done'
  BY DEF MemoryInv, Copy!CopyCase, Copy!ClearCase
<1>2. n = 0 => more = {}
  BY <1>1
<1>3. (0 .. memory_at - 1) \cup more = 0 .. call.size - 1
  BY <1>1
<1>4. n # 0 => n \in 1 .. 256 /\ n \in Nat
  BY <1>1
<1>5. n # 0 => more = Copy!Covered(Copy!Words(Copy!CopyCases[n]),
                                   Copy!Widths(Copy!CopyCases[n], Copy!CopyMods))
  BY <1>1, <1>4, CopyCasesAreRight, CaseCovers
<1>6. n # 0 => more = Copy!Covered(Copy!Words(Copy!ClearCases[n]),
                                   Copy!Widths(Copy!ClearCases[n], Copy!ClearMods))
  BY <1>1, <1>4, ClearCasesAreRight, CaseCovers
<1> HIDE DEF more
<1>7. CASE Copy!CopyCase
  <2>1. call.op = "memcpy" /\ copied' = copied \cup more /\ cleared' = cleared
    BY <1>2, <1>5, <1>7 DEF Copy!CopyCase
  <2> QED BY <1>1, <1>3, <2>1 DEF MemoryInv
<1>8. CASE Copy!ClearCase
  <2>1. call.op = "memclear" /\ cleared' = cleared \cup more /\ copied' = copied
    BY <1>2, <1>6, <1>8 DEF Copy!ClearCase
  <2> QED BY <1>1, <1>3, <2>1 DEF MemoryInv
<1> QED BY <1>7, <1>8

LEMMA MemoryMoved ==
  ASSUME MemoryInv
  PROVE  Copy!Moved
<1>1. /\ memory_at \in Nat /\ n \in Nat /\ memory_at + n = call.size
      /\ call.op \in {"memcpy", "memclear"}
  BY DEF MemoryInv
<1>2. 0 .. memory_at - 1 \subseteq 0 .. call.size - 1
  BY <1>1
<1> QED BY <1>1, <1>2 DEF MemoryInv, Copy!Moved

LEMMA MemoryInvariance == AllSpec => []MemoryInv
<1> USE SequentialAssumption
<1>1. AllInit => MemoryInv
  BY InitMemory DEF AllInit, CopyStill
<1>2. MemoryInv /\ [AllNext]_allVars => MemoryInv'
  <2> SUFFICES ASSUME MemoryInv, [AllNext]_allVars
               PROVE  MemoryInv'
    OBVIOUS
  <2>1. CASE Copy!Next
    BY <2>1, BlockKeeps, CaseKeeps DEF Copy!Next
  <2>2. CASE UNCHANGED copyVars
    BY <2>2 DEF copyVars, MemoryInv
  <2> QED BY <2>1, <2>2 DEF AllNext, allVars
<1> QED BY <1>1, <1>2, PTL DEF AllSpec

(* memcpy() and memclear() of any number of bytes: when they return,       *)
(* exactly the bytes asked for have been stored, and never one beyond,     *)
(* whichever of the 256 cases of its switch ends the call.                 *)
THEOREM MovedIsAskedFor == AllSpec => []Moved
<1>1. MemoryInv => Moved
  BY MemoryMoved DEF Moved
<1> QED BY <1>1, MemoryInvariance, PTL

=============================================================================
