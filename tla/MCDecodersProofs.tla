-------------------------- MODULE MCDecodersProofs --------------------------
(***************************************************************************)
(* Decoders: however a stream is cut, the messages delivered are those     *)
(* that were sent, in order, and none that has arrived is held back.       *)
(***************************************************************************)
EXTENDS MCSequential, TLAPS, SequenceTheorems, WellFoundedInduction

-----------------------------------------------------------------------------
(* A set of numbers has a least one.                                       *)
LEMMA LeastIs ==
  ASSUME NEW S, S \subseteq Nat, S # {}
  PROVE  \E i \in S : \A j \in S : i <= j
<1> DEFINE Less == OpToRel(<, Nat)
<1>1. IsWellFoundedOn(Less, Nat)
  BY NatLessThanWellFounded
<1>2. \A i, j \in Nat : i < j => <<i, j>> \in Less
  BY DEF OpToRel
<1> HIDE DEF Less
<1>3. PICK i \in S : \A j \in S : ~(<<j, i>> \in Less)
  BY <1>1, WFMin
<1>4. \A j \in S : i <= j
  <2> TAKE j \in S
  <2>1. ~(j < i)
    BY <1>2, <1>3
  <2> QED BY <2>1
<1> QED BY <1>4

(* Sequences in general: joining them is associative.                      *)
JoinsAssociate(D) == \A a, b, c \in Seq(D) : (a \o b) \o c = a \o (b \o c)

LEMMA Associative ==
  ASSUME NEW D
  PROVE  JoinsAssociate(D)
<1> SUFFICES ASSUME NEW a \in Seq(D), NEW b \in Seq(D), NEW c \in Seq(D)
             PROVE  (a \o b) \o c = a \o (b \o c)
  BY Zenon DEF JoinsAssociate
<1> DEFINE l == (a \o b) \o c
           r == a \o (b \o c)
<1>1. /\ Len(a) \in Nat /\ Len(b) \in Nat /\ Len(c) \in Nat
      /\ a \o b \in Seq(D) /\ Len(a \o b) = Len(a) + Len(b)
      /\ b \o c \in Seq(D) /\ Len(b \o c) = Len(b) + Len(c)
  BY ConcatProperties, LenProperties
<1>2. /\ l \in Seq(D) /\ Len(l) = Len(a) + Len(b) + Len(c)
      /\ r \in Seq(D) /\ Len(r) = Len(a) + Len(b) + Len(c)
  BY <1>1, ConcatProperties
<1>3. ASSUME NEW i \in 1 .. Len(a) + Len(b) + Len(c)
      PROVE  l[i] = r[i]
  <2>1. l[i] = IF i <= Len(a \o b) THEN (a \o b)[i] ELSE c[i - Len(a \o b)]
    BY <1>1, ConcatProperties
  <2>2. r[i] = IF i <= Len(a) THEN a[i] ELSE (b \o c)[i - Len(a)]
    BY <1>1, ConcatProperties
  <2>3. i <= Len(a) + Len(b) => (a \o b)[i] = IF i <= Len(a) THEN a[i] ELSE b[i - Len(a)]
    BY <1>1, ConcatProperties
  <2>4. i > Len(a) => (b \o c)[i - Len(a)] =
                        IF i - Len(a) <= Len(b) THEN b[i - Len(a)] ELSE c[i - Len(a) - Len(b)]
    BY <1>1, ConcatProperties
  <2> HIDE DEF l, r
  <2> QED BY <1>1, <2>1, <2>2, <2>3, <2>4
<1> HIDE DEF l, r
<1>4. l = r
  BY <1>2, <1>3, SeqEqual
<1> QED BY <1>4 DEF l, r

(* The first elements of a sequence of sequences, put together one by one. *)
Joined(g, s, m) ==
  g = [i \in 1 .. m |-> IF i = 1 THEN s[i] ELSE g[i - 1] \o s[i]]

LEMMA JoinedIs ==
  ASSUME NEW g, NEW s, NEW m \in Nat
  PROVE  Joined(g, s, m) <=>
           /\ g = [i \in 1 .. m |-> g[i]]
           /\ \A i \in 1 .. m : g[i] = IF i = 1 THEN s[i] ELSE g[i - 1] \o s[i]
BY DEF Joined

(* There is one such function, for every length.                           *)
LEMMA JoinedOnce ==
  ASSUME NEW s, NEW m \in Nat, NEW k \in 0 .. m, NEW g, NEW h,
         Joined(g, s, m), Joined(h, s, k)
  PROVE  \A i \in 1 .. k : g[i] = h[i]
<1> DEFINE S == { i \in 1 .. k : g[i] # h[i] }
<1>1. /\ \A i \in 1 .. m : g[i] = IF i = 1 THEN s[i] ELSE g[i - 1] \o s[i]
      /\ \A i \in 1 .. k : h[i] = IF i = 1 THEN s[i] ELSE h[i - 1] \o s[i]
  BY JoinedIs
<1>2. S = {}
  <2> SUFFICES ASSUME S # {}
               PROVE  FALSE
    OBVIOUS
  <2>1. PICK i \in S : \A j \in S : i <= j
    <3>1. S \subseteq Nat
      OBVIOUS
    <3> HIDE DEF S
    <3> QED BY <3>1, LeastIs
  <2>2. CASE i = 1
    BY <1>1, <2>2
  <2>3. CASE i # 1
    <3>1. i \in 1 .. k /\ i - 1 \in 1 .. k /\ i \in 1 .. m /\ ~(i <= i - 1)
      BY <2>3
    <3>2. i - 1 \notin S
      <4> HIDE DEF S
      <4> QED BY <2>1, <3>1
    <3>3. g[i - 1] = h[i - 1]
      BY <3>1, <3>2
    <3>4. g[i] = g[i - 1] \o s[i] /\ h[i] = h[i - 1] \o s[i]
      BY <1>1, <2>3, <3>1
    <3>5. g[i] # h[i]
      OBVIOUS
    <3> QED BY <3>3, <3>4, <3>5
  <2> QED BY <2>2, <2>3
<1> QED BY <1>2

LEMMA JoinedMore ==
  ASSUME NEW s, NEW m \in Nat, NEW g, Joined(g, s, m)
  PROVE  \E h : Joined(h, s, m + 1)
<1> DEFINE last == IF m + 1 = 1 THEN s[m + 1] ELSE g[m] \o s[m + 1]
           h == [i \in 1 .. m + 1 |-> IF i = m + 1 THEN last ELSE g[i]]
<1>1. \A i \in 1 .. m : g[i] = IF i = 1 THEN s[i] ELSE g[i - 1] \o s[i]
  BY JoinedIs
<1>2. ASSUME NEW i \in 1 .. m + 1
      PROVE  h[i] = IF i = 1 THEN s[i] ELSE h[i - 1] \o s[i]
  <2>1. CASE i = m + 1
    <3>1. h[i] = last
      BY <2>1
    <3>2. i # 1 => h[i - 1] = g[m]
      BY <2>1
    <3> QED BY <2>1, <3>1, <3>2
  <2>2. CASE i # m + 1
    <3>1. i \in 1 .. m /\ h[i] = g[i]
      BY <2>2
    <3>2. i # 1 => h[i - 1] = g[i - 1]
      BY <2>2
    <3> QED BY <1>1, <3>1, <3>2
  <2> QED BY <2>1, <2>2
<1>3. h = [i \in 1 .. m + 1 |-> h[i]]
  OBVIOUS
<1> HIDE DEF h
<1>4. m + 1 \in Nat
  OBVIOUS
<1>5. Joined(h, s, m + 1)
  BY <1>2, <1>3, <1>4, JoinedIs, Zenon
<1> QED BY <1>5

LEMMA JoinedExists ==
  ASSUME NEW s, NEW m \in Nat
  PROVE  \E g : Joined(g, s, m)
<1> DEFINE S == { k \in Nat : ~ \E g : Joined(g, s, k) }
<1>1. S = {}
  <2> SUFFICES ASSUME S # {}
               PROVE  FALSE
    OBVIOUS
  <2>1. PICK k \in S : \A j \in S : k <= j
    <3>1. S \subseteq Nat
      OBVIOUS
    <3> HIDE DEF S
    <3> QED BY <3>1, LeastIs
  <2>2. CASE k = 0
    <3> DEFINE g == [i \in 1 .. 0 |-> 0]
    <3>1. g = [i \in 1 .. 0 |-> g[i]] /\ 1 .. 0 = {}
      OBVIOUS
    <3> HIDE DEF g
    <3>2. Joined(g, s, 0)
      BY <3>1, JoinedIs
    <3> QED BY <2>2, <3>2
  <2>3. CASE k # 0
    <3>1. k \in Nat /\ k - 1 \in Nat /\ ~(k <= k - 1) /\ (k - 1) + 1 = k
      BY <2>3
    <3>2. k - 1 \notin S
      <4> HIDE DEF S
      <4> QED BY <2>1, <3>1
    <3>3. PICK g : Joined(g, s, k - 1)
      BY <3>1, <3>2
    <3>4. \E h : Joined(h, s, (k - 1) + 1)
      BY <3>1, <3>3, JoinedMore
    <3>5. \E h : Joined(h, s, k)
      BY <3>1, <3>4
    <3> QED BY <3>5
  <2> QED BY <2>2, <2>3
<1> QED BY <1>1

LEMMA JoinedSeqs ==
  ASSUME NEW D, NEW s \in Seq(Seq(D)), NEW g, Joined(g, s, Len(s))
  PROVE  \A i \in 1 .. Len(s) : g[i] \in Seq(D)
<1> DEFINE m == Len(s)
           S == { i \in 1 .. m : g[i] \notin Seq(D) }
<1>1. m \in Nat /\ \A i \in 1 .. m : s[i] \in Seq(D)
  BY LenProperties
<1>2. \A i \in 1 .. m : g[i] = IF i = 1 THEN s[i] ELSE g[i - 1] \o s[i]
  BY <1>1, JoinedIs
<1> HIDE DEF m
<1>3. S = {}
  <2> SUFFICES ASSUME S # {}
               PROVE  FALSE
    OBVIOUS
  <2>1. PICK i \in S : \A j \in S : i <= j
    <3>1. S \subseteq Nat
      BY <1>1
    <3> HIDE DEF S
    <3> QED BY <3>1, LeastIs
  <2>2. CASE i = 1
    BY <1>1, <1>2, <2>2
  <2>3. CASE i # 1
    <3>1. i \in 1 .. m /\ i - 1 \in 1 .. m /\ ~(i <= i - 1)
      BY <1>1, <2>3
    <3>2. i - 1 \notin S
      <4> HIDE DEF S
      <4> QED BY <2>1, <3>1
    <3>3. g[i - 1] \in Seq(D) /\ s[i] \in Seq(D)
      BY <1>1, <3>1, <3>2
    <3>4. g[i] = g[i - 1] \o s[i]
      BY <1>2, <2>3, <3>1
    <3>5. g[i] \in Seq(D)
      BY <3>3, <3>4, ConcatProperties
    <3> QED BY <3>5
  <2> QED BY <2>2, <2>3
<1> QED BY <1>3 DEF m

(* FlattenSeq() is the last of them.                                       *)
LEMMA FlattenIs ==
  ASSUME NEW D, NEW s \in Seq(Seq(D)), NEW g, Joined(g, s, Len(s))
  PROVE  Decoder!FlattenSeq(s) = IF Len(s) = 0 THEN << >> ELSE g[Len(s)]
<1> DEFINE f == CHOOSE h : Joined(h, s, Len(s))
<1>1. Len(s) \in Nat
  BY LenProperties
<1>2. Joined(f, s, Len(s))
  OBVIOUS
<1>3. Decoder!FlattenSeq(s) = IF Len(s) = 0 THEN s ELSE f[Len(s)]
  BY DEF Decoder!FlattenSeq, Joined
<1>4. Len(s) = 0 => s = << >>
  BY EmptySeq
<1> HIDE DEF f
<1>5. \A i \in 1 .. Len(s) : f[i] = g[i]
  BY <1>1, <1>2, JoinedOnce
<1> QED BY <1>1, <1>3, <1>4, <1>5

LEMMA FlattenSeqIs ==
  ASSUME NEW D, NEW s \in Seq(Seq(D))
  PROVE  Decoder!FlattenSeq(s) \in Seq(D)
<1>1. Len(s) \in Nat
  BY LenProperties
<1>2. PICK g : Joined(g, s, Len(s))
  BY <1>1, JoinedExists
<1>3. Decoder!FlattenSeq(s) = IF Len(s) = 0 THEN << >> ELSE g[Len(s)]
  BY <1>2, FlattenIs
<1>4. \A i \in 1 .. Len(s) : g[i] \in Seq(D)
  BY <1>2, JoinedSeqs
<1> QED BY <1>1, <1>3, <1>4, EmptySeq

(* One more sequence at the end.                                           *)
LEMMA FlattenAppend ==
  ASSUME NEW D, NEW s \in Seq(Seq(D)), NEW e \in Seq(D)
  PROVE  Decoder!FlattenSeq(Append(s, e)) = Decoder!FlattenSeq(s) \o e
<1> DEFINE t == Append(s, e)
           m == Len(s)
<1>1. /\ m \in Nat /\ m + 1 \in Nat /\ t \in Seq(Seq(D)) /\ Len(t) = m + 1
      /\ \A i \in 1 .. m : t[i] = s[i]
      /\ t[m + 1] = e
  BY AppendProperties, LenProperties
<1>2. PICK g : Joined(g, t, m + 1)
  BY <1>1, JoinedExists, Zenon
<1> DEFINE h == [i \in 1 .. m |-> g[i]]
<1>3. \A i \in 1 .. m + 1 : g[i] = IF i = 1 THEN t[i] ELSE g[i - 1] \o t[i]
  BY <1>2 DEF Joined
<1> HIDE DEF t, m
<1>4. Joined(h, s, m)
  <2>1. ASSUME NEW i \in 1 .. m
        PROVE  h[i] = IF i = 1 THEN s[i] ELSE h[i - 1] \o s[i]
    <3>0. m \in Nat /\ t[i] = s[i]
      BY <1>1
    <3>1. i \in 1 .. m + 1 /\ h[i] = g[i] /\ t[i] = s[i]
      BY <3>0
    <3>2. i # 1 => h[i - 1] = g[i - 1]
      BY <1>1
    <3> QED BY <1>3, <3>1, <3>2
  <2>2. h = [i \in 1 .. m |-> h[i]]
    OBVIOUS
  <2> HIDE DEF h
  <2> QED BY <1>1, <2>1, <2>2, JoinedIs
<1>5. Decoder!FlattenSeq(t) = g[m + 1]
  <2>1. Decoder!FlattenSeq(t) = IF Len(t) = 0 THEN << >> ELSE g[Len(t)]
    BY <1>1, <1>2, FlattenIs
  <2> QED BY <1>1, <2>1
<1>6. Decoder!FlattenSeq(s) = IF m = 0 THEN << >> ELSE h[m]
  <2> HIDE DEF h
  <2> QED BY <1>4, FlattenIs DEF m
<1>7. m + 1 \in 1 .. m + 1 /\ (m # 0 => m \in 1 .. m) /\ (m + 1) - 1 = m
  BY <1>1
<1>8. g[m + 1] = IF m = 0 THEN e ELSE g[m] \o e
  BY <1>1, <1>3, <1>7
<1>9. m # 0 => h[m] = g[m]
  BY <1>7
<1>10. << >> \o e = e
  BY ConcatEmptySeq
<1> HIDE DEF h
<1> QED BY <1>5, <1>6, <1>8, <1>9, <1>10 DEF t

(* One more sequence at the beginning.                                     *)
LEMMA FlattenTail ==
  ASSUME NEW D, NEW s \in Seq(Seq(D)), s # << >>
  PROVE  Decoder!FlattenSeq(s) = s[1] \o Decoder!FlattenSeq(Tail(s))
<1>0. JoinsAssociate(D)
  BY Associative, Zenon
<1> DEFINE m == Len(s)
           t == Tail(s)
<1>1. /\ m \in Nat \ {0} /\ t \in Seq(Seq(D)) /\ Len(t) = m - 1 /\ m - 1 \in Nat
      /\ \A i \in 1 .. m - 1 : t[i] = s[i + 1]
      /\ \A i \in 1 .. m : s[i] \in Seq(D)
  BY HeadTailProperties, LenProperties, EmptySeq
<1>2. PICK h : Joined(h, t, m - 1)
  BY <1>1, JoinedExists
<1> HIDE DEF t
<1>3. \A i \in 1 .. m - 1 : h[i] = IF i = 1 THEN t[i] ELSE h[i - 1] \o t[i]
  BY <1>2 DEF Joined
<1>4. \A i \in 1 .. m - 1 : h[i] \in Seq(D)
  BY <1>1, <1>2, JoinedSeqs
<1> DEFINE g == [i \in 1 .. m |-> IF i = 1 THEN s[1] ELSE s[1] \o h[i - 1]]
<1> HIDE DEF m
<1>5. Joined(g, s, m)
  <2>1. ASSUME NEW i \in 1 .. m
        PROVE  g[i] = IF i = 1 THEN s[i] ELSE g[i - 1] \o s[i]
    <3>1. CASE i = 1
      BY <3>1
    <3>2. CASE i = 2
      <4>1. 1 \in 1 .. m - 1 /\ i - 1 = 1 /\ 1 \in 1 .. m /\ i # 1 /\ 1 + 1 = i
        BY <1>1, <3>2
      <4>2. h[1] = t[1] /\ t[1] = s[i]
        BY <1>1, <1>3, <4>1
      <4>3. g[i] = s[1] \o h[i - 1] /\ g[i - 1] = s[1]
        BY <4>1
      <4> QED BY <4>1, <4>2, <4>3
    <3>3. CASE i # 1 /\ i # 2
      <4>1. /\ i - 1 \in 1 .. m - 1 /\ i - 2 \in 1 .. m - 1 /\ i - 1 # 1
            /\ i - 1 \in 1 .. m /\ (i - 1) - 1 = i - 2 /\ (i - 1) + 1 = i /\ i # 1
            /\ 1 \in 1 .. m
        BY <1>1, <3>3
      <4>2. h[i - 1] = h[i - 2] \o t[i - 1] /\ t[i - 1] = s[i]
        BY <1>1, <1>3, <4>1
      <4>3. g[i] = s[1] \o h[i - 1] /\ g[i - 1] = s[1] \o h[i - 2]
        BY <4>1
      <4>4. s[1] \in Seq(D) /\ h[i - 2] \in Seq(D) /\ s[i] \in Seq(D)
        BY <1>1, <1>4, <4>1
      <4>5. (s[1] \o h[i - 2]) \o s[i] = s[1] \o (h[i - 2] \o s[i])
        BY <1>0, <4>4, Zenon DEF JoinsAssociate
      <4> QED BY <4>1, <4>2, <4>3, <4>5
    <3> QED BY <3>1, <3>2, <3>3
  <2>2. g = [i \in 1 .. m |-> g[i]]
    OBVIOUS
  <2>3. m \in Nat
    BY <1>1
  <2> HIDE DEF g
  <2> QED BY <2>1, <2>2, <2>3, JoinedIs
<1>6. Decoder!FlattenSeq(s) = g[m]
  <2>1. Decoder!FlattenSeq(s) = IF Len(s) = 0 THEN << >> ELSE g[Len(s)]
    <3> HIDE DEF g
    <3> QED BY <1>5, FlattenIs DEF m
  <2> HIDE DEF g
  <2> QED BY <1>1, <2>1 DEF m
<1>7. Decoder!FlattenSeq(t) = IF m - 1 = 0 THEN << >> ELSE h[m - 1]
  <2>1. Decoder!FlattenSeq(t) = IF Len(t) = 0 THEN << >> ELSE h[Len(t)]
    BY <1>1, <1>2, FlattenIs
  <2> QED BY <1>1, <2>1
<1>8. m \in 1 .. m /\ 1 \in 1 .. m /\ (m - 1 = 0 => m = 1)
  BY <1>1
<1>9. g[m] = IF m = 1 THEN s[1] ELSE s[1] \o h[m - 1]
  BY <1>8
<1>10. s[1] \o << >> = s[1]
  <2>1. s[1] \in Seq(D)
    BY <1>1, <1>8
  <2> QED BY <2>1, ConcatEmptySeq
<1>11. m = 1 => m - 1 = 0
  OBVIOUS
<1> HIDE DEF g
<1> QED BY <1>6, <1>7, <1>8, <1>9, <1>10, <1>11 DEF t


(* A sequence cut in two.                                                  *)
LEMMA Cut ==
  ASSUME NEW D, NEW s \in Seq(D), NEW k \in 0 .. Len(s)
  PROVE  /\ Decoder!Take(s, k) \in Seq(D) /\ Decoder!Drop(s, k) \in Seq(D)
         /\ Len(Decoder!Take(s, k)) = k /\ Len(Decoder!Drop(s, k)) = Len(s) - k
         /\ \A i \in 1 .. k : Decoder!Take(s, k)[i] = s[i]
         /\ \A i \in 1 .. Len(s) - k : Decoder!Drop(s, k)[i] = s[k + i]
         /\ Decoder!Take(s, k) \o Decoder!Drop(s, k) = s
<1>1. /\ Len(s) \in Nat /\ k \in Nat /\ k <= Len(s)
      /\ \A i \in 1 .. Len(s) : s[i] \in D
  BY LenProperties, ElementOfSeq
<1>2. /\ SubSeq(s, 1, k) \in Seq(D) /\ Len(SubSeq(s, 1, k)) = k
      /\ \A i \in 1 .. k : SubSeq(s, 1, k)[i] = s[i]
  <2>1. 1 \in Int /\ k \in Int /\ \A i \in 1 .. k : s[i] \in D
    BY <1>1
  <2>2. /\ SubSeq(s, 1, k) \in Seq(D)
        /\ Len(SubSeq(s, 1, k)) = IF 1 <= k THEN k - 1 + 1 ELSE 0
        /\ \A i \in 1 .. k - 1 + 1 : SubSeq(s, 1, k)[i] = s[1 + i - 1]
    BY <2>1, SubSeqProperties
  <2>3. (IF 1 <= k THEN k - 1 + 1 ELSE 0) = k /\ k - 1 + 1 = k
        /\ \A i \in 1 .. k : 1 + i - 1 = i
    BY <1>1
  <2> QED BY <2>2, <2>3
<1>3. /\ SubSeq(s, k + 1, Len(s)) \in Seq(D)
      /\ Len(SubSeq(s, k + 1, Len(s))) = Len(s) - k
      /\ \A i \in 1 .. Len(s) - k : SubSeq(s, k + 1, Len(s))[i] = s[k + i]
  <2>1. k + 1 \in Int /\ Len(s) \in Int /\ \A i \in k + 1 .. Len(s) : s[i] \in D
    BY <1>1
  <2>2. /\ SubSeq(s, k + 1, Len(s)) \in Seq(D)
        /\ Len(SubSeq(s, k + 1, Len(s))) =
             IF k + 1 <= Len(s) THEN Len(s) - (k + 1) + 1 ELSE 0
        /\ \A i \in 1 .. Len(s) - (k + 1) + 1 :
             SubSeq(s, k + 1, Len(s))[i] = s[k + 1 + i - 1]
    BY <2>1, SubSeqProperties
  <2>3. /\ (IF k + 1 <= Len(s) THEN Len(s) - (k + 1) + 1 ELSE 0) = Len(s) - k
        /\ Len(s) - (k + 1) + 1 = Len(s) - k
        /\ \A i \in 1 .. Len(s) - k : k + 1 + i - 1 = k + i
    BY <1>1
  <2> QED BY <2>2, <2>3
<1>4. SubSeq(s, 1, k) \o SubSeq(s, k + 1, Len(s)) = SubSeq(s, 1, Len(s))
  <2>1. 1 \in 1 .. Len(s) + 1 /\ k \in 1 - 1 .. Len(s) /\ Len(s) \in k .. Len(s)
    BY <1>1
  <2> QED BY <2>1, ConcatAdjacentSubSeq
<1>5. SubSeq(s, 1, Len(s)) = s
  BY SubSeqFull
<1> QED BY <1>2, <1>3, <1>4, <1>5 DEF Decoder!Take, Decoder!Drop

(* Two ways to cut a sequence in two: the shorter first part is the        *)
(* beginning of the longer one.                                            *)
LEMMA FirstCut ==
  ASSUME NEW D, NEW a \in Seq(D), NEW b \in Seq(D), NEW f \in Seq(D),
         NEW r \in Seq(D), a \o b = f \o r, Len(f) <= Len(a)
  PROVE  /\ Decoder!Take(a, Len(f)) = f
         /\ Decoder!Drop(a, Len(f)) \o b = r
<1> DEFINE k == Len(f)
           p == Decoder!Take(a, k)
           x == Decoder!Drop(a, k)
           w == a \o b
<1>1. /\ Len(a) \in Nat /\ Len(b) \in Nat /\ Len(r) \in Nat /\ k \in Nat
      /\ k \in 0 .. Len(a)
  BY LenProperties
<1>2. /\ p \in Seq(D) /\ x \in Seq(D) /\ Len(p) = k /\ Len(x) = Len(a) - k
      /\ \A i \in 1 .. k : p[i] = a[i]
      /\ \A i \in 1 .. Len(a) - k : x[i] = a[k + i]
  BY <1>1, Cut, Zenon
<1>3. /\ Len(w) = Len(a) + Len(b)
      /\ \A i \in 1 .. Len(a) + Len(b) :
           w[i] = IF i <= Len(a) THEN a[i] ELSE b[i - Len(a)]
  BY ConcatProperties, Zenon
<1>4. /\ Len(w) = k + Len(r)
      /\ \A i \in 1 .. k + Len(r) : w[i] = IF i <= k THEN f[i] ELSE r[i - k]
  <2>1. /\ Len(f \o r) = Len(f) + Len(r)
        /\ \A i \in 1 .. Len(f) + Len(r) :
             (f \o r)[i] = IF i <= Len(f) THEN f[i] ELSE r[i - Len(f)]
    BY ConcatProperties, Zenon
  <2>2. w = f \o r
    OBVIOUS
  <2> HIDE DEF w
  <2> QED BY <2>1, <2>2, Zenon
<1> HIDE DEF p, x, w, k
<1>5. \A i \in 1 .. k : p[i] = f[i]
  <2> TAKE i \in 1 .. k
  <2>1. /\ i \in 1 .. Len(a) + Len(b) /\ i \in 1 .. k + Len(r)
        /\ i <= Len(a) /\ i <= k
    BY <1>1
  <2> QED BY <1>2, <1>3, <1>4, <2>1
<1>6. p = f
  BY <1>2, <1>5, SeqEqual, Zenon DEF k
<1>7. /\ x \o b \in Seq(D) /\ Len(x \o b) = Len(x) + Len(b)
      /\ \A i \in 1 .. Len(x) + Len(b) :
           (x \o b)[i] = IF i <= Len(x) THEN x[i] ELSE b[i - Len(x)]
  BY <1>2, ConcatProperties, Zenon
<1> DEFINE y == x \o b
<1>8. y \in Seq(D) /\ Len(y) = Len(r)
  <2>1. Len(x) = Len(a) - k /\ Len(a) + Len(b) = k + Len(r)
    BY <1>2, <1>3, <1>4, Zenon
  <2>2. Len(x) + Len(b) = Len(r)
    BY <1>1, <2>1
  <2> QED BY <1>7, <2>2, Zenon
<1>9. ASSUME NEW i \in 1 .. Len(r)
      PROVE  y[i] = r[i]
  <2>1. /\ k + i \in 1 .. Len(a) + Len(b) /\ k + i \in 1 .. k + Len(r)
        /\ ~(k + i <= k) /\ (k + i) - k = i /\ i \in Nat
        /\ i \in 1 .. Len(x) + Len(b)
    BY <1>1, <1>2, <1>3, <1>4
  <2>2. r[i] = w[k + i]
    BY <1>4, <2>1
  <2>3. CASE i <= Len(x)
    <3>1. k + i <= Len(a) /\ i \in 1 .. Len(a) - k
      BY <1>1, <1>2, <2>1, <2>3
    <3>2. y[i] = x[i] /\ x[i] = a[k + i]
      BY <1>2, <1>7, <2>1, <2>3, <3>1
    <3> QED BY <1>3, <2>1, <2>2, <3>1, <3>2
  <2>4. CASE ~(i <= Len(x))
    <3>1. ~(k + i <= Len(a)) /\ (k + i) - Len(a) = i - Len(x)
      BY <1>1, <1>2, <2>1, <2>4
    <3>2. y[i] = b[i - Len(x)]
      BY <1>7, <2>1, <2>4
    <3> QED BY <1>3, <2>1, <2>2, <3>1, <3>2
  <2> QED BY <2>3, <2>4
<1> HIDE DEF y
<1>10. y = r
  BY <1>8, <1>9, SeqEqual
<1> QED BY <1>6, <1>10, Zenon DEF p, x, y, k

(* Cutting behind the first of two joined sequences cuts the second.       *)
LEMMA CutSecond ==
  ASSUME NEW D, NEW a \in Seq(D), NEW b \in Seq(D), NEW j \in 0 .. Len(b)
  PROVE  /\ Decoder!Take(a \o b, Len(a) + j) = a \o Decoder!Take(b, j)
         /\ Decoder!Drop(a \o b, Len(a) + j) = Decoder!Drop(b, j)
<1> DEFINE t == Decoder!Take(b, j)
           x == Decoder!Drop(b, j)
           w == a \o b
           k == Len(a) + j
           u == a \o t
           p == Decoder!Take(w, k)
           y == Decoder!Drop(w, k)
<1>1. Len(a) \in Nat /\ Len(b) \in Nat /\ j \in Nat /\ j <= Len(b)
  BY LenProperties
<1>2. /\ t \in Seq(D) /\ x \in Seq(D) /\ Len(t) = j /\ Len(x) = Len(b) - j
      /\ \A i \in 1 .. j : t[i] = b[i]
      /\ \A i \in 1 .. Len(b) - j : x[i] = b[j + i]
  BY Cut, Zenon
<1> HIDE DEF t, x
<1>3. /\ w \in Seq(D) /\ Len(w) = Len(a) + Len(b)
      /\ \A i \in 1 .. Len(a) + Len(b) :
           w[i] = IF i <= Len(a) THEN a[i] ELSE b[i - Len(a)]
  BY ConcatProperties, Zenon
<1>4. /\ u \in Seq(D) /\ Len(u) = Len(a) + Len(t)
      /\ \A i \in 1 .. Len(a) + Len(t) :
           u[i] = IF i <= Len(a) THEN a[i] ELSE t[i - Len(a)]
  BY <1>2, ConcatProperties, Zenon
<1> HIDE DEF w, u
<1>5. k \in 0 .. Len(w) /\ k \in Nat
  BY <1>1, <1>3
<1>6. /\ p \in Seq(D) /\ y \in Seq(D) /\ Len(p) = k /\ Len(y) = Len(w) - k
      /\ \A i \in 1 .. k : p[i] = w[i]
      /\ \A i \in 1 .. Len(w) - k : y[i] = w[k + i]
  <2> HIDE DEF k
  <2> QED BY <1>3, <1>5, Cut, Zenon
<1> HIDE DEF p, y
<1>7. p = u
  <2>1. Len(p) = Len(u)
    BY <1>1, <1>2, <1>4, <1>6
  <2>2. \A i \in 1 .. Len(p) : p[i] = u[i]
    <3> TAKE i \in 1 .. Len(p)
    <3>1. /\ i \in 1 .. k /\ i \in 1 .. Len(a) + Len(b)
          /\ i \in 1 .. Len(a) + Len(t)
          /\ ~(i <= Len(a)) => i - Len(a) \in 1 .. j
      BY <1>1, <1>2, <1>6
    <3>2. p[i] = w[i]
      BY <1>6, <3>1
    <3>3. ~(i <= Len(a)) => t[i - Len(a)] = b[i - Len(a)]
      BY <1>2, <3>1
    <3> QED BY <1>3, <1>4, <3>1, <3>2, <3>3
  <2> QED BY <1>4, <1>6, <2>1, <2>2, SeqEqual
<1>8. y = x
  <2>1. Len(y) = Len(x)
    BY <1>1, <1>2, <1>3, <1>6
  <2>2. \A i \in 1 .. Len(y) : y[i] = x[i]
    <3> TAKE i \in 1 .. Len(y)
    <3>1. /\ i \in 1 .. Len(w) - k /\ i \in 1 .. Len(b) - j
          /\ k + i \in 1 .. Len(a) + Len(b) /\ ~(k + i <= Len(a))
          /\ (k + i) - Len(a) = j + i
      BY <1>1, <1>2, <1>3, <1>6, <2>1
    <3>2. y[i] = w[k + i] /\ x[i] = b[j + i]
      BY <1>2, <1>6, <3>1
    <3> QED BY <1>3, <3>1, <3>2
  <2> QED BY <1>2, <1>6, <2>1, <2>2, SeqEqual
<1> QED BY <1>7, <1>8 DEF t, x, w, u, p, y

-----------------------------------------------------------------------------
(* What is written to the length field of a message is what is read.       *)
LEMMA LastDigit ==
  ASSUME NEW r \in Nat \ {0}, NEW k \in Nat
  PROVE  /\ k \div r \in Nat /\ k % r \in 0 .. r - 1
         /\ k = (r * (k \div r)) + (k % r)
OBVIOUS

LEMMA RestIsLess ==
  ASSUME NEW r \in Nat \ {0}, NEW k \in Nat, NEW c \in Nat, k < r * c
  PROVE  k \div r < c
<1> DEFINE q == k \div r
<1>1. q \in Nat /\ k % r \in Nat /\ k = (r * q) + (k % r)
  BY LastDigit
<1> HIDE DEF q
<1>2. ASSUME q >= c
      PROVE  FALSE
  <2>1. PICK e \in Nat : q = c + e
    <3>1. q - c \in Nat /\ q = c + (q - c)
      BY <1>1, <1>2
    <3> QED BY <3>1
  <2>2. r * q = (r * c) + (r * e)
    BY <2>1
  <2>3. r * e \in Nat /\ r * c \in Nat
    BY <2>1
  <2> QED BY <1>1, <2>2, <2>3
<1> QED BY <1>1, <1>2 DEF q

LEMMA DigitsAre ==
  ASSUME Decoder!DecoderAssumption, NEW k \in Nat
  PROVE  /\ Decoder!Digits(k) \in Seq(Nat) /\ Len(Decoder!Digits(k)) = 4
         /\ \E d2, d3, d4 \in Nat :
              /\ k = (Radix * d2) + Decoder!Digits(k)[1]
              /\ d2 = (Radix * d3) + Decoder!Digits(k)[2]
              /\ d3 = (Radix * d4) + Decoder!Digits(k)[3]
              /\ Decoder!Digits(k)[4] = d4 % Radix
              /\ d2 = k \div Radix /\ d3 = d2 \div Radix /\ d4 = d3 \div Radix
<1>1. Radix \in Nat \ {0}
  BY DEF Decoder!DecoderAssumption
<1>2. PICK d2 : d2 = k \div Radix
  OBVIOUS
<1>3. PICK d3 : d3 = d2 \div Radix
  OBVIOUS
<1>4. PICK d4 : d4 = d3 \div Radix
  OBVIOUS
<1>5. d2 \in Nat /\ k % Radix \in Nat /\ k = (Radix * d2) + (k % Radix)
  BY <1>1, <1>2, LastDigit
<1>6. d3 \in Nat /\ d2 % Radix \in Nat /\ d2 = (Radix * d3) + (d2 % Radix)
  <2>1. d2 \in Nat
    BY <1>5
  <2>2. /\ d2 \div Radix \in Nat /\ d2 % Radix \in 0 .. Radix - 1
        /\ d2 = (Radix * (d2 \div Radix)) + (d2 % Radix)
    BY <1>1, <2>1, LastDigit, Zenon
  <2>3. d2 % Radix \in Nat
    BY <1>1, <2>2
  <2> QED BY <1>3, <2>2, <2>3, Zenon
<1>7. d4 \in Nat /\ d3 % Radix \in Nat /\ d3 = (Radix * d4) + (d3 % Radix)
  <2>1. d3 \in Nat
    BY <1>6
  <2>2. /\ d3 \div Radix \in Nat /\ d3 % Radix \in 0 .. Radix - 1
        /\ d3 = (Radix * (d3 \div Radix)) + (d3 % Radix)
    BY <1>1, <2>1, LastDigit, Zenon
  <2>3. d3 % Radix \in Nat
    BY <1>1, <2>2
  <2> QED BY <1>4, <2>2, <2>3, Zenon
<1>8. d4 % Radix \in Nat
  BY <1>1, <1>7, LastDigit
<1>9. Decoder!Digits(k) = <<k % Radix, d2 % Radix, d3 % Radix, d4 % Radix>>
  BY <1>2, <1>3, <1>4 DEF Decoder!Digits
<1> QED BY <1>2, <1>3, <1>4, <1>5, <1>6, <1>7, <1>8, <1>9

LEMMA NothingLeft ==
  ASSUME NEW r \in Nat \ {0}, NEW k \in Nat, k < r
  PROVE  k \div r = 0 /\ k % r = k
OBVIOUS

LEMMA TopDigit ==
  ASSUME NEW r \in Nat \ {0}, NEW d \in Nat, NEW k \in Nat, r * d <= k,
         2 * k < r * r
  PROVE  2 * d < r
<1>1. ASSUME 2 * d >= r
      PROVE  FALSE
  <2>1. PICK e \in Nat : 2 * d = r + e
    <3>1. 2 * d - r \in Nat /\ 2 * d = r + (2 * d - r)
      BY <1>1
    <3> QED BY <3>1
  <2>2. 2 * (r * d) = r * (2 * d)
    OBVIOUS
  <2>3. r * (2 * d) = (r * r) + (r * e)
    BY <2>1
  <2>4. r * e \in Nat /\ r * r \in Nat /\ r * d \in Nat
    OBVIOUS
  <2> QED BY <2>2, <2>3, <2>4
<1> QED BY <1>1

(* The number is its digits, as far as the field goes, if it fits in there. *)
LEMMA NumberFits ==
  ASSUME Decoder!DecoderAssumption, field \in {1, 2, 4}, NEW k \in Nat,
         k < Decoder!Capacity
  PROVE  /\ k = Decoder!Number([i \in 1 .. 4 |->
                   IF i > field THEN 0 ELSE Decoder!Digits(k)[i]])
         /\ field = 1 => Decoder!Digits(k)[1] = k
         /\ field = 2 => Radix * Decoder!Digits(k)[2] <= k
<1> DEFINE d == Decoder!Digits(k)
           f == [i \in 1 .. 4 |-> IF i > field THEN 0 ELSE d[i]]
<1>1. Radix \in Nat \ {0}
  BY DEF Decoder!DecoderAssumption
<1>2. /\ d \in Seq(Nat) /\ Len(d) = 4
      /\ \E d2, d3, d4 \in Nat :
           /\ k = (Radix * d2) + d[1]
           /\ d2 = (Radix * d3) + d[2]
           /\ d3 = (Radix * d4) + d[3]
           /\ d[4] = d4 % Radix
           /\ d2 = k \div Radix /\ d3 = d2 \div Radix /\ d4 = d3 \div Radix
  BY DigitsAre
<1>3. d[1] \in Nat /\ d[2] \in Nat /\ d[3] \in Nat /\ d[4] \in Nat
  <2>1. \A i \in 1 .. 4 : d[i] \in Nat
    <3> HIDE DEF d
    <3> QED BY <1>2, ElementOfSeq
  <2> QED BY <2>1
<1>4. /\ f[1] = d[1]
      /\ f[2] = IF field = 1 THEN 0 ELSE d[2]
      /\ f[3] = IF field = 4 THEN d[3] ELSE 0
      /\ f[4] = IF field = 4 THEN d[4] ELSE 0
  OBVIOUS
<1>5. Decoder!Number(f) = f[1] + Radix * (f[2] + Radix * (f[3] + Radix * f[4]))
  BY Zenon DEF Decoder!Number
<1> HIDE DEF d, f
<1>6. PICK d2, d3, d4 \in Nat :
        /\ k = (Radix * d2) + d[1]
        /\ d2 = (Radix * d3) + d[2]
        /\ d3 = (Radix * d4) + d[3]
        /\ d[4] = d4 % Radix
        /\ d2 = k \div Radix /\ d3 = d2 \div Radix /\ d4 = d3 \div Radix
  BY <1>2, Zenon
<1>7. CASE field = 1
  <2>1. k < Radix
    BY <1>7 DEF Decoder!Capacity
  <2>2. d2 = 0
    BY <1>1, <1>6, <2>1, NothingLeft
  <2>3. d[1] = k
    <3>1. Radix * d2 = 0
      BY <1>1, <2>2
    <3> QED BY <1>3, <1>6, <3>1
  <2>4. f[1] = d[1] /\ f[2] = 0 /\ f[3] = 0 /\ f[4] = 0
    BY <1>4, <1>7
  <2>5. Decoder!Number(f) = k
    BY <1>1, <1>5, <2>3, <2>4
  <2> QED BY <1>7, <2>3, <2>5 DEF d, f
<1>8. CASE field = 2
  <2>1. k < Radix * Radix
    BY <1>8 DEF Decoder!Capacity
  <2>2. d2 < Radix
    BY <1>1, <1>6, <2>1, RestIsLess
  <2>3. d3 = 0
    BY <1>1, <1>6, <2>2, NothingLeft
  <2>4. d2 = d[2]
    <3>1. Radix * d3 = 0
      BY <1>1, <2>3
    <3> QED BY <1>3, <1>6, <3>1
  <2>5. f[1] = d[1] /\ f[2] = d[2] /\ f[3] = 0 /\ f[4] = 0
    BY <1>4, <1>8
  <2>6. f[2] + Radix * (f[3] + Radix * f[4]) = d[2]
    BY <1>1, <1>3, <2>5
  <2>7. Decoder!Number(f) = d[1] + Radix * d[2]
    BY <1>5, <2>5, <2>6
  <2>8. Radix * d[2] \in Nat
    BY <1>1, <1>3
  <2>9. Decoder!Number(f) = k /\ Radix * d[2] <= k
    BY <1>3, <1>6, <2>4, <2>7, <2>8
  <2> QED BY <1>8, <2>9 DEF d, f
<1>9. CASE field = 4
  <2>1. k < Radix * (Radix * (Radix * Radix))
    BY <1>9 DEF Decoder!Capacity
  <2>2. Radix * Radix \in Nat /\ Radix * (Radix * Radix) \in Nat
    BY <1>1
  <2>3. d2 < Radix * (Radix * Radix)
    BY <1>1, <1>6, <2>1, <2>2, RestIsLess
  <2>4. d3 < Radix * Radix
    BY <1>1, <1>6, <2>2, <2>3, RestIsLess
  <2>5. d4 < Radix
    BY <1>1, <1>6, <2>4, RestIsLess
  <2>6. d[4] = d4
    BY <1>1, <1>6, <2>5, NothingLeft
  <2>7. f[1] = d[1] /\ f[2] = d[2] /\ f[3] = d[3] /\ f[4] = d[4]
    BY <1>4, <1>9
  <2>8. f[3] + Radix * f[4] = d3
    BY <1>1, <1>3, <1>6, <2>6, <2>7
  <2>9. f[2] + Radix * d3 = d2
    BY <1>1, <1>3, <1>6, <2>7
  <2>10. f[1] + Radix * d2 = k
    BY <1>1, <1>3, <1>6, <2>7
  <2>11. Decoder!Number(f) = k
    BY <1>5, <2>8, <2>9, <2>10
  <2> QED BY <1>9, <2>11 DEF d, f
<1> QED BY <1>7, <1>8, <1>9

-----------------------------------------------------------------------------
(* The decoders.  What the sender sends.                                   *)
Byte == Nat \X Nat \X Nat

DecoderSetting ==
  /\ decoder \in {"fixed", "length"} /\ order \in {"host", "network"}
  /\ field \in {1, 2, 4} /\ offset \in Nat /\ lengths \in Seq(Nat)
  /\ decoder = "fixed" => \A k \in 1 .. Len(lengths) : lengths[k] = FixedLength

LEMMA PlaceIs ==
  ASSUME DecoderSetting, NEW i \in 1 .. field
  PROVE  /\ Decoder!Place(i) \in 1 .. field
         /\ Decoder!Place(Decoder!Place(i)) = i
         /\ i \in 1 .. 4
BY DEF DecoderSetting, Decoder!Place

LEMMA WrittenDigit ==
  ASSUME Decoder!DecoderAssumption, DecoderSetting, NEW k \in Nat,
         NEW i \in 1 .. field
  PROVE  /\ Decoder!WriteLength(k, i) \in Nat
         /\ Decoder!WriteLength(k, Decoder!Place(i)) = Decoder!Digits(k)[i]
<1>1. /\ Decoder!Place(i) \in 1 .. 4 /\ Decoder!Place(Decoder!Place(i)) = i
  BY PlaceIs DEF DecoderSetting
<1>2. Decoder!Digits(k) \in Seq(Nat) /\ Len(Decoder!Digits(k)) = 4
  BY DigitsAre
<1>3. Decoder!Digits(k)[Decoder!Place(i)] \in Nat
  BY <1>1, <1>2, ElementOfSeq
<1> QED BY <1>1, <1>3 DEF Decoder!WriteLength

LEMMA MessageIs ==
  ASSUME Decoder!DecoderAssumption, DecoderSetting, NEW k \in 1 .. Len(lengths)
  PROVE  /\ Decoder!Message(k) \in Seq(Byte)
         /\ Len(Decoder!Message(k)) = Decoder!Size(lengths[k])
         /\ Decoder!Size(lengths[k]) \in Nat \ {0} /\ lengths[k] \in Nat
         /\ decoder = "length" =>
              /\ Decoder!MinHeadLength <= Decoder!Size(lengths[k])
              /\ \A i \in 1 .. field : Decoder!Message(k)[offset + i][3] =
                                         Decoder!WriteLength(lengths[k], i)
<1> DEFINE size == Decoder!Size(lengths[k])
           v(i) == IF decoder = "length" /\ i \in offset + 1 .. offset + field
                   THEN Decoder!WriteLength(lengths[k], i - offset) ELSE 0
           m == [i \in 1 .. size |-> << k, i, v(i) >>]
<1>1. lengths[k] \in Nat /\ k \in Nat
  <2>1. lengths \in Seq(Nat)
    BY DEF DecoderSetting
  <2> QED BY <2>1, ElementOfSeq, LenProperties
<1>2. offset \in Nat /\ field \in {1, 2, 4} /\ FixedLength \in Nat \ {0}
  BY DEF DecoderSetting, Decoder!DecoderAssumption
<1>3. /\ size \in Nat \ {0}
      /\ decoder = "length" => offset + field <= size
  BY <1>1, <1>2 DEF Decoder!Size, Decoder!MinHeadLength, DecoderSetting
<1>4. ASSUME NEW i \in 1 .. size
      PROVE  v(i) \in Nat
  <2>1. CASE decoder = "length" /\ i \in offset + 1 .. offset + field
    <3>1. i - offset \in 1 .. field
      BY <1>2, <2>1
    <3>2. Decoder!WriteLength(lengths[k], i - offset) \in Nat
      BY <1>1, <3>1, WrittenDigit
    <3> QED BY <2>1, <3>2
  <2> QED BY <2>1
<1>5. Decoder!Message(k) = m
  BY DEF Decoder!Message
<1>6. \A i \in 1 .. field : decoder = "length" =>
        /\ offset + i \in 1 .. size
        /\ v(offset + i) = Decoder!WriteLength(lengths[k], i)
  <2> TAKE i \in 1 .. field
  <2> HAVE decoder = "length"
  <2>1. /\ offset + i \in 1 .. size /\ offset + i \in offset + 1 .. offset + field
        /\ (offset + i) - offset = i
    <3> HIDE DEF size
    <3> QED BY <1>2, <1>3
  <2> QED BY <2>1
<1> HIDE DEF size, v
<1>7. \A i \in 1 .. size : m[i] = << k, i, v(i) >> /\ << k, i, v(i) >> \in Byte
  <2> TAKE i \in 1 .. size
  <2>1. i \in Nat /\ v(i) \in Nat
    BY <1>3, <1>4
  <2> QED BY <1>1, <2>1 DEF Byte
<1>8. m \in Seq(Byte) /\ Len(m) = size
  <2>1. m \in [1 .. size -> Byte]
    BY <1>7
  <2> HIDE DEF m
  <2> QED BY <1>3, <2>1
<1> HIDE DEF m
<1>9. \A i \in 1 .. field : decoder = "length" =>
        m[offset + i][3] = Decoder!WriteLength(lengths[k], i)
  <2> TAKE i \in 1 .. field
  <2> HAVE decoder = "length"
  <2>1. m[offset + i] = << k, offset + i, v(offset + i) >>
    BY <1>6, <1>7
  <2> QED BY <1>6, <2>1
<1> QED BY <1>1, <1>3, <1>5, <1>8, <1>9 DEF size, Decoder!MinHeadLength

LEMMA ReadIsWritten ==
  ASSUME Decoder!DecoderAssumption, DecoderSetting, NEW k \in Nat,
         decoder = "length", Decoder!Legal(k), NEW bytes,
         \A i \in 1 .. field :
           bytes[offset + i][3] = Decoder!WriteLength(k, i)
  PROVE  Decoder!ReadLengthField(bytes) = k
<1> DEFINE digit(i) == IF i > field THEN 0 ELSE bytes[offset + Decoder!Place(i)][3]
           f == [i \in 1 .. 4 |-> IF i > field THEN 0 ELSE Decoder!Digits(k)[i]]
<1>1. \A i \in 1 .. field : digit(i) = Decoder!Digits(k)[i]
  <2> TAKE i \in 1 .. field
  <2>1. Decoder!Place(i) \in 1 .. field
    BY PlaceIs
  <2>2. bytes[offset + Decoder!Place(i)][3] = Decoder!WriteLength(k, Decoder!Place(i))
    BY <2>1
  <2>3. Decoder!WriteLength(k, Decoder!Place(i)) = Decoder!Digits(k)[i]
    BY WrittenDigit
  <2>4. ~(i > field)
    BY DEF DecoderSetting
  <2> QED BY <2>2, <2>3, <2>4
<1>2. Radix \in Nat \ {0} /\ field \in {1, 2, 4}
  BY DEF DecoderSetting, Decoder!DecoderAssumption
<1>3. /\ k < Decoder!Capacity /\ (Decoder!Signed => 2 * k < Decoder!Capacity)
      /\ Decoder!Capacity \in Nat
  <2>1. Decoder!Capacity \in Nat
    BY <1>2 DEF Decoder!Capacity
  <2>2. IF Decoder!Signed THEN 2 * k < Decoder!Capacity ELSE k < Decoder!Capacity
    BY DEF Decoder!Legal
  <2> QED BY <2>1, <2>2
<1>4. /\ k = Decoder!Number(f)
      /\ field = 1 => Decoder!Digits(k)[1] = k
      /\ field = 2 => Radix * Decoder!Digits(k)[2] <= k
  BY <1>2, <1>3, NumberFits, Zenon
<1>5. [i \in 1 .. 4 |-> digit(i)] = f
  <2>1. \A i \in 1 .. 4 : digit(i) = IF i > field THEN 0 ELSE Decoder!Digits(k)[i]
    <3> TAKE i \in 1 .. 4
    <3>1. CASE i > field
      BY <3>1
    <3>2. CASE ~(i > field)
      <4>1. i \in 1 .. field
        BY <1>2, <3>2
      <4> QED BY <1>1, <3>2, <4>1
    <3> QED BY <3>1, <3>2
  <2> HIDE DEF digit
  <2> QED BY <2>1
<1>6. Decoder!Digits(k) \in Seq(Nat) /\ Len(Decoder!Digits(k)) = 4
  BY DigitsAre
<1>7. ~(Decoder!Signed /\ 2 * digit(field) >= Radix)
  <2> SUFFICES ASSUME Decoder!Signed
               PROVE  ~(2 * digit(field) >= Radix)
    OBVIOUS
  <2>1. digit(field) = Decoder!Digits(k)[field] /\ Decoder!Digits(k)[field] \in Nat
    <3>1. field \in 1 .. field /\ field \in 1 .. 4
      BY <1>2
    <3> QED BY <1>1, <1>6, <3>1, ElementOfSeq
  <2> HIDE DEF digit
  <2>2. CASE field = 1
    <3>1. 2 * k < Radix
      BY <1>3, <2>2 DEF Decoder!Capacity
    <3>2. digit(field) = k
      BY <1>4, <2>1, <2>2
    <3> QED BY <1>2, <3>1, <3>2
  <2>3. CASE field = 2
    <3>1. 2 * k < Radix * Radix
      BY <1>3, <2>3 DEF Decoder!Capacity
    <3>2. PICK d \in Nat : d = digit(field)
      BY <2>1
    <3>3. Radix * d <= k
      BY <1>4, <2>1, <2>3, <3>2
    <3>4. 2 * d < Radix
      BY <1>2, <3>1, <3>3, TopDigit
    <3> QED BY <1>2, <3>2, <3>4
  <2>4. field # 4
    BY DEF Decoder!Signed
  <2> QED BY <1>2, <2>2, <2>3, <2>4
<1>8. Decoder!ReadLengthField(bytes) =
        IF Decoder!Signed /\ 2 * digit(field) >= Radix THEN Decoder!TooLong
        ELSE Decoder!Number([i \in 1 .. 4 |-> digit(i)])
  BY Zenon DEF Decoder!ReadLengthField
<1> HIDE DEF digit, f
<1> QED BY <1>4, <1>5, <1>7, <1>8

LEMMA ReadIsNat ==
  ASSUME Decoder!DecoderAssumption, DecoderSetting, NEW bytes \in Seq(Byte),
         Decoder!MinHeadLength <= Len(bytes)
  PROVE  Decoder!ReadLengthField(bytes) \in Nat
<1> DEFINE digit(i) == IF i > field THEN 0 ELSE bytes[offset + Decoder!Place(i)][3]
           d == [i \in 1 .. 4 |-> digit(i)]
<1>1. /\ Radix \in Nat /\ MaxLength \in Nat /\ field \in {1, 2, 4} /\ offset \in Nat
  BY DEF DecoderSetting, Decoder!DecoderAssumption
<1>2. \A i \in 1 .. 4 : digit(i) \in Nat
  <2> TAKE i \in 1 .. 4
  <2>1. CASE i > field
    BY <2>1
  <2>2. CASE ~(i > field)
    <3>1. i \in 1 .. field
      BY <1>1, <2>2
    <3>2. Decoder!Place(i) \in 1 .. field
      BY <3>1, PlaceIs
    <3>3. Len(bytes) \in Nat
      BY LenProperties
    <3>4. offset + Decoder!Place(i) \in 1 .. Len(bytes)
      BY <1>1, <3>2, <3>3 DEF Decoder!MinHeadLength
    <3>5. bytes[offset + Decoder!Place(i)] \in Byte
      BY <3>4, ElementOfSeq
    <3> QED BY <2>2, <3>5 DEF Byte
  <2> QED BY <2>1, <2>2
<1>3. Decoder!ReadLengthField(bytes) =
        IF Decoder!Signed /\ 2 * digit(field) >= Radix THEN Decoder!TooLong
        ELSE Decoder!Number(d)
  BY Zenon DEF Decoder!ReadLengthField
<1>4. \A i \in 1 .. 4 : d[i] \in Nat
  <2> HIDE DEF digit
  <2> QED BY <1>2
<1> HIDE DEF digit, d
<1>5. Decoder!Number(d) \in Nat
  <2>1. d[1] \in Nat /\ d[2] \in Nat /\ d[3] \in Nat /\ d[4] \in Nat
    BY <1>4
  <2>2. \A i, j \in Nat : i + Radix * j \in Nat
    BY <1>1
  <2>3. d[3] + Radix * d[4] \in Nat
    BY <2>1, <2>2
  <2>4. d[2] + Radix * (d[3] + Radix * d[4]) \in Nat
    BY <2>1, <2>2, <2>3
  <2>5. d[1] + Radix * (d[2] + Radix * (d[3] + Radix * d[4])) \in Nat
    BY <2>1, <2>2, <2>4
  <2> QED BY <2>5 DEF Decoder!Number
<1>6. Decoder!TooLong \in Nat
  BY <1>1 DEF Decoder!TooLong
<1> QED BY <1>3, <1>5, <1>6

(* What the handler has not been given, and the messages behind the first  *)
(* k of them.                                                              *)
Unread == message_buffer \o (remain \o todo)
Following(k) == Decoder!Drop(Decoder!Messages, k)

DecoderTyped ==
  /\ DecoderSetting
  /\ remain \in Seq(Byte) /\ todo \in Seq(Byte) /\ message_buffer \in Seq(Byte)
  /\ message_length \in Nat /\ deciding \in BOOLEAN
  /\ closed \in {"no", "by_handler", "bad_length"}
  /\ Len(remain) + Len(todo) <= Len(Decoder!Stream)
  /\ deciding <=> remain # << >> /\ closed = "no"
  /\ decoder = "length" /\ message_length = 0
       => Len(message_buffer) < Decoder!MinHeadLength

(* If all lengths are legal: what was delivered, and what is to come.      *)
DecoderSent ==
  /\ delivered \in Seq(Seq(Byte)) /\ Len(delivered) <= Len(lengths)
  /\ \A k \in 1 .. Len(delivered) : delivered[k] = Decoder!Message(k)
  /\ Unread = Decoder!FlattenSeq(Following(Len(delivered)))
  /\ Decoder!FlattenSeq(delivered) \o Unread = Decoder!Stream
  /\ closed # "bad_length"

(* The length in message_length_ is that of the message that has begun.    *)
DecoderExpects ==
  /\ decoder = "fixed" =>
       message_length = 0 /\ Len(message_buffer) < FixedLength
  /\ decoder = "length" /\ message_length > 0 =>
       /\ message_buffer # << >> /\ Len(delivered) < Len(lengths)
       /\ message_length = lengths[Len(delivered) + 1]
       /\ \/ Len(message_buffer) < message_length
          \/ message_length = Decoder!MinHeadLength

DecoderInv ==
  DecoderTyped /\ (Decoder!AllLegal => DecoderSent /\ DecoderExpects)

LEMMA MessagesAre ==
  ASSUME Decoder!DecoderAssumption, DecoderSetting
  PROVE  /\ Decoder!Messages \in Seq(Seq(Byte))
         /\ Len(Decoder!Messages) = Len(lengths) /\ Len(lengths) \in Nat
         /\ \A k \in 1 .. Len(lengths) : Decoder!Messages[k] = Decoder!Message(k)
<1>1. Len(lengths) \in Nat
  BY LenProperties DEF DecoderSetting
<1>2. DOMAIN lengths = 1 .. Len(lengths)
  BY LenProperties DEF DecoderSetting
<1>3. \A k \in 1 .. Len(lengths) : Decoder!Message(k) \in Seq(Byte)
  BY MessageIs
<1>4. Decoder!Messages = [k \in 1 .. Len(lengths) |-> Decoder!Message(k)]
  BY DEF Decoder!Messages
<1>5. Decoder!Messages \in [1 .. Len(lengths) -> Seq(Byte)]
  BY <1>3, <1>4
<1>6. \A k \in 1 .. Len(lengths) : Decoder!Messages[k] = Decoder!Message(k)
  BY <1>4
<1> QED BY <1>1, <1>5, <1>6

LEMMA FollowingIs ==
  ASSUME Decoder!DecoderAssumption, DecoderSetting, NEW k \in 0 .. Len(lengths)
  PROVE  /\ Decoder!FlattenSeq(Following(k)) \in Seq(Byte)
         /\ k = Len(lengths) => Decoder!FlattenSeq(Following(k)) = << >>
         /\ k < Len(lengths) =>
              /\ k + 1 \in 1 .. Len(lengths)
              /\ Decoder!FlattenSeq(Following(k)) =
                   Decoder!Message(k + 1) \o Decoder!FlattenSeq(Following(k + 1))
<1> DEFINE M == Decoder!Messages   F == Following(k)
<1>1. /\ M \in Seq(Seq(Byte)) /\ Len(M) = Len(lengths) /\ Len(lengths) \in Nat
      /\ \A i \in 1 .. Len(lengths) : M[i] = Decoder!Message(i)
  BY MessagesAre
<1> HIDE DEF M
<1>2. /\ F \in Seq(Seq(Byte)) /\ Len(F) = Len(lengths) - k
      /\ \A i \in 1 .. Len(lengths) - k : F[i] = M[k + i]
  <2>1. k \in 0 .. Len(M)
    BY <1>1
  <2>2. F = Decoder!Drop(M, k)
    BY DEF Following, M
  <2>3. M \in Seq(Seq(Byte))
    BY <1>1
  <2>4. /\ Decoder!Drop(M, k) \in Seq(Seq(Byte))
        /\ Len(Decoder!Drop(M, k)) = Len(M) - k
        /\ \A i \in 1 .. Len(M) - k : Decoder!Drop(M, k)[i] = M[k + i]
    BY <2>1, <2>3, Cut
  <2> QED BY <1>1, <2>2, <2>4
<1>3. Decoder!FlattenSeq(F) \in Seq(Byte)
  <2> HIDE DEF F
  <2> QED BY <1>2, FlattenSeqIs
<1>4. ASSUME k = Len(lengths)
      PROVE  Decoder!FlattenSeq(F) = << >>
  <2> HIDE DEF F
  <2>1. Len(F) = 0
    BY <1>1, <1>2, <1>4
  <2>2. F = << >>
    BY <1>2, <2>1, EmptySeq
  <2> QED BY <2>1, <2>2 DEF Decoder!FlattenSeq
<1>5. ASSUME k < Len(lengths)
      PROVE  /\ k + 1 \in 1 .. Len(lengths)
             /\ Decoder!FlattenSeq(F) =
                  Decoder!Message(k + 1) \o Decoder!FlattenSeq(Following(k + 1))
  <2> DEFINE G == Following(k + 1)
  <2>1. /\ k + 1 \in 1 .. Len(lengths) /\ k + 1 \in 0 .. Len(lengths) /\ k \in Nat
        /\ 1 \in 1 .. Len(lengths) - k
    BY <1>1, <1>5
  <2>2. /\ G \in Seq(Seq(Byte)) /\ Len(G) = Len(lengths) - (k + 1)
        /\ \A i \in 1 .. Len(lengths) - (k + 1) : G[i] = M[(k + 1) + i]
    BY <1>1, <2>1, Cut DEF Following, M
  <2> HIDE DEF F, G
  <2>3. F # << >>
    BY <1>1, <1>2, <1>5, <2>1, EmptySeq
  <2>4. /\ Tail(F) \in Seq(Seq(Byte)) /\ Len(Tail(F)) = Len(F) - 1
        /\ \A i \in 1 .. Len(Tail(F)) : Tail(F)[i] = F[i + 1]
    BY <1>2, <2>3, HeadTailProperties
  <2>5. Len(Tail(F)) = Len(lengths) - (k + 1)
    BY <1>1, <1>2, <2>1, <2>4
  <2>6. \A i \in 1 .. Len(Tail(F)) : Tail(F)[i] = G[i]
    <3> TAKE i \in 1 .. Len(Tail(F))
    <3>1. /\ i \in 1 .. Len(lengths) - (k + 1) /\ i + 1 \in 1 .. Len(lengths) - k
          /\ k + (i + 1) = (k + 1) + i
      BY <1>1, <2>1, <2>5
    <3>2. Tail(F)[i] = F[i + 1] /\ F[i + 1] = M[k + (i + 1)]
      BY <1>2, <2>4, <3>1
    <3> QED BY <2>2, <3>1, <3>2
  <2>7. Tail(F) = G
    BY <2>2, <2>4, <2>5, <2>6, SeqEqual
  <2>8. F[1] = Decoder!Message(k + 1)
    BY <1>1, <1>2, <2>1
  <2>9. Decoder!FlattenSeq(F) = F[1] \o Decoder!FlattenSeq(Tail(F))
    BY <1>2, <2>3, FlattenTail
  <2> QED BY <2>1, <2>7, <2>8, <2>9 DEF G
<1> QED BY <1>3, <1>4, <1>5

(* If anything is unread, it begins with the next message.                 *)
LEMMA NextMessage ==
  ASSUME Decoder!DecoderAssumption, DecoderTyped, Decoder!AllLegal, DecoderSent,
         Unread # << >>
  PROVE  /\ Len(delivered) < Len(lengths) /\ Len(delivered) + 1 \in 1 .. Len(lengths)
         /\ Len(delivered) \in Nat
         /\ Decoder!Message(Len(delivered) + 1) \in Seq(Byte)
         /\ Decoder!FlattenSeq(Following(Len(delivered) + 1)) \in Seq(Byte)
         /\ Unread = Decoder!Message(Len(delivered) + 1)
                       \o Decoder!FlattenSeq(Following(Len(delivered) + 1))
         /\ lengths[Len(delivered) + 1] \in Nat
         /\ Decoder!Legal(lengths[Len(delivered) + 1])
         /\ decoder = "fixed" =>
              Len(Decoder!Message(Len(delivered) + 1)) = FixedLength
         /\ decoder = "length" =>
              Len(Decoder!Message(Len(delivered) + 1)) = lengths[Len(delivered) + 1]
<1>1. DecoderSetting
  BY DEF DecoderTyped
<1>2. /\ Len(delivered) \in Nat /\ Len(delivered) <= Len(lengths)
      /\ Unread = Decoder!FlattenSeq(Following(Len(delivered)))
  BY LenProperties DEF DecoderSent
<1>3. Len(lengths) \in Nat /\ DOMAIN lengths = 1 .. Len(lengths)
  BY <1>1, LenProperties DEF DecoderSetting
<1> DEFINE d == Len(delivered)
<1>4. d \in 0 .. Len(lengths)
  BY <1>2, <1>3
<1>5. d # Len(lengths)
  BY <1>1, <1>2, <1>4, FollowingIs
<1>6. /\ d < Len(lengths) /\ d + 1 \in 1 .. Len(lengths) /\ d + 1 \in 0 .. Len(lengths)
  BY <1>3, <1>4, <1>5
<1>7. Decoder!Message(d + 1) \in Seq(Byte) /\ lengths[d + 1] \in Nat
      /\ Len(Decoder!Message(d + 1)) = Decoder!Size(lengths[d + 1])
  BY <1>1, <1>6, MessageIs
<1>8. Decoder!FlattenSeq(Following(d + 1)) \in Seq(Byte)
  BY <1>1, <1>6, FollowingIs
<1>9. Unread = Decoder!Message(d + 1) \o Decoder!FlattenSeq(Following(d + 1))
  BY <1>1, <1>2, <1>4, <1>6, FollowingIs
<1>10. Decoder!Legal(lengths[d + 1])
  BY <1>3, <1>6 DEF Decoder!AllLegal
<1>11. /\ decoder = "fixed" => Decoder!Size(lengths[d + 1]) = FixedLength
       /\ decoder = "length" => Decoder!Size(lengths[d + 1]) = lengths[d + 1]
  <2>1. offset \in Nat /\ field \in Nat /\ decoder \in {"fixed", "length"}
    BY <1>1 DEF DecoderSetting
  <2>2. ASSUME decoder = "length"
        PROVE  ~(lengths[d + 1] < Decoder!MinHeadLength)
    <3>1. lengths[d + 1] \in Decoder!MinHeadLength .. MaxLength
      BY <1>10, <2>2 DEF Decoder!Legal
    <3>2. Decoder!MinHeadLength \in Nat
      BY <2>1 DEF Decoder!MinHeadLength
    <3> QED BY <1>7, <3>1, <3>2
  <2> QED BY <2>2 DEF Decoder!Size
<1> QED BY <1>2, <1>6, <1>7, <1>8, <1>9, <1>10, <1>11

(* The configuration stays, and all that follows from it.                  *)
LEMMA SettingStays ==
  ASSUME UNCHANGED Decoder!config
  PROVE  /\ DecoderSetting' = DecoderSetting /\ Decoder!AllLegal' = Decoder!AllLegal
         /\ Decoder!Messages' = Decoder!Messages /\ Decoder!Stream' = Decoder!Stream
         /\ Decoder!MinHeadLength' = Decoder!MinHeadLength
         /\ \A k : /\ (Decoder!Message(k))' = Decoder!Message(k)
                   /\ (Following(k))' = Following(k)
         /\ decoder' = decoder /\ lengths' = lengths
<1>1. /\ decoder' = decoder /\ field' = field /\ offset' = offset
      /\ order' = order /\ lengths' = lengths
  BY DEF Decoder!config
<1>2. Decoder!MinHeadLength' = Decoder!MinHeadLength
  BY <1>1 DEF Decoder!MinHeadLength
<1>3. \A k : (Decoder!Message(k))' = Decoder!Message(k)
  BY <1>1 DEF Decoder!Message, Decoder!Size, Decoder!MinHeadLength,
              Decoder!WriteLength, Decoder!Digits, Decoder!Place
<1>4. Decoder!Messages' = Decoder!Messages
  BY <1>1, <1>3 DEF Decoder!Messages
<1>5. Decoder!Stream' = Decoder!Stream
  BY <1>4 DEF Decoder!Stream
<1>6. \A k : (Following(k))' = Following(k)
  BY <1>4 DEF Following
<1>7. DecoderSetting' = DecoderSetting
  BY <1>1 DEF DecoderSetting
<1>8. Decoder!AllLegal' = Decoder!AllLegal
  BY <1>1 DEF Decoder!AllLegal, Decoder!Legal, Decoder!MinHeadLength,
              Decoder!Signed, Decoder!Capacity
<1> QED BY <1>1, <1>2, <1>3, <1>4, <1>5, <1>6, <1>7, <1>8

LEMMA SentStays ==
  ASSUME UNCHANGED Decoder!config, DecoderSent, delivered' = delivered,
         Unread' = Unread, closed' # "bad_length"
  PROVE  DecoderSent'
BY SettingStays DEF DecoderSent

LEMMA TypedNext ==
  ASSUME Decoder!DecoderAssumption, DecoderTyped, UNCHANGED Decoder!config,
         todo' = todo, deciding' = (remain' # << >> /\ closed' = "no"),
         remain' \in Seq(Byte), message_buffer' \in Seq(Byte),
         message_length' \in Nat, closed' \in {"no", "by_handler", "bad_length"},
         Len(remain') <= Len(remain),
         decoder = "length" /\ message_length' = 0
           => Len(message_buffer') < Decoder!MinHeadLength
  PROVE  DecoderTyped'
<1>1. /\ Len(remain) \in Nat /\ Len(todo) \in Nat /\ Len(remain') \in Nat
      /\ Len(remain) + Len(todo) <= Len(Decoder!Stream)
  BY LenProperties DEF DecoderTyped
<1>2. /\ Decoder!Stream' = Decoder!Stream /\ DecoderSetting'
      /\ Decoder!MinHeadLength' = Decoder!MinHeadLength /\ decoder' = decoder
  BY SettingStays DEF DecoderTyped
<1>3. Decoder!Stream \in Seq(Byte)
  BY MessagesAre, FlattenSeqIs DEF DecoderTyped, Decoder!Stream
<1>4. Len(remain') + Len(todo) <= Len(Decoder!Stream)
  <2>1. Len(Decoder!Stream) \in Nat
    BY <1>3, LenProperties
  <2> QED BY <1>1, <2>1
<1>5. (Len(remain) + Len(todo) <= Len(Decoder!Stream))'
  BY <1>2, <1>4
<1>6. deciding' \in BOOLEAN /\ todo' \in Seq(Byte)
  BY DEF DecoderTyped
<1>7. (decoder = "length" /\ message_length = 0
        => Len(message_buffer) < Decoder!MinHeadLength)'
  BY <1>2
<1> QED BY <1>2, <1>5, <1>6, <1>7 DEF DecoderTyped

(* The parts of what is unread, in one piece or in two.                    *)
LEMMA UnreadIs ==
  ASSUME DecoderTyped
  PROVE  /\ message_buffer \o remain \in Seq(Byte)
         /\ Len(message_buffer \o remain) = Len(message_buffer) + Len(remain)
         /\ Len(message_buffer) \in Nat /\ Len(remain) \in Nat
         /\ Unread \in Seq(Byte)
         /\ (message_buffer \o remain) \o todo = Unread
         /\ deciding => remain # << >> /\ Unread # << >> /\ closed = "no"
<1>1. remain \in Seq(Byte) /\ todo \in Seq(Byte) /\ message_buffer \in Seq(Byte)
  BY DEF DecoderTyped
<1>2. message_buffer \o remain \in Seq(Byte) /\ remain \o todo \in Seq(Byte)
      /\ Len(message_buffer \o remain) = Len(message_buffer) + Len(remain)
      /\ Len(message_buffer) \in Nat /\ Len(remain) \in Nat
  BY <1>1, ConcatProperties, LenProperties
<1>3. Unread \in Seq(Byte)
  BY <1>1, <1>2, ConcatProperties DEF Unread
<1>4. (message_buffer \o remain) \o todo = Unread
  BY <1>1, Associative DEF Unread, JoinsAssociate
<1>5. ASSUME deciding
      PROVE  remain # << >> /\ Unread # << >> /\ closed = "no"
  <2>1. remain # << >> /\ closed = "no"
    BY <1>5 DEF DecoderTyped
  <2>2. remain \o todo # << >>
    BY <1>1, <2>1, ConcatEqualIffEmpty
  <2>3. message_buffer \o (remain \o todo) # << >>
    BY <1>1, <1>2, <2>2, ConcatEqualIffEmpty
  <2> QED BY <2>1, <2>3 DEF Unread
<1> QED BY <1>2, <1>3, <1>4, <1>5

(* The end of a turn of the loop.                                          *)
Turned == /\ UNCHANGED <<Decoder!config, todo>>
          /\ deciding' = (remain' # << >> /\ closed' = "no")

(* Bytes that stay behind go to message_buffer_.                           *)
LEMMA KeepKeeps ==
  ASSUME Decoder!DecoderAssumption, DecoderTyped, Decoder!Keep, Turned,
         decoder = "length" /\ message_length = 0
           => Len(message_buffer) + Len(remain) < Decoder!MinHeadLength
  PROVE  /\ DecoderTyped'
         /\ Len(message_buffer') = Len(message_buffer) + Len(remain)
         /\ deciding => message_buffer' # << >>
         /\ deciding /\ DecoderSent => DecoderSent'
<1>1. /\ message_buffer' = message_buffer \o remain /\ remain' = << >>
      /\ message_length' = message_length /\ delivered' = delivered
      /\ closed' = closed /\ todo' = todo
  BY DEF Decoder!Keep, Turned
<1>2. /\ message_buffer \o remain \in Seq(Byte)
      /\ Len(message_buffer \o remain) = Len(message_buffer) + Len(remain)
      /\ Len(message_buffer) \in Nat /\ Len(remain) \in Nat
      /\ (message_buffer \o remain) \o todo = Unread
  BY UnreadIs
<1>3. << >> \in Seq(Byte) /\ Len(<< >>) = 0 /\ << >> \o todo = todo
  BY EmptySeq, ConcatEmptySeq DEF DecoderTyped
<1>4. Len(remain') <= Len(remain) /\ remain' \in Seq(Byte)
  BY <1>1, <1>2, <1>3
<1>5. /\ message_buffer' \in Seq(Byte)
      /\ Len(message_buffer') = Len(message_buffer) + Len(remain)
  BY <1>1, <1>2
<1>6. DecoderTyped'
  <2>1. message_length' \in Nat /\ closed' \in {"no", "by_handler", "bad_length"}
    BY <1>1 DEF DecoderTyped
  <2>2. decoder = "length" /\ message_length' = 0
          => Len(message_buffer') < Decoder!MinHeadLength
    BY <1>1, <1>5
  <2> QED BY <1>1, <1>4, <1>5, <2>1, <2>2, TypedNext DEF Turned
<1>7. Unread' = Unread
  BY <1>1, <1>2, <1>3 DEF Unread
<1>8. ASSUME deciding
      PROVE  message_buffer' # << >>
  <2>1. remain # << >> /\ remain \in Seq(Byte) /\ message_buffer \in Seq(Byte)
    BY <1>8, UnreadIs DEF DecoderTyped
  <2>2. message_buffer \o remain # << >>
    BY <2>1, ConcatEqualIffEmpty
  <2> QED BY <1>1, <2>2
<1>9. ASSUME DecoderSent
      PROVE  DecoderSent'
  <2>1. closed' # "bad_length"
    BY <1>1, <1>9 DEF DecoderSent
  <2> QED BY <1>1, <1>7, <1>9, <2>1, SentStays DEF Turned
<1> QED BY <1>5, <1>6, <1>8, <1>9

(* A message is handed over.                                               *)
LEMMA DeliverKeeps ==
  ASSUME Decoder!DecoderAssumption, DecoderTyped, deciding, Turned, NEW k \in Nat,
         Len(message_buffer) <= k, k <= Len(message_buffer) + Len(remain),
         Decoder!Deliver(Decoder!Take(message_buffer \o remain, k),
                         k - Len(message_buffer))
  PROVE  /\ DecoderTyped'
         /\ /\ Decoder!AllLegal /\ DecoderSent /\ DecoderExpects
            /\ k = Len(Decoder!Message(Len(delivered) + 1))
            => DecoderSent' /\ DecoderExpects'
<1> DEFINE j == k - Len(message_buffer)
           message == Decoder!Take(message_buffer \o remain, k)
<1>1. /\ message_buffer \o remain \in Seq(Byte)
      /\ Len(message_buffer \o remain) = Len(message_buffer) + Len(remain)
      /\ Len(message_buffer) \in Nat /\ Len(remain) \in Nat
      /\ (message_buffer \o remain) \o todo = Unread
      /\ Unread # << >> /\ closed = "no"
  BY UnreadIs
<1>2. remain \in Seq(Byte) /\ todo \in Seq(Byte) /\ message_buffer \in Seq(Byte)
  BY DEF DecoderTyped
<1>3. j \in 0 .. Len(remain) /\ k = Len(message_buffer) + j
  BY <1>1
<1> HIDE DEF j, message
<1>4. Decoder!Drop(remain, j) \in Seq(Byte)
      /\ Len(Decoder!Drop(remain, j)) = Len(remain) - j
  BY <1>2, <1>3, Cut
<1>5. Decoder!Deliver(message, j)
  BY DEF j, message
<1>6. CASE /\ delivered' = Append(delivered, message)
           /\ remain' = Decoder!Drop(remain, j)
           /\ message_buffer' = << >> /\ message_length' = 0 /\ closed' = closed
  <2>1. << >> \in Seq(Byte) /\ Len(<< >>) = 0
    BY EmptySeq
  <2>2. Decoder!MinHeadLength \in Nat /\ Decoder!MinHeadLength > 0
    BY DEF DecoderTyped, DecoderSetting, Decoder!MinHeadLength
  <2>3. DecoderTyped'
    <3>1. Len(remain') <= Len(remain) /\ remain' \in Seq(Byte)
      BY <1>1, <1>3, <1>4, <1>6
    <3>2. message_buffer' \in Seq(Byte) /\ Len(message_buffer') = 0
      BY <1>6, <2>1
    <3>3. message_length' \in Nat /\ closed' \in {"no", "by_handler", "bad_length"}
      BY <1>1, <1>6
    <3>4. Len(message_buffer') < Decoder!MinHeadLength
      BY <2>2, <3>2
    <3> QED BY <3>1, <3>2, <3>3, <3>4, TypedNext DEF Turned
  <2>4. ASSUME Decoder!AllLegal, DecoderSent,
               k = Len(Decoder!Message(Len(delivered) + 1))
        PROVE  DecoderSent'
    <3> DEFINE d == Len(delivered)
               N == Decoder!Message(d + 1)
               R == Decoder!FlattenSeq(Following(d + 1))
    <3>1. /\ d < Len(lengths) /\ d + 1 \in 1 .. Len(lengths) /\ d \in Nat
          /\ N \in Seq(Byte) /\ R \in Seq(Byte) /\ Unread = N \o R
      BY <1>1, <2>4, NextMessage
    <3>2. message_buffer \o remain \in Seq(Byte) /\ Len(N) = k
          /\ Len(N) <= Len(message_buffer \o remain)
          /\ (message_buffer \o remain) \o todo = N \o R
      BY <1>1, <2>4, <3>1
    <3>3. delivered \in Seq(Seq(Byte))
      BY <2>4 DEF DecoderSent
    <3> HIDE DEF N, R
    <3>4. message = N /\ Decoder!Drop(message_buffer \o remain, k) \o todo = R
      <4> DEFINE w == message_buffer \o remain
      <4>1. w \in Seq(Byte) /\ w \o todo = N \o R /\ Len(N) <= Len(w)
        BY <3>2
      <4>2. message = Decoder!Take(w, k)
        BY DEF message
      <4> HIDE DEF w
      <4>3. Decoder!Take(w, Len(N)) = N /\ Decoder!Drop(w, Len(N)) \o todo = R
        BY <1>2, <3>1, <4>1, FirstCut
      <4> QED BY <3>2, <4>2, <4>3 DEF w
    <3>5. Decoder!Drop(message_buffer \o remain, k) = Decoder!Drop(remain, j)
      BY <1>2, <1>3, CutSecond
    <3>6. Unread' = R
      <4>1. << >> \o (remain' \o todo) = remain' \o todo
        <5>1. remain' \o todo \in Seq(Byte)
          BY <1>2, <1>4, <1>6, ConcatProperties
        <5> QED BY <5>1, ConcatEmptySeq
      <4> QED BY <1>6, <3>4, <3>5, <4>1 DEF Unread, Turned
    <3>7. delivered' = Append(delivered, N)
      BY <1>6, <3>4
    <3>8. /\ delivered' \in Seq(Seq(Byte)) /\ Len(delivered') = d + 1
          /\ \A i \in 1 .. d : delivered'[i] = delivered[i]
          /\ delivered'[d + 1] = N
      BY <3>1, <3>3, <3>7, AppendProperties
    <3>9. \A i \in 1 .. d + 1 : delivered'[i] = Decoder!Message(i)
      <4> TAKE i \in 1 .. d + 1
      <4>1. CASE i = d + 1
        BY <3>8, <4>1 DEF N
      <4>2. CASE i # d + 1
        <5>1. i \in 1 .. d
          BY <3>1, <4>2
        <5> QED BY <2>4, <3>8, <5>1 DEF DecoderSent
      <4> QED BY <4>1, <4>2
    <3>10. Decoder!FlattenSeq(delivered') \o R = Decoder!Stream
      <4> DEFINE p == Decoder!FlattenSeq(delivered)
      <4>1. Decoder!FlattenSeq(delivered') = p \o N
        BY <3>1, <3>3, <3>7, FlattenAppend
      <4>2. p \in Seq(Byte)
        BY <3>3, FlattenSeqIs
      <4>3. p \o (N \o R) = Decoder!Stream
        BY <2>4, <3>1 DEF DecoderSent
      <4> HIDE DEF p
      <4>4. (p \o N) \o R = p \o (N \o R)
        <5>1. N \in Seq(Byte) /\ R \in Seq(Byte)
          BY <3>1
        <5>2. JoinsAssociate(Byte)
          BY Associative, Zenon
        <5> QED BY <4>2, <5>1, <5>2, Zenon DEF JoinsAssociate
      <4> QED BY <4>1, <4>3, <4>4
    <3>11. /\ Decoder!Stream' = Decoder!Stream /\ lengths' = lengths
           /\ \A i : (Decoder!Message(i))' = Decoder!Message(i)
           /\ \A i : (Following(i))' = Following(i)
      BY SettingStays DEF Turned
    <3>12. (Len(delivered) <= Len(lengths))'
      <4>1. Len(lengths) \in Nat
        BY MessagesAre DEF DecoderTyped
      <4> QED BY <3>1, <3>8, <3>11, <4>1
    <3>13. (\A i \in 1 .. Len(delivered) : delivered[i] = Decoder!Message(i))'
      BY <3>8, <3>9, <3>11
    <3>14. (Unread = Decoder!FlattenSeq(Following(Len(delivered))))'
      BY <3>6, <3>8, <3>11 DEF R
    <3>15. (Decoder!FlattenSeq(delivered) \o Unread = Decoder!Stream)'
      BY <3>6, <3>10, <3>11
    <3>16. closed' # "bad_length"
      BY <1>1, <1>6
    <3> QED BY <3>8, <3>12, <3>13, <3>14, <3>15, <3>16 DEF DecoderSent
  <2>5. DecoderExpects'
    <3>1. FixedLength \in Nat \ {0}
      BY DEF Decoder!DecoderAssumption
    <3> QED BY <1>6, <2>1, <3>1 DEF DecoderExpects
  <2> QED BY <2>3, <2>4, <2>5
<1>7. CASE /\ closed' = "by_handler" /\ delivered' = delivered
           /\ remain' = remain /\ message_buffer' = message_buffer
           /\ message_length' = message_length
  <2>1. Unread' = Unread
    BY <1>7 DEF Unread, Turned
  <2>2. DecoderTyped'
    <3>1. Len(remain') <= Len(remain)
      BY <1>1, <1>7
    <3>2. /\ remain' \in Seq(Byte) /\ message_buffer' \in Seq(Byte)
          /\ message_length' \in Nat /\ closed' \in {"no", "by_handler", "bad_length"}
          /\ decoder = "length" /\ message_length' = 0
               => Len(message_buffer') < Decoder!MinHeadLength
      BY <1>7 DEF DecoderTyped
    <3> QED BY <3>1, <3>2, TypedNext DEF Turned
  <2>3. ASSUME DecoderSent
        PROVE  DecoderSent'
    BY <1>7, <2>1, <2>3, SentStays DEF Turned
  <2>4. ASSUME DecoderExpects
        PROVE  DecoderExpects'
    BY <1>7, <2>4, SettingStays DEF DecoderExpects, Turned
  <2> QED BY <2>2, <2>3, <2>4
<1> QED BY <1>5, <1>6, <1>7 DEF Decoder!Deliver

(* The length of the next message is read from its head.                   *)
LEMMA LengthIsRead ==
  ASSUME Decoder!DecoderAssumption, DecoderTyped, Decoder!AllLegal, DecoderSent,
         decoder = "length", NEW bytes \in Seq(Byte), NEW c \in Seq(Byte),
         bytes \o c = Unread, Decoder!MinHeadLength <= Len(bytes)
  PROVE  /\ Len(delivered) < Len(lengths)
         /\ Decoder!ReadLengthField(bytes) = lengths[Len(delivered) + 1]
         /\ Len(Decoder!Message(Len(delivered) + 1)) = lengths[Len(delivered) + 1]
         /\ lengths[Len(delivered) + 1] \in Nat \ {0}
         /\ Decoder!MinHeadLength <= lengths[Len(delivered) + 1]
         /\ ~Decoder!BadLength(lengths[Len(delivered) + 1])
<1> DEFINE d == Len(delivered)
           N == Decoder!Message(d + 1)
           R == Decoder!FlattenSeq(Following(d + 1))
           l == lengths[d + 1]
           h == Decoder!MinHeadLength
<1>1. offset \in Nat /\ field \in {1, 2, 4} /\ h = offset + field /\ MaxLength \in Nat
  BY DEF DecoderTyped, DecoderSetting, Decoder!MinHeadLength, Decoder!DecoderAssumption
<1>2. Len(bytes) \in Nat /\ Len(c) \in Nat
  BY LenProperties
<1>3. Unread # << >>
  <2>1. bytes # << >>
    BY <1>1, <1>2, EmptySeq
  <2>2. bytes \o c # << >>
    BY <2>1, ConcatEqualIffEmpty
  <2> QED BY <2>2
<1>4. /\ d < Len(lengths) /\ d + 1 \in 1 .. Len(lengths)
      /\ N \in Seq(Byte) /\ R \in Seq(Byte) /\ Unread = N \o R
      /\ l \in Nat /\ Decoder!Legal(l) /\ Len(N) = l
  BY <1>3, NextMessage
<1>5. h <= l /\ l <= MaxLength /\ l # 0
  <2>1. l \in h .. MaxLength
    BY <1>4 DEF Decoder!Legal
  <2> HIDE DEF l, h
  <2> QED BY <1>1, <1>4, <2>1
<1>6. ~Decoder!BadLength(l)
  <2> HIDE DEF l
  <2> QED BY <1>1, <1>4, <1>5 DEF Decoder!BadLength
<1>7. \A i \in 1 .. field : N[offset + i][3] = Decoder!WriteLength(l, i)
  BY <1>4, MessageIs DEF DecoderTyped
<1> HIDE DEF N, R, l, h
<1>8. \A i \in 1 .. field : bytes[offset + i][3] = Decoder!WriteLength(l, i)
  <2> TAKE i \in 1 .. field
  <2>1. /\ offset + i \in 1 .. Len(bytes) + Len(c) /\ offset + i <= Len(bytes)
        /\ offset + i <= Len(N)
    BY <1>1, <1>2, <1>4, <1>5 DEF h
  <2>2. (bytes \o c)[offset + i] = bytes[offset + i]
    BY <2>1, ConcatProperties
  <2>3. Len(R) \in Nat /\ Len(N) \in Nat
    BY <1>4, LenProperties
  <2>4. offset + i \in 1 .. Len(N) + Len(R)
    BY <1>1, <2>1, <2>3
  <2>5. (N \o R)[offset + i] = N[offset + i]
    BY <1>4, <2>1, <2>4, ConcatProperties
  <2>6. bytes[offset + i] = N[offset + i]
    BY <1>4, <2>2, <2>5
  <2> QED BY <1>7, <2>6
<1>9. Decoder!ReadLengthField(bytes) = l
  BY <1>4, <1>8, ReadIsWritten DEF DecoderTyped
<1> QED BY <1>4, <1>5, <1>6, <1>9 DEF N, l, h

LEMMA LengthIsNat ==
  ASSUME Decoder!DecoderAssumption, DecoderTyped, NEW bytes \in Seq(Byte),
         Decoder!MinHeadLength <= Len(bytes)
  PROVE  Decoder!ReadLengthField(bytes) \in Nat
BY ReadIsNat DEF DecoderTyped

LEMMA FixedKeeps ==
  ASSUME Decoder!DecoderAssumption, DecoderInv, deciding, Turned,
         Decoder!DecodeFixed
  PROVE  DecoderInv'
<1>1. DecoderTyped /\ decoder = "fixed" /\ FixedLength \in Nat \ {0}
  BY DEF DecoderInv, Decoder!DecodeFixed, Decoder!DecoderAssumption
<1>2. Len(message_buffer) \in Nat /\ Len(remain) \in Nat /\ Unread # << >>
  BY <1>1, UnreadIs
<1>3. Decoder!AllLegal' = Decoder!AllLegal /\ decoder' = decoder
  BY SettingStays DEF Turned
<1>4. CASE Decoder!Completes(FixedLength)
  <2>1. Decoder!Complete(FixedLength)
    BY <1>4 DEF Decoder!DecodeFixed
  <2>2. Decoder!Deliver(Decoder!Take(message_buffer \o remain, FixedLength),
                        FixedLength - Len(message_buffer))
    BY <2>1 DEF Decoder!Complete
  <2>3. FixedLength \in Nat /\ Len(message_buffer) <= FixedLength
        /\ FixedLength <= Len(message_buffer) + Len(remain)
    BY <1>1, <1>2, <1>4 DEF Decoder!Completes
  <2>4. DecoderTyped'
    BY <1>1, <2>2, <2>3, DeliverKeeps
  <2>5. ASSUME Decoder!AllLegal
        PROVE  DecoderSent' /\ DecoderExpects'
    <3>1. DecoderSent /\ DecoderExpects
      BY <2>5 DEF DecoderInv
    <3>2. FixedLength = Len(Decoder!Message(Len(delivered) + 1))
      BY <1>1, <1>2, <2>5, <3>1, NextMessage
    <3> QED BY <1>1, <2>2, <2>3, <2>5, <3>1, <3>2, DeliverKeeps
  <2> QED BY <1>3, <2>4, <2>5 DEF DecoderInv
<1>5. CASE ~Decoder!Completes(FixedLength)
  <2>1. Decoder!Keep
    BY <1>5 DEF Decoder!DecodeFixed
  <2>2. /\ DecoderTyped' /\ Len(message_buffer') = Len(message_buffer) + Len(remain)
        /\ DecoderSent => DecoderSent'
    BY <1>1, <2>1, KeepKeeps
  <2>3. ASSUME Decoder!AllLegal
        PROVE  DecoderSent' /\ DecoderExpects'
    <3>1. DecoderSent /\ DecoderExpects
      BY <2>3 DEF DecoderInv
    <3>2. message_length = 0 /\ Len(message_buffer) < FixedLength
      BY <1>1, <3>1 DEF DecoderExpects
    <3>3. Len(message_buffer') < FixedLength
      BY <1>1, <1>2, <1>5, <2>2, <3>2 DEF Decoder!Completes
    <3>4. message_length' = 0
      BY <2>1, <3>2 DEF Decoder!Keep
    <3> QED BY <1>1, <1>3, <2>2, <3>1, <3>3, <3>4 DEF DecoderExpects
  <2> QED BY <1>3, <2>2, <2>3 DEF DecoderInv
<1> QED BY <1>4, <1>5

(* message_buffer_ grows, and the message it holds the head of is complete *)
(* or not.                                                                 *)
LEMMA KeptMessageKeeps ==
  ASSUME Decoder!DecoderAssumption, DecoderInv, deciding, Turned,
         decoder = "length", Decoder!DecodeKeptMessage
  PROVE  DecoderInv'
<1>1. DecoderTyped /\ message_length \in Nat /\ message_length > 0
  BY DEF DecoderInv, DecoderTyped, Decoder!DecodeKeptMessage
<1>2. Len(message_buffer) \in Nat /\ Len(remain) \in Nat /\ Unread # << >>
  BY <1>1, UnreadIs
<1>3. Decoder!AllLegal' = Decoder!AllLegal /\ decoder' = decoder /\ lengths' = lengths
      /\ Decoder!MinHeadLength' = Decoder!MinHeadLength
  BY SettingStays DEF Turned
<1>4. CASE Decoder!Completes(message_length)
  <2>1. Decoder!Deliver(Decoder!Take(message_buffer \o remain, message_length),
                        message_length - Len(message_buffer))
    BY <1>4 DEF Decoder!DecodeKeptMessage, Decoder!Complete
  <2>2. Len(message_buffer) <= message_length
        /\ message_length <= Len(message_buffer) + Len(remain)
    BY <1>1, <1>2, <1>4 DEF Decoder!Completes
  <2>3. DecoderTyped'
    BY <1>1, <2>1, <2>2, DeliverKeeps
  <2>4. ASSUME Decoder!AllLegal
        PROVE  DecoderSent' /\ DecoderExpects'
    <3>1. DecoderSent /\ DecoderExpects
      BY <2>4 DEF DecoderInv
    <3>2. message_length = Len(Decoder!Message(Len(delivered) + 1))
      <4>1. message_length = lengths[Len(delivered) + 1]
        BY <1>1, <3>1 DEF DecoderExpects
      <4> QED BY <1>1, <1>2, <2>4, <3>1, <4>1, NextMessage
    <3> QED BY <1>1, <2>1, <2>2, <2>4, <3>1, <3>2, DeliverKeeps
  <2> QED BY <1>3, <2>3, <2>4 DEF DecoderInv
<1>5. CASE ~Decoder!Completes(message_length)
  <2>1. Decoder!Keep
    BY <1>5 DEF Decoder!DecodeKeptMessage
  <2>2. /\ DecoderTyped' /\ Len(message_buffer') = Len(message_buffer) + Len(remain)
        /\ message_buffer' # << >>
        /\ DecoderSent => DecoderSent'
    BY <1>1, <2>1, KeepKeeps
  <2>3. ASSUME Decoder!AllLegal
        PROVE  DecoderSent' /\ DecoderExpects'
    <3>1. DecoderSent /\ DecoderExpects
      BY <2>3 DEF DecoderInv
    <3>2. /\ Len(delivered) < Len(lengths)
          /\ message_length = lengths[Len(delivered) + 1]
          /\ \/ Len(message_buffer) < message_length
             \/ message_length = Decoder!MinHeadLength
      BY <1>1, <3>1 DEF DecoderExpects
    <3>3. message_length' = message_length /\ delivered' = delivered
      BY <2>1 DEF Decoder!Keep
    <3>4. \/ Len(message_buffer') < message_length
          \/ message_length = Decoder!MinHeadLength
      BY <1>1, <1>2, <1>5, <2>2, <3>2 DEF Decoder!Completes
    <3>5. DecoderExpects'
      BY <1>3, <2>2, <3>2, <3>3, <3>4 DEF DecoderExpects
    <3> QED BY <2>2, <3>1, <3>5
  <2> QED BY <1>3, <2>2, <2>3 DEF DecoderInv
<1> QED BY <1>4, <1>5

LEMMA CloseKeeps ==
  ASSUME Decoder!DecoderAssumption, DecoderTyped, Turned, NEW k \in Nat,
         Decoder!CloseOn(k),
         k = 0 => Len(message_buffer) < Decoder!MinHeadLength
  PROVE  DecoderTyped'
<1>1. /\ closed' = "bad_length" /\ message_length' = k /\ remain' = remain
      /\ message_buffer' = message_buffer
  BY DEF Decoder!CloseOn
<1>2. /\ remain' \in Seq(Byte) /\ message_buffer' \in Seq(Byte)
      /\ closed' \in {"no", "by_handler", "bad_length"}
  BY <1>1 DEF DecoderTyped
<1>3. Len(remain') <= Len(remain)
  BY <1>1, UnreadIs
<1>4. message_length' = 0 => Len(message_buffer') < Decoder!MinHeadLength
  BY <1>1
<1> QED BY <1>1, <1>2, <1>3, <1>4, TypedNext DEF Turned

(* Nothing has been kept: the length is read from the bytes at hand.       *)
LEMMA HereKeeps ==
  ASSUME Decoder!DecoderAssumption, DecoderInv, deciding, Turned,
         decoder = "length", Decoder!DecodeHere
  PROVE  DecoderInv'
<1> DEFINE k == IF message_length > 0 THEN message_length
                ELSE Decoder!ReadLengthField(remain)
           h == Decoder!MinHeadLength
<1>1. /\ DecoderTyped /\ message_length \in Nat /\ remain \in Seq(Byte)
      /\ todo \in Seq(Byte) /\ message_buffer = << >>
  BY DEF DecoderInv, DecoderTyped, Decoder!DecodeHere
<1>2. /\ Len(remain) \in Nat /\ Unread # << >> /\ remain # << >>
      /\ Unread \in Seq(Byte) /\ message_buffer \o remain = remain
      /\ (message_buffer \o remain) \o todo = Unread
      /\ Len(message_buffer) = 0
  BY <1>1, UnreadIs, ConcatEmptySeq, EmptySeq
<1>3. /\ Decoder!AllLegal' = Decoder!AllLegal /\ decoder' = decoder
      /\ Decoder!MinHeadLength' = Decoder!MinHeadLength /\ lengths' = lengths
  BY SettingStays DEF Turned
<1>4. h \in Nat /\ h > 0
  BY <1>1 DEF DecoderTyped, DecoderSetting, Decoder!MinHeadLength
<1>5. IF message_length = 0 /\ Len(remain) < h THEN Decoder!Keep
      ELSE IF message_length = 0 /\ Decoder!BadLength(k) THEN Decoder!CloseOn(k)
      ELSE IF Len(remain) >= k THEN Decoder!Deliver(Decoder!Take(remain, k), k)
      ELSE /\ message_buffer' = remain /\ remain' = << >>
           /\ message_length' = k
           /\ UNCHANGED <<delivered, closed>>
  BY DEF Decoder!DecodeHere
<1>6. message_length > 0 => k = message_length
  OBVIOUS
<1>7. message_length = 0 => k = Decoder!ReadLengthField(remain)
  BY <1>1
<1>8. ~(message_length = 0 /\ Len(remain) < h) => k \in Nat
  <2>1. ASSUME message_length = 0, ~(Len(remain) < h)
        PROVE  k \in Nat
    <3>1. h <= Len(remain)
      BY <1>2, <1>4, <2>1
    <3>2. Decoder!ReadLengthField(remain) \in Nat
      BY <1>1, <3>1, LengthIsNat
    <3> QED BY <1>7, <2>1, <3>2
  <2>2. message_length # 0 => message_length > 0
    BY <1>1
  <2> QED BY <1>1, <1>6, <2>1, <2>2
<1> HIDE DEF k
<1>9. ASSUME Decoder!AllLegal
      PROVE  DecoderSent /\ DecoderExpects /\ message_length = 0
  <2>1. DecoderSent /\ DecoderExpects
    BY <1>9 DEF DecoderInv
  <2> QED BY <1>1, <2>1 DEF DecoderExpects
<1>10. ASSUME Decoder!AllLegal, ~(Len(remain) < h)
       PROVE  /\ Len(delivered) < Len(lengths)
              /\ k = lengths[Len(delivered) + 1]
              /\ k = Len(Decoder!Message(Len(delivered) + 1))
              /\ k # 0 /\ h <= k /\ ~Decoder!BadLength(k)
  <2>1. h <= Len(remain)
    BY <1>2, <1>4, <1>10
  <2>2. remain \o todo = Unread
    BY <1>2
  <2>3. DecoderSent /\ k = Decoder!ReadLengthField(remain)
    BY <1>7, <1>9, <1>10
  <2> QED BY <1>1, <1>10, <2>1, <2>2, <2>3, LengthIsRead
<1>11. CASE message_length = 0 /\ Len(remain) < h
  <2>1. Decoder!Keep
    BY <1>5, <1>11
  <2>2. Len(message_buffer) + Len(remain) < h
    BY <1>2, <1>11
  <2>3. /\ DecoderTyped'
        /\ DecoderSent => DecoderSent'
    BY <1>1, <2>1, <2>2, KeepKeeps
  <2>4. message_length' = 0
    BY <1>11, <2>1 DEF Decoder!Keep
  <2>5. ASSUME Decoder!AllLegal
        PROVE  DecoderSent' /\ DecoderExpects'
    BY <1>3, <1>9, <2>3, <2>4, <2>5 DEF DecoderExpects
  <2> QED BY <1>3, <2>3, <2>5 DEF DecoderInv
<1>12. CASE /\ ~(message_length = 0 /\ Len(remain) < h)
            /\ message_length = 0 /\ Decoder!BadLength(k)
  <2>1. Decoder!CloseOn(k)
    BY <1>5, <1>12
  <2>2. DecoderTyped'
    BY <1>1, <1>2, <1>4, <1>8, <1>12, <2>1, CloseKeeps
  <2>3. ~Decoder!AllLegal
    BY <1>10, <1>12
  <2> QED BY <1>3, <2>2, <2>3 DEF DecoderInv
<1>13. CASE /\ ~(message_length = 0 /\ Len(remain) < h)
            /\ ~(message_length = 0 /\ Decoder!BadLength(k))
            /\ Len(remain) >= k
  <2>1. k \in Nat
    BY <1>8, <1>13
  <2>2. k - Len(message_buffer) = k
    BY <1>2, <2>1
  <2>3. Decoder!Deliver(Decoder!Take(message_buffer \o remain, k),
                        k - Len(message_buffer))
    BY <1>2, <1>5, <1>13, <2>2
  <2>4. Len(message_buffer) <= k /\ k <= Len(message_buffer) + Len(remain)
    BY <1>2, <1>13, <2>1
  <2>5. DecoderTyped'
    BY <1>1, <2>1, <2>3, <2>4, DeliverKeeps
  <2>6. ASSUME Decoder!AllLegal
        PROVE  DecoderSent' /\ DecoderExpects'
    <3>1. k = Len(Decoder!Message(Len(delivered) + 1))
      BY <1>9, <1>10, <1>13, <2>6
    <3>2. DecoderSent /\ DecoderExpects
      BY <1>9, <2>6
    <3> QED BY <1>1, <2>1, <2>3, <2>4, <2>6, <3>1, <3>2, DeliverKeeps
  <2> QED BY <1>3, <2>5, <2>6 DEF DecoderInv
<1>14. CASE /\ ~(message_length = 0 /\ Len(remain) < h)
            /\ ~(message_length = 0 /\ Decoder!BadLength(k))
            /\ ~(Len(remain) >= k)
  <2>1. k \in Nat
    BY <1>8, <1>14
  <2>2. /\ message_buffer' = remain /\ remain' = << >> /\ message_length' = k
        /\ delivered' = delivered /\ closed' = closed
    BY <1>5, <1>14
  <2>3. Len(remain) < k /\ k # 0
    BY <1>2, <1>14, <2>1
  <2>4. << >> \in Seq(Byte) /\ Len(<< >>) = 0
        /\ << >> \o todo = todo
    BY <1>1, EmptySeq, ConcatEmptySeq
  <2>5. DecoderTyped'
    <3>1. Len(remain') <= Len(remain) /\ remain' \in Seq(Byte)
      BY <1>2, <2>2, <2>4
    <3>2. message_buffer' \in Seq(Byte) /\ message_length' \in Nat
          /\ message_length' # 0
      BY <1>1, <2>1, <2>2, <2>3
    <3>3. closed' \in {"no", "by_handler", "bad_length"}
      BY <1>1, <2>2 DEF DecoderTyped
    <3> QED BY <1>1, <3>1, <3>2, <3>3, TypedNext DEF Turned
  <2>6. Unread' = Unread
    BY <1>2, <2>2, <2>4 DEF Unread, Turned
  <2>7. ASSUME Decoder!AllLegal
        PROVE  DecoderSent' /\ DecoderExpects'
    <3>1. DecoderSent /\ message_length = 0
      BY <1>9, <2>7
    <3>2. closed' # "bad_length"
      BY <2>2, <3>1 DEF DecoderSent
    <3>3. DecoderSent'
      BY <2>2, <2>6, <3>1, <3>2, SentStays DEF Turned
    <3>4. Len(delivered) < Len(lengths) /\ k = lengths[Len(delivered) + 1]
      BY <1>10, <1>14, <2>7, <3>1
    <3>5. message_buffer' # << >> /\ Len(message_buffer') < message_length'
      BY <1>2, <2>2, <2>3
    <3>6. DecoderExpects'
      BY <1>3, <2>2, <3>4, <3>5 DEF DecoderExpects
    <3> QED BY <3>3, <3>6
  <2> QED BY <1>3, <2>5, <2>7 DEF DecoderInv
<1> QED BY <1>11, <1>12, <1>13, <1>14

(* Less than a head has been kept.                                         *)
LEMMA KeptHeadKeeps ==
  ASSUME Decoder!DecoderAssumption, DecoderInv, deciding, Turned,
         decoder = "length", Decoder!DecodeKeptHead
  PROVE  DecoderInv'
<1> DEFINE h == Decoder!MinHeadLength
           need == h - Len(message_buffer)
           head == message_buffer \o Decoder!Take(remain, need)
           k == Decoder!ReadLengthField(head)
<1>1. /\ DecoderTyped /\ message_length = 0 /\ remain \in Seq(Byte)
      /\ todo \in Seq(Byte) /\ message_buffer \in Seq(Byte)
      /\ Len(message_buffer) < h
  BY DEF DecoderInv, DecoderTyped, Decoder!DecodeKeptHead
<1>2. /\ Len(remain) \in Nat /\ Len(message_buffer) \in Nat
      /\ (message_buffer \o remain) \o todo = Unread
  BY <1>1, UnreadIs
<1>3. /\ Decoder!AllLegal' = Decoder!AllLegal /\ decoder' = decoder
      /\ Decoder!MinHeadLength' = Decoder!MinHeadLength /\ lengths' = lengths
  BY SettingStays DEF Turned
<1>4. h \in Nat /\ h > 0 /\ need \in Nat /\ need > 0
      /\ h = Len(message_buffer) + need
  <2>1. h \in Nat /\ h > 0
    BY <1>1 DEF DecoderTyped, DecoderSetting, Decoder!MinHeadLength
  <2> HIDE DEF h
  <2> QED BY <1>1, <1>2, <2>1
<1>5. IF Len(remain) < need THEN Decoder!Keep
      ELSE IF Decoder!BadLength(k) THEN Decoder!CloseOn(k)
      ELSE /\ message_buffer' = head /\ remain' = Decoder!Drop(remain, need)
           /\ message_length' = k
           /\ UNCHANGED <<delivered, closed>>
  BY DEF Decoder!DecodeKeptHead
<1>6. ASSUME Decoder!AllLegal
      PROVE  DecoderSent /\ DecoderExpects
  BY <1>6 DEF DecoderInv
<1> HIDE DEF k, head, need, h
<1>7. ASSUME ~(Len(remain) < need)
      PROVE  /\ need \in 0 .. Len(remain)
             /\ head \in Seq(Byte) /\ Len(head) = h
             /\ Decoder!Drop(remain, need) \in Seq(Byte)
             /\ Len(Decoder!Drop(remain, need)) = Len(remain) - need
             /\ head \o (Decoder!Drop(remain, need) \o todo) = Unread
             /\ Decoder!Drop(remain, need) \o todo \in Seq(Byte)
  <2> DEFINE t == Decoder!Take(remain, need)
             x == Decoder!Drop(remain, need)
  <2>1. need \in 0 .. Len(remain)
    BY <1>2, <1>4, <1>7
  <2>2. t \in Seq(Byte) /\ x \in Seq(Byte) /\ Len(t) = need
        /\ Len(x) = Len(remain) - need /\ t \o x = remain
    BY <1>1, <2>1, Cut
  <2>3. head = message_buffer \o t
    BY DEF head
  <2> HIDE DEF t, x
  <2>4. head \in Seq(Byte) /\ Len(head) = h
    BY <1>1, <1>4, <2>2, <2>3, ConcatProperties
  <2>5. x \o todo \in Seq(Byte)
    BY <1>1, <2>2, ConcatProperties
  <2>6. JoinsAssociate(Byte)
    BY Associative, Zenon
  <2>7. (message_buffer \o t) \o x = message_buffer \o remain
    <3>1. (message_buffer \o t) \o x = message_buffer \o (t \o x)
      BY <1>1, <2>2, <2>6, Zenon DEF JoinsAssociate
    <3> QED BY <2>2, <3>1, Zenon
  <2>8. head \o (x \o todo) = (head \o x) \o todo
    BY <1>1, <2>2, <2>4, <2>6, Zenon DEF JoinsAssociate
  <2>9. head \o (x \o todo) = Unread
    BY <1>2, <2>3, <2>7, <2>8
  <2> QED BY <2>1, <2>2, <2>4, <2>5, <2>9 DEF x
<1>8. ASSUME ~(Len(remain) < need)
      PROVE  k \in Nat
  <2>1. head \in Seq(Byte) /\ h <= Len(head)
    BY <1>4, <1>7, <1>8
  <2> QED BY <1>1, <2>1, LengthIsNat DEF k, h
<1>9. ASSUME Decoder!AllLegal, ~(Len(remain) < need)
      PROVE  /\ Len(delivered) < Len(lengths)
             /\ k = lengths[Len(delivered) + 1]
             /\ k # 0 /\ h <= k /\ ~Decoder!BadLength(k)
  <2>1. /\ head \in Seq(Byte) /\ Decoder!Drop(remain, need) \o todo \in Seq(Byte)
        /\ head \o (Decoder!Drop(remain, need) \o todo) = Unread
        /\ h <= Len(head)
    BY <1>4, <1>7, <1>9
  <2>2. DecoderSent
    BY <1>6, <1>9
  <2> QED BY <1>1, <1>9, <2>1, <2>2, LengthIsRead DEF k, h
<1>10. CASE Len(remain) < need
  <2>1. Decoder!Keep
    BY <1>5, <1>10
  <2>2. Len(message_buffer) + Len(remain) < h
    BY <1>2, <1>4, <1>10
  <2>3. /\ DecoderTyped'
        /\ DecoderSent => DecoderSent'
    BY <1>1, <2>1, <2>2, KeepKeeps DEF h
  <2>4. message_length' = 0
    BY <1>1, <2>1 DEF Decoder!Keep
  <2>5. ASSUME Decoder!AllLegal
        PROVE  DecoderSent' /\ DecoderExpects'
    BY <1>3, <1>6, <2>3, <2>4, <2>5 DEF DecoderExpects
  <2> QED BY <1>3, <2>3, <2>5 DEF DecoderInv
<1>11. CASE ~(Len(remain) < need) /\ Decoder!BadLength(k)
  <2>1. Decoder!CloseOn(k) /\ k \in Nat
    BY <1>5, <1>8, <1>11
  <2>2. DecoderTyped'
    BY <1>1, <2>1, CloseKeeps DEF h
  <2>3. ~Decoder!AllLegal
    BY <1>9, <1>11
  <2> QED BY <1>3, <2>2, <2>3 DEF DecoderInv
<1>12. CASE ~(Len(remain) < need) /\ ~Decoder!BadLength(k)
  <2>1. /\ message_buffer' = head /\ remain' = Decoder!Drop(remain, need)
        /\ message_length' = k /\ delivered' = delivered /\ closed' = closed
    BY <1>5, <1>12
  <2>2. k \in Nat /\ k # 0
    BY <1>8, <1>12 DEF Decoder!BadLength
  <2>3. /\ head \in Seq(Byte) /\ Len(head) = h
        /\ Decoder!Drop(remain, need) \in Seq(Byte)
        /\ Len(Decoder!Drop(remain, need)) = Len(remain) - need
        /\ head \o (Decoder!Drop(remain, need) \o todo) = Unread
    BY <1>7, <1>12
  <2>4. DecoderTyped'
    <3>1. Len(remain') <= Len(remain) /\ remain' \in Seq(Byte)
      BY <1>2, <1>4, <2>1, <2>3
    <3>2. message_buffer' \in Seq(Byte) /\ message_length' \in Nat
          /\ message_length' # 0
      BY <2>1, <2>2, <2>3
    <3>3. closed' \in {"no", "by_handler", "bad_length"}
      BY <1>1, <2>1 DEF DecoderTyped
    <3> QED BY <1>1, <3>1, <3>2, <3>3, TypedNext DEF Turned
  <2>5. Unread' = Unread
    BY <2>1, <2>3 DEF Unread, Turned
  <2>6. ASSUME Decoder!AllLegal
        PROVE  DecoderSent' /\ DecoderExpects'
    <3>1. DecoderSent
      BY <1>6, <2>6
    <3>2. closed' # "bad_length"
      BY <2>1, <3>1 DEF DecoderSent
    <3>3. DecoderSent'
      BY <2>1, <2>5, <3>1, <3>2, SentStays DEF Turned
    <3>4. Len(delivered) < Len(lengths) /\ k = lengths[Len(delivered) + 1] /\ h <= k
      BY <1>9, <1>12, <2>6
    <3>5. message_buffer' # << >>
      BY <1>4, <2>1, <2>3, EmptySeq
    <3>6. Len(message_buffer') < k \/ k = h
      BY <1>4, <2>1, <2>2, <2>3, <3>4
    <3>7. DecoderExpects'
      BY <1>1, <1>3, <2>1, <3>4, <3>5, <3>6 DEF DecoderExpects, h
    <3> QED BY <3>3, <3>7
  <2> QED BY <1>3, <2>4, <2>6 DEF DecoderInv
<1> QED BY <1>10, <1>11, <1>12

LEMMA DecodeKeeps ==
  ASSUME Decoder!DecoderAssumption, DecoderInv, Decoder!Decode
  PROVE  DecoderInv'
<1>1. deciding /\ Turned
  BY DEF Decoder!Decode, Turned
<1>2. CASE Decoder!DecodeFixed
  BY <1>1, <1>2, FixedKeeps
<1>3. CASE Decoder!DecodeLength
  BY <1>1, <1>3, HereKeeps, KeptHeadKeeps, KeptMessageKeeps DEF Decoder!DecodeLength
<1> QED BY <1>2, <1>3 DEF Decoder!Decode

LEMMA ReceiveKeeps ==
  ASSUME Decoder!DecoderAssumption, DecoderInv, NEW k \in 1 .. Len(todo),
         Decoder!Receive(k)
  PROVE  DecoderInv'
<1> DEFINE t == Decoder!Take(todo, k)
           x == Decoder!Drop(todo, k)
<1>1. /\ ~deciding /\ closed = "no" /\ remain' = t /\ todo' = x /\ deciding'
      /\ UNCHANGED Decoder!config
      /\ message_buffer' = message_buffer /\ message_length' = message_length
      /\ delivered' = delivered /\ closed' = closed
  BY DEF Decoder!Receive, Decoder!received
<1>2. DecoderTyped
  BY DEF DecoderInv
<1>3. remain = << >> /\ todo \in Seq(Byte) /\ message_buffer \in Seq(Byte)
      /\ message_length \in Nat
      /\ Len(remain) + Len(todo) <= Len(Decoder!Stream)
  BY <1>1, <1>2 DEF DecoderTyped
<1>4. Len(todo) \in Nat /\ k \in Nat /\ k \in 0 .. Len(todo) /\ k # 0
      /\ Len(remain) = 0 /\ << >> \o todo = todo
  BY <1>3, LenProperties, EmptySeq, ConcatEmptySeq
<1>5. /\ t \in Seq(Byte) /\ x \in Seq(Byte) /\ t \o x = todo
      /\ Len(t) = k /\ Len(x) = Len(todo) - k
  <2>1. todo \in Seq(Byte) /\ k \in 0 .. Len(todo)
    BY <1>3, <1>4
  <2> QED BY <2>1, Cut, Zenon
<1> HIDE DEF t, x
<1>6. t # << >>
  BY <1>4, <1>5, EmptySeq
<1>7. /\ DecoderSetting' /\ Decoder!AllLegal' = Decoder!AllLegal
      /\ Decoder!Stream' = Decoder!Stream /\ lengths' = lengths
      /\ Decoder!MinHeadLength' = Decoder!MinHeadLength /\ decoder' = decoder
  BY <1>1, <1>2, SettingStays DEF DecoderTyped
<1>8. DecoderTyped'
  <2>1. Len(remain') + Len(todo') <= Len(Decoder!Stream)
    <3>1. Len(t) + Len(x) = Len(remain) + Len(todo)
      BY <1>4, <1>5
    <3> QED BY <1>1, <1>3, <3>1
  <2>2. (decoder = "length" /\ message_length = 0
          => Len(message_buffer) < Decoder!MinHeadLength)'
    BY <1>1, <1>2, <1>7 DEF DecoderTyped
  <2>3. remain' \in Seq(Byte) /\ todo' \in Seq(Byte) /\ message_buffer' \in Seq(Byte)
        /\ message_length' \in Nat /\ closed' = "no" /\ deciding' \in BOOLEAN
    BY <1>1, <1>3, <1>5
  <2>4. deciding' <=> remain' # << >> /\ closed' = "no"
    BY <1>1, <1>6
  <2> QED BY <1>7, <2>1, <2>2, <2>3, <2>4 DEF DecoderTyped
<1>9. ASSUME Decoder!AllLegal
      PROVE  DecoderSent' /\ DecoderExpects'
  <2>1. DecoderSent /\ DecoderExpects
    BY <1>9 DEF DecoderInv
  <2>2. Unread' = Unread
    BY <1>1, <1>3, <1>4, <1>5 DEF Unread
  <2>3. DecoderSent'
    BY <1>1, <2>1, <2>2, SentStays
  <2>4. DecoderExpects'
    BY <1>1, <1>7, <2>1 DEF DecoderExpects
  <2> QED BY <2>3, <2>4
<1> QED BY <1>7, <1>8, <1>9 DEF DecoderInv

LEMMA InitDecoder ==
  ASSUME Decoder!DecoderAssumption, Decoder!Init
  PROVE  DecoderInv
<1>1. /\ todo = Decoder!Stream /\ remain = << >> /\ deciding = FALSE
      /\ message_buffer = << >> /\ message_length = 0
      /\ delivered = << >> /\ closed = "no"
  BY DEF Decoder!Init
<1>2. DecoderSetting
  <2>1. /\ decoder \in {"fixed", "length"} /\ field \in Fields /\ offset \in Offsets
        /\ order \in {"host", "network"}
        /\ decoder = "fixed" => field = 2 /\ offset = 0 /\ order = "host"
    BY DEF Decoder!Init
  <2>2. PICK k \in 1 .. MaxMessages :
          lengths \in [1 .. k -> IF decoder = "fixed" THEN {FixedLength} ELSE Lengths]
    BY DEF Decoder!Init
  <2>3. /\ Fields \subseteq {1, 2, 4} /\ Offsets \subseteq Nat /\ Lengths \subseteq Nat
        /\ FixedLength \in Nat /\ MaxMessages \in Nat
    BY DEF Decoder!DecoderAssumption
  <2>4. k \in Nat /\ lengths \in [1 .. k -> Nat]
    <3>1. (IF decoder = "fixed" THEN {FixedLength} ELSE Lengths) \subseteq Nat
      BY <2>3
    <3>2. \A S, T : S \subseteq T => [1 .. k -> S] \subseteq [1 .. k -> T]
      OBVIOUS
    <3>3. k \in Nat
      BY <2>3
    <3> QED BY <2>2, <3>1, <3>2, <3>3, Zenon
  <2>5. lengths \in Seq(Nat) /\ Len(lengths) = k
    BY <2>4
  <2>6. decoder = "fixed" => \A i \in 1 .. Len(lengths) : lengths[i] = FixedLength
    BY <2>2, <2>5
  <2> QED BY <2>1, <2>3, <2>5, <2>6 DEF DecoderSetting
<1>3. /\ Decoder!Messages \in Seq(Seq(Byte)) /\ Len(lengths) \in Nat
      /\ Len(Decoder!Messages) = Len(lengths)
  BY <1>2, MessagesAre
<1>4. Decoder!Stream \in Seq(Byte)
  BY <1>3, FlattenSeqIs DEF Decoder!Stream
<1>5. << >> \in Seq(Byte) /\ Len(<< >>) = 0 /\ << >> \in Seq(Seq(Byte))
      /\ << >> \o Decoder!Stream = Decoder!Stream
  BY <1>4, EmptySeq, ConcatEmptySeq
<1>6. DecoderTyped
  <2>1. Decoder!MinHeadLength \in Nat /\ Decoder!MinHeadLength > 0
    BY <1>2 DEF DecoderSetting, Decoder!MinHeadLength
  <2>2. Len(remain) + Len(todo) <= Len(Decoder!Stream)
    <3>1. Len(Decoder!Stream) \in Nat
      BY <1>4, LenProperties
    <3> QED BY <1>1, <1>5, <3>1
  <2> QED BY <1>1, <1>2, <1>4, <1>5, <2>1, <2>2 DEF DecoderTyped
<1>7. Unread = Decoder!Stream
  BY <1>1, <1>5 DEF Unread
<1>8. Following(Len(delivered)) = Decoder!Messages
  <2>1. Len(delivered) = 0 /\ 0 + 1 = 1
    BY <1>1, <1>5
  <2>2. SubSeq(Decoder!Messages, 1, Len(Decoder!Messages)) = Decoder!Messages
    BY <1>3, SubSeqFull
  <2> QED BY <2>1, <2>2 DEF Following, Decoder!Drop
<1>9. Decoder!FlattenSeq(delivered) = << >>
  BY <1>1, <1>5 DEF Decoder!FlattenSeq
<1>10. DecoderSent
  <2>1. Len(delivered) <= Len(lengths)
    BY <1>1, <1>3, <1>5
  <2>2. \A k \in 1 .. Len(delivered) : delivered[k] = Decoder!Message(k)
    BY <1>1, <1>5
  <2>3. Unread = Decoder!FlattenSeq(Following(Len(delivered)))
    BY <1>7, <1>8 DEF Decoder!Stream
  <2>4. Decoder!FlattenSeq(delivered) \o Unread = Decoder!Stream
    BY <1>5, <1>7, <1>9
  <2> QED BY <1>1, <1>5, <2>1, <2>2, <2>3, <2>4 DEF DecoderSent
<1>11. DecoderExpects
  <2>1. FixedLength \in Nat \ {0}
    BY DEF Decoder!DecoderAssumption
  <2> QED BY <1>1, <1>5, <2>1 DEF DecoderExpects
<1> QED BY <1>6, <1>10, <1>11 DEF DecoderInv

LEMMA DecoderFrames ==
  ASSUME Decoder!DecoderAssumption, DecoderInv
  PROVE  Decoder!Framed
<1>1. DecoderTyped
  BY DEF DecoderInv
<1>2. Decoder!TypeOK
  BY <1>1 DEF DecoderTyped, Decoder!TypeOK
<1>3. ASSUME Decoder!AllLegal
      PROVE  /\ Decoder!IsPrefix(delivered, Decoder!Messages)
             /\ Decoder!FlattenSeq(delivered) \o message_buffer \o remain \o todo
                  = Decoder!Stream
             /\ closed # "bad_length"
  <2>1. DecoderSent
    BY <1>3 DEF DecoderInv
  <2> DEFINE d == Len(delivered)   M == Decoder!Messages
             p == Decoder!FlattenSeq(delivered)
  <2>2. /\ delivered \in Seq(Seq(Byte)) /\ d <= Len(lengths) /\ d \in Nat
        /\ \A k \in 1 .. d : delivered[k] = Decoder!Message(k)
    BY <2>1, LenProperties DEF DecoderSent
  <2>3. /\ M \in Seq(Seq(Byte)) /\ Len(M) = Len(lengths) /\ Len(lengths) \in Nat
        /\ \A k \in 1 .. Len(lengths) : M[k] = Decoder!Message(k)
    BY <1>1, MessagesAre DEF DecoderTyped
  <2>4. Decoder!IsPrefix(delivered, M)
    <3>1. SubSeq(delivered, 1, d) = delivered
      BY <2>2, SubSeqFull
    <3>2. d \in 0 .. Len(M)
      BY <2>2, <2>3
    <3> HIDE DEF M
    <3>3. /\ Decoder!Take(M, d) \in Seq(Seq(Byte)) /\ Len(Decoder!Take(M, d)) = d
          /\ \A k \in 1 .. d : Decoder!Take(M, d)[k] = M[k]
      BY <2>3, <3>2, Cut
    <3>4. \A k \in 1 .. d : Decoder!Take(M, d)[k] = delivered[k]
      <4> TAKE k \in 1 .. d
      <4>1. k \in 1 .. Len(lengths)
        BY <2>2, <2>3
      <4>2. M[k] = Decoder!Message(k) /\ delivered[k] = Decoder!Message(k)
        BY <2>2, <2>3, <4>1
      <4> QED BY <3>3, <4>2
    <3>5. Decoder!Take(M, d) = delivered
      BY <2>2, <3>3, <3>4, SeqEqual
    <3> QED BY <2>2, <2>3, <3>1, <3>5 DEF Decoder!IsPrefix, Decoder!Take
  <2>5. p \in Seq(Byte)
    BY <2>2, FlattenSeqIs
  <2>6. /\ remain \in Seq(Byte) /\ todo \in Seq(Byte) /\ message_buffer \in Seq(Byte)
        /\ remain \o todo \in Seq(Byte)
        /\ p \o message_buffer \in Seq(Byte)
    BY <1>1, <2>5, ConcatProperties DEF DecoderTyped
  <2>7. p \o (message_buffer \o (remain \o todo)) = Decoder!Stream
    BY <2>1 DEF DecoderSent, Unread
  <2> HIDE DEF p
  <2>8. JoinsAssociate(Byte)
    BY Associative, Zenon
  <2>9. (p \o message_buffer) \o (remain \o todo) = Decoder!Stream
    <3>1. (p \o message_buffer) \o (remain \o todo) =
            p \o (message_buffer \o (remain \o todo))
      BY <2>5, <2>6, <2>8, Zenon DEF JoinsAssociate
    <3> QED BY <2>7, <3>1, Zenon
  <2>10. ((p \o message_buffer) \o remain) \o todo = Decoder!Stream
    <3>1. ((p \o message_buffer) \o remain) \o todo =
            (p \o message_buffer) \o (remain \o todo)
      BY <2>6, <2>8, Zenon DEF JoinsAssociate
    <3> QED BY <2>9, <3>1, Zenon
  <2> QED BY <2>1, <2>4, <2>10 DEF DecoderSent, p
<1> QED BY <1>2, <1>3 DEF Decoder!Framed

LEMMA DecoderIsPrompt ==
  ASSUME Decoder!DecoderAssumption, DecoderInv
  PROVE  Decoder!Prompt
<1> SUFFICES ASSUME Decoder!AllLegal, ~deciding, closed = "no",
                    Len(delivered) < Len(lengths)
             PROVE  \/ Len(message_buffer) < Len(Decoder!Messages[Len(delivered) + 1])
                    \/ Decoder!OnlyHead
  BY DEF Decoder!Prompt
<1> DEFINE d == Len(delivered)
<1>1. DecoderTyped /\ DecoderSent /\ DecoderExpects
  BY DEF DecoderInv
<1>2. /\ d \in Nat /\ Len(lengths) \in Nat
      /\ \A k \in 1 .. Len(lengths) : Decoder!Messages[k] = Decoder!Message(k)
  BY <1>1, LenProperties, MessagesAre DEF DecoderTyped, DecoderSent
<1>3. d + 1 \in 1 .. Len(lengths)
  BY <1>2
<1>4. /\ Decoder!Messages[d + 1] = Decoder!Message(d + 1)
      /\ Len(Decoder!Message(d + 1)) = Decoder!Size(lengths[d + 1])
      /\ lengths[d + 1] \in Nat
      /\ decoder = "length" => Decoder!MinHeadLength <= Decoder!Size(lengths[d + 1])
  BY <1>1, <1>2, <1>3, MessageIs DEF DecoderTyped
<1>5. /\ message_length \in Nat /\ Len(message_buffer) \in Nat
      /\ decoder \in {"fixed", "length"}
      /\ decoder = "length" /\ message_length = 0
           => Len(message_buffer) < Decoder!MinHeadLength
      /\ Decoder!MinHeadLength \in Nat
  BY <1>1, UnreadIs DEF DecoderTyped, DecoderSetting, Decoder!MinHeadLength
<1>6. CASE decoder = "fixed"
  <2>1. Len(message_buffer) < FixedLength
    BY <1>1, <1>6 DEF DecoderExpects
  <2>2. Decoder!Size(lengths[d + 1]) = FixedLength
    BY <1>6 DEF Decoder!Size
  <2> QED BY <1>4, <2>1, <2>2
<1>7. CASE decoder = "length" /\ message_length = 0
  <2>1. Decoder!Size(lengths[d + 1]) \in Nat
    BY <1>1, <1>3, MessageIs DEF DecoderTyped
  <2> QED BY <1>4, <1>5, <1>7, <2>1
<1>8. CASE decoder = "length" /\ message_length # 0
  <2>1. /\ message_length = lengths[d + 1]
        /\ \/ Len(message_buffer) < message_length
           \/ message_length = Decoder!MinHeadLength
    BY <1>1, <1>5, <1>8 DEF DecoderExpects
  <2>2. message_length <= Decoder!Size(lengths[d + 1])
    BY <1>4, <1>5, <1>8, <2>1 DEF Decoder!Size
  <2>3. Decoder!Size(lengths[d + 1]) \in Nat
    BY <1>1, <1>3, MessageIs DEF DecoderTyped
  <2> QED BY <1>4, <1>5, <1>8, <2>1, <2>2, <2>3 DEF Decoder!OnlyHead
<1> QED BY <1>5, <1>6, <1>7, <1>8

LEMMA DecoderInvariance == AllSpec => []DecoderInv
<1> USE SequentialAssumption
<1>1. AllInit => DecoderInv
  BY InitDecoder DEF AllInit, DecoderStill
<1>2. DecoderInv /\ [AllNext]_allVars => DecoderInv'
  <2> SUFFICES ASSUME DecoderInv, [AllNext]_allVars
               PROVE  DecoderInv'
    OBVIOUS
  <2>1. CASE Decoder!Next
    BY <2>1, DecodeKeeps, ReceiveKeeps DEF Decoder!Next
  <2>2. CASE UNCHANGED decoderVars
    <3>1. UNCHANGED Decoder!config
      BY <2>2 DEF decoderVars, Decoder!config
    <3>2. /\ todo' = todo /\ remain' = remain /\ deciding' = deciding
          /\ message_buffer' = message_buffer /\ message_length' = message_length
          /\ delivered' = delivered /\ closed' = closed
      BY <2>2 DEF decoderVars
    <3>3. Unread' = Unread
      BY <3>2 DEF Unread
    <3>4. DecoderTyped'
      BY <3>1, <3>2, SettingStays DEF DecoderInv, DecoderTyped
    <3>5. ASSUME Decoder!AllLegal
          PROVE  DecoderSent' /\ DecoderExpects'
      <4>1. DecoderSent /\ DecoderExpects
        BY <3>5 DEF DecoderInv
      <4>2. DecoderSent'
        <5>1. closed' # "bad_length"
          BY <3>2, <4>1 DEF DecoderSent
        <5> QED BY <3>1, <3>2, <3>3, <4>1, <5>1, SentStays
      <4>3. DecoderExpects'
        BY <3>1, <3>2, <4>1, SettingStays DEF DecoderExpects
      <4> QED BY <4>2, <4>3
    <3>6. Decoder!AllLegal' = Decoder!AllLegal
      BY <3>1, SettingStays
    <3> QED BY <3>4, <3>5, <3>6 DEF DecoderInv
  <2> QED BY <2>1, <2>2 DEF AllNext, allVars
<1> QED BY <1>1, <1>2, PTL DEF AllSpec

(* decode() of both message handlers: however the stream is cut, for all   *)
(* lengths that the decoder accepts, of a field of one, two or four bytes  *)
(* in either order, the handler gets the messages that were sent, in       *)
(* order, and one that has arrived is not held back.                       *)
THEOREM MessagesAreDelivered == AllSpec => []Delivered
<1>1. DecoderInv => Delivered
  BY SequentialAssumption, DecoderFrames, DecoderIsPrompt DEF Delivered
<1> QED BY <1>1, DecoderInvariance, PTL
=============================================================================
