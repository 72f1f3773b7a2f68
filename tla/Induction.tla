------------------------------ MODULE Induction ------------------------------
(***************************************************************************)
(* Induction on data, for the proofs about sequences and counts.  A set    *)
(* stands where the library's theorems take a predicate: the set of the    *)
(* numbers of which something is claimed.                                  *)
(***************************************************************************)
EXTENDS FiniteSetTheorems, SequenceTheorems, TLAPS

\* A set of natural numbers has a least element: the intervals below its elements
\* are finite sets, among which no chain of strict subsets descends for ever.
LEMMA Least ==
  ASSUME NEW A, A \subseteq Nat, A # {}
  PROVE  \E m \in A : \A a \in A : m <= a
<1> DEFINE Below == {0 .. a : a \in A}
           Order == StrictSubsetOrdering(Nat)
<1>1. IsWellFoundedOn(Order, FiniteSubsetsOf(Nat))
  BY FS_StrictSubsetOrderingWellFounded
<1>2. Below \subseteq FiniteSubsetsOf(Nat)
  <2>1. \A a \in A : IsFiniteSet(0 .. a)
    BY FS_Interval
  <2> QED
    BY <2>1 DEF FiniteSubsetsOf
<1>3. \E i \in Below : \A j \in Below : <<j, i>> \notin Order
  <2>1. Below # {}
    OBVIOUS
  <2> HIDE DEF Below, Order
  <2> QED
    BY <1>1, <1>2, <2>1, WFMin
<1>4. PICK m \in A : \A a \in A : <<0 .. a, 0 .. m>> \notin Order
  BY <1>3
<1>5. ASSUME NEW a \in A, a < m PROVE FALSE
  <2>1. 0 .. a \subseteq 0 .. m /\ m \in 0 .. m /\ m \notin 0 .. a
    BY <1>5
  <2>2. <<0 .. a, 0 .. m>> \in Order
    BY <2>1 DEF StrictSubsetOrdering
  <2> QED
    BY <1>4, <2>2
<1> QED
  BY <1>5

\* Induction: what holds of 0, and of n + 1 if of n, holds of every number.
LEMMA Inductive ==
  ASSUME NEW A, 0 \in A, \A n \in Nat : n \in A => n + 1 \in A
  PROVE  Nat \subseteq A
<1> SUFFICES ASSUME Nat \ A # {} PROVE FALSE
  OBVIOUS
<1>1. PICK m \in Nat \ A : \A n \in Nat \ A : m <= n
  BY Least
<1>2. m - 1 \in Nat /\ m - 1 \in A
  BY <1>1
<1> QED
  BY <1>1, <1>2

----------------------------------------------------------------------------
(* Iteration along a sequence *)

\* g is what `step' makes of `first', one element of s after the other.
Iterates(g, first, step, s) ==
    g = [k \in 0 .. Len(s) |-> IF k = 0 THEN first ELSE step[<<g[k - 1], s[k]>>]]

\* A step that stays within A can be iterated, and every value is in A.
LEMMA Iteration ==
  ASSUME NEW A, NEW B, NEW first \in A, NEW step \in [A \X B -> A], NEW s \in Seq(B)
  PROVE  \E g \in [0 .. Len(s) -> A] : Iterates(g, first, step, s)
<1> DEFINE Goes(g, m) ==
             /\ g[0] = first
             /\ \A k \in 1 .. m : g[k] = step[<<g[k - 1], s[k]>>]
           M == {m \in Nat : m <= Len(s) => \E g \in [0 .. m -> A] : Goes(g, m)}
<1>0. Len(s) \in Nat /\ \A k \in 1 .. Len(s) : s[k] \in B
  BY ElementOfSeq, LenProperties
<1>1. 0 \in M
  <2>1. [k \in 0 .. 0 |-> first] \in [0 .. 0 -> A] /\ Goes([k \in 0 .. 0 |-> first], 0)
    OBVIOUS
  <2> QED
    BY <2>1
<1>2. ASSUME NEW m \in Nat, m \in M PROVE m + 1 \in M
  <2> SUFFICES ASSUME m + 1 <= Len(s)
               PROVE  \E g \in [0 .. m + 1 -> A] : Goes(g, m + 1)
    OBVIOUS
  <2>1. PICK g \in [0 .. m -> A] : Goes(g, m)
    BY <1>0, <1>2
  <2> DEFINE h == [k \in 0 .. m + 1 |-> IF k <= m THEN g[k] ELSE step[<<g[m], s[m + 1]>>]]
  <2>2. step[<<g[m], s[m + 1]>>] \in A
    <3>1. g[m] \in A /\ s[m + 1] \in B
      BY <1>0
    <3> QED
      BY <3>1
  <2>3. h \in [0 .. m + 1 -> A]
    BY <2>2
  <2>4. h[0] = first
    BY <2>1
  <2>5. ASSUME NEW k \in 1 .. m + 1 PROVE h[k] = step[<<h[k - 1], s[k]>>]
    <3>1. h[k - 1] = g[k - 1] /\ k - 1 \in 0 .. m
      OBVIOUS
    <3>2. CASE k <= m
      BY <2>1, <3>1, <3>2
    <3>3. CASE k = m + 1
      <4>1. h[k] = step[<<g[m], s[m + 1]>>]
        BY <3>3
      <4>2. k - 1 = m
        BY <3>3
      <4> QED
        BY <3>1, <3>3, <4>1, <4>2
    <3> QED
      BY <3>2, <3>3
  <2> QED
    BY <2>3, <2>4, <2>5
<1>3. Len(s) \in M
  <2> HIDE DEF M
  <2> QED
    BY <1>0, <1>1, <1>2, Inductive
<1>4. PICK g \in [0 .. Len(s) -> A] : Goes(g, Len(s))
  BY <1>0, <1>3
<1>5. g = [k \in 0 .. Len(s) |-> IF k = 0 THEN first ELSE step[<<g[k - 1], s[k]>>]]
  BY <1>0, <1>4
<1> QED
  BY <1>5 DEF Iterates

\* Iterating on the rest of s from the first step's result gives what iterating on
\* s does.
LEMMA IterationShift ==
  ASSUME NEW B, NEW s \in Seq(B), s # <<>>, NEW first, NEW step, NEW g, NEW h,
         Iterates(g, first, step, s),
         Iterates(h, step[<<first, Head(s)>>], step, Tail(s))
  PROVE  g[Len(s)] = h[Len(Tail(s))]
<1> DEFINE M == {m \in Nat : m < Len(s) => g[m + 1] = h[m]}
<1>0. /\ Len(s) \in Nat \ {0} /\ Len(Tail(s)) = Len(s) - 1
      /\ Head(s) = s[1]
      /\ \A k \in 1 .. Len(s) - 1 : Tail(s)[k] = s[k + 1]
  BY EmptySeq, HeadTailProperties
<1>1. /\ g[0] = first
      /\ \A k \in 1 .. Len(s) : g[k] = step[<<g[k - 1], s[k]>>]
  BY <1>0 DEF Iterates
<1>2. /\ h[0] = step[<<first, s[1]>>]
      /\ \A k \in 1 .. Len(s) - 1 : h[k] = step[<<h[k - 1], s[k + 1]>>]
  <2>1. h = [k \in 0 .. Len(s) - 1 |->
                IF k = 0 THEN step[<<first, s[1]>>] ELSE step[<<h[k - 1], Tail(s)[k]>>]]
    <3>1. Len(Tail(s)) = Len(s) - 1 /\ Head(s) = s[1]
      BY <1>0
    <3> QED
      BY <3>1 DEF Iterates
  <2>2. h[0] = step[<<first, s[1]>>]
    BY <1>0, <2>1
  <2>3. \A k \in 1 .. Len(s) - 1 : h[k] = step[<<h[k - 1], Tail(s)[k]>>]
    <3> SUFFICES ASSUME NEW k \in 1 .. Len(s) - 1
                 PROVE  h[k] = step[<<h[k - 1], Tail(s)[k]>>]
      OBVIOUS
    <3>1. Len(s) - 1 \in Nat
      BY <1>0
    <3>2. k \in 0 .. Len(s) - 1 /\ k # 0
      BY <3>1
    <3> QED
      BY <2>1, <3>2
  <2> QED
    BY <1>0, <2>2, <2>3
<1>3. 0 \in M
  BY <1>0, <1>1, <1>2
<1>4. ASSUME NEW m \in Nat, m \in M PROVE m + 1 \in M
  <2> SUFFICES ASSUME m + 1 < Len(s) PROVE g[m + 2] = h[m + 1]
    OBVIOUS
  <2>1. g[m + 1] = h[m]
    BY <1>0, <1>4
  <2>2. m + 2 \in 1 .. Len(s) /\ (m + 2) - 1 = m + 1
    BY <1>0
  <2>3. g[m + 2] = step[<<g[m + 1], s[m + 2]>>]
    BY <1>1, <2>2
  <2>4. m + 1 \in 1 .. Len(s) - 1 /\ (m + 1) - 1 = m /\ (m + 1) + 1 = m + 2
    BY <1>0
  <2>5. h[m + 1] = step[<<h[m], s[m + 2]>>]
    BY <1>2, <2>4
  <2> QED
    BY <2>1, <2>3, <2>5
<1>5. Len(s) - 1 \in M
  <2> HIDE DEF M
  <2> QED
    BY <1>0, <1>3, <1>4, Inductive
<1> QED
  BY <1>0, <1>5
----------------------------------------------------------------------------
(* Sequences taken apart *)

\* Bytes that begin with the whole of p give p, and then what follows p.
LEMMA Take ==
  ASSUME NEW A, NEW b \in Seq(A), NEW w \in Seq(A), NEW p \in Seq(A), NEW r \in Seq(A),
         b \o w = p \o r, Len(p) <= Len(b)
  PROVE  /\ SubSeq(b, 1, Len(p)) = p
         /\ \A i \in 1 .. Len(p) : b[i] = p[i]
         /\ SubSeq(b, Len(p) + 1, Len(b)) \in Seq(A)
<1>1. /\ Len(b) \in Nat /\ Len(w) \in Nat /\ Len(p) \in Nat /\ Len(r) \in Nat
      /\ \A i \in 1 .. Len(b) : b[i] \in A
  BY LenProperties
<1>2. \A i \in 1 .. Len(b) + Len(w) :
            (IF i <= Len(b) THEN b[i] ELSE w[i - Len(b)]) =
                (IF i <= Len(p) THEN p[i] ELSE r[i - Len(p)])
  BY ConcatProperties
<1>3. /\ SubSeq(b, 1, Len(p)) \in Seq(A) /\ Len(SubSeq(b, 1, Len(p))) = Len(p)
      /\ \A i \in 1 .. Len(p) : SubSeq(b, 1, Len(p))[i] = b[i]
  <2>1. \A i \in 1 .. Len(p) : b[i] \in A
    BY <1>1
  <2> QED
    BY <1>1, <2>1, SubSeqProperties
<1>4. \A i \in 1 .. Len(p) : b[i] = p[i]
  BY <1>1, <1>2
<1>5. SubSeq(b, 1, Len(p)) = p
  BY <1>1, <1>3, <1>4, SeqEqual
<1>6. SubSeq(b, Len(p) + 1, Len(b)) \in Seq(A)
  <2>1. \A i \in Len(p) + 1 .. Len(b) : b[i] \in A
    BY <1>1
  <2>2. Len(p) + 1 \in Int /\ Len(b) \in Int
    BY <1>1
  <2> QED
    BY <2>1, <2>2, SubSeqProperties
<1> QED
  BY <1>4, <1>5, <1>6

\* What is left behind the bytes that were taken.
LEMMA TakeRest ==
  ASSUME NEW A, NEW b \in Seq(A), NEW w \in Seq(A), NEW p \in Seq(A), NEW r \in Seq(A),
         b \o w = p \o r, Len(p) <= Len(b)
  PROVE  SubSeq(b, Len(p) + 1, Len(b)) \o w = r
<1> DEFINE d == SubSeq(b, Len(p) + 1, Len(b))
<1>1. /\ Len(b) \in Nat /\ Len(w) \in Nat /\ Len(p) \in Nat /\ Len(r) \in Nat
      /\ \A i \in 1 .. Len(b) : b[i] \in A
  BY LenProperties
<1>2. /\ Len(b) + Len(w) = Len(p) + Len(r)
      /\ \A i \in 1 .. Len(b) + Len(w) :
            (IF i <= Len(b) THEN b[i] ELSE w[i - Len(b)]) =
                (IF i <= Len(p) THEN p[i] ELSE r[i - Len(p)])
  BY ConcatProperties
<1>3. /\ d \in Seq(A) /\ Len(d) = Len(b) - Len(p)
      /\ \A i \in 1 .. Len(b) - Len(p) : d[i] = b[Len(p) + i]
  <2>1. \A i \in Len(p) + 1 .. Len(b) : b[i] \in A
    BY <1>1
  <2>2. Len(p) + 1 \in Int /\ Len(b) \in Int
    BY <1>1
  <2> QED
    BY <1>1, <2>1, <2>2, SubSeqProperties
<1> HIDE DEF d
<1>4. /\ d \o w \in Seq(A) /\ Len(d \o w) = Len(r)
      /\ \A i \in 1 .. Len(r) :
            (d \o w)[i] = IF i <= Len(d) THEN d[i] ELSE w[i - Len(d)]
  <2>1. Len(d) + Len(w) = Len(r)
    BY <1>1, <1>2, <1>3
  <2> QED
    BY <1>3, <2>1, ConcatProperties
<1>5. ASSUME NEW i \in 1 .. Len(r) PROVE (d \o w)[i] = r[i]
  <2>1. /\ Len(p) + i \in 1 .. Len(b) + Len(w)
        /\ ~(Len(p) + i <= Len(p)) /\ (Len(p) + i) - Len(p) = i
    BY <1>1, <1>2
  <2>2. r[i] = IF Len(p) + i <= Len(b) THEN b[Len(p) + i] ELSE w[Len(p) + i - Len(b)]
    BY <1>2, <2>1
  <2>3. CASE i <= Len(d)
    BY <1>1, <1>3, <1>4, <2>2, <2>3
  <2>4. CASE ~(i <= Len(d))
    <3>1. i - Len(d) = Len(p) + i - Len(b) /\ ~(Len(p) + i <= Len(b))
      BY <1>1, <1>3, <2>4
    <3> QED
      BY <1>4, <2>2, <2>4, <3>1
  <2> QED
    BY <2>3, <2>4
<1>6. d \o w = r
  BY <1>4, <1>5, SeqEqual
<1> QED
  BY <1>6 DEF d

\* The first n elements of w go from the front of w to the end of b.
LEMMA Cut ==
  ASSUME NEW A, NEW b \in Seq(A), NEW w \in Seq(A), NEW n \in 0 .. Len(w)
  PROVE  /\ SubSeq(w, 1, n) \in Seq(A) /\ SubSeq(w, n + 1, Len(w)) \in Seq(A)
         /\ b \o SubSeq(w, 1, n) \in Seq(A)
<1>1. Len(w) \in Nat /\ \A i \in 1 .. Len(w) : w[i] \in A
  BY LenProperties
<1>2. SubSeq(w, 1, n) \in Seq(A)
  <2>1. \A i \in 1 .. n : w[i] \in A
    BY <1>1
  <2> QED
    BY <1>1, <2>1, SubSeqProperties
<1>3. SubSeq(w, n + 1, Len(w)) \in Seq(A)
  <2>1. \A i \in n + 1 .. Len(w) : w[i] \in A
    BY <1>1
  <2>2. n + 1 \in Int /\ Len(w) \in Int
    BY <1>1
  <2> QED
    BY <2>1, <2>2, SubSeqProperties
<1>4. b \o SubSeq(w, 1, n) \in Seq(A)
  BY <1>2, ConcatProperties
<1> QED
  BY <1>2, <1>3, <1>4

\* Cutting the front of w loses nothing.
LEMMA CutJoins ==
  ASSUME NEW A, NEW b \in Seq(A), NEW w \in Seq(A), NEW n \in 0 .. Len(w)
  PROVE  (b \o SubSeq(w, 1, n)) \o SubSeq(w, n + 1, Len(w)) = b \o w
<1> DEFINE u == SubSeq(w, 1, n)
           v == SubSeq(w, n + 1, Len(w))
<1>1. u \in Seq(A) /\ v \in Seq(A)
  BY Cut
<1>2. u \o v = w
  <2>1. Len(w) \in Nat
    BY LenProperties
  <2>2. 1 \in 1 .. Len(w) + 1 /\ n \in 1 - 1 .. Len(w) /\ Len(w) \in n .. Len(w)
    BY <2>1
  <2>3. u \o v = SubSeq(w, 1, Len(w))
    BY <2>2, ConcatAdjacentSubSeq
  <2> QED
    BY <2>3, SubSeqFull
<1> HIDE DEF u, v
<1>3. (b \o u) \o v = b \o (u \o v)
  BY <1>1, ConcatAssociative
<1> QED
  BY <1>2, <1>3 DEF u, v
=============================================================================
