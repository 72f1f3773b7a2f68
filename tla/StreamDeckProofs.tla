--------------------------- MODULE StreamDeckProofs ---------------------------
(***************************************************************************)
(* The SDK keeps to what the tiles rely on, for every set of keys and      *)
(* requests: however emit() skips listeners, a press whose settings are    *)
(* under way gets some, and the tiles see the events of TileEvents only.   *)
(***************************************************************************)
EXTENDS StreamDeck, Induction

----------------------------------------------------------------------------
(* The elements of a sequence, and how often they occur *)

Elements(s) == {s[i] : i \in 1 .. Len(s)}
Distinct(s) == \A i, j \in 1 .. Len(s) : s[i] = s[j] => i = j
Places(s, S) == {i \in DOMAIN s : s[i] \in S}

\* Appending adds an element,
LEMMA AppendElements ==
  ASSUME NEW A, NEW s \in Seq(A), NEW a \in A
  PROVE  /\ Elements(Append(s, a)) = Elements(s) \cup {a}
         /\ Distinct(s) /\ a \notin Elements(s) => Distinct(Append(s, a))
<1>1. /\ Len(s) \in Nat
      /\ Len(Append(s, a)) = Len(s) + 1
      /\ \A i \in 1 .. Len(s) : Append(s, a)[i] = s[i]
      /\ Append(s, a)[Len(s) + 1] = a
  BY AppendProperties, LenProperties
<1> DEFINE t == Append(s, a)
<1> HIDE DEF t
<1>2. /\ Len(t) = Len(s) + 1
      /\ \A i \in 1 .. Len(s) : t[i] = s[i]
      /\ t[Len(s) + 1] = a
  BY <1>1 DEF t
<1>3. Elements(t) = Elements(s) \cup {a}
  <2>1. ASSUME NEW i \in 1 .. Len(t) PROVE t[i] \in Elements(s) \cup {a}
    <3>1. i \in 1 .. Len(s) \/ i = Len(s) + 1
      BY <1>1, <1>2
    <3> QED
      BY <1>2, <3>1 DEF Elements
  <2>2. ASSUME NEW i \in 1 .. Len(s) PROVE s[i] \in Elements(t)
    <3>1. i \in 1 .. Len(t) /\ t[i] = s[i]
      BY <1>1, <1>2
    <3> QED
      BY <3>1 DEF Elements
  <2>3. a \in Elements(t)
    <3>1. Len(t) \in 1 .. Len(t) /\ t[Len(t)] = a
      BY <1>1, <1>2
    <3> QED
      BY <3>1 DEF Elements
  <2> QED
    BY <2>1, <2>2, <2>3 DEF Elements
<1>4. ASSUME Distinct(s), a \notin Elements(s) PROVE Distinct(t)
  <2> SUFFICES ASSUME NEW i \in 1 .. Len(t), NEW j \in 1 .. Len(t), t[i] = t[j]
               PROVE  i = j
    BY DEF Distinct
  <2>1. \A n \in 1 .. Len(s) : t[n] # a
    BY <1>2, <1>4 DEF Elements
  <2>2. /\ i \in 1 .. Len(s) \/ i = Len(s) + 1
        /\ j \in 1 .. Len(s) \/ j = Len(s) + 1
    BY <1>1, <1>2
  <2>3. CASE i \in 1 .. Len(s) /\ j \in 1 .. Len(s)
    BY <1>2, <1>4, <2>3 DEF Distinct
  <2> QED
    BY <1>2, <2>1, <2>2, <2>3
<1> QED
  BY <1>3, <1>4 DEF t

\* and RemoveAt takes one away.
LEMMA RemoveElement ==
  ASSUME NEW A, NEW s \in Seq(A), NEW p \in 1 .. Len(s), Distinct(s)
  PROVE  /\ RemoveAt(s, p) \in Seq(A)
         /\ Elements(RemoveAt(s, p)) = Elements(s) \ {s[p]}
         /\ Distinct(RemoveAt(s, p))
         /\ p # 1 => Len(RemoveAt(s, p)) > 0 /\ RemoveAt(s, p)[1] = s[1]
<1> DEFINE n == Len(s)
           before == SubSeq(s, 1, p - 1)
           behind == SubSeq(s, p + 1, n)
           t == RemoveAt(s, p)
<1>1. n \in Nat /\ p \in Int /\ n \in Int /\ p <= n /\ 1 <= p /\ p - 1 \in Int /\ p + 1 \in Int
  BY LenProperties
<1>2. /\ \A i \in 1 .. p - 1 : s[i] \in A
      /\ \A i \in p + 1 .. n : s[i] \in A
  BY <1>1, ElementOfSeq
<1> HIDE DEF n
<1>3. /\ before \in Seq(A) /\ Len(before) = p - 1
      /\ \A i \in 1 .. p - 1 : before[i] = s[i]
  <2>1. before \in Seq(A) /\ Len(before) = IF 1 <= p - 1 THEN (p - 1) - 1 + 1 ELSE 0
    BY <1>1, <1>2, SubSeqProperties
  <2>2. \A i \in 1 .. (p - 1) - 1 + 1 : before[i] = s[1 + i - 1]
    BY <1>1, <1>2, SubSeqProperties
  <2>3. \A i \in 1 .. p - 1 : 1 + i - 1 = i /\ i \in 1 .. (p - 1) - 1 + 1
    BY <1>1
  <2> HIDE DEF before
  <2> QED
    BY <1>1, <2>1, <2>2, <2>3
<1>4. /\ behind \in Seq(A) /\ Len(behind) = n - p
      /\ \A i \in 1 .. n - p : behind[i] = s[p + i]
  <2>1. behind \in Seq(A) /\ Len(behind) = IF p + 1 <= n THEN n - (p + 1) + 1 ELSE 0
    BY <1>1, <1>2, SubSeqProperties
  <2>2. \A i \in 1 .. n - (p + 1) + 1 : behind[i] = s[p + 1 + i - 1]
    BY <1>1, <1>2, SubSeqProperties
  <2>3. \A i \in 1 .. n - p : p + 1 + i - 1 = p + i /\ i \in 1 .. n - (p + 1) + 1
    BY <1>1
  <2> HIDE DEF behind
  <2> QED
    BY <1>1, <2>1, <2>2, <2>3
<1>5. t = before \o behind
  BY DEF RemoveAt, n
<1>6. /\ t \in Seq(A) /\ Len(t) = n - 1
      /\ \A i \in 1 .. n - 1 : t[i] = IF i < p THEN s[i] ELSE s[i + 1]
  <2> HIDE DEF before, behind, t
  <2>1. /\ t \in Seq(A) /\ Len(t) = Len(before) + Len(behind)
        /\ \A i \in 1 .. Len(before) + Len(behind) :
              t[i] = IF i <= Len(before) THEN before[i] ELSE behind[i - Len(before)]
    BY <1>3, <1>4, <1>5, ConcatProperties
  <2>2. Len(before) + Len(behind) = n - 1
    BY <1>1, <1>3, <1>4
  <2>3. ASSUME NEW i \in 1 .. n - 1 PROVE t[i] = IF i < p THEN s[i] ELSE s[i + 1]
    <3>1. CASE i < p
      <4>1. i <= Len(before) /\ i \in 1 .. p - 1
        BY <1>1, <1>3, <3>1
      <4> QED
        BY <1>3, <2>1, <2>2, <3>1, <4>1
    <3>2. CASE ~(i < p)
      <4>1. ~(i <= Len(before)) /\ i - Len(before) = i - p + 1 /\ i - p + 1 \in 1 .. n - p
            /\ p + (i - p + 1) = i + 1
        BY <1>1, <1>3, <3>2
      <4> QED
        BY <1>4, <2>1, <2>2, <3>2, <4>1
    <3> QED
      BY <3>1, <3>2
  <2> QED
    BY <2>1, <2>2, <2>3
<1> HIDE DEF t, before, behind
<1>7. Elements(t) = Elements(s) \ {s[p]}
  <2>1. ASSUME NEW i \in 1 .. Len(t) PROVE t[i] \in Elements(s) \ {s[p]}
    <3>1. i \in 1 .. n /\ i + 1 \in 1 .. n /\ (i < p => i # p) /\ (~(i < p) => i + 1 # p)
      BY <1>1, <1>6
    <3> QED
      BY <1>6, <3>1 DEF Elements, Distinct, n
  <2>2. ASSUME NEW i \in 1 .. n, i # p PROVE s[i] \in Elements(t)
    <3>1. CASE i < p
      <4>1. i \in 1 .. Len(t) /\ t[i] = s[i]
        BY <1>1, <1>6, <3>1
      <4> QED
        BY <4>1 DEF Elements
    <3>2. CASE i > p
      <4>1. i - 1 \in 1 .. Len(t) /\ ~(i - 1 < p) /\ (i - 1) + 1 = i
        BY <1>1, <1>6, <3>2
      <4>2. t[i - 1] = s[i]
        BY <1>6, <4>1
      <4> QED
        BY <4>1, <4>2 DEF Elements
    <3> QED
      BY <1>1, <2>2, <3>1, <3>2
  <2> QED
    BY <2>1, <2>2 DEF Elements, n
<1>8. Distinct(t)
  <2> SUFFICES ASSUME NEW i \in 1 .. Len(t), NEW j \in 1 .. Len(t), t[i] = t[j]
               PROVE  i = j
    BY DEF Distinct
  <2>1. i \in 1 .. n /\ i + 1 \in 1 .. n /\ j \in 1 .. n /\ j + 1 \in 1 .. n
    BY <1>1, <1>6
  <2>2. \A k, l \in 1 .. n : s[k] = s[l] => k = l
    BY DEF Distinct, n
  <2>3. /\ t[i] = IF i < p THEN s[i] ELSE s[i + 1]
        /\ t[j] = IF j < p THEN s[j] ELSE s[j + 1]
    BY <1>6
  <2>4. i < p /\ j < p => i = j
    BY <2>1, <2>2, <2>3
  <2>5. ~(i < p) /\ ~(j < p) => i + 1 = j + 1
    BY <2>1, <2>2, <2>3
  <2>6. i < p /\ ~(j < p) => i = j + 1
    BY <2>1, <2>2, <2>3
  <2>7. ~(i < p) /\ j < p => i + 1 = j
    BY <2>1, <2>2, <2>3
  <2> QED
    BY <1>1, <2>1, <2>4, <2>5, <2>6, <2>7
<1>9. p # 1 => Len(t) > 0 /\ t[1] = s[1]
  BY <1>1, <1>6
<1> QED
  BY <1>6, <1>7, <1>8, <1>9 DEF t

\* The places of a sequence are finitely many.
LEMMA PlacesFinite ==
  ASSUME NEW A, NEW s \in Seq(A), NEW S
  PROVE  IsFiniteSet(Places(s, S)) /\ Cardinality(Places(s, S)) \in Nat
<1>1. IsFiniteSet(1 .. Len(s)) /\ DOMAIN s = 1 .. Len(s)
  BY FS_Interval, LenProperties
<1>2. Places(s, S) \in SUBSET (1 .. Len(s))
  BY <1>1 DEF Places
<1> QED
  BY <1>1, <1>2, FS_Subset, FS_CardinalityType

\* Appending adds a place, if the element counts.
LEMMA PlacesAppend ==
  ASSUME NEW A, NEW s \in Seq(A), NEW S, NEW a \in A
  PROVE  Cardinality(Places(Append(s, a), S)) =
            Cardinality(Places(s, S)) + IF a \in S THEN 1 ELSE 0
<1> DEFINE n == Len(s)
           P == Places(s, S)
           t == Append(s, a)
<1>1. /\ n \in Nat /\ DOMAIN s = 1 .. n
      /\ DOMAIN t = 1 .. n + 1
      /\ \A i \in 1 .. n : t[i] = s[i]
      /\ t[n + 1] = a
  BY AppendProperties, LenProperties
<1> HIDE DEF n, t
<1>2. n + 1 \notin P
  BY <1>1 DEF Places
<1>3. Places(t, S) = IF a \in S THEN P \cup {n + 1} ELSE P
  BY <1>1 DEF Places
<1>4. IsFiniteSet(P) /\ Cardinality(P) \in Nat
  BY PlacesFinite
<1> HIDE DEF P
<1>5. Cardinality(P \cup {n + 1}) = Cardinality(P) + 1
  BY <1>2, <1>4, FS_AddElement
<1> QED
  BY <1>3, <1>4, <1>5 DEF t, P

\* The first element's place goes with it.
LEMMA PlacesTail ==
  ASSUME NEW A, NEW s \in Seq(A), NEW S, s # <<>>
  PROVE  Cardinality(Places(s, S)) =
            Cardinality(Places(Tail(s), S)) + IF Head(s) \in S THEN 1 ELSE 0
<1> DEFINE n == Len(s)
           t == Tail(s)
           P == Places(s, S)
           Q == Places(t, S)
           f == [i \in Q |-> i + 1]
<1>1. /\ n \in Nat \ {0} /\ DOMAIN s = 1 .. n
      /\ DOMAIN t = 1 .. n - 1
      /\ \A i \in 1 .. n - 1 : t[i] = s[i + 1]
      /\ Head(s) = s[1]
  BY EmptySeq, HeadTailProperties, LenProperties
<1>2. /\ IsFiniteSet(P) /\ Cardinality(P) \in Nat
      /\ IsFiniteSet(Q) /\ Cardinality(Q) \in Nat
  BY PlacesFinite, HeadTailProperties
<1> HIDE DEF n, t
<1>3. Q \subseteq Nat
  BY <1>1 DEF Places
<1>4. \A i \in Q : i + 1 \in P \ {1}
  BY <1>1 DEF Places
<1>5. \A j \in P \ {1} : j - 1 \in Q /\ (j - 1) + 1 = j
  BY <1>1 DEF Places
<1> HIDE DEF P, Q
<1>6. f \in Bijection(Q, P \ {1})
  <2>1. f \in [Q -> P \ {1}]
    BY <1>4
  <2>2. \A i, j \in Q : f[i] = f[j] => i = j
    BY <1>3
  <2>3. \A j \in P \ {1} : \E i \in Q : f[i] = j
    BY <1>5
  <2> HIDE DEF f
  <2> QED
    BY <2>1, <2>2, <2>3 DEF Bijection, Injection, Surjection, IsInjective
<1>7. Cardinality(P \ {1}) = Cardinality(Q)
  <2>1. ExistsBijection(Q, P \ {1})
    BY <1>6 DEF ExistsBijection
  <2> QED
    BY <1>2, <2>1, FS_Bijection
<1>8. Cardinality(P \ {1}) = IF 1 \in P THEN Cardinality(P) - 1 ELSE Cardinality(P)
  BY <1>2, FS_RemoveElement
<1>9. 1 \in P <=> Head(s) \in S
  BY <1>1 DEF P, Places
<1> QED
  BY <1>2, <1>7, <1>8, <1>9 DEF t, P, Q

----------------------------------------------------------------------------
(* Types *)

Given    == Settings \cup {Invalid}
Listener == Request \cup {"route"}
Message  == [event : {"willAppear", "willDisappear", "keyDown", Answers},
             key : Key, settings : Given]
Call     == [stage : {"asking", "pending", "answered"}, key : Key, settings : Given]

\* The types of the variables
Typed ==
    /\ onDeck \in SUBSET Key /\ actionStore \in SUBSET Key
    /\ configured \in [Key -> Given] /\ told \in [Key -> Given] /\ using \in [Key -> Given]
    /\ events \in Seq(Message) /\ commands \in Seq(Key)
    /\ inChunk \in BOOLEAN
    /\ request \in [Request -> {NoRequest} \cup Call]
    /\ listeners \in Seq(Listener)

\* The action's own listener is the first, and behind it are the requests that wait
\* for an answer, each once.
Listening ==
    /\ Len(listeners) > 0 /\ listeners[1] = "route"
    /\ Distinct(listeners)
    /\ Elements(listeners) = {"route"} \cup In("pending")

\* The requests of key k among some listeners
Of(S, k) == {l \in S : IsFor(l, k)}

----------------------------------------------------------------------------
(* emit() *)

Emission == [skip : BOOLEAN, left : Seq(Listener), called : SUBSET Listener]

Reached(i) == {listeners[j] : j \in 1 .. i}

\* What is known of an emission for key k that has gone through i listeners: of
\* the requests of k among them it took every other one at least.
Through(e, i, k) ==
    /\ e \in Emission
    /\ e.called \subseteq Reached(i)
    /\ Elements(e.left) = Reached(i) \ Of(e.called, k)
    /\ Distinct(e.left)
    /\ i > 0 => "route" \in e.called /\ Len(e.left) > 0 /\ e.left[1] = "route"
    /\ i = 0 => ~e.skip
    /\ Cardinality(Of(Reached(i), k)) + (IF e.skip THEN 1 ELSE 0)
          <= 2 * Cardinality(Of(e.called, k))

\* Only requests wait for an answer.
LEMMA OfAreRequests ==
  ASSUME RequestAssumption, NEW S, NEW k
  PROVE  /\ Of(S, k) \subseteq Request /\ "route" \notin Of(S, k)
         /\ IsFiniteSet(Of(S, k)) /\ Cardinality(Of(S, k)) \in Nat
<1>1. Of(S, k) \in SUBSET Request
  BY DEF Of, IsFor
<1> QED
  BY <1>1, FS_Subset, FS_CardinalityType DEF RequestAssumption

\* One more listener is one more request of k, or none.
LEMMA OfOneMore ==
  ASSUME NEW S, NEW l, l \notin S, NEW k
  PROVE  /\ IsFor(l, k) => Cardinality(Of(S \cup {l}, k)) = Cardinality(Of(S, k)) + 1
         /\ ~IsFor(l, k) => Of(S \cup {l}, k) = Of(S, k)
<1>1. IsFiniteSet(Of(S, k)) /\ l \notin Of(S, k)
  BY OfAreRequests, RequestAssumption DEF Of
<1>2. IsFor(l, k) => Of(S \cup {l}, k) = Of(S, k) \cup {l}
  BY DEF Of
<1>3. Cardinality(Of(S, k) \cup {l}) = Cardinality(Of(S, k)) + 1
  BY <1>1, FS_AddElement
<1> QED
  BY <1>2, <1>3 DEF Of

\* Each listener in turn
LEMMA ThroughOne ==
  ASSUME Typed, Listening, NEW k \in Key, NEW i \in Nat, i < Len(listeners), NEW e,
         Through(e, i, k)
  PROVE  Through(Reach(e, listeners[i + 1], k), i + 1, k)
<1> DEFINE l == listeners[i + 1]
           seen == Reached(i)
           g == Reach(e, l, k)
<1>1. /\ l \in Listener /\ i + 1 \in 1 .. Len(listeners)
      /\ Reached(i + 1) = seen \cup {l}
      /\ l \notin seen
      /\ i = 0 => l = "route"
  <2>1. Len(listeners) \in Nat /\ i + 1 \in 1 .. Len(listeners)
    BY LenProperties DEF Typed
  <2>2. l \in Listener
    BY <2>1, ElementOfSeq DEF Typed
  <2>3. 1 .. i + 1 = (1 .. i) \cup {i + 1}
    OBVIOUS
  <2>4. Reached(i + 1) = seen \cup {l}
    BY <2>3 DEF Reached
  <2>5. l \notin seen
    <3>1. \A j \in 1 .. i : j \in 1 .. Len(listeners) /\ j # i + 1
      BY <2>1
    <3> QED
      BY <2>1, <3>1 DEF Reached, Listening, Distinct
  <2>6. i = 0 => l = "route"
    BY DEF Listening
  <2> QED
    BY <2>1, <2>2, <2>4, <2>5, <2>6
<1>2. /\ e \in Emission /\ e.skip \in BOOLEAN /\ e.left \in Seq(Listener)
      /\ e.called \subseteq Listener /\ e.called \subseteq seen
      /\ Elements(e.left) = seen \ Of(e.called, k)
      /\ Distinct(e.left)
      /\ i > 0 => "route" \in e.called /\ Len(e.left) > 0 /\ e.left[1] = "route"
      /\ i = 0 => ~e.skip
  BY DEF Through, Emission
<1>3. Cardinality(Of(seen, k)) + (IF e.skip THEN 1 ELSE 0) <= 2 * Cardinality(Of(e.called, k))
  BY DEF Through
<1>4. /\ l \notin e.called /\ l \notin Of(e.called, k) /\ l \notin Elements(e.left)
  BY <1>1, <1>2 DEF Of
<1>5. /\ Append(e.left, l) \in Seq(Listener)
      /\ Elements(Append(e.left, l)) = Elements(e.left) \cup {l}
      /\ Distinct(Append(e.left, l))
      /\ Len(Append(e.left, l)) > 0
      /\ i > 0 => Append(e.left, l)[1] = "route"
      /\ i = 0 => Append(e.left, l)[1] = l
  <2>1. /\ Append(e.left, l) \in Seq(Listener)
        /\ Len(Append(e.left, l)) = Len(e.left) + 1
        /\ \A j \in 1 .. Len(e.left) : Append(e.left, l)[j] = e.left[j]
        /\ Append(e.left, l)[Len(e.left) + 1] = l
    BY <1>1, <1>2, AppendProperties
  <2>2. Len(e.left) \in Nat
    BY <1>2, LenProperties
  <2>3. /\ Elements(Append(e.left, l)) = Elements(e.left) \cup {l}
        /\ Distinct(Append(e.left, l))
    BY <1>1, <1>2, <1>4, AppendElements
  <2>4. i > 0 => Append(e.left, l)[1] = "route"
    <3>1. i > 0 => 1 \in 1 .. Len(e.left)
      BY <1>2, <2>2
    <3> QED
      BY <1>2, <2>1, <3>1
  <2>5. i = 0 => Len(e.left) = 0
    <3>1. i = 0 => seen = {}
      BY DEF Reached
    <3>2. i = 0 => \A j \in 1 .. Len(e.left) : FALSE
      BY <1>2, <3>1 DEF Elements
    <3>3. i = 0 => ~(1 \in 1 .. Len(e.left))
      BY <3>2
    <3> QED
      BY <2>2, <3>3
  <2> QED
    BY <2>1, <2>2, <2>3, <2>4, <2>5
<1>6. /\ IsFor(l, k) => Cardinality(Of(seen \cup {l}, k)) = Cardinality(Of(seen, k)) + 1
      /\ ~IsFor(l, k) => Of(seen \cup {l}, k) = Of(seen, k)
      /\ IsFor(l, k) => Cardinality(Of(e.called \cup {l}, k)) = Cardinality(Of(e.called, k)) + 1
      /\ ~IsFor(l, k) => Of(e.called \cup {l}, k) = Of(e.called, k)
  BY <1>1, <1>4, OfOneMore
<1>7. /\ Cardinality(Of(seen, k)) \in Nat /\ Cardinality(Of(e.called, k)) \in Nat
  BY OfAreRequests, RequestAssumption
<1>8. i + 1 > 0 /\ i + 1 # 0
  OBVIOUS
<1> HIDE DEF l, seen
<1>9. CASE e.skip
  <2>1. g.skip = FALSE /\ g.left = Append(e.left, l) /\ g.called = e.called /\ g \in Emission
    BY <1>2, <1>5, <1>9 DEF Reach, Emission
  <2>2. i > 0
    BY <1>2, <1>9
  <2>3. Cardinality(Of(seen \cup {l}, k)) <= Cardinality(Of(seen, k)) + 1
    BY <1>6, <1>7
  <2>4. Cardinality(Of(seen \cup {l}, k)) \in Nat
    BY OfAreRequests, RequestAssumption
  <2>5. Cardinality(Of(seen \cup {l}, k)) <= 2 * Cardinality(Of(e.called, k))
    BY <1>3, <1>7, <1>9, <2>3, <2>4
  <2>6. Elements(g.left) = (seen \cup {l}) \ Of(e.called, k)
    BY <1>2, <1>4, <1>5, <2>1
  <2> HIDE DEF g
  <2>7. Cardinality(Of(Reached(i + 1), k)) + (IF g.skip THEN 1 ELSE 0)
          <= 2 * Cardinality(Of(g.called, k))
    <3>1. (IF g.skip THEN 1 ELSE 0) = 0 /\ Of(g.called, k) = Of(e.called, k)
      BY <2>1
    <3>2. Of(Reached(i + 1), k) = Of(seen \cup {l}, k)
      BY <1>1
    <3> QED
      BY <2>4, <2>5, <3>1, <3>2
  <2>8. Through(g, i + 1, k)
    BY <1>1, <1>2, <1>5, <1>8, <2>1, <2>2, <2>6, <2>7 DEF Through
  <2> QED
    BY <2>8 DEF g, l
<1>10. CASE ~e.skip /\ IsFor(l, k)
  <2>1. g.skip = TRUE /\ g.left = e.left /\ g.called = e.called \cup {l} /\ g \in Emission
    BY <1>1, <1>2, <1>10 DEF Reach, Emission
  <2>2. l # "route" /\ i > 0
    BY <1>1, <1>10, RequestAssumption DEF IsFor, RequestAssumption
  <2>3. Of(e.called \cup {l}, k) = Of(e.called, k) \cup {l}
    BY <1>10 DEF Of
  <2>4. Elements(g.left) = (seen \cup {l}) \ Of(g.called, k)
    BY <1>1, <1>2, <2>1, <2>3
  <2> HIDE DEF g
  <2>5. Cardinality(Of(Reached(i + 1), k)) + (IF g.skip THEN 1 ELSE 0)
          <= 2 * Cardinality(Of(g.called, k))
    <3>1. (IF g.skip THEN 1 ELSE 0) = 1 /\ (IF e.skip THEN 1 ELSE 0) = 0
      BY <1>10, <2>1
    <3>2. /\ Cardinality(Of(Reached(i + 1), k)) = Cardinality(Of(seen, k)) + 1
          /\ Cardinality(Of(g.called, k)) = Cardinality(Of(e.called, k)) + 1
      BY <1>1, <1>6, <1>10, <2>1
    <3> QED
      BY <1>3, <1>7, <3>1, <3>2
  <2>6. Through(g, i + 1, k)
    BY <1>1, <1>2, <1>8, <2>1, <2>2, <2>4, <2>5 DEF Through
  <2> QED
    BY <2>6 DEF g, l
<1>11. CASE ~e.skip /\ ~IsFor(l, k)
  <2>1. /\ g.skip = FALSE /\ g.left = Append(e.left, l) /\ g.called = e.called \cup {l}
        /\ g \in Emission
    BY <1>1, <1>2, <1>5, <1>11 DEF Reach, Emission
  <2>2. Elements(g.left) = (seen \cup {l}) \ Of(g.called, k)
    BY <1>2, <1>4, <1>5, <1>6, <1>11, <2>1
  <2>3. "route" \in g.called /\ g.left[1] = "route"
    BY <1>1, <1>2, <1>5, <2>1
  <2> HIDE DEF g
  <2>4. Cardinality(Of(Reached(i + 1), k)) + (IF g.skip THEN 1 ELSE 0)
          <= 2 * Cardinality(Of(g.called, k))
    BY <1>1, <1>3, <1>6, <1>11, <2>1
  <2>5. Through(g, i + 1, k)
    BY <1>1, <1>2, <1>5, <1>8, <2>1, <2>2, <2>3, <2>4 DEF Through
  <2> QED
    BY <2>5 DEF g, l
<1> QED
  BY <1>2, <1>9, <1>10, <1>11

\* The recursion of Emitted has a value.
LEMMA EmittedThrough ==
  ASSUME Typed, Listening, NEW k \in Key
  PROVE  Through(Emitted(k), Len(listeners), k)
<1> DEFINE n == Len(listeners)
           start == [skip |-> FALSE, left |-> <<>>, called |-> {}]
           step == [p \in Emission \X Listener |-> Reach(p[1], p[2], k)]
           e == CHOOSE h : h = [i \in 0 .. n |->
                    IF i = 0 THEN start ELSE Reach(h[i - 1], listeners[i], k)]
<1>1. n \in Nat /\ \A i \in 1 .. n : listeners[i] \in Listener
  BY LenProperties, ElementOfSeq DEF Typed
<1>2. start \in Emission
  BY EmptySeq DEF Emission
<1>3. step \in [Emission \X Listener -> Emission]
  <2> SUFFICES ASSUME NEW d \in Emission, NEW l \in Listener PROVE Reach(d, l, k) \in Emission
    OBVIOUS
  <2>1. Append(d.left, l) \in Seq(Listener)
    BY AppendProperties DEF Emission
  <2> QED
    BY <2>1 DEF Reach, Emission
<1>4. PICK g \in [0 .. n -> Emission] : Iterates(g, start, step, listeners)
  <2> HIDE DEF step, start
  <2> QED
    BY <1>2, <1>3, Iteration DEF Typed
<1>5. g = [i \in 0 .. n |-> IF i = 0 THEN start ELSE Reach(g[i - 1], listeners[i], k)]
  <2>1. ASSUME NEW i \in 0 .. n
        PROVE  g[i] = IF i = 0 THEN start ELSE Reach(g[i - 1], listeners[i], k)
    <3> HIDE DEF start
    <3>1. g[i] = IF i = 0 THEN start ELSE step[<<g[i - 1], listeners[i]>>]
      BY <1>1, <1>4 DEF Iterates
    <3>2. i # 0 => <<g[i - 1], listeners[i]>> \in Emission \X Listener
      BY <1>1
    <3> QED
      BY <3>1, <3>2
  <2> HIDE DEF start, n
  <2> QED
    BY <2>1
<1>6. e = [i \in 0 .. n |-> IF i = 0 THEN start ELSE Reach(e[i - 1], listeners[i], k)]
  <2> HIDE DEF n, start
  <2> QED
    BY <1>5
<1>7. Emitted(k) = e[n]
  BY DEF Emitted
<1> HIDE DEF e
<1> DEFINE M == {i \in Nat : i <= n => Through(e[i], i, k)}
<1>8. 0 \in M
  <2>1. e[0] = start
    BY <1>1, <1>6
  <2>2. Reached(0) = {} /\ Elements(<<>>) = {} /\ Distinct(<<>>)
    BY DEF Reached, Elements, Distinct
  <2>3. Of({}, k) = {} /\ Cardinality({}) = 0
    BY FS_EmptySet DEF Of
  <2>4. Through(start, 0, k)
    <3>1. start.skip = FALSE /\ start.left = <<>> /\ start.called = {}
      OBVIOUS
    <3> HIDE DEF start
    <3>2. (IF start.skip THEN 1 ELSE 0) = 0
      BY <3>1
    <3>3. /\ Cardinality(Of(Reached(0), k)) = 0
          /\ Cardinality(Of(start.called, k)) = 0
      BY <2>2, <2>3, <3>1
    <3>4. Elements(start.left) = Reached(0) \ Of(start.called, k) /\ Distinct(start.left)
      BY <2>2, <3>1
    <3> QED
      BY <1>2, <3>1, <3>2, <3>3, <3>4 DEF Through
  <2> QED
    BY <2>1, <2>4
<1>9. ASSUME NEW i \in Nat, i \in M PROVE i + 1 \in M
  <2> SUFFICES ASSUME i + 1 <= n PROVE Through(e[i + 1], i + 1, k)
    OBVIOUS
  <2>1. i + 1 \in 0 .. n /\ i + 1 # 0 /\ (i + 1) - 1 = i /\ i < n /\ i <= n
    BY <1>1
  <2>2. e[i + 1] = Reach(e[i], listeners[i + 1], k)
    BY <1>6, <2>1
  <2>3. Through(e[i], i, k)
    BY <1>9, <2>1
  <2> QED
    BY <2>1, <2>2, <2>3, ThroughOne
<1>10. n \in M
  <2> HIDE DEF M
  <2> QED
    BY <1>1, <1>8, <1>9, Inductive
<1> QED
  BY <1>1, <1>7, <1>10

\* The requests of key k that take an answer
Taking(k) == Of(Emitted(k).called, k)

\* The requests of a key that wait are finitely many.
LEMMA PendingFinite ==
  ASSUME NEW k
  PROVE  /\ Pending(k) \subseteq Request
         /\ IsFiniteSet(Pending(k)) /\ Cardinality(Pending(k)) \in Nat
<1>1. Pending(k) \in SUBSET Request
  BY DEF Pending, In
<1> QED
  BY <1>1, RequestAssumption, FS_Subset, FS_CardinalityType

\* An answer for k reaches the action, and every other request of k that waits, at
\* least; the requests it reaches listen no longer.
LEMMA EmittedTakes ==
  ASSUME Typed, Listening, NEW k \in Key
  PROVE  /\ Emitted(k).left \in Seq(Listener)
         /\ Len(Emitted(k).left) > 0 /\ Emitted(k).left[1] = "route"
         /\ Distinct(Emitted(k).left)
         /\ Elements(Emitted(k).left) = {"route"} \cup (In("pending") \ Taking(k))
         /\ "route" \in Emitted(k).called
         /\ Taking(k) \subseteq Pending(k)
         /\ IsFiniteSet(Taking(k)) /\ Cardinality(Taking(k)) \in Nat
         /\ Cardinality(Pending(k)) <= 2 * Cardinality(Taking(k))
<1> DEFINE e == Emitted(k)
           n == Len(listeners)
<1>1. Through(e, n, k) /\ n > 0
  BY EmittedThrough DEF Listening
<1> HIDE DEF e
<1>2. /\ e \in Emission /\ e.left \in Seq(Listener) /\ e.called \subseteq Reached(n)
      /\ Elements(e.left) = Reached(n) \ Of(e.called, k)
      /\ Distinct(e.left)
      /\ "route" \in e.called /\ Len(e.left) > 0 /\ e.left[1] = "route"
  BY <1>1 DEF Through, Emission
<1>3. Reached(n) = {"route"} \cup In("pending")
  BY DEF Reached, Listening, Elements
<1>4. Of(Reached(n), k) = Pending(k)
  BY <1>3, RequestAssumption DEF Of, IsFor, Pending, In, RequestAssumption
<1>5. /\ Of(e.called, k) \subseteq Pending(k)
      /\ "route" \notin Of(e.called, k)
      /\ IsFiniteSet(Of(e.called, k)) /\ Cardinality(Of(e.called, k)) \in Nat
  <2>1. Of(e.called, k) \subseteq Of(Reached(n), k)
    BY <1>2 DEF Of
  <2> QED
    BY <1>4, <2>1, OfAreRequests, RequestAssumption
<1>6. Cardinality(Pending(k)) <= 2 * Cardinality(Of(e.called, k))
  <2>1. Cardinality(Of(Reached(n), k)) + (IF e.skip THEN 1 ELSE 0)
          <= 2 * Cardinality(Of(e.called, k))
    BY <1>1 DEF Through
  <2>2. (IF e.skip THEN 1 ELSE 0) \in {0, 1}
    OBVIOUS
  <2> QED
    BY <1>4, <1>5, <2>1, <2>2, PendingFinite
<1> QED
  BY <1>2, <1>3, <1>5, <1>6 DEF e, Taking

----------------------------------------------------------------------------
(* What the actions do to the requests *)

\* A request is free, or it is a call of getSettings().
LEMMA Calls ==
  ASSUME Typed, NEW r \in Request
  PROVE  /\ request[r].stage # "free" => request[r] \in Call
         /\ request[r].stage = "free" => request[r] = NoRequest
BY DEF Typed, NoRequest, Call

\* onKeyDown() begins a call, which does not wait for an answer yet.
LEMMA OnKeyDownRequests ==
  ASSUME Typed, NEW k \in Key, OnKeyDown(k)
  PROVE  /\ request' \in [Request -> {NoRequest} \cup Call]
         /\ In("pending")' = In("pending")
         /\ In("answered")' = In("answered")
         /\ \A r \in In("pending") \cup In("answered") : request'[r] = request[r]
<1>1. CASE UNCHANGED request
  BY <1>1 DEF Typed, In
<1>2. ASSUME NEW r \in In("free"),
             request' = [request EXCEPT ![r] =
                 [stage |-> "asking", key |-> k, settings |-> Invalid]]
      PROVE  /\ request' \in [Request -> {NoRequest} \cup Call]
             /\ In("pending")' = In("pending")
             /\ In("answered")' = In("answered")
             /\ \A q \in In("pending") \cup In("answered") : request'[q] = request[q]
  <2> DEFINE c == [stage |-> "asking", key |-> k, settings |-> Invalid]
  <2>1. c \in Call /\ c.stage = "asking"
    BY DEF Call, Given
  <2> HIDE DEF c
  <2>2. request' = [request EXCEPT ![r] = c]
    BY <1>2 DEF c
  <2>3. r \in Request /\ request[r].stage = "free" /\ request \in [Request -> {NoRequest} \cup Call]
    BY DEF In, Typed
  <2>4. request' \in [Request -> {NoRequest} \cup Call]
    BY <2>1, <2>2, <2>3
  <2>5. \A q \in Request : request'[q] = IF q = r THEN c ELSE request[q]
    BY <2>2, <2>3
  <2> QED
    BY <2>1, <2>3, <2>4, <2>5 DEF In
<1> QED
  BY <1>1, <1>2 DEF OnKeyDown

\* getSettings() waits for an answer.
LEMMA AskRequests ==
  ASSUME Typed, NEW r \in Request, Ask(r)
  PROVE  /\ request[r] \in Call /\ request[r].key \in Key
         /\ request' \in [Request -> {NoRequest} \cup Call]
         /\ r \notin In("pending") /\ In("pending")' = In("pending") \cup {r}
         /\ In("answered")' = In("answered")
         /\ request'[r].key = request[r].key
         /\ \A q \in In("pending") \cup In("answered") : request'[q] = request[q]
<1>1. request[r] \in Call /\ request[r].stage = "asking" /\ request[r].key \in Key
  BY Calls DEF Ask, Call
<1> DEFINE c == [request[r] EXCEPT !.stage = "pending"]
<1>2. c \in Call /\ c.stage = "pending" /\ c.key = request[r].key
  BY <1>1 DEF Call
<1>3. request' = [request EXCEPT ![r] = c] /\ request \in [Request -> {NoRequest} \cup Call]
  BY DEF Ask, Typed
<1> HIDE DEF c
<1>4. request' \in [Request -> {NoRequest} \cup Call]
  BY <1>2, <1>3
<1>5. \A q \in Request : request'[q] = IF q = r THEN c ELSE request[q]
  BY <1>3
<1> QED
  BY <1>1, <1>2, <1>4, <1>5 DEF In

\* A request that is over, because it went on or timed out
LEMMA OverRequests ==
  ASSUME Typed, NEW r \in Request, request' = [request EXCEPT ![r] = NoRequest]
  PROVE  /\ request' \in [Request -> {NoRequest} \cup Call]
         /\ In("pending")' = In("pending") \ {r}
         /\ In("answered")' = In("answered") \ {r}
         /\ \A q \in Request \ {r} : request'[q] = request[q]
<1>1. request \in [Request -> {NoRequest} \cup Call] /\ NoRequest.stage = "free"
  BY DEF Typed, NoRequest
<1>2. request' \in [Request -> {NoRequest} \cup Call]
  BY <1>1
<1>3. \A q \in Request : request'[q] = IF q = r THEN NoRequest ELSE request[q]
  BY <1>1
<1> QED
  BY <1>1, <1>2, <1>3 DEF In

\* The event handed over is one of the application's.
LEMMA HandedOver ==
  ASSUME Typed, NEW event, NEW k, Handed(event, k)
  PROVE  /\ events \in Seq(Message) /\ events # <<>>
         /\ Head(events) \in Message /\ Head(events).settings \in Given
         /\ Head(events).event = event /\ Head(events).key = k
         /\ events' = Tail(events) /\ Tail(events) \in Seq(Message)
<1>1. /\ events \in Seq(Message) /\ events # <<>>
      /\ Head(events).event = event /\ Head(events).key = k
      /\ events' = Tail(events)
  BY DEF Handed, Typed
<1>2. Head(events) \in Message /\ Tail(events) \in Seq(Message)
  BY <1>1, HeadTailProperties
<1> QED
  BY <1>1, <1>2 DEF Message

\* The requests that take an answer have its settings.
LEMMA AnsweredRequests ==
  ASSUME Typed, Listening, NEW k \in Key, OnDidReceiveSettings(k)
  PROVE  /\ Head(events) \in Message /\ Head(events).settings \in Given
         /\ request' \in [Request -> {NoRequest} \cup Call]
         /\ In("pending")' = In("pending") \ Taking(k)
         /\ In("answered")' = In("answered") \cup Taking(k)
         /\ \A r \in Taking(k) : request'[r].key = k
                                 /\ request'[r].settings = Head(events).settings
         /\ \A r \in Request \ Taking(k) : request'[r] = request[r]
<1> DEFINE s == Head(events).settings
<1>1. Head(events) \in Message /\ s \in Given
  BY HandedOver DEF OnDidReceiveSettings
<1> HIDE DEF s
<1>2. request \in [Request -> {NoRequest} \cup Call] /\ NoRequest.stage = "free"
  BY DEF Typed, NoRequest
<1>3. request' = [r \in Request |->
         IF r \in Taking(k) THEN [request[r] EXCEPT !.stage = "answered", !.settings = s]
         ELSE request[r]]
  BY DEF OnDidReceiveSettings, Taking, Of, s
<1>4. Taking(k) \subseteq Request
      /\ \A r \in Taking(k) : request[r].stage = "pending" /\ request[r].key = k
  BY EmittedTakes DEF Pending, In
<1>5. ASSUME NEW r \in Taking(k)
      PROVE  request'[r] \in Call /\ request'[r].stage = "answered" /\ request'[r].key = k
             /\ request'[r].settings = s
  <2>1. request[r] \in Call /\ request[r].key = k
    BY <1>4, Calls
  <2>2. request'[r] = [request[r] EXCEPT !.stage = "answered", !.settings = s]
    BY <1>3, <1>4
  <2> QED
    BY <1>1, <2>1, <2>2 DEF Call
<1>6. \A r \in Request \ Taking(k) : request'[r] = request[r]
  BY <1>3
<1>7. request' \in [Request -> {NoRequest} \cup Call]
  <2>1. \A r \in Request : request'[r] \in {NoRequest} \cup Call
    BY <1>2, <1>5, <1>6
  <2>2. request' = [r \in Request |-> request'[r]]
    BY <1>3
  <2> QED
    BY <2>1, <2>2
<1>8. In("pending")' = In("pending") \ Taking(k)
  BY <1>4, <1>5, <1>6 DEF In
<1>9. In("answered")' = In("answered") \cup Taking(k)
  BY <1>4, <1>5, <1>6 DEF In
<1> QED
  BY <1>1, <1>5, <1>6, <1>7, <1>8, <1>9 DEF s

----------------------------------------------------------------------------
(* Types and listeners *)

\* At first nobody waits, and the action listens.
LEMMA InitHolds == Init => Typed /\ Listening
<1> SUFFICES ASSUME Init PROVE Typed /\ Listening
  OBVIOUS
<1>1. /\ <<>> \in Seq(Message) /\ <<>> \in Seq(Key)
      /\ <<"route">> \in Seq(Listener) /\ Len(<<"route">>) = 1 /\ <<"route">>[1] = "route"
  BY EmptySeq DEF Listener
<1>2. Typed
  BY <1>1 DEF Init, Typed, Given
<1>3. In("pending") = {}
  BY DEF Init, In, NoRequest
<1>4. Distinct(listeners) /\ Elements(listeners) = {"route"}
  BY <1>1 DEF Init, Distinct, Elements
<1> QED
  BY <1>1, <1>2, <1>3, <1>4 DEF Init, Listening

\* What the application does leaves the SDK alone, but for the events it sends.
LEMMA ApplicationKeeps ==
  ASSUME Typed, Application
  PROVE  /\ Typed' /\ UNCHANGED <<sdk, using, told>>
         /\ \E m \in Message : events' = Append(events, m)
<1>1. ASSUME NEW event \in {"willAppear", "willDisappear", "keyDown", Answers},
             NEW k \in Key, NEW s \in Given, Sent(event, k, s)
      PROVE  /\ events' \in Seq(Message)
             /\ \E m \in Message : events' = Append(events, m)
  <2> DEFINE m == [event |-> event, key |-> k, settings |-> s]
  <2>1. m \in Message /\ events' = Append(events, m)
    BY <1>1 DEF Message, Sent
  <2> HIDE DEF m
  <2> QED
    BY <2>1, AppendProperties DEF Typed
<1> DEFINE Kept == /\ events' \in Seq(Message) /\ UNCHANGED <<sdk, using, told>>
                   /\ \E m \in Message : events' = Append(events, m)
                   /\ onDeck' \in SUBSET Key /\ configured' \in [Key -> Given]
                   /\ commands' \in Seq(Key)
<1>2. ASSUME NEW k \in Key, ShowKey(k) \/ HideKey(k) \/ PressKey(k) PROVE Kept
  <2>1. configured[k] \in Given
    BY DEF Typed
  <2>2. Sent("willAppear", k, configured[k]) \/ Sent("willDisappear", k, configured[k])
        \/ Sent("keyDown", k, configured[k])
    BY <1>2 DEF ShowKey, HideKey, PressKey
  <2>3. events' \in Seq(Message) /\ \E m \in Message : events' = Append(events, m)
    BY <1>1, <2>1, <2>2
  <2>4. onDeck' \in SUBSET Key /\ UNCHANGED <<configured, commands, sdk, using, told>>
    BY <1>2 DEF ShowKey, HideKey, PressKey, Typed
  <2> QED
    BY <2>3, <2>4 DEF Typed
<1>3. ASSUME NEW k \in Key, NEW s \in Given, EditKey(k, s) PROVE Kept
  <2>1. events' \in Seq(Message) /\ \E m \in Message : events' = Append(events, m)
    BY <1>1, <1>3 DEF EditKey
  <2>2. configured' \in [Key -> Given] /\ UNCHANGED <<onDeck, commands, sdk, using, told>>
    BY <1>3 DEF EditKey, Typed
  <2> QED
    BY <2>1, <2>2 DEF Typed
<1>4. ASSUME AnswerKey PROVE Kept
  <2>1. Head(commands) \in Key /\ Tail(commands) \in Seq(Key)
    BY <1>4, HeadTailProperties DEF AnswerKey, Typed
  <2>2. configured[Head(commands)] \in Given
    BY <2>1 DEF Typed
  <2>3. events' \in Seq(Message) /\ \E m \in Message : events' = Append(events, m)
    BY <1>1, <1>4, <2>1, <2>2 DEF AnswerKey
  <2>4. commands' \in Seq(Key) /\ UNCHANGED <<onDeck, configured, sdk, using, told>>
    BY <1>4, <2>1 DEF AnswerKey
  <2> QED
    BY <2>3, <2>4 DEF Typed
<1>5. Kept
  BY <1>2, <1>3, <1>4 DEF Application, Given
<1> QED
  BY <1>5 DEF Typed, sdk

\* Every step keeps the types and the list of listeners.
LEMMA TypedStep ==
  ASSUME Typed, Listening, [Next]_vars
  PROVE  Typed' /\ Listening'
<1>1. ASSUME UNCHANGED <<listeners, In("pending")>> PROVE Listening'
  BY <1>1 DEF Listening
<1>2. ASSUME UNCHANGED request PROVE UNCHANGED In("pending")
  BY <1>2 DEF In
<1>3. CASE Application
  BY <1>1, <1>2, <1>3, ApplicationKeeps DEF sdk
<1>4. CASE EndChunk
  <2>1. Typed'
    BY <1>4 DEF EndChunk, Typed, application
  <2> QED
    BY <1>1, <1>2, <1>4, <2>1 DEF EndChunk
<1>5. ASSUME NEW k \in Key, OnWillAppear(k) PROVE Typed' /\ Listening'
  <2>1. events' \in Seq(Message) /\ Head(events).settings \in Given
    BY <1>5, HandedOver DEF OnWillAppear
  <2>2. Typed'
    BY <1>5, <2>1 DEF OnWillAppear, Handed, Typed
  <2> QED
    BY <1>1, <1>2, <1>5, <2>2 DEF OnWillAppear
<1>6. ASSUME NEW k \in Key, OnWillDisappear(k) PROVE Typed' /\ Listening'
  <2>1. events' \in Seq(Message)
    BY <1>6, HandedOver DEF OnWillDisappear
  <2>2. Typed'
    BY <1>6, <2>1 DEF OnWillDisappear, Handed, Typed, Given
  <2> QED
    BY <1>1, <1>2, <1>6, <2>2 DEF OnWillDisappear
<1>7. ASSUME NEW k \in Key, OnKeyDown(k) PROVE Typed' /\ Listening'
  <2>1. events' \in Seq(Message)
    BY <1>7, HandedOver DEF OnKeyDown
  <2>2. request' \in [Request -> {NoRequest} \cup Call] /\ In("pending")' = In("pending")
    BY <1>7, OnKeyDownRequests
  <2>3. UNCHANGED <<onDeck, configured, commands, actionStore, listeners, using, told>>
        /\ inChunk' = TRUE
    BY <1>7 DEF OnKeyDown, Handed
  <2>4. Typed'
    BY <2>1, <2>2, <2>3 DEF Typed
  <2> QED
    BY <1>1, <2>2, <2>3, <2>4
<1>8. ASSUME NEW k \in Key, OnDidReceiveSettings(k) PROVE Typed' /\ Listening'
  <2>1. events' \in Seq(Message) /\ Head(events).settings \in Given
    BY <1>8, HandedOver DEF OnDidReceiveSettings
  <2>2. /\ request' \in [Request -> {NoRequest} \cup Call]
        /\ In("pending")' = In("pending") \ Taking(k)
    BY <1>8, AnsweredRequests
  <2>3. /\ listeners' = Emitted(k).left
        /\ inChunk' = TRUE
        /\ using' \in [Key -> Given] /\ told' \in [Key -> Given]
        /\ UNCHANGED <<onDeck, configured, commands, actionStore>>
    BY <1>8, <2>1 DEF OnDidReceiveSettings, Handed, Typed
  <2>4. Typed'
    BY <2>1, <2>2, <2>3, EmittedTakes DEF Typed
  <2>5. Listening'
    BY <2>2, <2>3, EmittedTakes DEF Listening
  <2> QED
    BY <2>4, <2>5
<1>9. ASSUME NEW r \in Request, Ask(r) PROVE Typed' /\ Listening'
  <2>1. /\ request[r].key \in Key
        /\ request' \in [Request -> {NoRequest} \cup Call]
        /\ r \notin In("pending") /\ In("pending")' = In("pending") \cup {r}
    BY <1>9, AskRequests
  <2>2. /\ listeners' = Append(listeners, r)
        /\ commands' = Append(commands, request[r].key)
        /\ UNCHANGED <<onDeck, configured, events, inChunk, actionStore, using, told>>
    BY <1>9 DEF Ask
  <2>3. r \in Listener /\ listeners \in Seq(Listener) /\ commands \in Seq(Key)
    BY DEF Listener, Typed
  <2>4. /\ listeners' \in Seq(Listener) /\ Len(listeners') = Len(listeners) + 1
        /\ \A i \in 1 .. Len(listeners) : listeners'[i] = listeners[i]
    BY <2>2, <2>3, AppendProperties
  <2>5. commands' \in Seq(Key)
    BY <2>1, <2>2, <2>3, AppendProperties
  <2>6. Typed'
    BY <2>1, <2>2, <2>4, <2>5 DEF Typed
  <2>7. r # "route" /\ r \notin Elements(listeners) /\ Distinct(listeners)
    BY <2>1, RequestAssumption DEF Listening, RequestAssumption
  <2>8. Elements(listeners') = Elements(listeners) \cup {r} /\ Distinct(listeners')
    BY <2>2, <2>3, <2>7, AppendElements
  <2>9. Len(listeners') > 0 /\ listeners'[1] = "route"
    <3>1. Len(listeners) \in Nat /\ Len(listeners) > 0 /\ listeners[1] = "route"
      BY <2>3, LenProperties DEF Listening
    <3> QED
      BY <2>4, <3>1
  <2>10. Listening'
    BY <2>1, <2>8, <2>9 DEF Listening
  <2> QED
    BY <2>6, <2>10
<1>10. ASSUME NEW r \in Request, Continue(r) PROVE Typed' /\ Listening'
  <2>1. request[r].stage = "answered" /\ request[r] \in Call
    BY <1>10, Calls DEF Continue
  <2>2. request[r].key \in Key /\ request[r].settings \in Given
    BY <2>1 DEF Call
  <2>3. /\ request' = [request EXCEPT ![r] = NoRequest]
        /\ using' \in [Key -> Given]
        /\ UNCHANGED <<application, inChunk, actionStore, listeners, told>>
    BY <1>10, <2>2 DEF Continue, Typed
  <2>4. /\ request' \in [Request -> {NoRequest} \cup Call]
        /\ In("pending")' = In("pending") \ {r}
    BY <2>3, OverRequests
  <2>5. In("pending")' = In("pending")
    BY <2>1, <2>4 DEF In
  <2>6. Typed'
    BY <2>3, <2>4 DEF Typed, application
  <2> QED
    BY <1>1, <2>3, <2>5, <2>6
<1>11. ASSUME NEW r \in Request, Timeout(r) PROVE Typed' /\ Listening'
  <2>1. /\ request' = [request EXCEPT ![r] = NoRequest]
        /\ UNCHANGED <<application, inChunk, actionStore, using, told>>
    BY <1>11 DEF Timeout
  <2>2. /\ request' \in [Request -> {NoRequest} \cup Call]
        /\ In("pending")' = In("pending") \ {r}
    BY <2>1, OverRequests
  <2>3. listeners \in Seq(Listener) /\ DOMAIN listeners = 1 .. Len(listeners)
    BY LenProperties DEF Typed
  <2>4. PICK i \in 1 .. Len(listeners) : listeners[i] = r /\ listeners' = RemoveAt(listeners, i)
    BY <1>11, <2>3 DEF Timeout
  <2>5. i # 1
    BY <2>4, RequestAssumption DEF Listening, RequestAssumption
  <2>6. /\ listeners' \in Seq(Listener)
        /\ Elements(listeners') = Elements(listeners) \ {r}
        /\ Distinct(listeners')
        /\ Len(listeners') > 0 /\ listeners'[1] = "route"
    <3>1. Distinct(listeners) /\ listeners[1] = "route"
      BY DEF Listening
    <3> QED
      BY <2>3, <2>4, <2>5, <3>1, RemoveElement
  <2>7. Typed'
    BY <2>1, <2>2, <2>6 DEF Typed, application
  <2>8. Listening'
    BY <2>2, <2>6, RequestAssumption DEF Listening, RequestAssumption
  <2> QED
    BY <2>7, <2>8
<1>12. CASE UNCHANGED vars
  <2>1. Typed'
    BY <1>12 DEF vars, application, sdk, Typed
  <2> QED
    BY <1>1, <1>2, <1>12, <2>1 DEF vars, sdk
<1> QED
  BY <1>3, <1>4, <1>5, <1>6, <1>7, <1>8, <1>9, <1>10, <1>11, <1>12 DEF Next, Emit

----------------------------------------------------------------------------
(* Presses and answers *)

AnswersTo(k) == {m \in Message : m.event = Answers /\ m.key = k}

Asked(k)  == Cardinality(Places(commands, {k}))
Coming(k) == Cardinality(Places(events, AnswersTo(k)))

Balanced(k) == Cardinality(Pending(k)) <= Asked(k) + Coming(k)

\* PressesHaveAnswers, in terms of places
LEMMA BalancedIsPresses == Typed => (PressesHaveAnswers <=> \A k \in Key : Balanced(k))
<1> SUFFICES ASSUME Typed, NEW k \in Key
             PROVE  /\ {i \in DOMAIN commands : commands[i] = k} = Places(commands, {k})
                    /\ {i \in DOMAIN events : events[i].event = Answers /\ events[i].key = k}
                          = Places(events, AnswersTo(k))
  BY DEF PressesHaveAnswers, Balanced, Asked, Coming
<1>1. {i \in DOMAIN commands : commands[i] = k} = Places(commands, {k})
  BY DEF Places
<1>2. \A i \in DOMAIN events : events[i] \in Message
  BY LenProperties, ElementOfSeq DEF Typed
<1> QED
  BY <1>1, <1>2 DEF Places, AnswersTo

\* What is counted are numbers.
LEMMA Counts ==
  ASSUME Typed, NEW k
  PROVE  /\ Asked(k) \in Nat /\ Coming(k) \in Nat
         /\ Cardinality(Pending(k)) \in Nat
BY PlacesFinite, PendingFinite DEF Typed, Asked, Coming

\* The same requests wait, for the same keys.
LEMMA SamePending ==
  ASSUME In("pending")' = In("pending"),
         \A r \in In("pending") : request'[r].key = request[r].key,
         NEW k
  PROVE  Pending(k)' = Pending(k)
BY DEF Pending

\* An event that is sent, or handed over, counts if it is an answer.
LEMMA SentCounts ==
  ASSUME Typed, NEW m \in Message, events' = Append(events, m), NEW k
  PROVE  Coming(k)' = Coming(k) + IF m.event = Answers /\ m.key = k THEN 1 ELSE 0
<1>1. m \in AnswersTo(k) <=> m.event = Answers /\ m.key = k
  BY DEF AnswersTo
<1>2. Cardinality(Places(Append(events, m), AnswersTo(k))) =
         Cardinality(Places(events, AnswersTo(k))) + IF m \in AnswersTo(k) THEN 1 ELSE 0
  BY PlacesAppend DEF Typed
<1> QED
  BY <1>1, <1>2 DEF Coming

\* The event that is handed over is under way no longer.
LEMMA HandedCounts ==
  ASSUME Typed, NEW event, NEW q, Handed(event, q), NEW k
  PROVE  /\ Coming(k) = Coming(k)' + IF event = Answers /\ q = k THEN 1 ELSE 0
         /\ Asked(k)' = Asked(k)
<1>1. /\ events \in Seq(Message) /\ events # <<>> /\ Head(events) \in Message
      /\ Head(events).event = event /\ Head(events).key = q /\ events' = Tail(events)
  BY HandedOver
<1>2. Head(events) \in AnswersTo(k) <=> event = Answers /\ q = k
  BY <1>1 DEF AnswersTo
<1>3. Cardinality(Places(events, AnswersTo(k))) =
         Cardinality(Places(Tail(events), AnswersTo(k)))
            + IF Head(events) \in AnswersTo(k) THEN 1 ELSE 0
  BY <1>1, PlacesTail
<1>4. Asked(k)' = Asked(k)
  BY DEF Handed, Asked
<1> QED
  BY <1>1, <1>2, <1>3, <1>4 DEF Coming

\* An answer for k that was sent is there until a request of k takes it: the first
\* of them in the list is never skipped, for the listener before it stays.
LEMMA PressesStep ==
  ASSUME Typed, Listening, [Next]_vars, NEW k \in Key, Balanced(k)
  PROVE  Balanced(k)'
<1>0. /\ Typed'
      /\ Asked(k) \in Nat /\ Coming(k) \in Nat /\ Cardinality(Pending(k)) \in Nat
      /\ Asked(k)' \in Nat /\ Coming(k)' \in Nat /\ Cardinality(Pending(k)') \in Nat
  <2>1. Typed'
    BY TypedStep
  <2>2. Asked(k)' \in Nat /\ Coming(k)' \in Nat
    BY <2>1, PlacesFinite DEF Typed, Asked, Coming
  <2>3. Pending(k)' \in SUBSET Request
    BY DEF Pending, In
  <2>4. Cardinality(Pending(k)') \in Nat
    BY <2>3, RequestAssumption, FS_Subset, FS_CardinalityType
  <2> QED
    BY <2>1, <2>2, <2>4, Counts
<1>1. ASSUME UNCHANGED <<request, commands>>, Coming(k) <= Coming(k)' PROVE Balanced(k)'
  <2>1. Pending(k)' = Pending(k) /\ Asked(k)' = Asked(k)
    BY <1>1 DEF Pending, In, Asked
  <2> QED
    BY <1>0, <1>1, <2>1 DEF Balanced
<1>2. CASE Application
  <2>1. PICK m \in Message : events' = Append(events, m)
    BY <1>2, ApplicationKeeps
  <2>2. UNCHANGED request
    BY <1>2, ApplicationKeeps DEF sdk
  <2>3. /\ Coming(k)' = Coming(k) + IF m.event = Answers /\ m.key = k THEN 1 ELSE 0
        /\ Coming(k) <= Coming(k)'
    BY <1>0, <2>1, SentCounts
  <2>4. CASE AnswerKey
    <3>1. /\ commands \in Seq(Key) /\ commands # <<>> /\ commands' = Tail(commands)
          /\ Sent(Answers, Head(commands), configured[Head(commands)])
      BY <2>4 DEF AnswerKey, Typed
    <3>2. Asked(k) = Asked(k)' + IF Head(commands) \in {k} THEN 1 ELSE 0
      BY <3>1, PlacesTail DEF Asked
    <3>3. [event |-> Answers, key |-> Head(commands),
           settings |-> configured[Head(commands)]] = m
      <4>1. /\ Head(commands) \in Key /\ configured[Head(commands)] \in Given
        BY <3>1, HeadTailProperties DEF Typed
      <4> DEFINE a == [event |-> Answers, key |-> Head(commands),
                       settings |-> configured[Head(commands)]]
      <4>2. a \in Message /\ events' = Append(events, a)
        BY <3>1, <4>1 DEF Sent, Message
      <4> HIDE DEF a
      <4>3. a = m
        <5>1. events \in Seq(Message) /\ Append(events, a) = Append(events, m)
          BY <2>1, <4>2 DEF Typed
        <5>2. Append(events, a)[Len(events) + 1] = a
          BY <4>2, <5>1, AppendProperties
        <5>3. Append(events, m)[Len(events) + 1] = m
          BY <5>1, AppendProperties
        <5> QED
          BY <5>1, <5>2, <5>3
      <4> QED
        BY <4>3 DEF a
    <3>4. m.event = Answers /\ m.key = Head(commands)
      BY <3>3
    <3>5. Pending(k)' = Pending(k)
      BY <2>2 DEF Pending, In
    <3> QED
      BY <1>0, <2>3, <3>2, <3>4, <3>5 DEF Balanced
  <2>5. CASE UNCHANGED commands
    BY <1>1, <2>2, <2>3, <2>5
  <2> QED
    BY <1>2, <2>4, <2>5 DEF Application, ShowKey, HideKey, PressKey, EditKey
<1>3. CASE EndChunk
  BY <1>0, <1>1, <1>3 DEF EndChunk, application, Coming
<1>4. ASSUME NEW q \in Key, OnWillAppear(q) \/ OnWillDisappear(q) PROVE Balanced(k)'
  <2>1. Handed("willAppear", q) \/ Handed("willDisappear", q)
    BY <1>4 DEF OnWillAppear, OnWillDisappear
  <2>2. Coming(k) = Coming(k)'
    BY <1>0, <2>1, HandedCounts DEF Answers
  <2>3. UNCHANGED <<request, commands>>
    BY <1>4 DEF OnWillAppear, OnWillDisappear, Handed
  <2> QED
    BY <1>0, <1>1, <2>2, <2>3
<1>5. ASSUME NEW q \in Key, OnKeyDown(q) PROVE Balanced(k)'
  <2>1. Handed("keyDown", q)
    BY <1>5 DEF OnKeyDown
  <2>2. Coming(k) = Coming(k)' /\ Asked(k)' = Asked(k)
    BY <1>0, <2>1, HandedCounts DEF Answers
  <2>3. In("pending")' = In("pending") /\ \A r \in In("pending") : request'[r] = request[r]
    BY <1>5, OnKeyDownRequests
  <2>4. Pending(k)' = Pending(k)
    BY <2>3, SamePending
  <2> QED
    BY <2>2, <2>4 DEF Balanced
<1>6. ASSUME NEW q \in Key, OnDidReceiveSettings(q) PROVE Balanced(k)'
  <2>1. Handed(Answers, q)
    BY <1>6 DEF OnDidReceiveSettings
  <2>2. Coming(k) = Coming(k)' + (IF q = k THEN 1 ELSE 0) /\ Asked(k)' = Asked(k)
    BY <2>1, HandedCounts
  <2>3. /\ In("pending")' = In("pending") \ Taking(q)
        /\ \A r \in Request \ Taking(q) : request'[r] = request[r]
    BY <1>6, AnsweredRequests
  <2>4. Pending(k)' = Pending(k) \ Taking(q)
    BY <2>3 DEF Pending, In
  <2>5. /\ Taking(q) \subseteq Pending(q) /\ IsFiniteSet(Taking(q))
        /\ Cardinality(Taking(q)) \in Nat
        /\ Cardinality(Pending(q)) <= 2 * Cardinality(Taking(q))
    BY EmittedTakes
  <2>6. CASE q # k
    <3>1. Pending(k)' = Pending(k)
      BY <2>4, <2>5, <2>6 DEF Pending
    <3> QED
      BY <1>0, <2>2, <2>6, <3>1 DEF Balanced
  <2>7. CASE q = k
    <3>1. CASE Pending(k) = {}
      <4>1. Pending(k)' = {} /\ Cardinality({}) = 0
        BY <2>4, <3>1, FS_EmptySet
      <4> QED
        BY <1>0, <4>1 DEF Balanced
    <3>2. CASE Pending(k) # {}
      <4>1. Cardinality(Pending(k)) # 0
        BY <3>2, PendingFinite, FS_EmptySet
      <4>2. Taking(k) # {}
        <5>1. Taking(k) = {} => Cardinality(Taking(k)) = 0
          BY FS_EmptySet
        <5> QED
          BY <1>0, <2>5, <2>7, <4>1, <5>1
      <4>3. PICK r : r \in Taking(k)
        BY <4>2
      <4>4. r \in Pending(k) /\ Pending(k)' \in SUBSET (Pending(k) \ {r})
        BY <2>4, <2>5, <2>7, <4>3
      <4>5. IsFiniteSet(Pending(k) \ {r})
            /\ Cardinality(Pending(k) \ {r}) = Cardinality(Pending(k)) - 1
        BY <4>4, PendingFinite, FS_RemoveElement
      <4>6. Cardinality(Pending(k)') <= Cardinality(Pending(k)) - 1
        BY <4>4, <4>5, FS_Subset
      <4> QED
        BY <1>0, <2>2, <2>7, <4>6 DEF Balanced
    <3> QED
      BY <3>1, <3>2
  <2> QED
    BY <2>6, <2>7
<1>7. ASSUME NEW r \in Request, Ask(r) PROVE Balanced(k)'
  <2>1. /\ request[r].key \in Key
        /\ r \notin In("pending") /\ In("pending")' = In("pending") \cup {r}
        /\ request'[r].key = request[r].key
        /\ \A q \in In("pending") : request'[q] = request[q]
    BY <1>7, AskRequests
  <2>2. commands' = Append(commands, request[r].key) /\ UNCHANGED events
    BY <1>7 DEF Ask
  <2>3. Asked(k)' = Asked(k) + IF request[r].key \in {k} THEN 1 ELSE 0
    BY <2>1, <2>2, PlacesAppend DEF Typed, Asked
  <2>4. Coming(k)' = Coming(k)
    BY <2>2 DEF Coming
  <2>5. Pending(k)' = IF request[r].key = k THEN Pending(k) \cup {r} ELSE Pending(k)
    BY <2>1 DEF Pending
  <2>6. Cardinality(Pending(k) \cup {r}) = Cardinality(Pending(k)) + 1
    <3>1. r \notin Pending(k) /\ IsFiniteSet(Pending(k))
      BY <2>1, PendingFinite DEF Pending
    <3> QED
      BY <3>1, FS_AddElement
  <2> QED
    BY <1>0, <2>3, <2>4, <2>5, <2>6 DEF Balanced
<1>8. ASSUME NEW r \in Request, Continue(r) \/ Timeout(r) PROVE Balanced(k)'
  <2>1. request' = [request EXCEPT ![r] = NoRequest] /\ UNCHANGED <<commands, events>>
    BY <1>8 DEF Continue, Timeout, application
  <2>2. /\ In("pending")' = In("pending") \ {r}
        /\ \A q \in Request \ {r} : request'[q] = request[q]
    BY <2>1, OverRequests
  <2>3. Pending(k)' \in SUBSET Pending(k)
    BY <2>2 DEF Pending, In
  <2>4. Cardinality(Pending(k)') <= Cardinality(Pending(k))
    BY <2>3, PendingFinite, FS_Subset
  <2>5. Asked(k)' = Asked(k) /\ Coming(k)' = Coming(k)
    BY <2>1 DEF Asked, Coming
  <2> QED
    BY <1>0, <2>4, <2>5 DEF Balanced
<1>9. CASE UNCHANGED vars
  BY <1>0, <1>1, <1>9 DEF vars, application, sdk, Coming
<1> QED
  BY <1>2, <1>3, <1>4, <1>5, <1>6, <1>7, <1>8, <1>9 DEF Next, Emit

----------------------------------------------------------------------------
(* The events under way *)

\* What event m says of key k, which the SDK does or does not know and whose
\* settings it takes to be s: whether it knows it then, and the settings then.
Says(m, k, known, s, knownThen, then) ==
    \/ /\ m.key # k \/ m.event = "keyDown"
       /\ knownThen <=> known
       /\ then = s
    \/ /\ m.key = k /\ m.event = "willAppear"
       /\ ~known /\ knownThen
       /\ m.settings = s /\ then = s
    \/ /\ m.key = k /\ m.event = "willDisappear"
       /\ known /\ ~knownThen
       /\ then = s
    \/ /\ m.key = k /\ m.event = Answers
       /\ knownThen <=> known
       /\ then = m.settings
       /\ ~known => then = s

\* One event after the other, they lead from what the SDK knows of the key to what
\* the application shows: an appearance has the settings that the SDK was told of
\* last, and no settings change while the key is away.
Leads(k, known, s) ==
    /\ 0 \in known <=> k \in actionStore
    /\ s[0] = told[k]
    /\ Len(events) \in known <=> k \in onDeck
    /\ s[Len(events)] = configured[k]
    /\ \A i \in 1 .. Len(events) :
          Says(events[i], k, i - 1 \in known, s[i - 1], i \in known, s[i])

Underway(k) ==
    \E known \in SUBSET (0 .. Len(events)), s \in [0 .. Len(events) -> Given] :
        Leads(k, known, s)

\* An event joins the others.
LEMMA UnderwaySent ==
  ASSUME Typed, NEW k \in Key, Underway(k), NEW m \in Message,
         events' = Append(events, m),
         UNCHANGED <<actionStore, told>>, configured'[k] \in Given,
         Says(m, k, k \in onDeck, configured[k], k \in onDeck', configured'[k])
  PROVE  Underway(k)'
<1> DEFINE n == Len(events)
<1>1. PICK known \in SUBSET (0 .. n), s \in [0 .. n -> Given] : Leads(k, known, s)
  BY DEF Underway
<1>2. /\ n \in Nat /\ Len(events') = n + 1
      /\ \A i \in 1 .. n : events'[i] = events[i]
      /\ events'[n + 1] = m
  BY AppendProperties, LenProperties DEF Typed
<1>3. /\ 0 \in known <=> k \in actionStore
      /\ s[0] = told[k]
      /\ n \in known <=> k \in onDeck
      /\ s[n] = configured[k]
      /\ \A i \in 1 .. n : Says(events[i], k, i - 1 \in known, s[i - 1], i \in known, s[i])
  BY <1>1 DEF Leads
<1> HIDE DEF n
<1>4. PICK known2 \in SUBSET (0 .. n + 1), s2 \in [0 .. n + 1 -> Given] :
        /\ known2 = IF k \in onDeck' THEN known \cup {n + 1} ELSE known
        /\ s2 = [i \in 0 .. n + 1 |-> IF i = n + 1 THEN configured'[k] ELSE s[i]]
  <2> DEFINE K == IF k \in onDeck' THEN known \cup {n + 1} ELSE known
             S == [i \in 0 .. n + 1 |-> IF i = n + 1 THEN configured'[k] ELSE s[i]]
  <2>1. n \in Nat /\ configured'[k] \in Given
    BY <1>2
  <2>2. K \in SUBSET (0 .. n + 1)
    BY <2>1
  <2>3. S \in [0 .. n + 1 -> Given]
    <3>1. \A i \in 0 .. n + 1 : i # n + 1 => i \in 0 .. n
      BY <2>1
    <3> QED
      BY <2>1, <3>1
  <2> QED
    BY <2>2, <2>3
<1>5. /\ \A i \in 0 .. n : i \in known2 <=> i \in known
      /\ n + 1 \in known2 <=> k \in onDeck'
      /\ \A i \in 0 .. n : s2[i] = s[i]
      /\ s2[n + 1] = configured'[k]
  BY <1>2, <1>4
<1>6. ASSUME NEW i \in 1 .. n + 1
      PROVE  Says(events'[i], k, i - 1 \in known2, s2[i - 1], i \in known2, s2[i])
  <2>1. CASE i \in 1 .. n
    <3>1. i \in 0 .. n /\ i - 1 \in 0 .. n
      BY <1>2, <2>1
    <3>2. Says(events[i], k, i - 1 \in known, s[i - 1], i \in known, s[i])
      BY <1>3, <2>1
    <3> QED
      BY <1>2, <1>5, <2>1, <3>1, <3>2 DEF Says
  <2>2. CASE i = n + 1
    <3>1. i - 1 = n /\ n \in 0 .. n
      BY <1>2, <2>2
    <3>2. /\ i - 1 \in known2 <=> k \in onDeck
          /\ s2[i - 1] = configured[k]
          /\ i \in known2 <=> k \in onDeck'
          /\ s2[i] = configured'[k]
          /\ events'[i] = m
      BY <1>2, <1>3, <1>5, <2>2, <3>1
    <3> QED
      BY <3>2 DEF Says
  <2> QED
    BY <1>2, <2>1, <2>2
<1>7. /\ 0 \in known2 <=> k \in actionStore'
      /\ s2[0] = told'[k]
  BY <1>2, <1>3, <1>5
<1>8. Leads(k, known2, s2)'
  BY <1>2, <1>5, <1>6, <1>7 DEF Leads
<1> QED
  BY <1>2, <1>4, <1>8 DEF Underway

\* The next event agrees with what the SDK knows, and the others with what it makes
\* of it.
LEMMA UnderwayHanded ==
  ASSUME Typed, NEW k \in Key, Underway(k), NEW event, NEW q, Handed(event, q)
  PROVE  \E known \in BOOLEAN, s \in Given :
            /\ Says(Head(events), k, k \in actionStore, told[k], known, s)
            /\ (k \in actionStore' <=> known) /\ told'[k] = s => Underway(k)'
<1> DEFINE n == Len(events)
<1>1. PICK known \in SUBSET (0 .. n), s \in [0 .. n -> Given] : Leads(k, known, s)
  BY DEF Underway
<1>2. /\ n \in Nat \ {0} /\ Len(events') = n - 1
      /\ \A i \in 1 .. n - 1 : events'[i] = events[i + 1]
      /\ Head(events) = events[1]
  <2>1. events \in Seq(Message) /\ events # <<>> /\ events' = Tail(events)
    BY HandedOver
  <2> QED
    BY <2>1, EmptySeq, HeadTailProperties
<1>3. /\ 0 \in known <=> k \in actionStore
      /\ s[0] = told[k]
      /\ n \in known <=> k \in onDeck
      /\ s[n] = configured[k]
      /\ \A i \in 1 .. n : Says(events[i], k, i - 1 \in known, s[i - 1], i \in known, s[i])
  BY <1>1 DEF Leads
<1>4. UNCHANGED <<onDeck, configured>>
  BY DEF Handed
<1> HIDE DEF n
<1>5. Says(events[1], k, 0 \in known, s[0], 1 \in known, s[1])
  <2>1. 1 \in 1 .. n /\ 1 - 1 = 0
    BY <1>2
  <2> QED
    BY <1>3, <2>1
<1>6. Says(Head(events), k, k \in actionStore, told[k], 1 \in known, s[1])
  BY <1>2, <1>3, <1>5 DEF Says
<1>7. s[1] \in Given
  BY <1>2
<1>8. ASSUME k \in actionStore' <=> 1 \in known, told'[k] = s[1] PROVE Underway(k)'
  <2>1. PICK known2 \in SUBSET (0 .. n - 1), s2 \in [0 .. n - 1 -> Given] :
           /\ known2 = {i \in 0 .. n - 1 : i + 1 \in known}
           /\ s2 = [i \in 0 .. n - 1 |-> s[i + 1]]
    <3>1. [i \in 0 .. n - 1 |-> s[i + 1]] \in [0 .. n - 1 -> Given]
      BY <1>2
    <3> QED
      BY <3>1
  <2>2. /\ \A i \in 0 .. n - 1 : i \in known2 <=> i + 1 \in known
        /\ \A i \in 0 .. n - 1 : s2[i] = s[i + 1]
    BY <2>1
  <2>3. ASSUME NEW i \in 1 .. n - 1
        PROVE  Says(events'[i], k, i - 1 \in known2, s2[i - 1], i \in known2, s2[i])
    <3>1. /\ i + 1 \in 1 .. n /\ (i + 1) - 1 = i /\ (i - 1) + 1 = i
          /\ i \in 0 .. n - 1 /\ i - 1 \in 0 .. n - 1
      BY <1>2
    <3>2. Says(events[i + 1], k, i \in known, s[i], i + 1 \in known, s[i + 1])
      BY <1>3, <3>1
    <3>3. /\ i - 1 \in known2 <=> i \in known
          /\ s2[i - 1] = s[i] /\ s2[i] = s[i + 1]
          /\ i \in known2 <=> i + 1 \in known
      BY <2>2, <3>1
    <3> QED
      BY <1>2, <3>2, <3>3 DEF Says
  <2>4. /\ 0 \in 0 .. n - 1 /\ 0 + 1 = 1
        /\ n - 1 \in 0 .. n - 1 /\ (n - 1) + 1 = n
    BY <1>2
  <2>5. /\ 0 \in known2 <=> k \in actionStore'
        /\ s2[0] = told'[k]
        /\ n - 1 \in known2 <=> k \in onDeck'
        /\ s2[n - 1] = configured'[k]
    BY <1>3, <1>4, <1>8, <2>2, <2>4
  <2>6. Leads(k, known2, s2)'
    BY <1>2, <2>3, <2>5 DEF Leads
  <2> QED
    BY <1>2, <2>1, <2>6 DEF Underway
<1> DEFINE b == 1 \in known
           v == s[1]
<1>9. b \in BOOLEAN /\ v \in Given /\ Says(Head(events), k, k \in actionStore, told[k], b, v)
  BY <1>6, <1>7
<1>10. (k \in actionStore' <=> b) /\ told'[k] = v => Underway(k)'
  BY <1>8
<1> HIDE DEF b, v
<1> QED
  BY <1>9, <1>10

\* An unchanged queue, SDK and application
LEMMA UnderwayStill ==
  ASSUME NEW k, Underway(k),
         UNCHANGED <<actionStore, told, events, onDeck, configured>>
  PROVE  Underway(k)'
BY DEF Underway, Leads

\* At first the SDK knows what the application shows: nothing.
LEMMA UnderwayInit == ASSUME Init, Typed, NEW k \in Key PROVE Underway(k)
<1> DEFINE s == [i \in 0 .. 0 |-> told[k]]
<1>1. told[k] \in Given /\ Len(events) = 0 /\ k \notin actionStore /\ k \notin onDeck
      /\ told[k] = configured[k]
  <2>1. Len(<<>>) = 0
    BY EmptySeq
  <2> QED
    BY <2>1 DEF Init, Typed
<1>2. {} \in SUBSET (0 .. 0) /\ s \in [0 .. 0 -> Given] /\ s[0] = told[k]
  BY <1>1
<1> HIDE DEF s
<1>3. Leads(k, {}, s)
  BY <1>1, <1>2 DEF Leads
<1> QED
  BY <1>1, <1>2, <1>3 DEF Underway

\* The events the application sends say what it shows.
LEMMA UnderwayApplication ==
  ASSUME Typed, Application, NEW k \in Key, Underway(k)
  PROVE  Underway(k)'
<1>1. UNCHANGED <<actionStore, told>> /\ Typed'
  BY ApplicationKeeps DEF sdk
<1>2. configured[k] \in Given /\ configured'[k] \in Given
  BY <1>1 DEF Typed
<1>3. ASSUME NEW event \in {"willAppear", "willDisappear", "keyDown", Answers},
             NEW q \in Key, NEW s \in Given, Sent(event, q, s),
             \A m \in Message : m.event = event /\ m.key = q /\ m.settings = s =>
                Says(m, k, k \in onDeck, configured[k], k \in onDeck', configured'[k])
      PROVE  Underway(k)'
  <2> DEFINE m == [event |-> event, key |-> q, settings |-> s]
  <2>1. m \in Message /\ m.event = event /\ m.key = q /\ m.settings = s
    BY DEF Message
  <2>2. events' = Append(events, m)
    BY <1>3 DEF Sent
  <2> HIDE DEF m
  <2>3. Says(m, k, k \in onDeck, configured[k], k \in onDeck', configured'[k])
    BY <1>3, <2>1
  <2> QED
    BY <1>1, <1>2, <2>1, <2>2, <2>3, UnderwaySent
<1>4. ASSUME NEW q \in Key, ShowKey(q) PROVE Underway(k)'
  <2>1. q \notin onDeck /\ onDeck' = onDeck \cup {q} /\ configured' = configured
        /\ Sent("willAppear", q, configured[q]) /\ configured[q] \in Given
    BY <1>4 DEF ShowKey, Typed
  <2> QED
    BY <1>3, <2>1 DEF Says
<1>5. ASSUME NEW q \in Key, HideKey(q) PROVE Underway(k)'
  <2>1. q \in onDeck /\ onDeck' = onDeck \ {q} /\ configured' = configured
        /\ Sent("willDisappear", q, configured[q]) /\ configured[q] \in Given
    BY <1>5 DEF HideKey, Typed
  <2> QED
    BY <1>3, <2>1 DEF Says
<1>6. ASSUME NEW q \in Key, PressKey(q) PROVE Underway(k)'
  <2>1. onDeck' = onDeck /\ configured' = configured
        /\ Sent("keyDown", q, configured[q]) /\ configured[q] \in Given
    BY <1>6 DEF PressKey, Typed
  <2> QED
    BY <1>3, <2>1 DEF Says
<1>7. ASSUME NEW q \in Key, NEW s \in Given, EditKey(q, s) PROVE Underway(k)'
  <2>1. q \in onDeck /\ onDeck' = onDeck /\ Sent(Answers, q, s)
        /\ configured'[k] = IF k = q THEN s ELSE configured[k]
    BY <1>7 DEF EditKey, Typed
  <2> QED
    BY <1>3, <2>1 DEF Says
<1>8. ASSUME AnswerKey PROVE Underway(k)'
  <2> DEFINE q == Head(commands)
  <2>1. q \in Key
    BY <1>8, HeadTailProperties DEF AnswerKey, Typed
  <2>2. onDeck' = onDeck /\ configured' = configured
        /\ Sent(Answers, q, configured[q]) /\ configured[q] \in Given
    BY <1>8, <2>1 DEF AnswerKey, Typed
  <2> HIDE DEF q
  <2> QED
    BY <1>3, <2>1, <2>2 DEF Says
<1> QED
  BY <1>4, <1>5, <1>6, <1>7, <1>8 DEF Application, Given

\* The next event agrees with what the SDK knows of its key.
LEMMA NextEventAgrees ==
  ASSUME Typed, NEW k \in Key, Underway(k), NEW event, Handed(event, k)
  PROVE  /\ event = "willAppear" => k \notin actionStore /\ Head(events).settings = told[k]
         /\ event = "willDisappear" => k \in actionStore
         /\ event = Answers /\ k \notin actionStore => Head(events).settings = told[k]
<1>1. PICK known \in BOOLEAN, s \in Given :
         Says(Head(events), k, k \in actionStore, told[k], known, s)
  BY UnderwayHanded
<1>2. Head(events).event = event /\ Head(events).key = k
  BY HandedOver
<1> QED
  BY <1>1, <1>2 DEF Says, Answers

\* Every step keeps what the events under way say.
LEMMA UnderwayStep ==
  ASSUME Typed, [Next]_vars, NEW k \in Key, Underway(k)
  PROVE  Underway(k)'
<1>1. ASSUME NEW event, NEW q \in Key, Handed(event, q),
             \A known \in BOOLEAN, s \in Given :
                Says(Head(events), k, k \in actionStore, told[k], known, s) =>
                   (k \in actionStore' <=> known) /\ told'[k] = s
      PROVE  Underway(k)'
  <2>1. PICK known \in BOOLEAN, s \in Given :
            /\ Says(Head(events), k, k \in actionStore, told[k], known, s)
            /\ (k \in actionStore' <=> known) /\ told'[k] = s => Underway(k)'
    BY <1>1, UnderwayHanded
  <2> QED
    BY <1>1, <2>1
<1>2. told \in [Key -> Given]
  BY DEF Typed
<1>3. ASSUME NEW q \in Key, OnWillAppear(q) PROVE Underway(k)'
  <2>1. /\ Handed("willAppear", q)
        /\ actionStore' = actionStore \cup {q}
        /\ told' = [told EXCEPT ![q] = Head(events).settings]
    BY <1>3 DEF OnWillAppear
  <2>2. Head(events).event = "willAppear" /\ Head(events).key = q
    BY <2>1, HandedOver
  <2> QED
    BY <1>1, <1>2, <2>1, <2>2 DEF Says, Answers
<1>4. ASSUME NEW q \in Key, OnWillDisappear(q) PROVE Underway(k)'
  <2>1. /\ Handed("willDisappear", q)
        /\ actionStore' = actionStore \ {q} /\ told' = told
    BY <1>4 DEF OnWillDisappear
  <2>2. Head(events).event = "willDisappear" /\ Head(events).key = q
    BY <2>1, HandedOver
  <2> QED
    BY <1>1, <1>2, <2>1, <2>2 DEF Says, Answers
<1>5. ASSUME NEW q \in Key, OnKeyDown(q) PROVE Underway(k)'
  <2>1. Handed("keyDown", q) /\ actionStore' = actionStore /\ told' = told
    BY <1>5 DEF OnKeyDown
  <2>2. Head(events).event = "keyDown" /\ Head(events).key = q
    BY <2>1, HandedOver
  <2> QED
    BY <1>1, <1>2, <2>1, <2>2 DEF Says, Answers
<1>6. ASSUME NEW q \in Key, OnDidReceiveSettings(q) PROVE Underway(k)'
  <2>1. /\ Handed(Answers, q) /\ actionStore' = actionStore
        /\ told' = [told EXCEPT ![q] = Head(events).settings]
    BY <1>6 DEF OnDidReceiveSettings
  <2>2. Head(events).event = Answers /\ Head(events).key = q
    BY <2>1, HandedOver
  <2> QED
    BY <1>1, <1>2, <2>1, <2>2 DEF Says, Answers
<1>7. CASE UNCHANGED <<actionStore, told, events, onDeck, configured>>
  BY <1>7, UnderwayStill
<1>8. CASE EndChunk \/ UNCHANGED vars \/ \E r \in Request : Ask(r) \/ Continue(r) \/ Timeout(r)
  BY <1>7, <1>8 DEF EndChunk, Ask, Continue, Timeout, vars, application, sdk
<1> QED
  BY <1>3, <1>4, <1>5, <1>6, <1>8, UnderwayApplication DEF Next, Emit

----------------------------------------------------------------------------
(* The refinement *)

\* What the tiles see of the calls of getSettings()
Waiting(k) == Cardinality(Pending(k))
Got(k)     == {request[r].settings : r \in {q \in In("answered") : request[q].key = k}}

Visible  == [k \in Key |-> k \in actionStore]
Pressing == [k \in Key |-> Waiting(k)]
Answered == [k \in Key |-> Got(k)]

\* The tiles begin as TileEvents does.
LEMMA EventsInit == Init => Events!Init
<1> SUFFICES ASSUME Init PROVE Events!Init
  OBVIOUS
<1>1. Typed
  BY InitHolds
<1>2. In("pending") = {} /\ In("answered") = {}
  BY DEF Init, In, NoRequest
<1>3. ASSUME NEW k \in Key PROVE Cardinality(Pending(k)) = 0 /\ Got(k) = {}
  <2>1. Pending(k) = {}
    BY <1>2 DEF Pending
  <2> QED
    BY <1>2, <2>1, FS_EmptySet DEF Got
<1>4. [k \in Key |-> Cardinality(Pending(k))] = [k \in Key |-> 0]
  BY <1>3
<1>5. [k \in Key |-> Got(k)] = [k \in Key |-> {}]
  BY <1>3
<1>6. [k \in Key |-> k \in actionStore] = [k \in Key |-> FALSE]
  <2>1. ASSUME NEW k \in Key PROVE (k \in actionStore) = FALSE
    BY DEF Init
  <2> QED
    BY <2>1
<1>7. told \in [Key -> Settings \cup {Invalid}] /\ using = [k \in Key |-> Invalid]
  BY <1>1 DEF Init, Typed, Given
<1> QED
  BY <1>4, <1>5, <1>6, <1>7 DEF Events!Init, Got

\* Calls that neither begin to wait, nor are answered or over, show nothing.
LEMMA SameCalls ==
  ASSUME In("pending")' = In("pending"), In("answered")' = In("answered"),
         \A r \in In("pending") \cup In("answered") : request'[r] = request[r]
  PROVE  Pressing' = Pressing /\ Answered' = Answered
<1>1. \A k : Pending(k)' = Pending(k)
  BY SamePending
<1>2. \A k : Got(k)' = Got(k)
  BY DEF Got
<1> QED
  BY <1>1, <1>2 DEF Pressing, Answered, Waiting

\* Steps that the tiles do not see
LEMMA EventsStutter ==
  ASSUME UNCHANGED <<actionStore, told, using, Pressing, Answered>>
  PROVE  UNCHANGED Events!vars
BY DEF Events!vars, Pressing, Answered, Waiting, Got

\* What makes a step one of the instance's: of an appearance,
LEMMA MapWillAppear ==
  ASSUME NEW k \in Key, k \notin actionStore, Visible' = [Visible EXCEPT ![k] = TRUE],
         using' = [using EXCEPT ![k] = told[k]],
         UNCHANGED <<told, Pressing, Answered>>
  PROVE  Events!Next
<1>1. ~Visible[k]
  BY DEF Visible
<1>2. Events!WillAppear(k)
  BY <1>1 DEF Events!WillAppear, Visible, Pressing, Answered, Waiting, Got
<1> QED
  BY <1>2 DEF Events!Next, Events!Event

\* of a disappearance,
LEMMA MapWillDisappear ==
  ASSUME NEW k \in Key, k \in actionStore, Visible' = [Visible EXCEPT ![k] = FALSE],
         using' = [using EXCEPT ![k] = Invalid],
         UNCHANGED <<told, Pressing, Answered>>
  PROVE  Events!Next
<1>1. Visible[k]
  BY DEF Visible
<1>2. Events!WillDisappear(k)
  BY <1>1 DEF Events!WillDisappear, Visible, Pressing, Answered, Waiting, Got
<1> QED
  BY <1>2 DEF Events!Next, Events!Event

\* of a press,
LEMMA MapKeyDown ==
  ASSUME NEW k \in Key, Pressing' = [Pressing EXCEPT ![k] = @ + 1],
         UNCHANGED <<Visible, told, using, Answered>>
  PROVE  Events!Next
<1>1. Events!KeyDown(k)
  BY DEF Events!KeyDown, Visible, Pressing, Answered, Waiting, Got
<1> QED
  BY <1>1 DEF Events!Next, Events!Event

\* of an answer,
LEMMA MapAnswer ==
  ASSUME NEW k \in Key, NEW s, NEW n \in Events!Taken(Waiting(k)),
         Pressing' = [Pressing EXCEPT ![k] = @ - n],
         Answered' = [Answered EXCEPT ![k] = IF n = 0 THEN @ ELSE @ \cup {s}]
  PROVE  Events!Answer(k, s)
<1>1. n \in Events!Taken(Pressing[k])
  BY DEF Pressing
<1> QED
  BY <1>1 DEF Events!Answer, Pressing, Answered, Waiting, Got

\* of new settings,
LEMMA MapConfigure ==
  ASSUME NEW k \in Key, NEW s \in Given, k \in actionStore,
         told' = [told EXCEPT ![k] = s], using' = [using EXCEPT ![k] = s],
         Events!Answer(k, s), UNCHANGED Visible
  PROVE  Events!Next
<1>1. Visible[k]
  BY DEF Visible
<1>2. Events!Configure(k, s)
  BY <1>1 DEF Events!Configure, Visible
<1> QED
  BY <1>2 DEF Events!Next, Events!Event, Given

\* of the settings a press asked for,
LEMMA MapSettingsArrive ==
  ASSUME NEW k \in Key, NEW s, s = told[k],
         k \notin actionStore, using \in [Key -> Given],
         Waiting(k) > 0, Events!Answer(k, s),
         UNCHANGED <<Visible, told, using>>
  PROVE  Events!Next
<1>1. ~Visible[k] /\ Pressing[k] > 0
  BY DEF Visible, Pressing
<1>2. using' = [using EXCEPT ![k] = IF Visible[k] THEN told[k] ELSE @]
  BY <1>1
<1>3. Events!Answer(k, told[k])
  BY DEF Events!Answer
<1>4. Events!SettingsArrive(k)
  BY <1>1, <1>2, <1>3 DEF Events!SettingsArrive, Visible, Pressing, Waiting
<1> QED
  BY <1>4 DEF Events!Next, Events!Event

\* of a press that goes on,
LEMMA MapKeyDownContinues ==
  ASSUME NEW k \in Key, NEW s \in Given, s \in Got(k), NEW more \in SUBSET {s},
         Answered' = [Answered EXCEPT ![k] = (@ \ {s}) \cup more],
         using' = [using EXCEPT ![k] = s],
         UNCHANGED <<Visible, told, Pressing>>
  PROVE  Events!Next
<1>1. s \in Answered[k]
  BY DEF Answered
<1>2. Events!KeyDownContinues(k, s)
  BY <1>1 DEF Events!KeyDownContinues, Visible, Pressing, Answered, Waiting, Got
<1> QED
  BY <1>2 DEF Events!Next, Events!Event, Given

\* and of one that times out.
LEMMA MapSettingsTimeOut ==
  ASSUME NEW k \in Key, \A q \in Key : Got(q) = {}, Waiting(k) > 0,
         Pressing' = [Pressing EXCEPT ![k] = @ - 1],
         UNCHANGED <<Visible, told, using, Answered>>
  PROVE  Events!Next
<1>1. Pressing[k] > 0 /\ \A q \in Key : Answered[q] = {}
  BY DEF Pressing, Answered
<1>2. Events!SettingsTimeOut(k)
  BY <1>1 DEF Events!SettingsTimeOut, Events!Continued, Visible, Pressing, Answered, Waiting, Got
<1> QED
  BY <1>2 DEF Events!Next, Events!Event

\* The inductive invariant
Inv ==
    /\ Typed /\ Listening
    /\ \A k \in Key : Balanced(k)
    /\ \A k \in Key : Underway(k)

\* An appearance is one of a key that was gone, with the settings it had.
LEMMA OnWillAppearMaps ==
  ASSUME Inv, NEW k \in Key, OnWillAppear(k)
  PROVE  Events!Next
<1>1. /\ Handed("willAppear", k)
      /\ actionStore' = actionStore \cup {k}
      /\ using' = [using EXCEPT ![k] = Head(events).settings]
      /\ told' = [told EXCEPT ![k] = Head(events).settings]
      /\ UNCHANGED request
  BY DEF OnWillAppear
<1>2. k \notin actionStore /\ Head(events).settings = told[k]
  BY <1>1, NextEventAgrees DEF Inv
<1>3. told' = told /\ using' = [using EXCEPT ![k] = told[k]]
  BY <1>1, <1>2 DEF Inv, Typed
<1>4. Pressing' = Pressing /\ Answered' = Answered
  BY <1>1, SameCalls DEF In
<1>5. Visible' = [Visible EXCEPT ![k] = TRUE]
  <2>1. ASSUME NEW q \in Key
        PROVE  (q \in actionStore') = IF q = k THEN TRUE ELSE q \in actionStore
    <3>1. CASE q = k
      BY <1>1, <3>1
    <3>2. CASE q # k
      <4>1. q \in actionStore' <=> q \in actionStore
        BY <1>1, <3>2
      <4> QED
        BY <3>2, <4>1
    <3> QED
      BY <3>1, <3>2
  <2> QED
    BY <2>1 DEF Visible
<1> QED
  BY <1>2, <1>3, <1>4, <1>5, MapWillAppear

\* A disappearance is one of a key that was there.
LEMMA OnWillDisappearMaps ==
  ASSUME Inv, NEW k \in Key, OnWillDisappear(k)
  PROVE  Events!Next
<1>1. /\ Handed("willDisappear", k)
      /\ actionStore' = actionStore \ {k}
      /\ using' = [using EXCEPT ![k] = Invalid]
      /\ UNCHANGED <<request, told>>
  BY DEF OnWillDisappear
<1>2. k \in actionStore
  BY <1>1, NextEventAgrees DEF Inv
<1>3. Pressing' = Pressing /\ Answered' = Answered
  BY <1>1, SameCalls DEF In
<1>4. Visible' = [Visible EXCEPT ![k] = FALSE]
  <2>1. ASSUME NEW q \in Key
        PROVE  (q \in actionStore') = IF q = k THEN FALSE ELSE q \in actionStore
    <3>1. CASE q = k
      <4>1. ~(q \in actionStore')
        BY <1>1, <3>1
      <4>2. (q \in actionStore') = FALSE
        BY <4>1
      <4> QED
        BY <3>1, <4>2
    <3>2. CASE q # k
      <4>1. q \in actionStore' <=> q \in actionStore
        BY <1>1, <3>2
      <4> QED
        BY <3>2, <4>1
    <3> QED
      BY <3>1, <3>2
  <2> QED
    BY <2>1 DEF Visible
<1> QED
  BY <1>1, <1>2, <1>3, <1>4, MapWillDisappear

\* A press begins to wait when getSettings() listens.
LEMMA AskMaps ==
  ASSUME Inv, NEW r \in Request, Ask(r)
  PROVE  Events!Next
<1> DEFINE k == request[r].key
<1>1. /\ k \in Key
      /\ r \notin In("pending") /\ In("pending")' = In("pending") \cup {r}
      /\ In("answered")' = In("answered")
      /\ request'[r].key = k
      /\ \A q \in In("pending") \cup In("answered") : request'[q] = request[q]
  BY AskRequests DEF Inv
<1>2. PICK j \in Key : j = k
  BY <1>1
<1> HIDE DEF k
<1>3. ASSUME NEW q \in Key
      PROVE  Pending(q)' = IF q = j THEN Pending(q) \cup {r} ELSE Pending(q)
  BY <1>1, <1>2 DEF Pending
<1>4. Cardinality(Pending(j) \cup {r}) = Cardinality(Pending(j)) + 1
  <2>1. r \notin Pending(j) /\ IsFiniteSet(Pending(j))
    BY <1>1, PendingFinite DEF Pending
  <2> QED
    BY <2>1, FS_AddElement
<1>5. \A q \in Key : Waiting(q)' = IF q = j THEN Waiting(q) + 1 ELSE Waiting(q)
  BY <1>3, <1>4 DEF Waiting
<1>6. Pressing' = [Pressing EXCEPT ![j] = @ + 1]
  BY <1>5 DEF Pressing
<1>7. Answered' = Answered
  <2>1. \A q \in Key : Got(q)' = Got(q)
    BY <1>1 DEF Got
  <2> QED
    BY <2>1 DEF Answered
<1>8. UNCHANGED <<Visible, told, using>>
  BY DEF Ask, Visible
<1> QED
  BY <1>6, <1>7, <1>8, MapKeyDown

\* It goes on with the settings of its answer; another may have got the same.
LEMMA ContinueMaps ==
  ASSUME Inv, NEW r \in Request, Continue(r)
  PROVE  Events!Next
<1>1. /\ request[r].stage = "answered" /\ request[r] \in Call
      /\ request' = [request EXCEPT ![r] = NoRequest]
      /\ using' = [using EXCEPT ![request[r].key] = request[r].settings]
      /\ UNCHANGED <<actionStore, told>>
  BY Calls DEF Continue, Inv
<1>2. PICK k \in Key, s \in Given : k = request[r].key /\ s = request[r].settings
  BY <1>1 DEF Call
<1>3. /\ In("pending")' = In("pending") \ {r}
      /\ In("answered")' = In("answered") \ {r}
      /\ \A q \in Request \ {r} : request'[q] = request[q]
  BY <1>1, OverRequests DEF Inv
<1>4. r \notin In("pending") /\ r \in In("answered") /\ s \in Got(k)
  BY <1>1, <1>2 DEF In, Got
<1>5. Pressing' = Pressing
  <2>1. \A q : Pending(q)' = Pending(q)
    BY <1>3, <1>4 DEF Pending, In
  <2> QED
    BY <2>1 DEF Pressing, Waiting
<1>6. \A q \in Key : q # k => Got(q)' = Got(q)
  <2>1. ASSUME NEW q \in Key, q # k
        PROVE  {p \in In("answered")' : request'[p].key = q} = {p \in In("answered") : request[p].key = q}
    BY <1>2, <1>3, <2>1 DEF In
  <2>2. ASSUME NEW q \in Key, q # k, NEW p \in {p \in In("answered") : request[p].key = q}
        PROVE  request'[p].settings = request[p].settings
    BY <1>2, <1>3, <2>2 DEF In
  <2> QED
    BY <2>1, <2>2 DEF Got
<1>7. PICK more \in SUBSET {s} : Got(k)' = (Got(k) \ {s}) \cup more
  <2>1. ASSUME NEW v \in Got(k)' PROVE v \in Got(k)
    BY <1>3, <2>1 DEF Got, In
  <2>2. ASSUME NEW v \in Got(k), v # s PROVE v \in Got(k)'
    <3>1. PICK p \in In("answered") : request[p].key = k /\ request[p].settings = v
      BY <2>2 DEF Got
    <3>2. p # r
      BY <1>2, <2>2, <3>1
    <3>3. p \in In("answered")' /\ request'[p] = request[p]
      BY <1>3, <3>1, <3>2 DEF In
    <3> QED
      BY <3>1, <3>3 DEF Got
  <2>3. Got(k)' = (Got(k) \ {s}) \cup (Got(k)' \cap {s})
    BY <2>1, <2>2
  <2> QED
    BY <2>3
<1>8. Answered' = [Answered EXCEPT ![k] = (@ \ {s}) \cup more]
  BY <1>6, <1>7 DEF Answered
<1>9. UNCHANGED Visible /\ using' = [using EXCEPT ![k] = s] /\ told' = told
  BY <1>1, <1>2 DEF Visible
<1> QED
  BY <1>4, <1>5, <1>8, <1>9, MapKeyDownContinues

\* Its timer fires when no promise is left that can continue.
LEMMA TimeoutMaps ==
  ASSUME Inv, NEW r \in Request, Timeout(r)
  PROVE  Events!Next
<1>1. /\ request[r].stage = "pending" /\ request[r] \in Call
      /\ In("answered") = {}
      /\ request' = [request EXCEPT ![r] = NoRequest]
      /\ UNCHANGED <<actionStore, told, using>>
  BY Calls DEF Timeout, Quiet, Inv
<1>2. PICK k \in Key : k = request[r].key
  BY <1>1 DEF Call
<1>3. /\ In("pending")' = In("pending") \ {r}
      /\ In("answered")' = In("answered") \ {r}
      /\ \A q \in Request \ {r} : request'[q] = request[q]
  BY <1>1, OverRequests DEF Inv
<1>4. \A q : Got(q) = {} /\ Got(q)' = {}
  BY <1>1, <1>3 DEF Got
<1>5. ASSUME NEW q \in Key
      PROVE  Pending(q)' = IF q = k THEN Pending(q) \ {r} ELSE Pending(q)
  BY <1>2, <1>3 DEF Pending, In
<1>6. r \in Pending(k) /\ Cardinality(Pending(k) \ {r}) = Cardinality(Pending(k)) - 1
      /\ Cardinality(Pending(k)) \in Nat /\ Cardinality(Pending(k)) > 0
  <2>1. r \in Pending(k)
    BY <1>1, <1>2 DEF Pending, In
  <2>2. IsFiniteSet(Pending(k)) /\ Cardinality(Pending(k)) \in Nat
    BY PendingFinite
  <2>3. Cardinality(Pending(k) \ {r}) = Cardinality(Pending(k)) - 1
    BY <2>1, <2>2, FS_RemoveElement
  <2>4. Cardinality(Pending(k)) # 0
    BY <2>1, <2>2, FS_EmptySet
  <2> QED
    BY <2>1, <2>2, <2>3, <2>4
<1>7. Pressing' = [Pressing EXCEPT ![k] = @ - 1]
  <2>1. \A q \in Key : Waiting(q)' = IF q = k THEN Waiting(q) - 1 ELSE Waiting(q)
    BY <1>5, <1>6 DEF Waiting
  <2> QED
    BY <2>1 DEF Pressing
<1>8. Answered' = Answered
  BY <1>4 DEF Answered
<1>9. Waiting(k) > 0 /\ UNCHANGED <<Visible, told, using>>
  BY <1>1, <1>6 DEF Waiting, Visible
<1> QED
  BY <1>4, <1>7, <1>8, <1>9, MapSettingsTimeOut

\* The answer takes half of the requests of its key, or more.
LEMMA AnswerMaps ==
  ASSUME Inv, NEW k \in Key, OnDidReceiveSettings(k),
         NEW s \in Given, s = Head(events).settings
  PROVE  /\ Events!Answer(k, s)
         /\ Waiting(k) = 0 => Pressing' = Pressing /\ Answered' = Answered
<1>2. /\ In("pending")' = In("pending") \ Taking(k)
      /\ In("answered")' = In("answered") \cup Taking(k)
      /\ \A r \in Taking(k) : request'[r].key = k /\ request'[r].settings = s
      /\ \A r \in Request \ Taking(k) : request'[r] = request[r]
  BY AnsweredRequests DEF Inv
<1>3. /\ Taking(k) \subseteq Pending(k) /\ IsFiniteSet(Taking(k))
      /\ Cardinality(Taking(k)) \in Nat
      /\ Cardinality(Pending(k)) <= 2 * Cardinality(Taking(k))
  BY EmittedTakes DEF Inv
<1>4. PICK T : T = Taking(k)
  OBVIOUS
<1>5. PICK n \in Nat : n = Cardinality(T)
  BY <1>3, <1>4
<1>6. Pending(k) \subseteq Request /\ IsFiniteSet(Pending(k)) /\ Waiting(k) \in Nat
  BY PendingFinite DEF Waiting
<1>7. n <= Waiting(k) /\ Cardinality(Pending(k) \ T) = Waiting(k) - n
  <2>1. n <= Waiting(k)
    BY <1>3, <1>4, <1>5, <1>6, FS_Subset DEF Waiting
  <2>2. Pending(k) \cap T = T
    BY <1>3, <1>4
  <2>3. Cardinality(Pending(k) \ T) = Cardinality(Pending(k)) - Cardinality(Pending(k) \cap T)
    BY <1>6, FS_Difference
  <2> QED
    BY <1>5, <2>1, <2>2, <2>3 DEF Waiting
<1>8. n \in Events!Taken(Waiting(k))
  <2>1. Waiting(k) <= 2 * n
    BY <1>3, <1>4, <1>5 DEF Waiting
  <2>2. CASE Waiting(k) = 0
    <3>1. n = 0
      BY <1>7, <2>2
    <3> QED
      BY <2>2, <3>1 DEF Events!Taken
  <2>3. CASE Waiting(k) # 0
    <3>1. (Waiting(k) + 1) \div 2 <= n /\ (Waiting(k) + 1) \div 2 \in Int
      BY <1>6, <2>1
    <3> QED
      BY <1>6, <1>7, <2>3, <3>1 DEF Events!Taken
  <2> QED
    BY <2>2, <2>3
<1>9. Pressing' = [Pressing EXCEPT ![k] = @ - n]
  <2>1. Pending(k)' = Pending(k) \ T
    BY <1>2, <1>4 DEF Pending, In
  <2>2. \A q \in Key : q # k => Pending(q)' = Pending(q)
    BY <1>2, <1>3 DEF Pending, In
  <2>3. \A q \in Key : Waiting(q)' = IF q = k THEN Waiting(q) - n ELSE Waiting(q)
    BY <1>7, <2>1, <2>2 DEF Waiting
  <2> QED
    BY <2>3 DEF Pressing
<1>10. T \subseteq Request /\ \A r \in T : r \notin In("answered")
  BY <1>3, <1>4, <1>6 DEF Pending, In
<1>11. ASSUME NEW q \in Key, q # k PROVE Got(q)' = Got(q)
  <2>1. {p \in In("answered")' : request'[p].key = q} = {p \in In("answered") : request[p].key = q}
    BY <1>2, <1>4, <1>10, <1>11 DEF In
  <2>2. ASSUME NEW p \in In("answered") PROVE request'[p] = request[p]
    BY <1>2, <1>4, <1>10, <2>2 DEF In
  <2> QED
    BY <2>1, <2>2 DEF Got
<1>12. Got(k)' = IF n = 0 THEN Got(k) ELSE Got(k) \cup {s}
  <2>1. n = 0 <=> T = {}
    BY <1>3, <1>4, <1>5, FS_EmptySet
  <2>2. ASSUME NEW p \in In("answered") PROVE request'[p] = request[p]
    BY <1>2, <1>4, <1>10, <2>2 DEF In
  <2>3. ASSUME NEW v \in Got(k)' PROVE v \in Got(k) \/ (T # {} /\ v = s)
    <3>1. PICK p \in In("answered")' : request'[p].key = k /\ request'[p].settings = v
      BY <2>3 DEF Got
    <3>2. p \in In("answered") \/ p \in T
      BY <1>2, <1>4, <3>1
    <3>3. CASE p \in In("answered")
      BY <2>2, <3>1, <3>3 DEF Got
    <3>4. CASE p \in T
      BY <1>2, <1>4, <3>1, <3>4
    <3> QED
      BY <3>2, <3>3, <3>4
  <2>4. ASSUME NEW v \in Got(k) PROVE v \in Got(k)'
    <3>1. PICK p \in In("answered") : request[p].key = k /\ request[p].settings = v
      BY <2>4 DEF Got
    <3>2. p \in In("answered")' /\ request'[p] = request[p]
      BY <1>2, <2>2
    <3> QED
      BY <3>1, <3>2 DEF Got
  <2>5. T # {} => s \in Got(k)'
    <3> SUFFICES ASSUME NEW p \in T PROVE s \in Got(k)'
      OBVIOUS
    <3>1. p \in In("answered")' /\ request'[p].key = k /\ request'[p].settings = s
      BY <1>2, <1>4
    <3> QED
      BY <3>1 DEF Got
  <2> QED
    BY <2>1, <2>3, <2>4, <2>5
<1>13. Answered' = [Answered EXCEPT ![k] = IF n = 0 THEN @ ELSE @ \cup {s}]
  BY <1>11, <1>12 DEF Answered
<1>14. Events!Answer(k, s)
  BY <1>8, <1>9, <1>13, MapAnswer
<1>15. ASSUME Waiting(k) = 0 PROVE Pressing' = Pressing /\ Answered' = Answered
  <2>1. n = 0
    BY <1>7, <1>15
  <2>2. \A q \in Key : Got(q)' = Got(q)
    BY <1>11, <1>12, <2>1
  <2>3. Answered' = Answered
    BY <2>2 DEF Answered
  <2>4. [Pressing EXCEPT ![k] = @ - n] = Pressing
    BY <1>15, <2>1 DEF Pressing
  <2> QED
    BY <1>9, <2>3, <2>4
<1> QED
  BY <1>14, <1>15

\* Of a key that is gone, the event has the settings of which the SDK was told last.
LEMMA OnDidReceiveSettingsMaps ==
  ASSUME Inv, NEW k \in Key, OnDidReceiveSettings(k)
  PROVE  Events!Next \/ UNCHANGED Events!vars
<1>1. PICK s \in Given : s = Head(events).settings
  BY AnsweredRequests DEF Inv
<1>2. /\ Handed(Answers, k)
      /\ told' = [told EXCEPT ![k] = s]
      /\ using' = IF "route" \in Emitted(k).called /\ k \in actionStore
                  THEN [using EXCEPT ![k] = s] ELSE using
      /\ UNCHANGED actionStore
  BY <1>1 DEF OnDidReceiveSettings
<1>3. "route" \in Emitted(k).called
  BY EmittedTakes DEF Inv
<1>4. Events!Answer(k, s) /\ (Waiting(k) = 0 => Pressing' = Pressing /\ Answered' = Answered)
  BY <1>1, AnswerMaps
<1>5. UNCHANGED Visible
  BY <1>2 DEF Visible
<1>6. CASE k \in actionStore
  <2>1. using' = [using EXCEPT ![k] = s]
    BY <1>2, <1>3, <1>6
  <2> QED
    BY <1>2, <1>4, <1>5, <1>6, <2>1, MapConfigure
<1>7. CASE k \notin actionStore
  <2>1. s = told[k]
    BY <1>1, <1>2, <1>7, NextEventAgrees DEF Inv
  <2>2. told' = told /\ using' = using
    BY <1>2, <1>7, <2>1 DEF Inv, Typed
  <2>3. CASE Waiting(k) > 0
    <3>1. using \in [Key -> Given]
      BY DEF Inv, Typed
    <3> QED
      BY <1>4, <1>5, <1>7, <2>1, <2>2, <2>3, <3>1, MapSettingsArrive
  <2>4. CASE ~(Waiting(k) > 0)
    <3>1. Waiting(k) = 0
      BY <2>4, PendingFinite DEF Waiting
    <3> QED
      BY <1>2, <1>4, <2>2, <3>1, EventsStutter
  <2> QED
    BY <2>3, <2>4
<1> QED
  BY <1>6, <1>7

\* Every step is one of TileEvents, or the tiles do not see it.
LEMMA EventsStep == Inv /\ [Next]_vars => [Events!Next]_Events!vars
<1> SUFFICES ASSUME Inv, [Next]_vars PROVE Events!Next \/ UNCHANGED Events!vars
  OBVIOUS
<1>1. ASSUME UNCHANGED <<actionStore, told, using, request>> PROVE UNCHANGED Events!vars
  <2>1. Pressing' = Pressing /\ Answered' = Answered
    BY <1>1, SameCalls DEF In
  <2> QED
    BY <1>1, <2>1, EventsStutter
<1>2. CASE Application
  BY <1>1, <1>2, ApplicationKeeps DEF Inv, sdk
<1>3. CASE EndChunk
  BY <1>1, <1>3 DEF EndChunk
<1>4. ASSUME NEW k \in Key, OnKeyDown(k) PROVE UNCHANGED Events!vars
  <2>1. Pressing' = Pressing /\ Answered' = Answered
    BY <1>4, OnKeyDownRequests, SameCalls DEF Inv
  <2>2. UNCHANGED <<actionStore, told, using>>
    BY <1>4 DEF OnKeyDown
  <2> QED
    BY <2>1, <2>2, EventsStutter
<1>5. CASE UNCHANGED vars
  BY <1>1, <1>5 DEF vars, sdk
<1> QED
  BY <1>2, <1>3, <1>4, <1>5, OnWillAppearMaps, OnWillDisappearMaps,
     OnDidReceiveSettingsMaps, AskMaps, ContinueMaps, TimeoutMaps DEF Next, Emit

----------------------------------------------------------------------------
(* The theorems *)

\* Types, listeners, the balance of presses and answers, and the events under way
\* belong together: emit() takes an answer to every other request of its key at
\* least (EmittedTakes), because the requests are in the list once each.
THEOREM InvHolds == Spec => []Inv
<1>1. Init => Inv
  <2> SUFFICES ASSUME Init PROVE Inv
    OBVIOUS
  <2>1. Typed /\ Listening
    BY InitHolds
  <2>2. ASSUME NEW k \in Key PROVE Balanced(k)
    <3>1. Pending(k) = {} /\ Cardinality({}) = 0
      BY FS_EmptySet DEF Init, Pending, In, NoRequest
    <3> QED
      BY <2>1, <3>1, Counts DEF Balanced
  <2> QED
    BY <2>1, <2>2, UnderwayInit DEF Inv
<1>2. Inv /\ [Next]_vars => Inv'
  <2> SUFFICES ASSUME Inv, [Next]_vars PROVE Inv'
    OBVIOUS
  <2>1. Typed' /\ Listening'
    BY TypedStep DEF Inv
  <2>2. ASSUME NEW k \in Key PROVE Balanced(k)' /\ Underway(k)'
    BY PressesStep, UnderwayStep DEF Inv
  <2> QED
    BY <2>1, <2>2 DEF Inv
<1> QED
  BY <1>1, <1>2, PTL DEF Spec

\* A key press that waits for its settings has an answer coming (onKeyDown, #fetch),
\* for every number of presses, keys and listeners that emit() skips.
THEOREM PressesHaveAnswersHolds == Spec => []PressesHaveAnswers
<1>1. Inv => PressesHaveAnswers
  BY BalancedIsPresses DEF Inv
<1> QED
  BY <1>1, InvHolds, PTL

\* The SDK hands the tiles the events of TileEvents, in an order that it allows,
\* for every behaviour of the application and of the promises.
THEOREM EventsHoldHolds == Spec => EventsHold
<1>1. Spec => Init /\ [][Next]_vars
  BY DEF Spec
<1> QED
  BY <1>1, InvHolds, EventsInit, EventsStep, PTL DEF EventsHold, Events!Spec
=============================================================================
