---------------------------- MODULE PrOneSidedProofs ----------------------------
(***************************************************************************)
(* The progress-rank runtime implements OneSided, for any hosts, any       *)
(* number of handles and all programs that keep to the premises: first     *)
(* the accesses under way as a sequence, and what a send or a receive      *)
(* does to it, then the invariant of the mapping, then the steps.          *)
(***************************************************************************)
EXTENDS PrComexProofs

-----------------------------------------------------------------------------
(* The accesses among the messages of a queue, in their order *)

Unit(b) == IF b THEN 1 ELSE 0

LEMMA ShiftCard ==
    ASSUME NEW S \in SUBSET Nat, IsFiniteSet(S), NEW T \in SUBSET Nat,
           \A j \in Nat : j \in T <=> j # 0 /\ j - 1 \in S
    PROVE  IsFiniteSet(T) /\ Cardinality(T) = Cardinality(S)
<1> DEFINE f == [i \in S |-> i + 1]
<1>1. \A i \in S : i + 1 \in T
  OBVIOUS
<1>2. f \in Injection(S, T)
  <2>1. f \in [S -> T]
    BY <1>1
  <2>2. \A a, b \in DOMAIN f : f[a] = f[b] => a = b
    OBVIOUS
  <2> QED
    BY <2>1, <2>2 DEF Injection, IsInjective
<1>3. \A j \in T : \E i \in S : f[i] = j
  <2> TAKE j \in T
  <2>1. j \in Nat /\ j # 0 /\ j - 1 \in S
    OBVIOUS
  <2>2. f[j - 1] = j
    BY <2>1
  <2> QED
    BY <2>1, <2>2
<1>4. f \in Surjection(S, T)
  BY <1>1, <1>3 DEF Surjection
<1>5. ExistsBijection(S, T)
  BY <1>2, <1>4 DEF ExistsBijection, Bijection
<1> QED
  BY <1>5, FS_Bijection

LEMMA IndexSet ==
    ASSUME NEW Q, NEW q \in Seq(Q), NEW S, S \subseteq DOMAIN q
    PROVE  /\ S \in SUBSET Nat /\ IsFiniteSet(S)
           /\ Cardinality(S) \in Nat
           /\ Cardinality(S) = 0 <=> S = {}
<1>1. IsFiniteSet(1 .. Len(q))
  BY FS_Interval
<1>2. IsFiniteSet(S)
  BY <1>1, FS_Subset
<1> QED
  BY <1>2, FS_CardinalityType, FS_EmptySet

\* The place of a message of q among those that access the memory of d is one more
\* than that of the one before.
LEMMA UptoStep ==
    ASSUME NEW q \in Seq(Message), NEW d, NEW i \in 0 .. Len(q)
    PROVE  /\ Upto(q, d, i) \in Nat
           /\ Upto(q, d, 0) = 0
           /\ i # 0 => Upto(q, d, i) = Upto(q, d, i - 1) + Unit(IsAccess(q[i], d))
<1> DEFINE S(k) == {j \in 1 .. k : IsAccess(q[j], d)}
<1>1. \A k \in 0 .. Len(q) : IsFiniteSet(S(k)) /\ Cardinality(S(k)) \in Nat
  <2> TAKE k \in 0 .. Len(q)
  <2>1. S(k) \subseteq DOMAIN q
    OBVIOUS
  <2> HIDE DEF S
  <2> QED
    BY <2>1, IndexSet
<1>2. S(0) = {}
  OBVIOUS
<1>3. ASSUME i # 0
      PROVE  Cardinality(S(i)) = Cardinality(S(i - 1)) + Unit(IsAccess(q[i], d))
  <2>1. i - 1 \in 0 .. Len(q) /\ i \notin S(i - 1)
    BY <1>3
  <2>2. S(i) = IF IsAccess(q[i], d) THEN S(i - 1) \cup {i} ELSE S(i - 1)
    BY <1>3
  <2> HIDE DEF S
  <2>3. IsFiniteSet(S(i - 1)) /\ Cardinality(S(i - 1)) \in Nat
    BY <1>1, <2>1
  <2>4. Cardinality(S(i - 1) \cup {i}) = Cardinality(S(i - 1)) + 1
    BY <2>1, <2>3, FS_AddElement
  <2> QED
    BY <2>2, <2>3, <2>4 DEF Unit
<1>4. Cardinality(S(0)) = 0
  BY <1>2, FS_EmptySet
<1> QED
  BY <1>1, <1>3, <1>4 DEF Upto

LEMMA UptoMono ==
    ASSUME NEW q \in Seq(Message), NEW d, NEW i \in 0 .. Len(q), NEW j \in i .. Len(q)
    PROVE  Upto(q, d, i) <= Upto(q, d, j)
<1> DEFINE S(k) == {x \in 1 .. k : IsAccess(q[x], d)}
<1>1. S(j) \subseteq DOMAIN q /\ S(i) \subseteq S(j)
  OBVIOUS
<1> HIDE DEF S
<1>2. IsFiniteSet(S(j))
  BY <1>1, IndexSet
<1>3. Cardinality(S(i)) <= Cardinality(S(j))
  BY <1>1, <1>2, FS_Subset
<1> QED
  BY <1>3 DEF Upto, S

\* No two messages have the same place, ...
LEMMA UptoUnique ==
    ASSUME NEW q \in Seq(Message), NEW d, NEW i \in DOMAIN q, NEW j \in DOMAIN q,
           IsAccess(q[i], d), IsAccess(q[j], d), Upto(q, d, i) = Upto(q, d, j)
    PROVE  i = j
<1>1. ASSUME NEW a \in DOMAIN q, NEW b \in DOMAIN q, IsAccess(q[b], d), a < b
      PROVE  Upto(q, d, a) # Upto(q, d, b)
  <2>1. /\ a \in 0 .. Len(q) /\ b \in 0 .. Len(q) /\ b # 0
        /\ b - 1 \in a .. Len(q) /\ b - 1 \in 0 .. Len(q)
    BY <1>1
  <2>2. Upto(q, d, a) <= Upto(q, d, b - 1)
    BY <2>1, UptoMono
  <2>3. Upto(q, d, b) = Upto(q, d, b - 1) + 1
    BY <1>1, <2>1, UptoStep DEF Unit
  <2>4. Upto(q, d, a) \in Nat /\ Upto(q, d, b - 1) \in Nat
    BY <2>1, UptoStep
  <2> QED
    BY <2>2, <2>3, <2>4
<1>2. i < j \/ j < i \/ i = j
  OBVIOUS
<1> QED
  BY <1>1, <1>2

LEMMA UptoBounds ==
    ASSUME NEW q \in Seq(Message), NEW d, NEW i \in DOMAIN q, IsAccess(q[i], d)
    PROVE  /\ Upto(q, d, Len(q)) \in Nat
           /\ Upto(q, d, i) \in 1 .. Upto(q, d, Len(q))
<1>1. i \in 0 .. Len(q) /\ i # 0 /\ i - 1 \in 0 .. Len(q)
      /\ Len(q) \in i .. Len(q) /\ Len(q) \in 0 .. Len(q)
  OBVIOUS
<1>2. Upto(q, d, i) = Upto(q, d, i - 1) + 1 /\ Upto(q, d, i - 1) \in Nat
  BY <1>1, UptoStep DEF Unit
<1>3. Upto(q, d, i) <= Upto(q, d, Len(q)) /\ Upto(q, d, Len(q)) \in Nat
  BY <1>1, UptoMono, UptoStep
<1> QED
  BY <1>2, <1>3

\* ... and no place is left out.
LEMMA UptoOnto ==
    ASSUME NEW q \in Seq(Message), NEW d, NEW k \in 1 .. Upto(q, d, Len(q))
    PROVE  \E i \in DOMAIN q : IsAccess(q[i], d) /\ Upto(q, d, i) = k
<1> DEFINE S == {i \in 1 .. Len(q) : IsAccess(q[i], d)}
           n == Upto(q, d, Len(q))
           T == 1 .. n
           f == [i \in S |-> Upto(q, d, i)]
<1> SUFFICES ASSUME \A i \in S : Upto(q, d, i) # k PROVE FALSE
  OBVIOUS
<1>1. IsFiniteSet(S) /\ Cardinality(S) = n /\ n \in Nat
  <2>1. S \subseteq DOMAIN q /\ Len(q) \in 0 .. Len(q)
    OBVIOUS
  <2>2. IsFiniteSet(S)
    BY <2>1, IndexSet
  <2>3. n \in Nat
    BY <2>1, UptoStep
  <2> QED
    BY <2>2, <2>3 DEF Upto
<1>2. IsFiniteSet(T \ {k}) /\ Cardinality(T \ {k}) < Cardinality(S)
  <2> HIDE DEF n, S
  <2>1. IsFiniteSet(T) /\ Cardinality(T) = n
    BY <1>1, FS_Interval
  <2>2. k \in T
    BY DEF n
  <2>3. IsFiniteSet(T \ {k}) /\ Cardinality(T \ {k}) = n - 1
    BY <2>1, <2>2, FS_RemoveElement
  <2> QED
    BY <1>1, <2>3
<1>3. f \in [S -> T \ {k}]
  <2>1. \A i \in S : Upto(q, d, i) \in T
    BY UptoBounds
  <2> QED
    BY <2>1
<1>4. \A x, y \in S : f[x] = f[y] => x = y
  BY UptoUnique
<1> HIDE DEF S, T, f
<1> QED
  BY <1>1, <1>2, <1>3, <1>4, FS_PigeonHole

\* What Only is
LEMMA OnlyAt ==
    ASSUME NEW q \in Seq(Message), NEW d
    PROVE  /\ Only(q, d) \in Seq(Message)
           /\ Len(Only(q, d)) = Upto(q, d, Len(q)) /\ Upto(q, d, Len(q)) \in Nat
           /\ DOMAIN Only(q, d) = 1 .. Upto(q, d, Len(q))
           /\ \A i \in DOMAIN q : IsAccess(q[i], d) =>
                 /\ Upto(q, d, i) \in DOMAIN Only(q, d)
                 /\ Only(q, d)[Upto(q, d, i)] = q[i]
<1> DEFINE n == Upto(q, d, Len(q))
           at(k) == CHOOSE i \in DOMAIN q : IsAccess(q[i], d) /\ Upto(q, d, i) = k
<1>1. n \in Nat
  BY UptoStep
<1>2. \A k \in 1 .. n : at(k) \in DOMAIN q /\ IsAccess(q[at(k)], d) /\ Upto(q, d, at(k)) = k
  BY UptoOnto
<1>3. Only(q, d) = [k \in 1 .. n |-> q[at(k)]]
  BY DEF Only
<1>4. ASSUME NEW i \in DOMAIN q, IsAccess(q[i], d)
      PROVE  /\ Upto(q, d, i) \in 1 .. n
             /\ at(Upto(q, d, i)) = i
  <2>1. Upto(q, d, i) \in 1 .. n
    BY <1>4, UptoBounds
  <2> DEFINE j == at(Upto(q, d, i))
  <2>2. j \in DOMAIN q /\ IsAccess(q[j], d) /\ Upto(q, d, j) = Upto(q, d, i)
    BY <1>2, <2>1
  <2> HIDE DEF j, n
  <2>3. j = i
    BY <1>4, <2>2, UptoUnique
  <2> QED
    BY <2>1, <2>3 DEF j
<1> HIDE DEF at, n
<1>5. \A k \in 1 .. n : q[at(k)] \in Message
  BY <1>2
<1>6. Only(q, d) \in Seq(Message) /\ Len(Only(q, d)) = n /\ DOMAIN Only(q, d) = 1 .. n
  BY <1>1, <1>3, <1>5
<1>7. \A i \in DOMAIN q : IsAccess(q[i], d) => Only(q, d)[Upto(q, d, i)] = q[i]
  BY <1>3, <1>4
<1> QED
  BY <1>1, <1>4, <1>6, <1>7 DEF n

\* The messages of q that access it, when one is added at the end ...
LEMMA OnlyAppend ==
    ASSUME NEW q \in Seq(Message), NEW d, NEW m \in Message
    PROVE  Only(Append(q, m), d) = IF IsAccess(m, d) THEN Append(Only(q, d), m)
                                                      ELSE Only(q, d)
<1> DEFINE a == Append(q, m)
           n == Upto(q, d, Len(q))
           t == IF IsAccess(m, d) THEN Append(Only(q, d), m) ELSE Only(q, d)
<1>1. /\ a \in Seq(Message) /\ Len(a) = Len(q) + 1 /\ Len(q) \in Nat /\ a[Len(q) + 1] = m
      /\ DOMAIN q = 1 .. Len(q) /\ DOMAIN a = 1 .. Len(q) + 1
      /\ \A i \in DOMAIN q : a[i] = q[i] /\ i \in DOMAIN a
  OBVIOUS
<1> HIDE DEF a
<1>2. \A i \in 0 .. Len(q) : Upto(a, d, i) = Upto(q, d, i)
  <2> TAKE i \in 0 .. Len(q)
  <2>1. {j \in 1 .. i : IsAccess(a[j], d)} = {j \in 1 .. i : IsAccess(q[j], d)}
    BY <1>1
  <2> QED
    BY <2>1 DEF Upto
<1>3. Upto(a, d, Len(a)) = n + Unit(IsAccess(m, d)) /\ n \in Nat
  <2>1. /\ Len(a) \in 0 .. Len(a) /\ Len(a) # 0 /\ Len(a) - 1 = Len(q)
        /\ Len(q) \in 0 .. Len(q) /\ a[Len(a)] = m
    BY <1>1
  <2>2. Upto(a, d, Len(a)) = Upto(a, d, Len(a) - 1) + Unit(IsAccess(a[Len(a)], d))
    BY <1>1, <2>1, UptoStep
  <2>3. Upto(q, d, Len(q)) \in Nat
    BY <2>1, UptoStep
  <2> QED
    BY <1>2, <2>1, <2>2, <2>3
<1>4. /\ Only(a, d) \in Seq(Message) /\ Only(q, d) \in Seq(Message)
      /\ Len(Only(a, d)) = n + Unit(IsAccess(m, d)) /\ Len(Only(q, d)) = n
      /\ DOMAIN Only(q, d) = 1 .. n
      /\ \A i \in DOMAIN a : IsAccess(a[i], d) => Only(a, d)[Upto(a, d, i)] = a[i]
      /\ \A i \in DOMAIN q : IsAccess(q[i], d) => Only(q, d)[Upto(q, d, i)] = q[i]
  BY <1>1, <1>3, OnlyAt
<1> HIDE DEF n
<1>5. /\ t \in Seq(Message) /\ Len(t) = n + Unit(IsAccess(m, d))
      /\ \A k \in 1 .. n : t[k] = Only(q, d)[k]
      /\ IsAccess(m, d) => t[n + 1] = m
  BY <1>3, <1>4 DEF Unit
<1>6. \A k \in 1 .. n : Only(a, d)[k] = Only(q, d)[k]
  <2> TAKE k \in 1 .. n
  <2>1. PICK i \in DOMAIN q : IsAccess(q[i], d) /\ Upto(q, d, i) = k
    BY UptoOnto DEF n
  <2>2. i \in DOMAIN a /\ a[i] = q[i] /\ Upto(a, d, i) = k
    BY <1>1, <1>2, <2>1
  <2> QED
    BY <1>4, <2>1, <2>2
<1>7. ASSUME IsAccess(m, d) PROVE Only(a, d)[n + 1] = m
  <2>1. Len(a) \in DOMAIN a /\ a[Len(a)] = m
    BY <1>1
  <2>2. Upto(a, d, Len(a)) = n + 1
    BY <1>3, <1>7 DEF Unit
  <2> QED
    BY <1>4, <1>7, <2>1, <2>2
<1>8. \A k \in 1 .. n + Unit(IsAccess(m, d)) : k \in 1 .. n \/ (IsAccess(m, d) /\ k = n + 1)
  BY <1>3 DEF Unit
<1>9. \A k \in 1 .. n + Unit(IsAccess(m, d)) : Only(a, d)[k] = t[k]
  BY <1>5, <1>6, <1>7, <1>8
<1> HIDE DEF t
<1>10. Only(a, d) = t
  BY <1>4, <1>5, <1>9
<1> QED
  BY <1>10 DEF a, t

\* ... and when the first is taken away
LEMMA OnlyTail ==
    ASSUME NEW q \in Seq(Message), q # <<>>, NEW d
    PROVE  IF IsAccess(Head(q), d)
           THEN /\ Only(q, d) # <<>>
                /\ Head(Only(q, d)) = Head(q)
                /\ Only(Tail(q), d) = Tail(Only(q, d))
           ELSE Only(Tail(q), d) = Only(q, d)
<1> DEFINE t == Tail(q)
           u == Unit(IsAccess(Head(q), d))
           n == Upto(t, d, Len(t))
           o == Only(q, d)
           p == Only(t, d)
<1>1. /\ t \in Seq(Message) /\ Len(t) = Len(q) - 1 /\ Len(q) \in Nat \ {0}
      /\ DOMAIN q = 1 .. Len(q) /\ DOMAIN t = 1 .. Len(t) /\ Head(q) = q[1]
      /\ \A i \in DOMAIN t : t[i] = q[i + 1]
  BY HeadTailProperties, EmptySeq
<1> HIDE DEF t
<1>2. u \in {0, 1} /\ (u = 1 <=> IsAccess(Head(q), d))
  BY DEF Unit
<1>3. \A i \in 0 .. Len(t) : Upto(q, d, i + 1) = Upto(t, d, i) + u
  <2> TAKE i \in 0 .. Len(t)
  <2> DEFINE S == {j \in 1 .. i + 1 : IsAccess(q[j], d)}
             T == {j \in 1 .. i : IsAccess(t[j], d)}
             D == {j \in 2 .. i + 1 : IsAccess(q[j], d)}
  <2>0. i + 1 \in Nat /\ i + 1 <= Len(q) /\ i \in Nat /\ i <= Len(t)
    BY <1>1
  <2>1. T \in SUBSET Nat /\ IsFiniteSet(T) /\ Cardinality(T) \in Nat
    <3>1. T \subseteq DOMAIN t
      BY <1>1, <2>0
    <3> HIDE DEF T
    <3> QED
      BY <1>1, <3>1, IndexSet
  <2>2. IsFiniteSet(D) /\ Cardinality(D) = Cardinality(T)
    <3>1. \A j \in Nat : j \in D <=> j # 0 /\ j - 1 \in T
      <4> TAKE j \in Nat
      <4>1. j \in 2 .. i + 1 <=> j # 0 /\ j - 1 \in 1 .. i
        BY <2>0
      <4>2. j - 1 \in 1 .. i => t[j - 1] = q[j]
        <5> HAVE j - 1 \in 1 .. i
        <5>1. j - 1 \in DOMAIN t /\ (j - 1) + 1 = j
          BY <1>1, <2>0
        <5> QED
          BY <1>1, <5>1
      <4> QED
        BY <4>1, <4>2
    <3>2. D \in SUBSET Nat
      BY <2>0
    <3> HIDE DEF D, T
    <3> QED
      BY <2>1, <3>1, <3>2, ShiftCard
  <2>3. S = IF IsAccess(Head(q), d) THEN D \cup {1} ELSE D
    <3>1. \A j : j \in 1 .. i + 1 <=> j = 1 \/ j \in 2 .. i + 1
      BY <2>0
    <3> QED
      BY <1>1, <3>1
  <2>4. 1 \notin D
    OBVIOUS
  <2> HIDE DEF S, T, D
  <2>5. Cardinality(D \cup {1}) = Cardinality(D) + 1
    BY <2>2, <2>4, FS_AddElement
  <2>6. Cardinality(S) = Cardinality(T) + u
    BY <2>1, <2>2, <2>3, <2>5 DEF Unit
  <2> QED
    BY <2>6 DEF Upto, S, T
<1>4. Upto(q, d, Len(q)) = n + u /\ n \in Nat
  <2>1. Len(t) \in 0 .. Len(t) /\ Len(t) + 1 = Len(q)
    BY <1>1
  <2>2. Upto(q, d, Len(t) + 1) = n + u
    BY <1>3, <2>1
  <2>3. Upto(t, d, Len(t)) \in Nat
    BY <1>1, <2>1, UptoStep
  <2> QED
    BY <2>1, <2>2, <2>3
<1>5. /\ o \in Seq(Message) /\ p \in Seq(Message)
      /\ Len(o) = n + u /\ Len(p) = n
      /\ \A i \in DOMAIN q : IsAccess(q[i], d) => o[Upto(q, d, i)] = q[i]
      /\ \A i \in DOMAIN t : IsAccess(t[i], d) => p[Upto(t, d, i)] = t[i]
  BY <1>1, <1>4, OnlyAt
<1>6. \A k \in 1 .. n : p[k] = o[k + u]
  <2> TAKE k \in 1 .. n
  <2>1. PICK i \in DOMAIN t : IsAccess(t[i], d) /\ Upto(t, d, i) = k
    BY <1>1, UptoOnto
  <2>2. i \in 0 .. Len(t) /\ i + 1 \in DOMAIN q /\ q[i + 1] = t[i]
    BY <1>1
  <2>3. Upto(q, d, i + 1) = k + u
    BY <1>3, <2>1, <2>2
  <2> QED
    BY <1>5, <2>1, <2>2, <2>3
<1> HIDE DEF u, n, o, p
<1>7. CASE ~IsAccess(Head(q), d)
  <2>1. u = 0
    BY <1>2, <1>7
  <2>2. Len(p) = Len(o) /\ \A k \in 1 .. Len(p) : p[k] = o[k]
    BY <1>4, <1>5, <1>6, <2>1
  <2>3. p = o
    BY <1>5, <2>2
  <2> QED
    BY <1>7, <2>3 DEF p, o, t
<1>8. CASE IsAccess(Head(q), d)
  <2>1. u = 1
    BY <1>2, <1>8
  <2>2. Len(o) = n + 1 /\ o # <<>>
    BY <1>4, <1>5, <2>1
  <2>3. o[1] = Head(q)
    <3>1. 0 \in 0 .. Len(t) /\ 1 \in DOMAIN q
      BY <1>1
    <3>2. Upto(q, d, 0 + 1) = Upto(t, d, 0) + u
      BY <1>3, <3>1
    <3>3. Upto(t, d, 0) = 0
      BY <1>1, <3>1, UptoStep
    <3>4. Upto(q, d, 1) = 1
      BY <2>1, <3>2, <3>3
    <3> QED
      BY <1>1, <1>5, <1>8, <3>1, <3>4
  <2>4. Tail(o) \in Seq(Message) /\ Len(Tail(o)) = n /\ \A k \in 1 .. n : Tail(o)[k] = o[k + 1]
    BY <1>4, <1>5, <2>2
  <2>5. \A k \in 1 .. n : Tail(o)[k] = p[k]
    BY <1>6, <2>1, <2>4
  <2>6. p = Tail(o)
    BY <1>5, <2>4, <2>5
  <2>7. Head(o) = Head(q)
    BY <1>5, <2>2, <2>3
  <2> QED
    BY <1>8, <2>2, <2>6, <2>7 DEF p, o, t
<1> QED
  BY <1>7, <1>8


LEMMA SeqOfFunction ==
    ASSUME NEW S, NEW n \in Nat, NEW f \in [1 .. n -> S]
    PROVE  f \in Seq(S) /\ Len(f) = n
OBVIOUS

Item      == [op : MsgOp, loc : Int, val : Int]
ItemOf(h) == [op |-> h.op, loc |-> h.id, val |-> h.val]

\* The accesses of a queue, when a message is added ...
LEMMA AccessesAppend ==
    ASSUME NEW q \in Seq(Message), NEW h \in Message, NEW d
    PROVE  /\ Accesses(q, d) \in Seq(Item) /\ ItemOf(h) \in Item
           /\ Accesses(Append(q, h), d) =
                 IF IsAccess(h, d) THEN Append(Accesses(q, d), ItemOf(h))
                 ELSE Accesses(q, d)
<1> DEFINE All(ms) == [i \in DOMAIN ms |-> ItemOf(ms[i])]
<1>1. \A x \in Message : ItemOf(x) \in Item
  BY DEF Message, Item, ItemOf
<1>2. \A x : Accesses(x, d) = All(Only(x, d))
  BY DEF Accesses, ItemOf
<1>3. ASSUME NEW ms \in Seq(Message), NEW x \in Message
      PROVE  /\ All(ms) \in Seq(Item)
             /\ All(Append(ms, x)) = Append(All(ms), ItemOf(x))
  <2> DEFINE n == Len(ms)
             a == Append(ms, x)
  <2>1. /\ n \in Nat /\ DOMAIN ms = 1 .. n /\ \A i \in 1 .. n : ms[i] \in Message
        /\ a \in Seq(Message) /\ DOMAIN a = 1 .. n + 1 /\ a[n + 1] = x
        /\ \A i \in 1 .. n : a[i] = ms[i]
    OBVIOUS
  <2> HIDE DEF n, a
  <2>2. All(ms) \in Seq(Item) /\ Len(All(ms)) = n
    <3>1. All(ms) \in [1 .. n -> Item]
      BY <1>1, <2>1
    <3> HIDE DEF All
    <3> QED
      BY <2>1, <3>1, SeqOfFunction
  <2>3. All(a) \in Seq(Item) /\ Len(All(a)) = n + 1
    <3>1. \A i \in 1 .. n + 1 : a[i] \in Message
      BY <2>1
    <3>2. All(a) \in [1 .. n + 1 -> Item]
      BY <1>1, <2>1, <3>1
    <3> HIDE DEF All
    <3> QED
      BY <2>1, <3>2, SeqOfFunction
  <2>4. (\A i \in 1 .. n : All(a)[i] = All(ms)[i]) /\ All(a)[n + 1] = ItemOf(x)
    BY <2>1
  <2> HIDE DEF All
  <2> DEFINE e == Append(All(ms), ItemOf(x))
  <2>5. e \in Seq(Item) /\ Len(e) = n + 1
        /\ (\A i \in 1 .. n : e[i] = All(ms)[i]) /\ e[n + 1] = ItemOf(x)
    BY <1>1, <2>1, <2>2
  <2> HIDE DEF e
  <2>6. \A i \in 1 .. n + 1 : e[i] = All(a)[i]
    <3>1. \A i \in 1 .. n + 1 : i \in 1 .. n \/ i = n + 1
      BY <2>1
    <3> QED
      BY <2>4, <2>5, <3>1
  <2>7. e = All(a)
    BY <2>3, <2>5, <2>6
  <2> QED
    BY <2>2, <2>7 DEF a, e
<1> HIDE DEF All
<1>4. Only(q, d) \in Seq(Message)
  BY OnlyAt
<1>5. Only(Append(q, h), d) = IF IsAccess(h, d) THEN Append(Only(q, d), h) ELSE Only(q, d)
  BY OnlyAppend
<1> QED
  BY <1>1, <1>2, <1>3, <1>4, <1>5

\* ... and when one is taken away
LEMMA AccessesTail ==
    ASSUME NEW q \in Seq(Message), q # <<>>, NEW d
    PROVE  IF IsAccess(Head(q), d)
           THEN /\ Accesses(q, d) # <<>>
                /\ Head(Accesses(q, d)) = ItemOf(Head(q))
                /\ Accesses(Tail(q), d) = Tail(Accesses(q, d))
           ELSE Accesses(Tail(q), d) = Accesses(q, d)
<1> DEFINE W(x) == ItemOf(x)
<1>1. \A x : Accesses(x, d) = [i \in DOMAIN Only(x, d) |-> W(Only(x, d)[i])]
  BY DEF Accesses, ItemOf
<1>2. Only(q, d) \in Seq(Message)
  BY OnlyAt
<1>3. IF IsAccess(Head(q), d)
      THEN /\ Only(q, d) # <<>>
           /\ Head(Only(q, d)) = Head(q)
           /\ Only(Tail(q), d) = Tail(Only(q, d))
      ELSE Only(Tail(q), d) = Only(q, d)
  BY OnlyTail
<1> HIDE DEF W
<1>4. \A ms \in Seq(Message) : ms # <<>> =>
         /\ [i \in DOMAIN ms |-> W(ms[i])] # <<>>
         /\ Head([i \in DOMAIN ms |-> W(ms[i])]) = W(Head(ms))
         /\ [i \in DOMAIN Tail(ms) |-> W(Tail(ms)[i])] = Tail([i \in DOMAIN ms |-> W(ms[i])])
  OBVIOUS
<1>5. IF IsAccess(Head(q), d)
      THEN /\ Accesses(q, d) # <<>>
           /\ Head(Accesses(q, d)) = W(Head(q))
           /\ Accesses(Tail(q), d) = Tail(Accesses(q, d))
      ELSE Accesses(Tail(q), d) = Accesses(q, d)
  BY <1>1, <1>2, <1>3, <1>4
<1> QED
  BY <1>5 DEF W

\* A queue without an access to the memory of d; each of its accesses is one of
\* its messages.
LEMMA AccessesOf ==
    ASSUME NEW q \in Seq(Message), NEW d
    PROVE  /\ (\A i \in DOMAIN q : ~IsAccess(q[i], d)) => Accesses(q, d) = <<>>
           /\ \A k \in DOMAIN Accesses(q, d) :
                 \E i \in DOMAIN q : IsAccess(q[i], d) /\ Accesses(q, d)[k].op = q[i].op
<1>1. DOMAIN Accesses(q, d) = DOMAIN Only(q, d)
      /\ \A k \in DOMAIN Only(q, d) : Accesses(q, d)[k] = ItemOf(Only(q, d)[k])
  BY DEF Accesses, ItemOf
<1>2. DOMAIN Only(q, d) = 1 .. Upto(q, d, Len(q))
      /\ \A i \in DOMAIN q : IsAccess(q[i], d) => Only(q, d)[Upto(q, d, i)] = q[i]
  BY OnlyAt
<1>3. ASSUME NEW k \in DOMAIN Accesses(q, d)
      PROVE  \E i \in DOMAIN q : IsAccess(q[i], d) /\ Accesses(q, d)[k].op = q[i].op
  <2>1. PICK i \in DOMAIN q : IsAccess(q[i], d) /\ Upto(q, d, i) = k
    BY <1>1, <1>2, UptoOnto
  <2>2. Accesses(q, d)[k] = ItemOf(q[i])
    BY <1>1, <1>2, <2>1
  <2> QED
    BY <2>1, <2>2 DEF ItemOf
<1>4. ASSUME \A i \in DOMAIN q : ~IsAccess(q[i], d) PROVE Accesses(q, d) = <<>>
  <2>1. DOMAIN Accesses(q, d) = {}
    BY <1>3, <1>4
  <2>2. Only(q, d) \in Seq(Message) /\ DOMAIN Only(q, d) = {}
    BY <1>1, <2>1, OnlyAt
  <2>3. Only(q, d) = <<>>
    BY <2>2
  <2> QED
    BY <2>3 DEF Accesses
<1> QED
  BY <1>3, <1>4

-----------------------------------------------------------------------------
(* The accesses of a rank under way, at the steps of the runtime *)

OnWaySame == \A s, d \in Rank : OnWay(s, d)' = OnWay(s, d)

\* Only the accesses of s to d change.
OthersOnWay(s, d) ==
    \A x, y \in Rank : ~(x = s /\ y = d) => OnWay(x, y)' = OnWay(x, y)

LEMMA WayOf ==
    ASSUME TypeInv, UNCHANGED <<job, master>>, NEW s \in Rank, NEW d \in Rank
    PROVE  /\ ~(s \in Worker /\ d \in Ranks) => OnWay(s, d) = <<>> /\ OnWay(s, d)' = <<>>
           /\ s \in Worker /\ d \in Ranks =>
                 /\ master[d] \in Server /\ Ongoing(s, master[d]) \in Seq(Message)
                 /\ OnWay(s, d) = Accesses(Ongoing(s, master[d]), d)
                 /\ \A q : Ongoing(s, master[d])' = q => OnWay(s, d)' = Accesses(q, d)
           /\ OnWay(s, d) \in Seq(Item)
<1>1. JobOK /\ LinksOK /\ MemoryOK
  BY DEF TypeInv
<1>2. Worker' = Worker /\ Ranks' = Ranks
  BY SameHosts
<1>3. ~(s \in Worker /\ d \in Ranks) => OnWay(s, d) = <<>> /\ OnWay(s, d)' = <<>>
  BY <1>2 DEF OnWay
<1>4. ASSUME s \in Worker, d \in Ranks
      PROVE  /\ master[d] \in Server /\ Ongoing(s, master[d]) \in Seq(Message)
             /\ OnWay(s, d) = Accesses(Ongoing(s, master[d]), d)
             /\ \A q : Ongoing(s, master[d])' = q => OnWay(s, d)' = Accesses(q, d)
  <2>1. master[d] \in Server
    BY <1>1, <1>4, Hosts
  <2>2. Ongoing(s, master[d]) \in Seq(Message)
    BY <1>1, <1>4, <2>1, OngoingFacts
  <2>3. OnWay(s, d) = Accesses(Ongoing(s, master[d]), d)
    BY <1>4 DEF OnWay
  <2>4. OnWay(s, d)' = Accesses(Ongoing(s, master[d])', d)
    BY <1>2, <1>4 DEF OnWay
  <2> QED
    BY <2>1, <2>2, <2>3, <2>4
<1>5. OnWay(s, d) \in Seq(Item)
  <2>1. ASSUME NEW q \in Seq(Message) PROVE Accesses(q, d) \in Seq(Item)
    <3>1. Only(q, d) \in Seq(Message) /\ DOMAIN Only(q, d) = 1 .. Upto(q, d, Len(q))
          /\ Upto(q, d, Len(q)) \in Nat
      BY OnlyAt
    <3>2. \A k \in DOMAIN Only(q, d) : ItemOf(Only(q, d)[k]) \in Item
      <4>1. \A x \in Message : ItemOf(x) \in Item
        BY DEF Message, Item, ItemOf
      <4>2. \A k \in DOMAIN Only(q, d) : Only(q, d)[k] \in Message
        BY <3>1
      <4> QED
        BY <4>1, <4>2
    <3>3. Accesses(q, d) = [k \in DOMAIN Only(q, d) |-> ItemOf(Only(q, d)[k])]
      BY DEF Accesses, ItemOf
    <3>4. Accesses(q, d) \in [1 .. Upto(q, d, Len(q)) -> Item]
      BY <3>1, <3>2, <3>3
    <3> QED
      BY <3>1, <3>4, SeqOfFunction
  <2>2. <<>> \in Seq(Item)
    OBVIOUS
  <2>3. CASE ~(s \in Worker /\ d \in Ranks)
    BY <1>3, <2>2, <2>3
  <2>4. CASE s \in Worker /\ d \in Ranks
    BY <1>4, <2>1, <2>4
  <2> QED
    BY <2>3, <2>4
<1> QED
  BY <1>3, <1>4, <1>5

LEMMA WaySame ==
    ASSUME TypeInv, UNCHANGED <<job, master>>,
           \A v \in Worker, k \in Server : Ongoing(v, k)' = Ongoing(v, k)
    PROVE  OnWaySame
<1> SUFFICES ASSUME NEW s \in Rank, NEW d \in Rank PROVE OnWay(s, d)' = OnWay(s, d)
  BY DEF OnWaySame
<1>1. CASE ~(s \in Worker /\ d \in Ranks)
  BY <1>1, WayOf
<1>2. CASE s \in Worker /\ d \in Ranks
  <2>1. master[d] \in Server /\ master[d]' = master[d]
    BY <1>2, WayOf
  <2>2. Ongoing(s, master[d])' = Ongoing(s, master[d])
    BY <1>2, <2>1
  <2> QED
    BY <1>2, <2>2, WayOf
<1> QED
  BY <1>1, <1>2

\* What a message adds
LEMMA LinkAdded ==
    ASSUME TypeInv, TypeInv', UNCHANGED <<job, master>>, NEW w \in Worker, NEW ms, NEW h,
           Send(w, ms, h), \A k \in Server : srv'[k] = srv[k]
    PROVE  \A v \in Worker, m \in Server :
              IF v = w /\ m \in ms
              THEN h \in Message /\ Ongoing(v, m)' = Append(Ongoing(v, m), h)
              ELSE Ongoing(v, m)' = Ongoing(v, m)
<1> TAKE v \in Worker, m \in Server
<1>1. JobOK /\ LinksOK /\ MemoryOK /\ Worker' = Worker /\ Server' = Server
  BY SameHosts DEF TypeInv
<1>2. chan \in [Worker -> [Server -> Seq(Message)]]
      /\ chan' \in [Worker -> [Server -> Seq(Message)]]
  <2>1. LinksOK'
    BY DEF TypeInv
  <2> QED
    BY <1>1, <2>1 DEF LinksOK, ChanOK
<1>3. chan'[v][m] = IF v = w /\ m \in ms THEN Append(chan[v][m], h) ELSE chan[v][m]
  <2>1. chan[w] = [k \in Server |-> chan[w][k]]
    BY <1>2
  <2> QED
    BY <1>2, <2>1 DEF Send
<1>4. CASE ~(v = w /\ m \in ms)
  <2>1. Ongoing(v, m)' = Ongoing(v, m)
    BY <1>3, <1>4, SameOngoing
  <2> QED
    BY <1>4, <2>1
<1>5. CASE v = w /\ m \in ms
  <2>1. chan[v][m] \in Seq(Message) /\ chan'[v][m] \in Seq(Message)
    BY <1>2
  <2>2. chan'[v][m] = Append(chan[v][m], h)
    BY <1>3, <1>5
  <2>3. h \in Message
    <3>1. Len(chan[v][m]) + 1 \in DOMAIN chan'[v][m]
          /\ chan'[v][m][Len(chan[v][m]) + 1] = h
      BY <2>1, <2>2
    <3> QED
      BY <2>1, <3>1, ElementOfSeq
  <2> DEFINE pre == IF m \in Server /\ srv[m] # <<>> /\ srv[m][1].from = v
                    THEN <<srv[m][1].msg>> ELSE <<>>
  <2>4. Ongoing(v, m) = pre \o chan[v][m]
    BY DEF Ongoing
  <2>5. Ongoing(v, m)' = pre \o chan'[v][m]
    BY <1>1 DEF Ongoing
  <2>6. pre \o Append(chan[v][m], h) = Append(pre \o chan[v][m], h)
    <3>1. CASE srv[m] # <<>> /\ srv[m][1].from = v
      <4>1. srv[m][1].msg \in Message /\ pre = <<srv[m][1].msg>>
        BY <1>1, <3>1, OngoingFacts
      <4> HIDE DEF pre
      <4> QED
        BY <2>1, <2>3, <4>1, ConcatFacts
    <3>2. CASE ~(srv[m] # <<>> /\ srv[m][1].from = v)
      <4>1. pre = <<>>
        BY <3>2
      <4>2. Append(chan[v][m], h) \in Seq(Message)
        BY <2>1, <2>3
      <4> HIDE DEF pre
      <4> QED
        BY <2>1, <2>3, <4>1, <4>2, ConcatFacts
    <3> QED
      BY <3>1, <3>2
  <2> HIDE DEF pre
  <2> QED
    BY <1>5, <2>2, <2>3, <2>4, <2>5, <2>6
<1> QED
  BY <1>4, <1>5

LEMMA WayAdded ==
    ASSUME TypeInv, TypeInv', UNCHANGED <<job, master>>, NEW w \in Worker, NEW ms, NEW h,
           Send(w, ms, h), \A k \in Server : srv'[k] = srv[k]
    PROVE  \A s, d \in Rank :
              OnWay(s, d)' = IF s = w /\ d \in Ranks /\ master[d] \in ms /\ IsAccess(h, d)
                             THEN Append(OnWay(s, d), ItemOf(h)) ELSE OnWay(s, d)
<1> TAKE s, d \in Rank
<1>1. CASE ~(s \in Worker /\ d \in Ranks)
  BY <1>1, WayOf
<1>2. CASE s \in Worker /\ d \in Ranks
  <2>1. /\ master[d] \in Server /\ Ongoing(s, master[d]) \in Seq(Message) /\ master[d]' = master[d]
        /\ OnWay(s, d) = Accesses(Ongoing(s, master[d]), d)
    BY <1>2, WayOf
  <2>2. CASE ~(s = w /\ master[d] \in ms)
    <3>1. Ongoing(s, master[d])' = Ongoing(s, master[d])
      BY <1>2, <2>1, <2>2, LinkAdded
    <3> QED
      BY <1>2, <2>2, <3>1, WayOf
  <2>3. CASE s = w /\ master[d] \in ms
    <3>1. h \in Message /\ Ongoing(s, master[d])' = Append(Ongoing(s, master[d]), h)
      BY <1>2, <2>1, <2>3, LinkAdded
    <3>2. OnWay(s, d)' = Accesses(Append(Ongoing(s, master[d]), h), d)
      BY <1>2, <3>1, WayOf
    <3> QED
      BY <1>2, <2>1, <2>3, <3>1, <3>2, AccessesAppend
  <2> QED
    BY <2>2, <2>3
<1> QED
  BY <1>1, <1>2

\* What a message takes away when it is handled
LEMMA WayTaken ==
    ASSUME TypeInv, UNCHANGED <<job, master>>, NEW w \in Worker, NEW m \in Server,
           Ongoing(w, m) # <<>>, Ongoing(w, m)' = Tail(Ongoing(w, m)),
           \A v \in Worker, k \in Server : v # w \/ k # m => Ongoing(v, k)' = Ongoing(v, k)
    PROVE  \A s, d \in Rank :
              LET h == Head(Ongoing(w, m))
              IN  IF s = w /\ d \in Ranks /\ master[d] = m /\ IsAccess(h, d)
                  THEN /\ OnWay(s, d) # <<>> /\ Head(OnWay(s, d)) = ItemOf(h)
                       /\ OnWay(s, d)' = Tail(OnWay(s, d))
                  ELSE OnWay(s, d)' = OnWay(s, d)
<1> TAKE s, d \in Rank
<1>1. CASE ~(s \in Worker /\ d \in Ranks)
  BY <1>1, WayOf
<1>2. CASE s \in Worker /\ d \in Ranks
  <2>1. master[d] \in Server /\ Ongoing(s, master[d]) \in Seq(Message) /\ master[d]' = master[d]
    BY <1>2, WayOf
  <2>2. CASE ~(s = w /\ master[d] = m)
    <3>1. Ongoing(s, master[d])' = Ongoing(s, master[d])
      BY <1>2, <2>1, <2>2
    <3> QED
      BY <1>2, <2>2, <3>1, WayOf
  <2>3. CASE s = w /\ master[d] = m
    <3>1. Ongoing(s, master[d])' = Tail(Ongoing(w, m))
      BY <2>1, <2>3
    <3>2. OnWay(s, d)' = Accesses(Tail(Ongoing(w, m)), d)
      BY <1>2, <3>1, WayOf
    <3>3. OnWay(s, d) = Accesses(Ongoing(w, m), d)
      BY <1>2, <2>3, WayOf
    <3>4. Ongoing(w, m) \in Seq(Message)
      BY <2>1, <2>3
    <3> QED
      BY <1>2, <2>3, <3>2, <3>3, <3>4, AccessesTail
  <2> QED
    BY <2>2, <2>3
<1> QED
  BY <1>1, <1>2

-----------------------------------------------------------------------------
(* The steps of OneSided in terms of the runtime *)

Grid(P) == P = [x \in Rank |-> [y \in Rank |-> P[x][y]]]

DiffersAt(P, Q, s, d) ==
    \A x, y \in Rank : ~(x = s /\ y = d) => Q[x][y] = P[x][y]

LEMMA GridExcept ==
    ASSUME NEW P, Grid(P), NEW Q, Grid(Q), NEW s \in Rank, NEW d \in Rank,
           DiffersAt(P, Q, s, d)
    PROVE  Q = [P EXCEPT ![s][d] = Q[s][d]]
<1>0. /\ P = [x \in Rank |-> [y \in Rank |-> P[x][y]]]
      /\ Q = [x \in Rank |-> [y \in Rank |-> Q[x][y]]]
      /\ \A x, y \in Rank : ~(x = s /\ y = d) => Q[x][y] = P[x][y]
  BY DEF Grid, DiffersAt
<1> DEFINE R == [P EXCEPT ![s][d] = Q[s][d]]
<1>1. /\ R = [x \in Rank |-> R[x]]
      /\ \A x \in Rank : x # s => R[x] = P[x]
      /\ R[s] = [P[s] EXCEPT ![d] = Q[s][d]]
  BY <1>0
<1>2. R[s] = [y \in Rank |-> IF y = d THEN Q[s][d] ELSE P[s][y]]
  BY <1>0, <1>1
<1>3. \A x \in Rank : R[x] = Q[x]
  <2> TAKE x \in Rank
  <2>1. Q[x] = [y \in Rank |-> Q[x][y]] /\ P[x] = [y \in Rank |-> P[x][y]]
    BY <1>0
  <2>2. CASE x = s
    <3>1. \A y \in Rank : (IF y = d THEN Q[s][d] ELSE P[s][y]) = Q[s][y]
      BY <1>0
    <3> HIDE DEF R
    <3> QED
      BY <1>2, <2>1, <2>2, <3>1
  <2>3. CASE x # s
    <3>1. \A y \in Rank : Q[x][y] = P[x][y]
      BY <1>0, <2>3
    <3> HIDE DEF R
    <3> QED
      BY <1>1, <2>1, <2>3, <3>1
  <2> QED
    BY <2>2, <2>3
<1> HIDE DEF R
<1>4. R = Q
  BY <1>0, <1>1, <1>3
<1> QED
  BY <1>4 DEF R

LEMMA PendAt ==
    /\ Grid(Pend) /\ Grid(Pend')
    /\ \A s, d \in Rank : Pend[s][d] = OnWay(s, d) /\ Pend'[s][d] = OnWay(s, d)'
BY DEF Pend, Grid

LEMMA PendKept ==
    ASSUME OnWaySame
    PROVE  Pend' = Pend
BY DEF OnWaySame, Pend

LEMMA PendMoved ==
    ASSUME NEW s \in Rank, NEW d \in Rank, NEW v, OnWay(s, d)' = v, OthersOnWay(s, d)
    PROVE  Pend' = [Pend EXCEPT ![s][d] = v]
<1>1. DiffersAt(Pend, Pend', s, d)
  BY PendAt DEF DiffersAt, OthersOnWay
<1>2. Pend' = [Pend EXCEPT ![s][d] = Pend'[s][d]]
  BY <1>1, PendAt, GridExcept
<1> QED
  BY <1>2, PendAt

\* What a worker has of comex_fence_proc stays as it is.
ReliedSame == \A s \in Worker, d \in Ranks : Relied(s, d)' <=> Relied(s, d)
ReliedOf(s) == \A d \in Ranks : Relied(s, d)' <=> Relied(s, d)

LEMMA DirtyAt ==
    /\ Dirty = [v \in Rank |-> Dirty[v]] /\ Dirty' = [v \in Rank |-> Dirty'[v]]
    /\ \A v, y \in Rank :
         /\ Dirty[v][y] = IF v \in Worker /\ y \in Ranks
                          THEN fence[v][master[y]] /\ ~Relied(v, y) ELSE FALSE
         /\ Dirty'[v][y] = IF v \in Worker' /\ y \in Ranks'
                           THEN fence'[v][master'[y]] /\ ~Relied(v, y)' ELSE FALSE
    /\ \A v \in Rank : /\ Dirty[v] = [y \in Rank |-> Dirty[v][y]]
                       /\ Dirty'[v] = [y \in Rank |-> Dirty'[v][y]]
BY DEF Dirty

\* The flags of one worker alone change.
LEMMA DirtyAlone ==
    ASSUME TypeInv, UNCHANGED <<job, master>>, NEW s \in Worker,
           \A v \in Worker \ {s} : fence'[v] = fence[v] /\ ReliedOf(v)
    PROVE  Dirty' = [Dirty EXCEPT ![s] = Dirty'[s]]
<1>1. Worker' = Worker /\ Ranks' = Ranks /\ s \in Rank
  BY SameHosts, Hosts DEF TypeInv
<1>2. \A v \in Rank \ {s} : Dirty'[v] = Dirty[v]
  <2> TAKE v \in Rank \ {s}
  <2>1. \A y \in Rank : Dirty'[v][y] = Dirty[v][y]
    <3> TAKE y \in Rank
    <3>1. CASE v \in Worker /\ y \in Ranks
      <4>1. fence'[v] = fence[v] /\ (Relied(v, y)' <=> Relied(v, y))
        BY <3>1 DEF ReliedOf
      <4> QED
        BY <1>1, <3>1, <4>1, DirtyAt
    <3>2. CASE ~(v \in Worker /\ y \in Ranks)
      <4>1. Dirty[v][y] = FALSE
        BY <3>2, DirtyAt
      <4>2. Dirty'[v][y] = FALSE
        BY <1>1, <3>2, DirtyAt
      <4> QED
        BY <4>1, <4>2
    <3> QED
      BY <3>1, <3>2
  <2> QED
    BY <2>1, DirtyAt
<1> QED
  BY <1>1, <1>2, DirtyAt

\* What is left alone looks the same.
LEMMA ViewKept ==
    ASSUME UNCHANGED <<job, master>>
    PROVE  /\ got' = got => Log' = Log
           /\ held' = held => Holding' = Holding
           /\ fence' = fence /\ ReliedSame => Dirty' = Dirty
<1>1. Worker' = Worker /\ Ranks' = Ranks
  BY SameHosts
<1>2. ASSUME fence' = fence, ReliedSame PROVE Dirty' = Dirty
  <2>1. \A v, y \in Rank : Dirty'[v][y] = Dirty[v][y]
    <3> TAKE v, y \in Rank
    <3>1. CASE v \in Worker /\ y \in Ranks
      <4>1. Relied(v, y)' <=> Relied(v, y)
        BY <1>2, <3>1 DEF ReliedSame
      <4> QED
        BY <1>1, <1>2, <3>1, <4>1, DirtyAt
    <3>2. CASE ~(v \in Worker /\ y \in Ranks)
      <4>1. Dirty[v][y] = FALSE
        BY <3>2, DirtyAt
      <4>2. Dirty'[v][y] = FALSE
        BY <1>1, <3>2, DirtyAt
      <4> QED
        BY <4>1, <4>2
    <3> QED
      BY <3>1, <3>2
  <2>2. \A v \in Rank : Dirty'[v] = Dirty[v]
    BY <2>1, DirtyAt
  <2> QED
    BY <2>2, DirtyAt
<1> QED
  BY <1>1, <1>2 DEF Log, Holding

LEMMA MapStutter ==
    ASSUME UNCHANGED <<job, master, mem, got, fence, held>>, OnWaySame, ReliedSame
    PROVE  UNCHANGED Promise!ovars
BY PendKept, ViewKept DEF Promise!ovars

\* A request is added to the accesses of s to d.
LEMMA MapAppended ==
    ASSUME NEW s \in Rank, NEW d \in Rank, NEW i \in Item, OnWay(s, d) \in Seq(Item),
           OnWay(s, d)' = Append(OnWay(s, d), i), OthersOnWay(s, d)
    PROVE  Promise!Appended(s, d) /\ Promise!Newest(s, d) = i
<1>1. /\ Pend[s][d] = OnWay(s, d) /\ Pend'[s][d] = Append(Pend[s][d], i)
      /\ Pend' = [Pend EXCEPT ![s][d] = Append(@, i)]
  BY PendAt, PendMoved
<1>2. Len(Pend'[s][d]) = Len(Pend[s][d]) + 1 /\ Pend'[s][d][Len(Pend'[s][d])] = i
  BY <1>1
<1> QED
  BY <1>1, <1>2 DEF Promise!Appended, Promise!Newest

LEMMA MapWrite ==
    ASSUME TypeInv, UNCHANGED <<job, master, mem, got, held>>, NEW s \in Worker, NEW d \in Ranks,
           NEW i \in Item, i.op # "OP_GET", OnWay(s, d)' = Append(OnWay(s, d), i),
           OthersOnWay(s, d), fence' = [fence EXCEPT ![s][master[d]] = TRUE],
           \A v \in Worker \ {s} : ReliedOf(v),
           ~Relied(s, d)', \A r \in Ranks : Relied(s, r)' => Relied(s, r)
    PROVE  Promise!Write(s, d)
<1>1. /\ JobOK /\ Worker \subseteq Rank /\ Ranks \subseteq Rank
      /\ \A r \in Ranks : master[r] \in Server
  BY Hosts DEF TypeInv
<1>2. Promise!Appended(s, d) /\ ~Promise!IsRead(Promise!Newest(s, d))
  <2>1. OnWay(s, d) \in Seq(Item)
    BY <1>1, WayOf
  <2> QED
    BY <1>1, <2>1, MapAppended DEF Promise!IsRead
<1>3. fence \in [Worker -> [Server -> BOOLEAN]]
  BY DEF TypeInv, MemoryOK, Flags
<1>4. Worker' = Worker /\ Ranks' = Ranks /\ master' = master
  BY SameHosts
<1>5. /\ \A v \in Worker \ {s} : fence'[v] = fence[v]
      /\ \A m \in Server : fence'[s][m] = (m = master[d] \/ fence[s][m])
  <2>1. fence'[s] = [fence[s] EXCEPT ![master[d]] = TRUE] /\ fence[s] \in [Server -> BOOLEAN]
    BY <1>3
  <2> QED
    BY <1>3, <2>1
<1>6. Dirty' = [Dirty EXCEPT ![s] = Dirty'[s]]
  BY <1>5, DirtyAlone
<1>7. Dirty'[s][d]
  BY <1>1, <1>4, <1>5, DirtyAt
<1>8. ASSUME NEW r \in Rank, Dirty[s][r] PROVE Dirty'[s][r]
  <2>1. r \in Ranks /\ fence[s][master[r]] /\ ~Relied(s, r)
    BY <1>1, <1>8, DirtyAt
  <2>2. fence'[s][master[r]] /\ ~Relied(s, r)'
    BY <1>1, <1>5, <2>1
  <2> QED
    BY <1>1, <1>4, <2>1, <2>2, DirtyAt
<1> QED
  BY <1>2, <1>6, <1>7, <1>8, ViewKept DEF Promise!Write

LEMMA MapAskRead ==
    ASSUME UNCHANGED <<job, master, mem, got, fence, held>>, TypeInv, ReliedSame,
           NEW s \in Rank, NEW d \in Rank, NEW i \in Item, i.op = "OP_GET",
           OnWay(s, d)' = Append(OnWay(s, d), i), OthersOnWay(s, d)
    PROVE  Promise!AskRead(s, d)
<1>1. Promise!Appended(s, d) /\ Promise!IsRead(Promise!Newest(s, d))
  <2>1. OnWay(s, d) \in Seq(Item)
    BY WayOf
  <2> QED
    BY <2>1, MapAppended DEF Promise!IsRead
<1> QED
  BY <1>1, ViewKept DEF Promise!AskRead

\* The oldest of them arrives.
LEMMA MapArrive ==
    ASSUME UNCHANGED <<job, master, got, fence, held>>, ReliedSame,
           NEW s \in Rank, NEW d \in Rank, NEW i \in Item, i.op # "OP_GET",
           OnWay(s, d) # <<>>, Head(OnWay(s, d)) = i, OnWay(s, d)' = Tail(OnWay(s, d)),
           OthersOnWay(s, d),
           mem' = [mem EXCEPT ![d][i.loc] = IF i.op = "OP_ACC" THEN @ + i.val ELSE i.val]
    PROVE  Promise!Arrive(s, d)
<1>1. /\ Pend[s][d] # <<>> /\ Head(Pend[s][d]) = i
      /\ Pend' = [Pend EXCEPT ![s][d] = Tail(@)]
  BY PendAt, PendMoved
<1>2. mem' = [mem EXCEPT ![d][Head(Pend[s][d]).loc] = Promise!Written(@, Head(Pend[s][d]))]
  BY <1>1 DEF Promise!Written
<1>3. ~Promise!IsRead(Head(Pend[s][d]))
  BY <1>1 DEF Promise!IsRead
<1> QED
  BY <1>1, <1>2, <1>3, ViewKept DEF Promise!Arrive

LEMMA LogAppend ==
    ASSUME TypeInv, UNCHANGED <<job, master>>, NEW s \in Worker, NEW v,
           got' = [got EXCEPT ![s] = Append(@, v)], DOMAIN got = Worker
    PROVE  Log' = [Log EXCEPT ![s] = Append(@, v)]
<1>1. Worker' = Worker /\ Worker \subseteq Rank
  BY SameHosts, Hosts DEF TypeInv
<1> QED
  BY <1>1 DEF Log

LEMMA MapArriveRead ==
    ASSUME TypeInv, UNCHANGED <<job, master, mem, fence, held>>, DOMAIN got = Worker, ReliedSame,
           NEW s \in Worker, NEW d \in Rank, NEW i \in Item, i.op = "OP_GET",
           OnWay(s, d) # <<>>, Head(OnWay(s, d)) = i, OnWay(s, d)' = Tail(OnWay(s, d)),
           OthersOnWay(s, d),
           got' = [got EXCEPT ![s] = Append(@, mem[d][i.loc])]
    PROVE  Promise!Arrive(s, d)
<1>1. s \in Rank
  BY Hosts DEF TypeInv
<1>2. /\ Pend[s][d] # <<>> /\ Head(Pend[s][d]) = i
      /\ Pend' = [Pend EXCEPT ![s][d] = Tail(@)]
  BY <1>1, PendAt, PendMoved
<1>3. Log' = [Log EXCEPT ![s] = Append(@, mem[d][Head(Pend[s][d]).loc])]
  BY <1>2, LogAppend
<1>4. Promise!IsRead(Head(Pend[s][d]))
  BY <1>2 DEF Promise!IsRead
<1> QED
  BY <1>2, <1>3, <1>4, ViewKept DEF Promise!Arrive

\* The memory of d differs at most in cell c.
MemoryAt(d, c) == mem' = [mem EXCEPT ![d][c] = mem'[d][c]]

LEMMA MemoryOne ==
    ASSUME mem \in Cells, NEW d \in Rank, NEW c \in Somewhere, NEW v,
           mem' = [mem EXCEPT ![d][c] = v]
    PROVE  MemoryAt(d, c)
BY DEF MemoryAt, Cells

LEMMA MapWriteNow ==
    ASSUME UNCHANGED <<job, master, got, fence, held>>, OnWaySame, ReliedSame,
           NEW s \in Rank, NEW d \in Rank, NEW c \in Somewhere, MemoryAt(d, c),
           OnWay(s, d) = <<>>
    PROVE  Promise!WriteNow(s, d)
<1>1. Pend[s][d] = <<>> /\ Pend' = Pend
  BY PendAt, PendKept
<1> QED
  BY <1>1, ViewKept DEF Promise!WriteNow, MemoryAt, Somewhere

LEMMA MapRead ==
    ASSUME TypeInv, UNCHANGED <<job, master, mem, fence, held>>, OnWaySame, ReliedSame,
           DOMAIN got = Worker,
           NEW s \in Worker, NEW d \in Rank, NEW c \in Somewhere,
           got' = [got EXCEPT ![s] = Append(@, mem[d][c])], OnWay(s, d) = <<>>
    PROVE  Promise!Read(s, d)
<1>1. s \in Rank
  BY Hosts DEF TypeInv
<1>2. Pend[s][d] = <<>> /\ Pend' = Pend
  BY <1>1, PendAt, PendKept
<1>3. Log' = [Log EXCEPT ![s] = Append(@, mem[d][c])]
  BY LogAppend
<1> QED
  BY <1>2, <1>3, ViewKept DEF Promise!Read, Somewhere

LEMMA MapReadModifyWrite ==
    ASSUME TypeInv, UNCHANGED <<job, master, fence, held>>, OnWaySame, ReliedSame,
           DOMAIN got = Worker,
           NEW s \in Worker, NEW d \in Rank, NEW c \in Somewhere, MemoryAt(d, c),
           got' = [got EXCEPT ![s] = Append(@, mem[d][c])], OnWay(s, d) = <<>>
    PROVE  Promise!ReadModifyWrite(s, d)
<1>1. s \in Rank
  BY Hosts DEF TypeInv
<1>2. Pend[s][d] = <<>> /\ Pend' = Pend
  BY <1>1, PendAt, PendKept
<1>3. Log' = [Log EXCEPT ![s] = Append(@, mem[d][c])]
  BY LogAppend
<1> QED
  BY <1>2, <1>3, ViewKept DEF Promise!ReadModifyWrite, MemoryAt, Somewhere

LEMMA MapFence ==
    ASSUME TypeInv, UNCHANGED <<job, master, mem, got, held>>, OnWaySame, ReliedSame,
           NEW s \in Worker, fence' = [fence EXCEPT ![s] = [m \in Server |-> FALSE]],
           \A d \in Rank : \A k \in DOMAIN OnWay(s, d) : OnWay(s, d)[k].op = "OP_GET"
    PROVE  Promise!FenceOver(s)
<1>1. /\ JobOK /\ Worker \subseteq Rank /\ Ranks \subseteq Rank
      /\ \A r \in Ranks : master[r] \in Server
  BY Hosts DEF TypeInv
<1>2. Worker' = Worker /\ Ranks' = Ranks /\ master' = master
  BY SameHosts
<1>3. fence \in [Worker -> [Server -> BOOLEAN]]
  BY DEF TypeInv, MemoryOK, Flags
<1>4. /\ \A v \in Worker \ {s} : fence'[v] = fence[v]
      /\ \A m \in Server : fence'[s][m] = FALSE
  BY <1>3
<1>5. Dirty' = [Dirty EXCEPT ![s] = Dirty'[s]]
  BY <1>4, DirtyAlone DEF ReliedSame, ReliedOf
<1>6. \A d \in Rank : Dirty'[s][d] = FALSE
  <2> TAKE d \in Rank
  <2>1. CASE d \in Ranks
    BY <1>1, <1>2, <1>4, <2>1, DirtyAt
  <2>2. CASE d \notin Ranks
    BY <1>1, <1>2, <2>2, DirtyAt
  <2> QED
    BY <2>1, <2>2
<1>7. \A d \in Rank : Promise!NoWrite(Pend[s][d])
  <2> TAKE d \in Rank
  <2>1. Pend[s][d] = OnWay(s, d)
    BY <1>1, PendAt
  <2> QED
    BY <2>1 DEF Promise!NoWrite, Promise!IsRead
<1>8. Pend' = Pend
  BY PendKept
<1> QED
  BY <1>5, <1>6, <1>7, <1>8, ViewKept DEF Promise!FenceOver

\* comex_fence_proc covers one rank, if what is under way there are reads.
LEMMA MapFenceProc ==
    ASSUME TypeInv, UNCHANGED <<job, master, mem, got, fence, held>>, OnWaySame,
           FenceFlushes', NEW s \in Worker, NEW e \in Worker,
           \A v \in Worker \ {s} : ReliedOf(v),
           \A d \in Ranks : Relied(s, d)' <=> Relied(s, d) \/ d = e
    PROVE  Promise!FenceOver(s)
<1>1. JobOK /\ Worker \subseteq Rank /\ Ranks \subseteq Rank /\ Worker \subseteq Ranks
  BY Hosts DEF TypeInv
<1>2. Worker' = Worker /\ Ranks' = Ranks /\ master' = master
  BY SameHosts
<1>3. Dirty' = [Dirty EXCEPT ![s] = Dirty'[s]]
  BY DirtyAlone
<1>4. Pend' = Pend
  BY PendKept
<1>5. Promise!NoWrite(Pend[s][e])
  <2>1. Relied(s, e)'
    BY <1>1
  <2>2. \A i \in DOMAIN OnWay(s, e)' : Promise!IsRead(OnWay(s, e)'[i])
    BY <1>2, <2>1 DEF FenceFlushes, Promise!NoWrite
  <2>3. OnWay(s, e)' = OnWay(s, e) /\ Pend[s][e] = OnWay(s, e)
    BY <1>1, PendAt DEF OnWaySame
  <2> QED
    BY <2>2, <2>3 DEF Promise!NoWrite
<1>6. ASSUME NEW d \in Rank
      PROVE  IF Dirty[s][d] THEN Dirty'[s][d] \/ Promise!NoWrite(Pend[s][d]) ELSE ~Dirty'[s][d]
  <2>1. CASE d \notin Ranks
    BY <1>1, <1>2, <2>1, DirtyAt
  <2>2. CASE d = e
    <3>1. ~Dirty'[s][d]
      BY <1>1, <1>2, <2>2, DirtyAt
    <3> QED
      BY <1>5, <2>2, <3>1
  <2>3. CASE d \in Ranks /\ d # e
    <3>1. Relied(s, d)' <=> Relied(s, d)
      BY <2>3
    <3>2. Dirty'[s][d] = Dirty[s][d]
      BY <1>1, <1>2, <2>3, <3>1, DirtyAt
    <3> QED
      BY <3>2
  <2> QED
    BY <2>1, <2>2, <2>3
<1> QED
  BY <1>3, <1>4, <1>6, ViewKept DEF Promise!FenceOver

LEMMA MapHeld ==
    ASSUME TypeInv, UNCHANGED <<job, master, mem, got, fence>>, OnWaySame, ReliedSame,
           DOMAIN held = Worker,
           NEW s \in Worker, NEW v, held' = [held EXCEPT ![s] = v]
    PROVE  /\ held[s] \subseteq v /\ (\A u \in Worker \ {s} : held[u] \cap v = {})
              => Promise!Acquire(s)
           /\ v \subseteq held[s] => Promise!Release(s)
<1>1. Worker' = Worker /\ Worker \subseteq Rank /\ s \in Rank
  BY SameHosts, Hosts DEF TypeInv
<1>2. Holding' = [Holding EXCEPT ![s] = v]
  BY <1>1 DEF Holding
<1>3. Holding[s] = held[s] /\ Holding'[s] = v
  BY <1>1 DEF Holding
<1>4. \A d \in Rank : Holding[d] = IF d \in Worker THEN held[d] ELSE {}
  BY DEF Holding
<1>5. Pend' = Pend
  BY PendKept
<1>6. Holding' = [Holding EXCEPT ![s] = Holding'[s]]
  BY <1>2, <1>3
<1>7. ASSUME held[s] \subseteq v, \A u \in Worker \ {s} : held[u] \cap v = {}
      PROVE  Promise!Acquire(s)
  <2>1. \A d \in Rank : d # s => Holding[d] \cap Holding'[s] = {}
    BY <1>3, <1>4, <1>7
  <2> QED
    BY <1>3, <1>5, <1>6, <1>7, <2>1, ViewKept DEF Promise!Acquire
<1>8. ASSUME v \subseteq held[s] PROVE Promise!Release(s)
  BY <1>3, <1>5, <1>6, <1>8, ViewKept DEF Promise!Release
<1> QED
  BY <1>7, <1>8

-----------------------------------------------------------------------------
(* What the mapping rests on *)

Reaching == {"OP_PUT", "OP_ACC", "OP_GET"}

\* A message about memory is at the master of this memory, and it is not for
\* the memory of its sender unless it is a read-modify-write.
Homed(w, h, m) ==
    /\ h.op \in ToMem => h.rank \in Worker /\ master[h.rank] = m
    /\ h.op \in Reaching => h.rank # w

Home == \A w \in Worker, m \in Server :
            \A i \in DOMAIN Ongoing(w, m) : Homed(w, Ongoing(w, m)[i], m)

\* An accumulate in hand is that of the call, which reaches the memory.
Handy == \A w \in Worker : mode[w] = "acc" => Direct(w) /\ srv[w][1].msg.rank = Cur(w).to

\* What a master has read is still there.
Current == \A m \in Server : srv[m] # <<>> =>
               srv[m][1].old = mem[srv[m][1].msg.rank][srv[m][1].msg.id]

WayInv == Home /\ Handy /\ Current /\ DOMAIN got = Worker /\ DOMAIN held = Worker

\* What a worker sends, and when it is an access
LEMMA Posts ==
    ASSUME TypeInv, NEW w \in Worker, WorkerStep(w)
    PROVE  \/ UNCHANGED chan
           \/ \E ms, h : /\ Send(w, ms, h) /\ \A m \in ms : Homed(w, h, m)
                         /\ h.op \in Reaching => RemoteWrite(w) \/ RemoteGet(w)
<1> DEFINE Says == \E ms, h : /\ Send(w, ms, h) /\ \A m \in ms : Homed(w, h, m)
                              /\ h.op \in Reaching => RemoteWrite(w) \/ RemoteGet(w)
<1>0. \A ms, h : Send(w, ms, h) /\ h.op \notin ToMem => Says
  BY DEF Homed, Reaching, ToMem
<1>1. CASE DirectPut(w) \/ DirectGet(w) \/ DirectAcc(w) \/ DirectAccApply(w)
  BY <1>1 DEF DirectPut, DirectGet, DirectAcc, DirectAccApply
<1>2. CASE RemoteWrite(w) \/ RemoteGet(w) \/ Rmw(w)
  <2>1. Active(w) /\ Cur(w).to \in Worker
    <3>1. Active(w)
      BY <1>2 DEF RemoteWrite, RemoteGet, Rmw, Calling, At
    <3> QED
      BY <3>1, CallFacts DEF TypeInv
  <2>2. \E op, val : /\ Send(w, {master[Cur(w).to]}, Request(w, op, Cur(w).to, Target(w), val))
                     /\ op \in Reaching => ~Direct(w) /\ (RemoteWrite(w) \/ RemoteGet(w))
    <3>1. CASE RemoteWrite(w)
      BY <3>1 DEF RemoteWrite
    <3>2. CASE RemoteGet(w)
      BY <3>2 DEF RemoteGet
    <3>3. CASE Rmw(w)
      <4>1. Send(w, {master[Cur(w).to]},
                 Request(w, IF Cur(w).op = "fadd" THEN "OP_FETCH_AND_ADD" ELSE "OP_SWAP",
                         Cur(w).to, Target(w), Cur(w).val))
        BY <3>3 DEF Rmw, Ask
      <4>2. (IF Cur(w).op = "fadd" THEN "OP_FETCH_AND_ADD" ELSE "OP_SWAP") \notin Reaching
        BY DEF Reaching
      <4> QED
        BY <4>1, <4>2
    <3> QED
      BY <1>2, <3>1, <3>2, <3>3
  <2>3. PICK op, val :
            /\ Send(w, {master[Cur(w).to]}, Request(w, op, Cur(w).to, Target(w), val))
            /\ op \in Reaching => ~Direct(w) /\ (RemoteWrite(w) \/ RemoteGet(w))
    BY <2>2
  <2> DEFINE h == Request(w, op, Cur(w).to, Target(w), val)
  <2>4. h.op = op /\ h.rank = Cur(w).to
    BY DEF Request, Header
  <2>5. Homed(w, h, master[Cur(w).to])
    BY <2>1, <2>3, <2>4 DEF Homed, Direct
  <2> QED
    BY <2>3, <2>4, <2>5
<1>3. CASE Return(w) \/ Wait(w) \/ Test(w) \/ WaitAll(w) \/ FenceProc(w) \/ Release(w) \/ Exhausted(w)
  BY <1>3 DEF Return, Wait, Test, WaitAll, FenceProc, Complete, Release, Exhausted
<1>4. CASE Fence(w)
  <2> DEFINE h == Request(w, "OP_FENCE", 0, Null, 0)
  <2>1. UNCHANGED chan \/ (Send(w, Flagged(w), h) /\ h.op \notin ToMem)
    BY <1>4 DEF Fence, Ask, Request, Header, ToMem
  <2> QED
    BY <1>0, <2>1
<1>5. CASE Notify(w)
  <2> DEFINE h == Header(w, IF Cur(w).op = "malloc" THEN "OP_MALLOC" ELSE "OP_FREE",
                         0, Null, 0, Entries(w))
  <2>1. UNCHANGED chan \/ (Send(w, {master[w]}, h) /\ h.op \notin ToMem)
    BY <1>5 DEF Notify, Ask, Header, ToMem
  <2> QED
    BY <1>0, <2>1
<1>6. CASE Create(w)
  <2> DEFINE h == Request(w, "OP_CREATE_MUTEXES", 0, Null, Cur(w).val)
  <2>1. Send(w, {master[w]}, h) /\ h.op \notin ToMem
    BY <1>6 DEF Create, Ask, Request, Header, ToMem
  <2> QED
    BY <1>0, <2>1
<1>7. CASE Destroy(w)
  <2>1. UNCHANGED chan \/ \E n : Send(w, {master[w]}, Request(w, "OP_DESTROY_MUTEXES", 0, Null, n))
    BY <1>7 DEF Destroy, Ask
  <2>2. \A n : Request(w, "OP_DESTROY_MUTEXES", 0, Null, n).op \notin ToMem
    BY DEF Request, Header, ToMem
  <2> QED
    BY <1>0, <2>1, <2>2
<1>8. CASE Lock(w)
  <2> DEFINE h == Request(w, "OP_LOCK", Cur(w).to, Cur(w).val, 0)
  <2>1. Send(w, {master[Cur(w).to]}, h) /\ h.op \notin ToMem
    BY <1>8 DEF Lock, Ask, Request, Header, ToMem
  <2> QED
    BY <1>0, <2>1
<1>9. CASE Unlock(w)
  <2> DEFINE h == Request(w, "OP_UNLOCK", Cur(w).to, Cur(w).val, 0)
  <2>1. Send(w, {master[Cur(w).to]}, h) /\ h.op \notin ToMem
    BY <1>9 DEF Unlock, Request, Header, ToMem
  <2> QED
    BY <1>0, <2>1
<1>10. CASE SendQuit(w)
  <2> DEFINE h == Request(w, "OP_QUIT", 0, Null, 0)
  <2>1. UNCHANGED chan \/ (Send(w, {master[w]}, h) /\ h.op \notin ToMem)
    BY <1>10 DEF SendQuit, Request, Header, ToMem
  <2> QED
    BY <1>0, <2>1
<1> QED
  BY <1>1, <1>2, <1>3, <1>4, <1>5, <1>6, <1>7, <1>8, <1>9, <1>10 DEF WorkerStep

\* A worker has nothing in hand but its own accumulate.
LEMMA HandsApart ==
    ASSUME TypeInv, NEW w \in Worker, WorkerStep(w)
    PROVE  /\ \A r \in Ranks \ {w} : srv'[r] = srv[r]
           /\ \A m \in Server : srv'[m] = srv[m]
<1>1. srv \in Updates /\ w \notin Server /\ Server \subseteq Ranks
  BY Hosts DEF TypeInv, MemoryOK
<1>2. CASE DirectAcc(w) \/ DirectAccApply(w)
  BY <1>1, <1>2 DEF DirectAcc, DirectAccApply, Updates
<1>3. CASE DirectPut(w) \/ DirectGet(w) \/ RemoteWrite(w) \/ RemoteGet(w) \/ Rmw(w) \/ Return(w)
           \/ Wait(w) \/ Test(w) \/ WaitAll(w) \/ FenceProc(w) \/ Fence(w)
  BY <1>1, <1>3 DEF DirectPut, DirectGet, RemoteWrite, RemoteGet, Rmw, Return, Wait, Test,
                    WaitAll, FenceProc, Complete, Fence, servers
<1>4. CASE Notify(w) \/ Release(w) \/ Create(w) \/ Destroy(w) \/ Lock(w) \/ Unlock(w)
           \/ SendQuit(w) \/ Exhausted(w)
  BY <1>1, <1>4 DEF Notify, Release, Create, Destroy, Lock, Unlock, SendQuit, Exhausted, servers
<1> QED
  BY <1>2, <1>3, <1>4 DEF WorkerStep

\* A call that is no access through a master leaves the accesses alone.
LEMMA WayByWorker ==
    ASSUME TypeInv, TypeInv', UNCHANGED <<job, master>>, NEW w \in Worker, WorkerStep(w),
           ~RemoteWrite(w), ~RemoteGet(w)
    PROVE  OnWaySame
<1>1. \A m \in Server : srv'[m] = srv[m]
  BY HandsApart
<1>2. CASE UNCHANGED chan
  <2>1. \A v \in Worker, k \in Server : Ongoing(v, k)' = Ongoing(v, k)
    BY <1>1, <1>2, SameOngoing
  <2> QED
    BY <2>1, WaySame
<1>3. ASSUME NEW ms, NEW h, Send(w, ms, h), h.op \notin Reaching
      PROVE  OnWaySame
  <2>1. \A d : ~IsAccess(h, d)
    BY <1>3 DEF IsAccess, Reaching
  <2>2. \A s, d \in Rank : OnWay(s, d)' = OnWay(s, d)
    BY <1>1, <1>3, <2>1, WayAdded
  <2> QED
    BY <2>2 DEF OnWaySame
<1> QED
  BY <1>2, <1>3, Posts

LEMMA HomeByWorker ==
    ASSUME TypeInv, TypeInv', Home, UNCHANGED <<job, master>>, NEW w \in Worker, WorkerStep(w)
    PROVE  Home'
<1>1. Worker' = Worker /\ Server' = Server /\ master' = master
  BY SameHosts
<1>2. \A m \in Server : srv'[m] = srv[m]
  BY HandsApart
<1>3. SUFFICES ASSUME NEW v \in Worker, NEW m \in Server, NEW i \in DOMAIN Ongoing(v, m)'
               PROVE  Homed(v, Ongoing(v, m)'[i], m)
  BY <1>1 DEF Home, Homed
<1>4. CASE Ongoing(v, m)' = Ongoing(v, m)
  BY <1>3, <1>4 DEF Home
<1>5. CASE UNCHANGED chan
  BY <1>2, <1>4, <1>5, SameOngoing
<1>6. ASSUME NEW ms, NEW h, Send(w, ms, h), \A k \in ms : Homed(w, h, k)
      PROVE  Homed(v, Ongoing(v, m)'[i], m)
  <2>1. CASE ~(v = w /\ m \in ms)
    BY <1>2, <1>4, <1>6, <2>1, LinkAdded
  <2>2. CASE v = w /\ m \in ms
    <3>1. h \in Message /\ Ongoing(v, m)' = Append(Ongoing(v, m), h)
      BY <1>2, <1>6, <2>2, LinkAdded
    <3>2. Ongoing(v, m) \in Seq(Message)
      BY LinkTypes
    <3>3. i \in DOMAIN Append(Ongoing(v, m), h)
      BY <1>3, <3>1
    <3>4. \/ i \in DOMAIN Ongoing(v, m) /\ Ongoing(v, m)'[i] = Ongoing(v, m)[i]
          \/ Ongoing(v, m)'[i] = h
      BY <3>1, <3>2, <3>3, AppendFacts
    <3> QED
      BY <1>6, <2>2, <3>4 DEF Home
  <2> QED
    BY <2>1, <2>2
<1> QED
  BY <1>5, <1>6, Posts

\* What a server does to the messages under way: nothing, or it is done with
\* the first of a worker.
LEMMA Hears ==
    ASSUME TypeInv, UNCHANGED <<job, master>>, NEW m \in Server, ServerStep(m)
    PROVE  \/ \A v \in Worker, k \in Server : Ongoing(v, k)' = Ongoing(v, k)
           \/ \E w \in Worker :
                 /\ Ongoing(w, m) # <<>> /\ Ongoing(w, m)' = Tail(Ongoing(w, m))
                 /\ \A v \in Worker, k \in Server :
                       v # w \/ k # m => Ongoing(v, k)' = Ongoing(v, k)
                 /\ Head(Ongoing(w, m)).op \in Reaching =>
                       PutHandler(m, w) \/ GetHandler(m, w) \/ AccApply(m)
<1> DEFINE HeadDone(w) ==
             /\ Ongoing(w, m) # <<>> /\ Ongoing(w, m)' = Tail(Ongoing(w, m))
             /\ \A v \in Worker, k \in Server : v # w \/ k # m => Ongoing(v, k)' = Ongoing(v, k)
             /\ Head(Ongoing(w, m)).op \in Reaching =>
                   PutHandler(m, w) \/ GetHandler(m, w) \/ AccApply(m)
<1>0. JobOK /\ LinksOK /\ MemoryOK
  BY DEF TypeInv
<1>1. ASSUME NEW w \in Worker, AccHandler(m, w) \/ RmwHandler(m, w)
      PROVE  \A v \in Worker, k \in Server : Ongoing(v, k)' = Ongoing(v, k)
  <2>1. \E ops \in SUBSET {"OP_ACC", "OP_FETCH_AND_ADD", "OP_SWAP"} : Incoming(m, w, ops)
    BY <1>1 DEF AccHandler, RmwHandler
  <2>2. Receive(m, w) /\ Begin(m, w)
    BY <1>1 DEF AccHandler, RmwHandler
  <2> QED
    BY <1>0, <2>1, <2>2, Beginning
<1>2. ASSUME NEW w \in Worker, PutHandler(m, w) \/ GetHandler(m, w)
      PROVE  HeadDone(w)
  <2>1. \E ops : Incoming(m, w, ops)
    BY <1>2 DEF PutHandler, GetHandler
  <2>2. Receive(m, w) /\ srv' = srv
    BY <1>2 DEF PutHandler, GetHandler, servers
  <2> QED
    BY <1>0, <1>2, <2>1, <2>2, Handled
<1>3. ASSUME NEW w \in Worker, \/ FenceHandler(m, w) \/ MutexCreateHandler(m, w)
                               \/ MutexDestroyHandler(m, w) \/ LockHandler(m, w)
                               \/ UnlockHandler(m, w) \/ MallocHandler(m, w)
                               \/ FreeHandler(m, w) \/ Quit(m, w)
      PROVE  HeadDone(w)
  <2>1. \E op : Incoming(m, w, {op}) /\ op \notin Reaching
    <3>1. \A x \in {"OP_FENCE", "OP_CREATE_MUTEXES", "OP_DESTROY_MUTEXES", "OP_LOCK",
                   "OP_UNLOCK", "OP_MALLOC", "OP_FREE", "OP_QUIT"} : x \notin Reaching
      BY DEF Reaching
    <3>2. \E x \in {"OP_FENCE", "OP_CREATE_MUTEXES", "OP_DESTROY_MUTEXES", "OP_LOCK",
                   "OP_UNLOCK", "OP_MALLOC", "OP_FREE", "OP_QUIT"} : Incoming(m, w, {x})
      <4>1. \/ Incoming(m, w, {"OP_FENCE"}) \/ Incoming(m, w, {"OP_CREATE_MUTEXES"})
            \/ Incoming(m, w, {"OP_DESTROY_MUTEXES"}) \/ Incoming(m, w, {"OP_LOCK"})
            \/ Incoming(m, w, {"OP_UNLOCK"}) \/ Incoming(m, w, {"OP_MALLOC"})
            \/ Incoming(m, w, {"OP_FREE"}) \/ Incoming(m, w, {"OP_QUIT"})
        BY <1>3 DEF FenceHandler, MutexCreateHandler, MutexDestroyHandler, LockHandler,
                    UnlockHandler, MallocHandler, FreeHandler, Quit
      <4> QED
        BY <4>1
    <3> QED
      BY <3>1, <3>2
  <2>2. Receive(m, w) /\ srv' = srv
    BY <1>3 DEF FenceHandler, MutexCreateHandler, MutexDestroyHandler, LockHandler,
                UnlockHandler, MallocHandler, FreeHandler, Quit, servers
  <2>3. PICK op : Incoming(m, w, {op}) /\ op \notin Reaching
    BY <2>1
  <2>4. Head(Ongoing(w, m)).op \in {op}
    BY <1>0, <2>2, <2>3, Handled
  <2>5. Head(Ongoing(w, m)).op \notin Reaching
    BY <2>3, <2>4
  <2> QED
    BY <1>0, <2>2, <2>3, <2>5, Handled
<1>4. CASE AccApply(m) \/ RmwApply(m)
  <2>1. srv[m] # <<>> /\ srv' = [srv EXCEPT ![m] = <<>>] /\ UNCHANGED chan
    BY <1>4 DEF AccApply, RmwApply, Busy
  <2>2. PICK w \in Worker :
                 /\ w = srv[m][1].from /\ Head(Ongoing(w, m)) = srv[m][1].msg
                 /\ Ongoing(w, m) # <<>> /\ Ongoing(w, m)' = Tail(Ongoing(w, m))
                 /\ \A v \in Worker, k \in Server :
                       v # w \/ k # m => Ongoing(v, k)' = Ongoing(v, k)
    BY <1>0, <2>1, Applying
  <2>3. RmwApply(m) => srv[m][1].msg.op \notin Reaching
    BY DEF RmwApply, Busy, Reaching
  <2> QED
    BY <1>4, <2>2, <2>3
<1> HIDE DEF HeadDone
<1>5. (\A v \in Worker, k \in Server : Ongoing(v, k)' = Ongoing(v, k)) \/ \E w \in Worker : HeadDone(w)
  BY <1>1, <1>2, <1>3, <1>4 DEF ServerStep, HeadDone
<1> QED
  BY <1>5 DEF HeadDone

LEMMA HomeByServer ==
    ASSUME TypeInv, Home, UNCHANGED <<job, master>>, NEW m \in Server, ServerStep(m)
    PROVE  Home'
<1>1. Worker' = Worker /\ Server' = Server /\ master' = master
  BY SameHosts
<1>2. SUFFICES ASSUME NEW v \in Worker, NEW k \in Server, NEW i \in DOMAIN Ongoing(v, k)'
               PROVE  Homed(v, Ongoing(v, k)'[i], k)
  BY <1>1 DEF Home, Homed
<1>3. Ongoing(v, k) \in Seq(Message)
  BY LinkTypes
<1>4. CASE Ongoing(v, k)' = Ongoing(v, k)
  BY <1>2, <1>4 DEF Home
<1>5. CASE Ongoing(v, k) # <<>> /\ Ongoing(v, k)' = Tail(Ongoing(v, k))
  <2>1. i + 1 \in DOMAIN Ongoing(v, k) /\ Ongoing(v, k)'[i] = Ongoing(v, k)[i + 1]
    BY <1>2, <1>3, <1>5, TailFacts
  <2> QED
    BY <2>1 DEF Home
<1> QED
  BY <1>4, <1>5, Hears

\* The head of what is under way is at home.
LEMMA HeadHomed ==
    ASSUME TypeInv, Home, NEW w \in Worker, NEW m \in Server, Ongoing(w, m) # <<>>
    PROVE  Homed(w, Head(Ongoing(w, m)), m) /\ Head(Ongoing(w, m)) \in Message
<1>1. Ongoing(w, m) \in Seq(Message)
  BY LinkTypes
<1>2. 1 \in DOMAIN Ongoing(w, m) /\ Head(Ongoing(w, m)) = Ongoing(w, m)[1]
      /\ Head(Ongoing(w, m)) \in Message
  BY <1>1, TailFacts
<1> QED
  BY <1>2 DEF Home

\* What a master has in hand is of its host.
LEMMA HandHomed ==
    ASSUME TypeInv, Home, NEW m \in Server, srv[m] # <<>>
    PROVE  /\ srv[m][1].msg.rank \in Worker /\ master[srv[m][1].msg.rank] = m
           /\ srv[m][1].from \in Worker
           /\ Ongoing(srv[m][1].from, m) # <<>>
           /\ Head(Ongoing(srv[m][1].from, m)) = srv[m][1].msg
<1>1. JobOK /\ LinksOK /\ MemoryOK /\ m \in Ranks
  BY Hosts DEF TypeInv
<1> DEFINE w == srv[m][1].from
           h == srv[m][1].msg
<1>2. w \in Worker /\ h.op \in ToMem
  BY <1>1, HandFacts DEF ToMem
<1>3. Ongoing(w, m) = <<h>> \o chan[w][m] /\ chan[w][m] \in Seq(Message) /\ h \in Message
  BY <1>1, <1>2, OngoingFacts
<1> HIDE DEF h
<1>4. Ongoing(w, m) # <<>> /\ Head(Ongoing(w, m)) = h
  BY <1>3, ConcatFacts
<1>5. Homed(w, h, m)
  BY <1>2, <1>4, HeadHomed
<1> QED
  BY <1>2, <1>4, <1>5 DEF Homed, h

\* Writing to one cell leaves the others alone.
LEMMA CellKept ==
    ASSUME mem \in Cells, NEW d \in Rank, NEW c \in Somewhere, NEW v,
           mem' = [mem EXCEPT ![d][c] = v], NEW x \in Rank, NEW y \in Somewhere,
           <<x, y>> # <<d, c>>
    PROVE  mem'[x][y] = mem[x][y]
BY DEF Cells

LEMMA CurrentStep ==
    ASSUME Current, UNCHANGED <<job, master>>,
           \A k \in Server : \/ srv'[k] = <<>>
                             \/ srv'[k] = srv[k] /\
                                  (srv[k] # <<>> => mem'[srv[k][1].msg.rank][srv[k][1].msg.id]
                                                      = mem[srv[k][1].msg.rank][srv[k][1].msg.id])
                             \/ srv'[k][1].old = mem'[srv'[k][1].msg.rank][srv'[k][1].msg.id]
    PROVE  Current'
<1>1. Server' = Server
  BY SameHosts
<1> QED
  BY <1>1 DEF Current

LEMMA CurrentByWorker ==
    ASSUME TypeInv, WayInv, SemaphoresHeld, UpdatesAlone, UNCHANGED <<job, master>>,
           NEW w \in Worker, WorkerStep(w)
    PROVE  Current'
<1>1. \A m \in Server : srv'[m] = srv[m]
  BY HandsApart
<1>2. mem \in Cells /\ MemoryOK /\ JobOK /\ ControlOK /\ w \in Ranks /\ Server \subseteq Ranks
      /\ w \notin Server
  BY Hosts DEF TypeInv, MemoryOK
<1>3. ASSUME mem' = mem PROVE Current'
  BY <1>1, <1>3, CurrentStep DEF WayInv
<1>4. ASSUME NEW d \in Rank, NEW c \in Somewhere, NEW v, mem' = [mem EXCEPT ![d][c] = v],
             \A m \in Server : srv[m] # <<>> =>
                 <<srv[m][1].msg.rank, srv[m][1].msg.id>> # <<d, c>>
      PROVE  Current'
  <2>1. \A m \in Server : srv[m] # <<>> =>
           srv[m][1].msg.rank \in Rank /\ srv[m][1].msg.id \in Somewhere
    BY <1>2, HandFacts
  <2>2. \A m \in Server : srv[m] # <<>> => mem'[srv[m][1].msg.rank][srv[m][1].msg.id]
                                             = mem[srv[m][1].msg.rank][srv[m][1].msg.id]
    BY <1>2, <1>4, <2>1, CellKept
  <2> QED
    BY <1>1, <2>2, CurrentStep DEF WayInv
<1>5. CASE DirectPut(w)
  <2>1. /\ Calling(w, {"put"}) /\ Direct(w) /\ Active(w)
        /\ mem' = [mem EXCEPT ![Cur(w).to][Target(w)] = Cur(w).val]
    BY <1>5 DEF DirectPut, Calling, At
  <2>2. Cur(w).to \in Rank /\ Target(w) \in Somewhere
    BY <1>2, <2>1, Operands
  <2>3. \A m \in Server : srv[m] # <<>> =>
           <<srv[m][1].msg.rank, srv[m][1].msg.id>> # <<Cur(w).to, Target(w)>>
    BY <2>1 DEF UpdatesAlone
  <2> QED
    BY <1>4, <2>1, <2>2, <2>3
<1>6. CASE DirectAccApply(w)
  <2> DEFINE s == srv[w][1]
  <2>1. /\ mode[w] = "acc" /\ srv[w] # <<>>
        /\ mem' = [mem EXCEPT ![s.msg.rank][s.msg.id] = s.old + s.msg.val]
    BY <1>2, <1>6 DEF DirectAccApply, ControlOK
  <2>2. s.msg.rank \in Rank /\ s.msg.id \in Somewhere
    BY <1>2, <2>1, HandFacts
  <2>3. ASSUME NEW m \in Server, srv[m] # <<>>
        PROVE  <<srv[m][1].msg.rank, srv[m][1].msg.id>> # <<s.msg.rank, s.msg.id>>
    <3>1. CASE srv[m][1].msg.op # "OP_ACC"
      BY <2>1, <2>3, <3>1 DEF UpdatesAlone
    <3>2. CASE srv[m][1].msg.op = "OP_ACC"
      <4>1. sem[srv[m][1].msg.rank] = m
        BY <1>2, <2>3, <3>2 DEF SemaphoresHeld, Amid, AddsTo
      <4>2. sem[s.msg.rank] = w
        BY <1>2, <2>1 DEF SemaphoresHeld, Amid, AddsTo
      <4>3. m # w
        BY <1>2
      <4> QED
        BY <4>1, <4>2, <4>3
    <3> QED
      BY <3>1, <3>2
  <2> QED
    BY <1>4, <2>1, <2>2, <2>3
<1>7. CASE Release(w)
  <2> DEFINE a == ptrs[w][Cur(w).seg][w]
  <2>1. /\ At(w, "release") /\ Active(w)
        /\ mem' = mem \/ mem' = [mem EXCEPT ![w][a] = 0]
    BY <1>7 DEF Release, At
  <2>2. w \in Rank /\ a \in Somewhere
    <3>1. Cur(w) \in Call /\ w \in Rank
      BY <1>2, <2>1, CallFacts, Operands
    <3>2. Cur(w).seg \in Segment
      BY <3>1 DEF Call
    <3> QED
      BY <1>2, <3>1, <3>2 DEF MemoryOK, Ptrs
  <2>3. \A m \in Server : srv[m] # <<>> => <<srv[m][1].msg.rank, srv[m][1].msg.id>> # <<w, a>>
    BY <2>1 DEF UpdatesAlone
  <2>4. CASE mem' = mem
    BY <1>3, <2>4
  <2> HIDE DEF a
  <2>5. CASE mem' = [mem EXCEPT ![w][a] = 0]
    BY <1>4, <2>2, <2>3, <2>5
  <2> QED
    BY <2>1, <2>4, <2>5
<1>8. CASE DirectGet(w) \/ DirectAcc(w) \/ RemoteWrite(w) \/ RemoteGet(w) \/ Rmw(w) \/ Return(w)
           \/ Wait(w) \/ Test(w) \/ WaitAll(w) \/ FenceProc(w) \/ Fence(w)
  BY <1>3, <1>8 DEF DirectGet, DirectAcc, RemoteWrite, RemoteGet, Rmw, Return, Wait, Test,
                    WaitAll, FenceProc, Complete, Fence, data
<1>9. CASE Notify(w) \/ Create(w) \/ Destroy(w) \/ Lock(w) \/ Unlock(w) \/ SendQuit(w)
           \/ Exhausted(w)
  BY <1>3, <1>9 DEF Notify, Create, Destroy, Lock, Unlock, SendQuit, Exhausted, data
<1> QED
  BY <1>5, <1>6, <1>7, <1>8, <1>9 DEF WorkerStep

LEMMA CurrentByServer ==
    ASSUME TypeInv, WayInv, UNCHANGED <<job, master>>, NEW m \in Server, ServerStep(m)
    PROVE  Current'
<1>1. mem \in Cells /\ MemoryOK /\ JobOK /\ LinksOK /\ Server \subseteq Ranks /\ m \in Ranks
      /\ Worker \subseteq Rank /\ Home /\ srv \in Updates
  BY Hosts DEF TypeInv, MemoryOK, WayInv
<1>2. ASSUME mem' = mem, srv' = srv PROVE Current'
  BY <1>2, CurrentStep DEF WayInv
\* It writes to the memory of its host, and what the others have in hand is
\* elsewhere.
<1>3. ASSUME NEW d \in Worker, master[d] = m, NEW c \in Somewhere, NEW v,
             mem' = [mem EXCEPT ![d][c] = v], srv'[m] = <<>>,
             \A k \in Server \ {m} : srv'[k] = srv[k]
      PROVE  Current'
  <2>1. ASSUME NEW k \in Server \ {m}, srv[k] # <<>>
        PROVE  mem'[srv[k][1].msg.rank][srv[k][1].msg.id]
                 = mem[srv[k][1].msg.rank][srv[k][1].msg.id]
    <3>1. srv[k][1].msg.rank \in Rank /\ srv[k][1].msg.id \in Somewhere
          /\ master[srv[k][1].msg.rank] = k
      BY <1>1, <2>1, HandFacts, HandHomed
    <3>2. <<srv[k][1].msg.rank, srv[k][1].msg.id>> # <<d, c>>
      BY <1>3, <3>1
    <3> QED
      BY <1>1, <1>3, <3>1, <3>2, CellKept
  <2> QED
    BY <1>3, <2>1, CurrentStep DEF WayInv
<1>4. ASSUME NEW w \in Worker, PutHandler(m, w) PROVE Current'
  <2>1. Incoming(m, w, {"OP_PUT"}) /\ Receive(m, w) /\ srv' = srv
        /\ mem' = [mem EXCEPT ![Msg(m, w).rank][Msg(m, w).id] = Msg(m, w).val]
    BY <1>4 DEF PutHandler, servers
  <2>2. /\ srv[m] = <<>> /\ Ongoing(w, m) = chan[w][m] /\ chan[w][m] # <<>>
        /\ Msg(m, w) = Head(Ongoing(w, m)) /\ Sensible(Msg(m, w), m)
        /\ Msg(m, w).op \in {"OP_PUT"}
    BY <1>1, <2>1, Receiving
  <2>3. Homed(w, Msg(m, w), m)
    BY <1>1, <2>2, HeadHomed
  <2>4. Msg(m, w).rank \in Worker /\ master[Msg(m, w).rank] = m /\ Msg(m, w).id \in Somewhere
    BY <2>2, <2>3 DEF Homed, Sensible, ToMem
  <2> QED
    BY <1>3, <2>1, <2>2, <2>4
<1>5. ASSUME NEW w \in Worker, AccHandler(m, w) \/ RmwHandler(m, w) PROVE Current'
  <2> DEFINE h == Msg(m, w)
  <2>1. mem' = mem /\ srv' = [srv EXCEPT ![m] =
                                <<[from |-> w, msg |-> h, old |-> mem[h.rank][h.id]]>>]
    BY <1>5 DEF AccHandler, RmwHandler, Begin, data
  <2> HIDE DEF h
  <2>2. \A k \in Server \ {m} : srv'[k] = srv[k]
    BY <1>1, <2>1 DEF Updates
  <2>3. srv'[m][1].old = mem'[srv'[m][1].msg.rank][srv'[m][1].msg.id]
    BY <1>1, <2>1 DEF Updates
  <2> QED
    BY <2>1, <2>2, <2>3, CurrentStep DEF WayInv
<1>6. CASE AccApply(m) \/ RmwApply(m)
  <2>1. srv[m] # <<>> /\ srv' = [srv EXCEPT ![m] = <<>>]
    BY <1>6 DEF AccApply, RmwApply, Busy
  <2>2. \E v : mem' = [mem EXCEPT ![srv[m][1].msg.rank][srv[m][1].msg.id] = v]
    BY <1>6 DEF AccApply, RmwApply
  <2>3. srv'[m] = <<>> /\ \A k \in Server \ {m} : srv'[k] = srv[k]
    BY <1>1, <2>1 DEF Updates
  <2>4. srv[m][1].msg.rank \in Worker /\ master[srv[m][1].msg.rank] = m
        /\ srv[m][1].msg.id \in Somewhere
    BY <1>1, <2>1, HandFacts, HandHomed
  <2> QED
    BY <1>3, <2>2, <2>3, <2>4
<1>7. ASSUME NEW w \in Worker, \/ GetHandler(m, w) \/ FenceHandler(m, w)
                               \/ MutexCreateHandler(m, w) \/ MutexDestroyHandler(m, w)
                               \/ LockHandler(m, w) \/ UnlockHandler(m, w)
                               \/ MallocHandler(m, w) \/ FreeHandler(m, w) \/ Quit(m, w)
      PROVE  Current'
  BY <1>2, <1>7 DEF GetHandler, FenceHandler, MutexCreateHandler, MutexDestroyHandler,
       LockHandler, UnlockHandler, MallocHandler, FreeHandler, Quit, data, servers
<1> QED
  BY <1>4, <1>5, <1>6, <1>7 DEF ServerStep

\* An accumulate is begun for the call that reaches the memory, and is ended
\* with it.
LEMMA HandyByWorker ==
    ASSUME TypeInv, Handy, UNCHANGED <<job, master>>, NEW w \in Worker, WorkerStep(w)
    PROVE  Handy'
<1>1. /\ JobOK /\ ControlOK /\ mode \in [Worker -> {"run", "wait", "acc"}] /\ srv \in Updates
      /\ w \in Ranks /\ Worker \subseteq Ranks
      /\ pc \in [Worker -> Nat \ {0}]
  BY Hosts DEF TypeInv, ControlOK, MemoryOK
<1>2. Worker' = Worker
  BY SameHosts
<1>3. \A v \in Worker \ {w} : pc'[v] = pc[v] /\ mode'[v] = mode[v] /\ srv'[v] = srv[v]
  BY <1>1, Modes, HandsApart
<1>4. ASSUME NEW v \in Worker \ {w}, mode'[v] = "acc"
      PROVE  Direct(v)' /\ srv'[v][1].msg.rank = Cur(v)'.to
  BY <1>3, <1>4 DEF Handy, Direct, SameHost, Cur
<1>5. ASSUME mode'[w] = "acc" PROVE Direct(w)' /\ srv'[w][1].msg.rank = Cur(w)'.to
  <2>1. CASE DirectAcc(w)
    <3>1. Direct(w) /\ pc' = pc /\ srv' = [srv EXCEPT ![w] =
         <<[from |-> w, old |-> mem[Cur(w).to][Target(w)],
            msg |-> Request(w, "OP_ACC", Cur(w).to, Target(w), Cur(w).val)]>>]
      BY <2>1 DEF DirectAcc, Turn
    <3>2. srv'[w][1].msg.rank = Cur(w).to
      BY <1>1, <3>1 DEF Updates, Request, Header
    <3>3. Cur(w)' = Cur(w)
      BY <3>1 DEF Cur
    <3> QED
      BY <3>1, <3>2, <3>3 DEF Direct, SameHost
  <2>2. CASE Exhausted(w)
    <3>1. mode[w] = "run" /\ mode' = mode
      BY <2>2 DEF Exhausted, Takes, control
    <3> QED
      BY <1>5, <3>1
  <2>3. CASE Advance({w}) \/ Turn(w, "wait")
    BY <1>1, <1>5, <2>3 DEF Advance, Turn
  <2>4. CASE DirectPut(w) \/ DirectGet(w) \/ DirectAccApply(w) \/ RemoteWrite(w) \/ RemoteGet(w)
             \/ Rmw(w) \/ Return(w) \/ Wait(w) \/ Test(w) \/ WaitAll(w) \/ FenceProc(w) \/ Fence(w)
    BY <2>3, <2>4 DEF DirectPut, DirectGet, DirectAccApply, RemoteWrite, RemoteGet, Rmw, Return,
                      Wait, Test, WaitAll, FenceProc, Complete, Fence, Sent, Ask
  <2>5. CASE Notify(w) \/ Release(w) \/ Create(w) \/ Destroy(w) \/ Lock(w) \/ Unlock(w)
             \/ SendQuit(w)
    BY <2>3, <2>5 DEF Notify, Release, Create, Destroy, Lock, Unlock, SendQuit, Ask
  <2> QED
    BY <2>1, <2>2, <2>4, <2>5 DEF WorkerStep
<1> QED
  BY <1>2, <1>4, <1>5 DEF Handy

LEMMA HandyByServer ==
    ASSUME TypeInv, Handy, UNCHANGED <<job, master>>, NEW m \in Server, ServerStep(m)
    PROVE  Handy'
<1>1. Worker' = Worker /\ JobOK /\ LinksOK /\ MemoryOK
  BY SameHosts DEF TypeInv
<1>2. pc' = pc /\ mode' = mode
  BY DEF ServerStep, PutHandler, GetHandler, AccHandler, RmwHandler, FenceHandler,
         MutexCreateHandler, MutexDestroyHandler, LockHandler, UnlockHandler, MallocHandler,
         FreeHandler, Quit, AccApply, RmwApply, control
<1>3. SUFFICES ASSUME \A v \in Worker : srv'[v] = srv[v] PROVE Handy'
  <2>1. ASSUME NEW w \in Worker, AccHandler(m, w) \/ RmwHandler(m, w)
        PROVE  \A v \in Worker : srv'[v] = srv[v]
    <3>1. \E ops \in SUBSET {"OP_ACC", "OP_FETCH_AND_ADD", "OP_SWAP"} : Incoming(m, w, ops)
      BY <2>1 DEF AccHandler, RmwHandler
    <3>2. Receive(m, w) /\ Begin(m, w)
      BY <2>1 DEF AccHandler, RmwHandler
    <3> QED
      BY <1>1, <3>1, <3>2, Beginning
  <2>2. CASE AccApply(m) \/ RmwApply(m)
    <3>1. srv[m] # <<>> /\ srv' = [srv EXCEPT ![m] = <<>>] /\ UNCHANGED chan
      BY <2>2 DEF AccApply, RmwApply, Busy
    <3>2. \A v \in Worker : srv'[v] = srv[v]
      BY <1>1, <3>1, Applying
    <3> QED
      BY <1>3, <3>2
  <2>3. ASSUME NEW w \in Worker, \/ PutHandler(m, w) \/ GetHandler(m, w) \/ FenceHandler(m, w)
                                 \/ MutexCreateHandler(m, w) \/ MutexDestroyHandler(m, w)
                                 \/ LockHandler(m, w) \/ UnlockHandler(m, w)
                                 \/ MallocHandler(m, w) \/ FreeHandler(m, w) \/ Quit(m, w)
        PROVE  \A v \in Worker : srv'[v] = srv[v]
    BY <2>3 DEF PutHandler, GetHandler, FenceHandler, MutexCreateHandler, MutexDestroyHandler,
         LockHandler, UnlockHandler, MallocHandler, FreeHandler, Quit, servers
  <2> QED
    BY <1>3, <2>1, <2>2, <2>3 DEF ServerStep
<1> QED
  BY <1>1, <1>2, <1>3 DEF Handy, Direct, SameHost, Cur

\* The members of a group only go on.
LEMMA WayByGroup ==
    ASSUME TypeInv, WayInv, UNCHANGED <<job, master>>, NEW ws \in SUBSET Worker,
           Advance(ws), UNCHANGED <<chan, data, held, servers>>
    PROVE  WayInv'
<1>1. /\ Worker' = Worker /\ Server' = Server /\ UNCHANGED <<chan, got, held, mem, srv>>
      /\ pc \in [Worker -> Nat \ {0}] /\ mode \in [Worker -> {"run", "wait", "acc"}]
  BY SameHosts DEF TypeInv, ControlOK, data, servers
<1>2. Home'
  <2>1. \A v \in Worker, k \in Server : Ongoing(v, k)' = Ongoing(v, k)
    BY <1>1, SameOngoing
  <2> QED
    BY <1>1, <2>1 DEF WayInv, Home, Homed
<1>3. Handy'
  <2>1. \A v \in Worker : mode'[v] = "acc" => v \notin ws /\ pc'[v] = pc[v] /\ mode[v] = "acc"
    BY <1>1 DEF Advance
  <2> QED
    BY <1>1, <2>1 DEF WayInv, Handy, Direct, SameHost, Cur
<1> QED
  BY <1>1, <1>2, <1>3 DEF WayInv, Current

LEMMA LogsKept ==
    ASSUME DOMAIN got = Worker, DOMAIN held = Worker, UNCHANGED <<job, master>>,
           \/ \E w \in Worker : WorkerStep(w)
           \/ \E m \in Server : ServerStep(m)
    PROVE  DOMAIN got' = Worker' /\ DOMAIN held' = Worker'
<1>0. Worker' = Worker
  BY SameHosts
<1>1. SUFFICES /\ got' = got \/ \E w, v : got' = [got EXCEPT ![w] = v]
               /\ held' = held \/ \E w, v : held' = [held EXCEPT ![w] = v]
  BY <1>0
<1>2. ASSUME NEW w \in Worker, WorkerStep(w)
      PROVE  /\ got' = got \/ \E u, v : got' = [got EXCEPT ![u] = v]
             /\ held' = held \/ \E u, v : held' = [held EXCEPT ![u] = v]
  <2>1. CASE DirectPut(w) \/ DirectGet(w) \/ DirectAcc(w) \/ DirectAccApply(w)
    BY <2>1 DEF DirectPut, DirectGet, DirectAcc, DirectAccApply, locks
  <2>2. CASE RemoteWrite(w) \/ RemoteGet(w) \/ Rmw(w) \/ Return(w)
    BY <2>2 DEF RemoteWrite, RemoteGet, Rmw, Return, locks, data
  <2>3. CASE Wait(w) \/ Test(w) \/ WaitAll(w) \/ FenceProc(w) \/ Fence(w)
    BY <2>3 DEF Wait, Test, WaitAll, FenceProc, Complete, Fence, locks, data
  <2>4. CASE Notify(w) \/ Release(w) \/ Create(w) \/ Destroy(w)
    BY <2>4 DEF Notify, Release, Create, Destroy, locks, data
  <2>5. CASE Lock(w) \/ Unlock(w) \/ SendQuit(w) \/ Exhausted(w)
    BY <2>5 DEF Lock, Unlock, SendQuit, Exhausted, locks, data
  <2> QED
    BY <1>2, <2>1, <2>2, <2>3, <2>4, <2>5 DEF WorkerStep
<1>3. ASSUME NEW m \in Server, ServerStep(m)
      PROVE  /\ got' = got \/ \E u, v : got' = [got EXCEPT ![u] = v]
             /\ held' = held
  <2>1. CASE AccApply(m) \/ RmwApply(m)
    BY <2>1 DEF AccApply, RmwApply, Returns, locks
  <2>2. ASSUME NEW w \in Worker, PutHandler(m, w) \/ GetHandler(m, w) \/ AccHandler(m, w)
                                 \/ RmwHandler(m, w) \/ FenceHandler(m, w)
        PROVE  /\ got' = got \/ \E u, v : got' = [got EXCEPT ![u] = v]
               /\ held' = held
    BY <2>2 DEF PutHandler, GetHandler, AccHandler, RmwHandler, FenceHandler, Returns, locks, data
  <2>3. ASSUME NEW w \in Worker, \/ MutexCreateHandler(m, w) \/ MutexDestroyHandler(m, w)
                                 \/ LockHandler(m, w) \/ UnlockHandler(m, w)
                                 \/ MallocHandler(m, w) \/ FreeHandler(m, w) \/ Quit(m, w)
        PROVE  /\ got' = got /\ held' = held
    BY <2>3 DEF MutexCreateHandler, MutexDestroyHandler, LockHandler, UnlockHandler,
         MallocHandler, FreeHandler, Quit, locks, data
  <2> QED
    BY <1>3, <2>1, <2>2, <2>3 DEF ServerStep
<1> QED
  BY <1>2, <1>3

LEMMA WayStep ==
    ASSUME TypeInv, TypeInv', WayInv, SemaphoresHeld, UpdatesAlone, UNCHANGED <<job, master>>,
           [Next]_vars
    PROVE  WayInv'
<1>1. ASSUME NEW w \in Worker, WorkerStep(w) PROVE WayInv'
  BY <1>1, HomeByWorker, HandyByWorker, CurrentByWorker, LogsKept DEF WayInv
<1>2. ASSUME NEW m \in Server, ServerStep(m) PROVE WayInv'
  BY <1>2, HomeByServer, HandyByServer, CurrentByServer, LogsKept DEF WayInv
<1>3. ASSUME NEW ws \in SUBSET Worker, GroupStep(ws) PROVE WayInv'
  BY <1>3, WayByGroup DEF GroupStep, Sync, GatherMalloc, GatherFree, GatherCreate, locks
<1>4. ASSUME Leave PROVE WayInv'
  BY <1>4, WayByGroup DEF Leave, locks
<1>5. ASSUME UNCHANGED vars PROVE WayInv'
  <2>1. Advance({}) /\ UNCHANGED <<chan, data, held, servers>>
    <3>1. /\ pc \in [Worker -> Nat \ {0}] /\ stage \in [Worker -> Nat \ {0}]
          /\ mode \in [Worker -> {"run", "wait", "acc"}]
      BY DEF TypeInv, ControlOK
    <3> QED
      BY <1>5, <3>1 DEF Advance, vars, control, locks
  <2> QED
    BY <2>1, WayByGroup
<1> QED
  BY <1>1, <1>2, <1>3, <1>4, <1>5 DEF Next

LEMMA WayInit ==
    ASSUME Init
    PROVE  WayInv /\ SemaphoresHeld
<1>1. TypeInv /\ JobOK
  BY PrInit DEF PrInv, TypeInv
<1>2. /\ \A r \in Ranks : srv[r] = <<>>
      /\ \A w \in Worker, m \in Server : chan[w][m] = <<>>
      /\ \A w \in Worker : mode[w] = "run"
      /\ DOMAIN got = Worker /\ DOMAIN held = Worker
      /\ Worker \subseteq Ranks /\ Server \subseteq Ranks
  BY DEF Init, Worker, Server
<1>3. \A w \in Worker, m \in Server : Ongoing(w, m) = <<>>
  <2>1. <<>> \o <<>> = <<>>
    OBVIOUS
  <2> QED
    BY <1>2, <2>1 DEF Ongoing
<1>4. DOMAIN <<>> = {}
  OBVIOUS
<1> QED
  BY <1>2, <1>3, <1>4 DEF WayInv, Home, Handy, Current, SemaphoresHeld, Amid

-----------------------------------------------------------------------------
(* What comex_fence_proc covers *)

LEMMA FencedNext ==
    ASSUME NEW s, NEW d, NEW n \in Nat \ {0}
    PROVE  Fenced(s, d, n) <=>
             \/ job.calls[s][n].op = "fence_proc" /\ job.calls[s][n].to = d
             \/ Fenced(s, d, n - 1) /\ ~WritesTo(s, job.calls[s][n], d)
<1> DEFINE call(k) == job.calls[s][k]
           Fences(i) == call(i).op = "fence_proc" /\ call(i).to = d
<1>1. ASSUME NEW i \in 1 .. n, Fences(i), \A k \in i + 1 .. n : ~WritesTo(s, call(k), d), ~Fences(n)
      PROVE  Fenced(s, d, n - 1) /\ ~WritesTo(s, call(n), d)
  <2>1. i # n
    BY <1>1
  <2>2. i \in 1 .. n - 1 /\ n \in i + 1 .. n /\ i + 1 .. n - 1 \subseteq i + 1 .. n
    BY <2>1
  <2>3. \A k \in i + 1 .. n - 1 : ~WritesTo(s, call(k), d)
    BY <1>1, <2>2
  <2> QED
    BY <1>1, <2>2, <2>3 DEF Fenced
<1>2. ASSUME Fences(n) PROVE Fenced(s, d, n)
  <2>1. n \in 1 .. n /\ n + 1 .. n = {}
    OBVIOUS
  <2> QED
    BY <1>2, <2>1 DEF Fenced
<1>3. ASSUME Fenced(s, d, n - 1), ~WritesTo(s, call(n), d) PROVE Fenced(s, d, n)
  <2>1. PICK i \in 1 .. n - 1 : Fences(i) /\ \A k \in i + 1 .. n - 1 : ~WritesTo(s, call(k), d)
    BY <1>3 DEF Fenced
  <2>2. i \in 1 .. n /\ \A k \in i + 1 .. n : k = n \/ k \in i + 1 .. n - 1
    OBVIOUS
  <2>3. \A k \in i + 1 .. n : ~WritesTo(s, call(k), d)
    BY <1>3, <2>1, <2>2
  <2> QED
    BY <2>1, <2>2, <2>3 DEF Fenced
<1>4. Fenced(s, d, n) =>
        \E i \in 1 .. n : Fences(i) /\ \A k \in i + 1 .. n : ~WritesTo(s, call(k), d)
  BY DEF Fenced
<1> HIDE DEF Fences
<1>5. Fenced(s, d, n) => \/ Fences(n)
                         \/ Fenced(s, d, n - 1) /\ ~WritesTo(s, call(n), d)
  <2> SUFFICES ASSUME Fenced(s, d, n), ~Fences(n)
               PROVE  Fenced(s, d, n - 1) /\ ~WritesTo(s, call(n), d)
    OBVIOUS
  <2>1. PICK i \in 1 .. n : Fences(i) /\ \A k \in i + 1 .. n : ~WritesTo(s, call(k), d)
    BY <1>4
  <2> QED
    BY <1>1, <2>1
<1> QED
  BY <1>2, <1>3, <1>5 DEF Fences

LEMMA ReliedUpTo ==
    ASSUME UNCHANGED job, NEW s, NEW d, NEW n, Made(s)' = n
    PROVE  Relied(s, d)' <=> Fenced(s, d, n)
BY DEF Relied, Fenced, WritesTo, SameHost

\* A call that is no fence of d and no write to d.
Neutral(s, d) == ~WritesTo(s, Cur(s), d) /\ ~(Cur(s).op = "fence_proc" /\ Cur(s).to = d)

LEMMA ReliedNeutral ==
    ASSUME UNCHANGED job, NEW s, NEW d, pc[s] \in Nat \ {0},
           Made(s) \in {pc[s] - 1, pc[s]}, Made(s)' \in {pc[s] - 1, pc[s]},
           Made(s)' = Made(s) \/ Neutral(s, d)
    PROVE  Relied(s, d)' <=> Relied(s, d)
<1>1. PICK n : n = Made(s)'
  OBVIOUS
<1>2. (Relied(s, d)' <=> Fenced(s, d, n)) /\ (Relied(s, d) <=> Fenced(s, d, Made(s)))
  BY <1>1, ReliedUpTo DEF Relied
<1>3. Neutral(s, d) => (Fenced(s, d, pc[s]) <=> Fenced(s, d, pc[s] - 1))
  BY FencedNext DEF Neutral, Cur
<1> QED
  BY <1>1, <1>2, <1>3

LEMMA MadeStep ==
    ASSUME TypeInv, NEW w \in Worker, WorkerStep(w), UNCHANGED <<job, master>>
    PROVE  /\ pc[w] \in Nat \ {0}
           /\ \A v \in Worker \ {w} : Made(v)' = Made(v)
           /\ Made(w) \in {pc[w] - 1, pc[w]} /\ Made(w)' \in {pc[w] - 1, pc[w]}
<1>1. pc \in [Worker -> Nat \ {0}] /\ mode \in [Worker -> {"run", "wait", "acc"}]
  BY DEF TypeInv, ControlOK
<1>2. Advance({w}) \/ Turn(w, "wait") \/ Turn(w, "acc") \/ UNCHANGED control
  BY StepOfOne
<1>3. \A v \in Worker \ {w} : Made(v)' = Made(v)
  BY <1>1, Modes DEF Made
<1>4. CASE Advance({w})
  <2>1. pc'[w] \in {pc[w], pc[w] + 1} /\ mode'[w] = "run"
    BY <1>4 DEF Advance
  <2> QED
    BY <1>1, <1>3, <2>1 DEF Made
<1>5. CASE Turn(w, "wait") \/ Turn(w, "acc") \/ UNCHANGED control
  BY <1>1, <1>3, <1>5 DEF Turn, control, Made
<1> QED
  BY <1>2, <1>4, <1>5

\* A call of one part that is in mode "run" or "wait"
LEMMA OnePart ==
    ASSUME JobOK, ControlOK, NEW w \in Worker, Active(w), Cur(w).op \in {"put", "acc", "fence_proc"}
    PROVE  Stage(w) = Cur(w).op /\ stage[w] = Len(Stages(Cur(w).op))
<1>1. Stages(Cur(w).op)[1] = Cur(w).op /\ Len(Stages(Cur(w).op)) = 1
  BY Singles
<1>2. stage[w] \in 1 .. Len(Stages(Cur(w).op))
  BY CallFacts
<1>3. stage[w] = 1
  BY <1>1, <1>2
<1> QED
  BY <1>1, <1>3 DEF Stage

\* Only a put or an accumulate by message and comex_fence_proc bear on it.
LEMMA ReliedByWorker ==
    ASSUME TypeInv, Handy, NEW w \in Worker, WorkerStep(w), UNCHANGED <<job, master>>,
           ~RemoteWrite(w), ~FenceProc(w)
    PROVE  ReliedSame
<1>1. /\ JobOK /\ ControlOK /\ mode[w] \in {"run", "wait", "acc"}
      /\ pc \in [Worker -> Nat \ {0}] /\ mode \in [Worker -> {"run", "wait", "acc"}]
  BY DEF TypeInv, ControlOK
<1>2. Made(w)' = Made(w) \/ \A d \in Ranks : Neutral(w, d)
  <2>1. CASE Cur(w).op \notin {"put", "acc", "fence_proc"}
    BY <2>1 DEF Neutral, WritesTo
  <2>2. CASE Cur(w).op \in {"put", "acc"} /\ Direct(w)
    BY <2>2 DEF Neutral, WritesTo, Direct
  <2>3. ASSUME Cur(w).op \in {"put", "acc", "fence_proc"}, mode[w] = "wait"
        PROVE  Made(w)' = Made(w)
    <3>1. Return(w) /\ Active(w)
      BY <2>3, Modes DEF Return
    <3>2. stage[w] = Len(Stages(Cur(w).op)) /\ Advance({w})
      BY <1>1, <2>3, <3>1, OnePart DEF Return
    <3>3. pc'[w] = pc[w] + 1 /\ mode'[w] = "run"
      BY <3>2 DEF Advance
    <3> QED
      BY <1>1, <2>3, <3>3 DEF Made
  <2>4. ASSUME Cur(w).op \in {"put", "acc", "fence_proc"}, mode[w] # "wait",
               ~(Cur(w).op \in {"put", "acc"} /\ Direct(w))
        PROVE  Made(w)' = Made(w)
    <3>1. mode[w] = "run"
      BY <1>1, <2>4 DEF ControlOK, Handy
    <3>2. Active(w) => Stage(w) = Cur(w).op
      BY <1>1, <2>4, OnePart
    <3>3. ~ (DirectPut(w) \/ DirectGet(w) \/ DirectAcc(w) \/ DirectAccApply(w) \/ Return(w))
      BY <2>4, <3>1 DEF DirectPut, DirectGet, DirectAcc, DirectAccApply, Return, Calling
    <3>4. ~ (RemoteGet(w) \/ Rmw(w) \/ Wait(w) \/ Test(w) \/ Lock(w) \/ Unlock(w))
      BY <2>4 DEF RemoteGet, Rmw, Wait, Test, Lock, Unlock, Calling
    <3>5. ~ (WaitAll(w) \/ Fence(w) \/ Notify(w) \/ Release(w) \/ Create(w) \/ Destroy(w)
             \/ SendQuit(w))
      BY <2>4, <3>2 DEF WaitAll, Fence, Notify, Release, Create, Destroy, SendQuit, At
    <3>6. Exhausted(w)
      BY <3>3, <3>4, <3>5 DEF WorkerStep
    <3> QED
      BY <3>6 DEF Exhausted, control, Made
  <2> QED
    BY <2>1, <2>2, <2>3, <2>4
<1>3. ASSUME NEW v \in Worker, NEW d \in Ranks PROVE Relied(v, d)' <=> Relied(v, d)
  <2>1. CASE v = w
    BY <1>2, <2>1, MadeStep, ReliedNeutral
  <2>2. CASE v # w
    <3>1. Made(v)' = Made(v) /\ pc[v] \in Nat \ {0} /\ Made(v) \in {pc[v] - 1, pc[v]}
      BY <1>1, <2>2, MadeStep DEF Made
    <3>2. Made(v)' = Made(v)
      BY <3>1
    <3> QED
      BY <3>1, <3>2, ReliedUpTo DEF Relied
  <2> QED
    BY <2>1, <2>2
<1> QED
  BY <1>3 DEF ReliedSame

\* The calls of groups are none of these.
LEMMA ReliedByGroup ==
    ASSUME TypeInv, NEW ws \in SUBSET Worker, Advance(ws), UNCHANGED <<job, master>>,
           \A w \in ws : At(w, "sync") \/ At(w, "gather") \/ At(w, "leave")
    PROVE  ReliedSame
<1> SUFFICES ASSUME NEW v \in Worker, NEW d \in Ranks PROVE Relied(v, d)' <=> Relied(v, d)
  BY DEF ReliedSame
<1>1. JobOK /\ ControlOK /\ pc[v] \in Nat \ {0}
  BY DEF TypeInv, ControlOK
<1>2. Made(v) \in {pc[v] - 1, pc[v]}
  BY DEF Made
<1>3. CASE v \in ws
  <2>1. Active(v) /\ Stage(v) \in {"sync", "gather", "leave"}
    BY <1>3 DEF At
  <2>2. Cur(v).op \notin {"put", "acc", "fence_proc"}
    BY <1>1, <2>1, OnePart
  <2>3. Neutral(v, d)
    BY <2>2 DEF Neutral, WritesTo
  <2>4. pc'[v] \in {pc[v], pc[v] + 1} /\ mode'[v] = "run"
    BY <1>3 DEF Advance
  <2>5. Made(v)' \in {pc[v] - 1, pc[v]}
    BY <1>1, <2>4 DEF Made
  <2> QED
    BY <1>1, <1>2, <2>3, <2>5, ReliedNeutral
<1>4. CASE v \notin ws
  <2>1. Made(v)' = Made(v)
    BY <1>4 DEF Advance, Made
  <2> QED
    BY <2>1, ReliedUpTo DEF Relied
<1> QED
  BY <1>3, <1>4

LEMMA ReliedIdle ==
    ASSUME UNCHANGED <<job, master, control>>
    PROVE  ReliedSame
<1>1. \A v \in Worker : Made(v)' = Made(v)
  BY DEF control, Made
<1> QED
  BY <1>1, ReliedUpTo DEF ReliedSame, Relied

\* A put or an accumulate ends what was covered, comex_fence_proc begins it.
LEMMA ReliedMade ==
    ASSUME TypeInv, NEW w \in Worker, WorkerStep(w), UNCHANGED <<job, master>>,
           RemoteWrite(w) \/ FenceProc(w)
    PROVE  /\ Active(w) /\ \A v \in Worker \ {w} : ReliedOf(v)
           /\ \A d \in Ranks : Relied(w, d)' <=>
                \/ Cur(w).op = "fence_proc" /\ Cur(w).to = d
                \/ Relied(w, d) /\ ~WritesTo(w, Cur(w), d)
<1>1. JobOK /\ ControlOK /\ pc \in [Worker -> Nat \ {0}]
  BY DEF TypeInv, ControlOK
<1>2. Active(w) /\ mode[w] = "run" /\ (Calling(w, {"put", "acc"}) \/ At(w, "fence_proc"))
  BY DEF RemoteWrite, FenceProc, Calling, At
<1>3. Cur(w).op \in {"put", "acc", "fence_proc"}
  <2>1. ASSUME Stage(w) = "fence_proc" PROVE Cur(w).op = "fence_proc"
    <3>1. Cur(w).op \in {"put", "acc", "get", "fadd", "swap", "wait", "test", "wait_all",
               "fence", "fence_proc", "barrier", "malloc", "free", "create",
               "destroy", "lock", "unlock", "finalize"} /\ stage[w] \in 1 .. Len(Stages(Cur(w).op))
      BY <1>1, <1>2, CallFacts DEF Call
    <3> QED
      BY <2>1, <3>1 DEF Stage, Stages
  <2> QED
    BY <1>2, <2>1 DEF Calling, At
<1>4. stage[w] = Len(Stages(Cur(w).op))
  BY <1>1, <1>2, <1>3, OnePart
<1>5. Made(w) = pc[w] - 1 /\ Made(w)' = pc[w]
  <2>1. Advance({w}) \/ Turn(w, "wait")
    BY DEF RemoteWrite, FenceProc, Complete, Sent
  <2>2. CASE Advance({w})
    <3>1. pc'[w] = pc[w] + 1 /\ mode'[w] = "run"
      BY <1>4, <2>2 DEF Advance
    <3> QED
      BY <1>1, <1>2, <3>1 DEF Made
  <2>3. CASE Turn(w, "wait")
    <3>1. pc'[w] = pc[w] /\ mode'[w] = "wait"
      BY <2>3 DEF Turn, TypeInv, ControlOK
    <3> QED
      BY <1>1, <1>2, <3>1 DEF Made
  <2> QED
    BY <2>1, <2>2, <2>3
<1>6. ASSUME NEW d \in Ranks
      PROVE  Relied(w, d)' <=> \/ Cur(w).op = "fence_proc" /\ Cur(w).to = d
                               \/ Relied(w, d) /\ ~WritesTo(w, Cur(w), d)
  <2>1. pc[w] \in Nat \ {0}
    BY <1>1
  <2>2. (Relied(w, d)' <=> Fenced(w, d, pc[w])) /\ (Relied(w, d) <=> Fenced(w, d, pc[w] - 1))
    BY <1>5, ReliedUpTo DEF Relied
  <2> QED
    BY <2>1, <2>2, FencedNext DEF Cur
<1>7. ASSUME NEW v \in Worker \ {w} PROVE ReliedOf(v)
  <2>1. Made(v)' = Made(v)
    BY MadeStep
  <2> QED
    BY <2>1, ReliedUpTo DEF ReliedOf, Relied
<1> QED
  BY <1>2, <1>6, <1>7

-----------------------------------------------------------------------------
(* The runtime implements OneSided *)

\* A step of the runtime is one of OneSided, or is not seen there.
Seen == Promise!ONext \/ UNCHANGED Promise!ovars

LEMMA MapStep ==
    ASSUME NEW s \in Rank, NEW d \in Rank,
           \/ Promise!Write(s, d) \/ Promise!AskRead(s, d) \/ Promise!Arrive(s, d)
           \/ Promise!Read(s, d) \/ Promise!ReadModifyWrite(s, d) \/ Promise!WriteNow(s, d)
           \/ Promise!FenceOver(s) \/ Promise!Acquire(s) \/ Promise!Release(s)
    PROVE  Seen
BY DEF Seen, Promise!ONext

\* There is no access of a rank to itself under way.
LEMMA NoneToSelf ==
    ASSUME TypeInv, Home, UNCHANGED <<job, master>>, NEW w \in Worker
    PROVE  OnWay(w, w) = <<>>
<1>1. /\ w \in Rank /\ w \in Ranks /\ master[w] \in Server
      /\ OnWay(w, w) = Accesses(Ongoing(w, master[w]), w)
      /\ Ongoing(w, master[w]) \in Seq(Message)
  BY Hosts, WayOf DEF TypeInv
<1>2. \A i \in DOMAIN Ongoing(w, master[w]) : ~IsAccess(Ongoing(w, master[w])[i], w)
  BY <1>1 DEF Home, Homed, IsAccess, Reaching
<1> QED
  BY <1>1, <1>2, AccessesOf

\* The direct calls
LEMMA DirectMapped ==
    ASSUME TypeInv, TypeInv', WayInv, DirectInTurn, UNCHANGED <<job, master>>,
           NEW w \in Worker, WorkerStep(w),
           DirectPut(w) \/ DirectGet(w) \/ DirectAcc(w) \/ DirectAccApply(w)
    PROVE  Seen
<1>1. /\ JobOK /\ ControlOK /\ MemoryOK /\ mem \in Cells /\ w \in Ranks /\ w \in Rank
      /\ DOMAIN got = Worker
  BY Hosts DEF TypeInv, MemoryOK, WayInv
<1>2. OnWaySame
  <2>1. ~RemoteWrite(w) /\ ~RemoteGet(w)
    BY <1>1 DEF DirectPut, DirectGet, DirectAcc, DirectAccApply, RemoteWrite, RemoteGet,
                Calling, At
  <2> QED
    BY <2>1, WayByWorker
<1>7. ReliedSame
  <2>1. ~RemoteWrite(w) /\ ~FenceProc(w)
    <3>1. ~RemoteWrite(w)
      BY <1>1 DEF DirectPut, DirectGet, DirectAcc, DirectAccApply, RemoteWrite, Calling, At
    <3>2. Cur(w).op \in {"put", "get", "acc"} /\ Active(w)
      BY <1>1 DEF DirectPut, DirectGet, DirectAcc, DirectAccApply, Calling, At, ControlOK
    <3>3. Stage(w) = Cur(w).op
      BY <1>1, <3>2, StageOf DEF Issuing
    <3> QED
      BY <3>1, <3>2, <3>3 DEF FenceProc, At
  <2> QED
    BY <2>1, ReliedByWorker DEF WayInv
<1>3. CASE DirectPut(w)
  <2>1. /\ Active(w) /\ Accessing(w) /\ UNCHANGED <<got, fence, held>>
        /\ mem' = [mem EXCEPT ![Cur(w).to][Target(w)] = Cur(w).val]
    BY <1>3 DEF DirectPut, Calling, At, Accessing, locks
  <2>2. Cur(w).to \in Rank /\ Target(w) \in Somewhere
    BY <1>1, <2>1, Operands
  <2>3. MemoryAt(Cur(w).to, Target(w))
    BY <1>1, <2>1, <2>2, MemoryOne
  <2>4. OnWay(w, Cur(w).to) = <<>>
    BY <2>1 DEF DirectInTurn
  <2>5. Promise!WriteNow(w, Cur(w).to)
    BY <1>1, <1>2, <1>7, <2>1, <2>2, <2>3, <2>4, MapWriteNow
  <2> QED
    BY <1>1, <2>2, <2>5, MapStep
<1>4. CASE DirectGet(w)
  <2>1. /\ Active(w) /\ Accessing(w) /\ UNCHANGED <<mem, fence, held>>
        /\ got' = [got EXCEPT ![w] = Append(@, mem[Cur(w).to][Target(w)])]
    BY <1>4 DEF DirectGet, Calling, At, Accessing, locks
  <2>2. Cur(w).to \in Rank /\ Target(w) \in Somewhere
    BY <1>1, <2>1, Operands
  <2>3. OnWay(w, Cur(w).to) = <<>>
    BY <2>1 DEF DirectInTurn
  <2>4. Promise!Read(w, Cur(w).to)
    BY <1>1, <1>2, <1>7, <2>1, <2>2, <2>3, MapRead
  <2> QED
    BY <1>1, <2>2, <2>4, MapStep
<1>5. CASE DirectAcc(w)
  <2>1. UNCHANGED <<mem, got, fence, held>>
    BY <1>5 DEF DirectAcc, locks
  <2> QED
    BY <1>2, <1>7, <2>1, MapStutter DEF Seen
<1>6. CASE DirectAccApply(w)
  <2> DEFINE d == srv[w][1].msg.rank
             c == srv[w][1].msg.id
  <2>1. /\ mode[w] = "acc" /\ UNCHANGED <<got, fence, held>>
        /\ mem' = [mem EXCEPT ![d][c] = srv[w][1].old + srv[w][1].msg.val]
    BY <1>6 DEF DirectAccApply, locks
  <2>2. /\ Active(w) /\ srv[w] # <<>> /\ Cur(w).op = "acc"
    BY <1>1, <2>1 DEF ControlOK
  <2>3. d \in Rank /\ c \in Somewhere
    BY <1>1, <2>2, HandFacts
  <2>4. d = Cur(w).to /\ Accessing(w)
    BY <2>1, <2>2 DEF WayInv, Handy, Accessing
  <2>5. OnWay(w, d) = <<>>
    BY <2>4 DEF DirectInTurn
  <2> HIDE DEF d, c
  <2>6. MemoryAt(d, c)
    BY <1>1, <2>1, <2>3, MemoryOne
  <2>7. Promise!WriteNow(w, d)
    BY <1>1, <1>2, <1>7, <2>1, <2>3, <2>5, <2>6, MapWriteNow
  <2> QED
    BY <1>1, <2>3, <2>7, MapStep
<1> QED
  BY <1>3, <1>4, <1>5, <1>6

\* The calls that go through a master
LEMMA RemoteMapped ==
    ASSUME TypeInv, TypeInv', Handy, UNCHANGED <<job, master>>,
           NEW w \in Worker, WorkerStep(w), RemoteWrite(w) \/ RemoteGet(w)
    PROVE  Seen
<1>0. PICK d : d = Cur(w).to
  OBVIOUS
<1>1. Active(w) /\ \A m \in Server : srv'[m] = srv[m]
  BY HandsApart DEF RemoteWrite, RemoteGet, Calling, At
<1>2. /\ w \in Rank /\ d \in Rank /\ d \in Ranks /\ master[d] \in Server
      /\ Worker \subseteq Ranks
  BY <1>0, <1>1, Operands, Hosts DEF TypeInv
\* What is common: one message is sent to the master of the other rank.
<1>3. ASSUME NEW op \in Reaching, NEW val,
             Send(w, {master[d]}, Request(w, op, d, Target(w), val))
      PROVE  \E i \in Item : /\ i.op = op /\ OnWay(w, d)' = Append(OnWay(w, d), i)
                             /\ OthersOnWay(w, d)
  <2> DEFINE h == Request(w, op, d, Target(w), val)
  <2>1. h.op = op /\ h.rank = d
    BY DEF Request, Header
  <2> HIDE DEF h
  <2>2. Send(w, {master[d]}, h)
    BY <1>3 DEF h
  <2>3. h \in Message
    BY <1>1, <1>2, <2>2, LinkAdded
  <2>4. ItemOf(h) \in Item /\ ItemOf(h).op = op
    BY <2>1, <2>3 DEF ItemOf, Item, Message
  <2>5. \A x : IsAccess(h, x) <=> x = d
    BY <2>1 DEF IsAccess, Reaching
  <2>6. \A s, x \in Rank :
           OnWay(s, x)' = IF s = w /\ x \in Ranks /\ master[x] \in {master[d]} /\ IsAccess(h, x)
                          THEN Append(OnWay(s, x), ItemOf(h)) ELSE OnWay(s, x)
    BY <1>1, <2>2, WayAdded
  <2>7. OnWay(w, d)' = Append(OnWay(w, d), ItemOf(h)) /\ OthersOnWay(w, d)
    BY <1>2, <2>5, <2>6 DEF OthersOnWay
  <2> QED
    BY <2>4, <2>7
<1>4. CASE RemoteWrite(w)
  <2>1. /\ UNCHANGED <<mem, got, held>> /\ fence' = [fence EXCEPT ![w][master[d]] = TRUE]
        /\ Send(w, {master[d]}, Request(w, IF Cur(w).op = "put" THEN "OP_PUT" ELSE "OP_ACC",
                                        d, Target(w), Cur(w).val))
    BY <1>0, <1>4 DEF RemoteWrite, locks
  <2>2. (IF Cur(w).op = "put" THEN "OP_PUT" ELSE "OP_ACC") \in Reaching \ {"OP_GET"}
    BY DEF Reaching
  <2>3. PICK i \in Item : /\ i.op # "OP_GET" /\ OnWay(w, d)' = Append(OnWay(w, d), i)
                          /\ OthersOnWay(w, d)
    BY <1>3, <2>1, <2>2
  <2>4. /\ \A v \in Worker \ {w} : ReliedOf(v)
        /\ ~Relied(w, d)' /\ \A r \in Ranks : Relied(w, r)' => Relied(w, r)
    <3>1. Cur(w).op # "fence_proc" /\ WritesTo(w, Cur(w), d)
      BY <1>0, <1>4 DEF RemoteWrite, Calling, Direct, WritesTo
    <3> QED
      BY <1>2, <1>4, <3>1, ReliedMade
  <2>5. Promise!Write(w, d)
    BY <1>2, <2>1, <2>3, <2>4, MapWrite
  <2> QED
    BY <1>2, <2>5, MapStep
<1>5. CASE RemoteGet(w)
  <2>1. /\ UNCHANGED <<mem, got, fence, held>>
        /\ Send(w, {master[d]}, Request(w, "OP_GET", d, Target(w), 0))
    BY <1>0, <1>5 DEF RemoteGet, locks, data
  <2>2. PICK i \in Item : /\ i.op = "OP_GET" /\ OnWay(w, d)' = Append(OnWay(w, d), i)
                          /\ OthersOnWay(w, d)
    BY <1>3, <2>1 DEF Reaching
  <2>3. ReliedSame
    <3>1. Cur(w).op = "get" /\ Stage(w) = "get"
      BY <1>5 DEF RemoteGet, Calling, At
    <3>2. ~RemoteWrite(w) /\ ~FenceProc(w)
      BY <3>1 DEF RemoteWrite, FenceProc, Calling, At
    <3> QED
      BY <3>2, ReliedByWorker
  <2>4. Promise!AskRead(w, d)
    BY <1>2, <2>1, <2>2, <2>3, MapAskRead
  <2> QED
    BY <1>2, <2>4, MapStep
<1> QED
  BY <1>4, <1>5

\* comex_free_local writes to the own memory.
LEMMA ReleaseMapped ==
    ASSUME TypeInv, WayInv, OnWaySame, ReliedSame, UNCHANGED <<job, master>>,
           NEW w \in Worker, Release(w)
    PROVE  Seen
<1> DEFINE a == ptrs[w][Cur(w).seg][w]
<1>1. /\ Active(w) /\ UNCHANGED <<got, fence, held>>
      /\ mem' = mem \/ mem' = [mem EXCEPT ![w][a] = 0]
  BY DEF Release, At, locks
<1>2. mem \in Cells /\ w \in Rank /\ a \in Somewhere
  <2>1. Cur(w) \in Call /\ w \in Rank /\ MemoryOK
    BY <1>1, CallFacts, Operands DEF TypeInv
  <2>2. Cur(w).seg \in Segment
    BY <2>1 DEF Call
  <2> QED
    BY <2>1, <2>2 DEF MemoryOK, Ptrs
<1>3. CASE mem' = mem
  BY <1>1, <1>3, MapStutter DEF Seen
<1> HIDE DEF a
<1>4. CASE mem' = [mem EXCEPT ![w][a] = 0]
  <2>1. MemoryAt(w, a)
    BY <1>2, <1>4, MemoryOne
  <2>2. Promise!WriteNow(w, w)
    BY <1>1, <1>2, <2>1, NoneToSelf, MapWriteNow DEF WayInv
  <2> QED
    BY <1>2, <2>2, MapStep
<1> QED
  BY <1>1, <1>3, <1>4

\* When the answers to a fence have come no write is under way.
LEMMA FenceMapped ==
    ASSUME PrInv, OnWaySame, ReliedSame, UNCHANGED <<job, master>>,
           NEW w \in Worker, Return(w), Stage(w) = "fence"
    PROVE  Promise!FenceOver(w)
<1>1. /\ Active(w) /\ mode[w] = "wait" /\ ~Pending(w, nb[w].cur)
      /\ fence' = [fence EXCEPT ![w] = [m \in Server |-> FALSE]]
      /\ UNCHANGED <<mem, got, held>>
  BY DEF Return
<1>2. TypeInv /\ Fencing(w)
  BY <1>1 DEF PrInv, Fencing
<1>3. ASSUME NEW m \in Server, NEW i \in DOMAIN Ongoing(w, m)
      PROVE  ~IsWrite(Ongoing(w, m)[i])
  <2> DEFINE q == Ongoing(w, m)
  <2> SUFFICES ASSUME IsWrite(q[i]) PROVE FALSE
    OBVIOUS
  <2>1. q \in Seq(Message) /\ posted[w][m] \in Seq(Waiting) /\ Now(w) \in CallId
    BY <1>2, LinkTypes
  <2>2. \E k \in DOMAIN q : q[k].op = "OP_FENCE" /\ q[k].call = Now(w)
    BY <1>2, <1>3 DEF PrInv, FlushedAt, Flushed
  <2>3. \A k \in DOMAIN posted[w][m] : posted[w][m][k].nb # nb[w].cur
    BY <1>1, NotPending
  <2>4. Paired(q, posted[w][m], Now(w), mode[w] = "wait", nb[w].cur, Queued(w, m))
    BY DEF PrInv, PairedAt
  <2> HIDE DEF q
  <2>5. \A k \in DOMAIN q : q[k].call = Now(w) => ~Answered(q[k])
    BY <2>1, <2>3, <2>4, PairedOver
  <2> QED
    BY <2>2, <2>5 DEF Answered
<1>4. \A d \in Rank : \A k \in DOMAIN OnWay(w, d) : OnWay(w, d)[k].op = "OP_GET"
  <2> TAKE d \in Rank
  <2>1. CASE d \notin Ranks
    <3>1. OnWay(w, d) = <<>> /\ DOMAIN <<>> = {}
      BY <2>1 DEF OnWay
    <3> QED
      BY <3>1
  <2>2. CASE d \in Ranks
    <3>1. /\ w \in Rank /\ master[d] \in Server /\ Ongoing(w, master[d]) \in Seq(Message)
          /\ OnWay(w, d) = Accesses(Ongoing(w, master[d]), d)
      BY <1>2, <2>2, WayOf, Hosts DEF TypeInv
    <3>2. \A k \in DOMAIN OnWay(w, d) : \E i \in DOMAIN Ongoing(w, master[d]) :
             /\ IsAccess(Ongoing(w, master[d])[i], d)
             /\ OnWay(w, d)[k].op = Ongoing(w, master[d])[i].op
      BY <3>1, AccessesOf
    <3> QED
      BY <1>3, <3>1, <3>2 DEF IsAccess, IsWrite
  <2> QED
    BY <2>1, <2>2
<1> QED
  BY <1>1, <1>2, <1>4, MapFence

LEMMA ReturnMapped ==
    ASSUME PrInv, WayInv, OnWaySame, ReliedSame, MutexHeldOnce', UNCHANGED <<job, master>>,
           NEW w \in Worker, Return(w)
    PROVE  Seen
<1>1. TypeInv /\ w \in Rank /\ DOMAIN held = Worker /\ Worker' = Worker
  BY Hosts, SameHosts DEF PrInv, TypeInv, WayInv
<1>2. CASE Stage(w) = "fence"
  <2>1. Promise!FenceOver(w)
    BY <1>2, FenceMapped
  <2> QED
    BY <1>1, <2>1, MapStep
<1>3. CASE Stage(w) = "lock"
  <2> DEFINE v == held[w] \cup {<<Cur(w).to, Cur(w).val>>}
  <2>1. held' = [held EXCEPT ![w] = v] /\ UNCHANGED <<mem, got, fence>>
    BY <1>3 DEF Return
  <2>2. held'[w] = v /\ \A u \in Worker \ {w} : held'[u] = held[u]
    BY <1>1, <2>1
  <2>3. \A u \in Worker \ {w} : held[u] \cap v = {}
    <3>1. \A x \in held'[w] : \A u \in Worker \ {w} : x \notin held'[u]
      BY <1>1 DEF MutexHeldOnce
    <3> QED
      BY <2>2, <3>1
  <2>4. held[w] \subseteq v
    OBVIOUS
  <2> HIDE DEF v
  <2>5. Promise!Acquire(w)
    BY <1>1, <2>1, <2>3, <2>4, MapHeld
  <2> QED
    BY <1>1, <2>5, MapStep
<1>4. CASE Stage(w) \notin {"fence", "lock"}
  <2>1. UNCHANGED <<mem, got, fence, held>>
    BY <1>4 DEF Return
  <2> QED
    BY <2>1, MapStutter DEF Seen
<1> QED
  BY <1>2, <1>3, <1>4

LEMMA WorkerMapped ==
    ASSUME PrInv, TypeInv', WayInv, DirectInTurn, MutexHeldOnce', FenceFlushes',
           UNCHANGED <<job, master>>, NEW w \in Worker, WorkerStep(w)
    PROVE  Seen
<1>1. TypeInv /\ w \in Rank /\ DOMAIN held = Worker
  BY Hosts DEF PrInv, TypeInv, WayInv
<1>2. CASE DirectPut(w) \/ DirectGet(w) \/ DirectAcc(w) \/ DirectAccApply(w)
  BY <1>1, <1>2, DirectMapped
<1>3. CASE RemoteWrite(w) \/ RemoteGet(w)
  BY <1>1, <1>3, RemoteMapped DEF WayInv
<1>5. CASE FenceProc(w)
  <2>1. UNCHANGED <<mem, got, fence, held>>
    BY <1>5 DEF FenceProc, Complete, data, locks
  <2>2. Stage(w) = "fence_proc"
    BY <1>5 DEF FenceProc, At
  <2>3. OnWaySame
    <3>1. ~RemoteWrite(w) /\ ~RemoteGet(w)
      BY <2>2 DEF RemoteWrite, RemoteGet, Calling, At
    <3> QED
      BY <1>1, <3>1, WayByWorker
  <2>4. /\ Active(w) /\ \A v \in Worker \ {w} : ReliedOf(v)
        /\ \A d \in Ranks : Relied(w, d)' <=>
             \/ Cur(w).op = "fence_proc" /\ Cur(w).to = d
             \/ Relied(w, d) /\ ~WritesTo(w, Cur(w), d)
    BY <1>1, <1>5, ReliedMade
  <2>5. Cur(w).op = "fence_proc" /\ Cur(w).to \in Worker
    <3>1. Cur(w).op \in {"put", "acc", "get", "fadd", "swap", "wait", "test", "wait_all",
               "fence", "fence_proc", "barrier", "malloc", "free", "create",
               "destroy", "lock", "unlock", "finalize"} /\ stage[w] \in 1 .. Len(Stages(Cur(w).op))
          /\ Cur(w).to \in Worker
      BY <1>1, <2>4, CallFacts DEF Call, TypeInv
    <3> QED
      BY <2>2, <3>1 DEF Stage, Stages
  <2>6. \A d \in Ranks : Relied(w, d)' <=> Relied(w, d) \/ d = Cur(w).to
    BY <2>4, <2>5 DEF WritesTo
  <2>7. Promise!FenceOver(w)
    BY <1>1, <2>1, <2>3, <2>4, <2>5, <2>6, MapFenceProc
  <2> QED
    BY <1>1, <2>7, MapStep
<1>4. CASE ~RemoteWrite(w) /\ ~RemoteGet(w) /\ ~FenceProc(w)
  <2>1. OnWaySame
    BY <1>1, <1>4, WayByWorker
  <2>7. ReliedSame
    BY <1>1, <1>4, ReliedByWorker DEF WayInv
  <2>2. CASE Return(w)
    BY <2>1, <2>2, <2>7, ReturnMapped
  <2>3. CASE Release(w)
    BY <1>1, <2>1, <2>3, <2>7, ReleaseMapped
  <2>4. CASE Unlock(w)
    <3> DEFINE v == held[w] \ {<<Cur(w).to, Cur(w).val>>}
    <3>1. held' = [held EXCEPT ![w] = v] /\ UNCHANGED <<mem, got, fence>>
      BY <2>4 DEF Unlock, data
    <3>2. v \subseteq held[w]
      OBVIOUS
    <3> HIDE DEF v
    <3>3. Promise!Release(w)
      BY <1>1, <2>1, <2>7, <3>1, <3>2, MapHeld
    <3> QED
      BY <1>1, <3>3, MapStep
  <2>5. CASE Rmw(w) \/ Wait(w) \/ Test(w) \/ WaitAll(w) \/ Fence(w)
    <3>1. UNCHANGED <<mem, got, fence, held>>
      BY <2>5 DEF Rmw, Wait, Test, WaitAll, Complete, Fence, data, locks
    <3> QED
      BY <2>1, <2>7, <3>1, MapStutter DEF Seen
  <2>6. CASE Notify(w) \/ Create(w) \/ Destroy(w) \/ Lock(w) \/ SendQuit(w) \/ Exhausted(w)
    <3>1. UNCHANGED <<mem, got, fence, held>>
      BY <2>6 DEF Notify, Create, Destroy, Lock, SendQuit, Exhausted, data, locks
    <3> QED
      BY <2>1, <2>7, <3>1, MapStutter DEF Seen
  <2> QED
    BY <1>2, <1>4, <2>2, <2>3, <2>4, <2>5, <2>6 DEF WorkerStep
<1> QED
  BY <1>3, <1>4, <1>5

\* A put, a get or an accumulate that a server is done with has arrived.
LEMMA ArrivalMapped ==
    ASSUME TypeInv, WayInv, UNCHANGED <<job, master>>, NEW w \in Worker, NEW m \in Server,
           NEW d \in Rank, NEW i \in Item,
           Ongoing(w, m) # <<>>, Ongoing(w, m)' = Tail(Ongoing(w, m)),
           \A v \in Worker, k \in Server : v # w \/ k # m => Ongoing(v, k)' = Ongoing(v, k),
           Head(Ongoing(w, m)).op \in Reaching, Head(Ongoing(w, m)).rank = d,
           ItemOf(Head(Ongoing(w, m))) = i
    PROVE  /\ OnWay(w, d) # <<>> /\ Head(OnWay(w, d)) = i
           /\ OnWay(w, d)' = Tail(OnWay(w, d)) /\ OthersOnWay(w, d)
<1>1. /\ w \in Rank /\ d \in Ranks /\ master[d] = m /\ IsAccess(Head(Ongoing(w, m)), d)
  <2>1. Homed(w, Head(Ongoing(w, m)), m)
    BY HeadHomed DEF WayInv
  <2> QED
    BY <2>1, Hosts DEF Homed, IsAccess, Reaching, ToMem, TypeInv
<1>2. \A s, x \in Rank :
              LET h == Head(Ongoing(w, m))
              IN  IF s = w /\ x \in Ranks /\ master[x] = m /\ IsAccess(h, x)
                  THEN /\ OnWay(s, x) # <<>> /\ Head(OnWay(s, x)) = ItemOf(h)
                       /\ OnWay(s, x)' = Tail(OnWay(s, x))
                  ELSE OnWay(s, x)' = OnWay(s, x)
  BY WayTaken
<1>3. \A x : IsAccess(Head(Ongoing(w, m)), x) => x = d
  BY DEF IsAccess
<1> QED
  BY <1>1, <1>2, <1>3 DEF OthersOnWay

\* While a worker has a read-modify-write at a master it has nothing else
\* there.
LEMMA AloneAtMaster ==
    ASSUME TypeInv, NEW w \in Worker, NEW m \in Server, PairedAt(w, m), Ongoing(w, m) # <<>>,
           Head(Ongoing(w, m)).op \in {"OP_FETCH_AND_ADD", "OP_SWAP"}
    PROVE  \A i \in DOMAIN Ongoing(w, m) : Ongoing(w, m)[i] = Head(Ongoing(w, m))
<1> DEFINE q == Ongoing(w, m)
<1>1. q \in Seq(Message) /\ Now(w) \in CallId
  BY LinkTypes
<1>2. Paired(q, posted[w][m], Now(w), mode[w] = "wait", nb[w].cur, Queued(w, m))
  BY DEF PairedAt
<1>3. q # <<>> /\ Head(q).op \in {"OP_FETCH_AND_ADD", "OP_SWAP"}
  OBVIOUS
<1> HIDE DEF q
<1>4. 1 \in DOMAIN q /\ Head(q) = q[1] /\ DOMAIN q \subseteq Nat \ {0}
  BY <1>1, <1>3
<1>5. q[1].call = Now(w)
  <2>1. Answered(q[1]) /\ q[1].op # "OP_GET"
    BY <1>3, <1>4 DEF Answered
  <2> QED
    BY <1>2, <1>4, <2>1 DEF Paired
<1>6. ASSUME NEW i \in DOMAIN q, i # 1 PROVE FALSE
  <2>1. 1 < i
    BY <1>4, <1>6
  <2>2. Before(Now(w), q[i].call)
    BY <1>2, <1>4, <1>5, <1>6, <2>1 DEF Paired, InOrder
  <2>3. Before(q[i].call, Now(w)) \/ q[i].call = Now(w)
    BY <1>2, <1>6 DEF Paired
  <2>4. q[i].call \in CallId
    BY <1>1, <1>2, <1>6, OrderFacts DEF Paired
  <2> QED
    BY <1>1, <2>2, <2>3, <2>4, BeforeFacts
<1>7. \A i \in DOMAIN q : q[i] = Head(q)
  BY <1>4, <1>6
<1> QED
  BY <1>7 DEF q

\* Nothing else that a server handles is an access.
LEMMA QuietWay ==
    ASSUME TypeInv, UNCHANGED <<job, master>>, NEW w \in Worker, NEW m \in Server,
           \/ FenceHandler(m, w) \/ MutexCreateHandler(m, w) \/ MutexDestroyHandler(m, w)
           \/ LockHandler(m, w) \/ UnlockHandler(m, w) \/ MallocHandler(m, w)
           \/ FreeHandler(m, w) \/ Quit(m, w)
    PROVE  OnWaySame
<1>1. JobOK /\ LinksOK /\ MemoryOK
  BY DEF TypeInv
<1>2. Receive(m, w) /\ srv' = srv
  BY DEF FenceHandler, MutexCreateHandler, MutexDestroyHandler, LockHandler, UnlockHandler,
         MallocHandler, FreeHandler, Quit, servers
<1>3. \/ Incoming(m, w, {"OP_FENCE"}) \/ Incoming(m, w, {"OP_CREATE_MUTEXES"})
      \/ Incoming(m, w, {"OP_DESTROY_MUTEXES"}) \/ Incoming(m, w, {"OP_LOCK"})
      \/ Incoming(m, w, {"OP_UNLOCK"}) \/ Incoming(m, w, {"OP_MALLOC"})
      \/ Incoming(m, w, {"OP_FREE"}) \/ Incoming(m, w, {"OP_QUIT"})
  BY DEF FenceHandler, MutexCreateHandler, MutexDestroyHandler, LockHandler, UnlockHandler,
         MallocHandler, FreeHandler, Quit
<1>4. PICK op : Incoming(m, w, {op}) /\ op \notin Reaching
  <2>1. \E x \in {"OP_FENCE", "OP_CREATE_MUTEXES", "OP_DESTROY_MUTEXES", "OP_LOCK",
                 "OP_UNLOCK", "OP_MALLOC", "OP_FREE", "OP_QUIT"} : Incoming(m, w, {x})
    BY <1>3
  <2>2. \A x \in {"OP_FENCE", "OP_CREATE_MUTEXES", "OP_DESTROY_MUTEXES", "OP_LOCK",
                 "OP_UNLOCK", "OP_MALLOC", "OP_FREE", "OP_QUIT"} : x \notin Reaching
    BY DEF Reaching
  <2> QED
    BY <2>1, <2>2
<1>5. /\ Ongoing(w, m) # <<>> /\ Ongoing(w, m)' = Tail(Ongoing(w, m))
      /\ Head(Ongoing(w, m)).op \in {op}
      /\ \A v \in Worker, k \in Server : v # w \/ k # m => Ongoing(v, k)' = Ongoing(v, k)
  BY <1>1, <1>2, <1>4, Handled
<1>6. \A x : ~IsAccess(Head(Ongoing(w, m)), x)
  BY <1>4, <1>5 DEF IsAccess, Reaching
<1> QED
  BY <1>5, <1>6, WayTaken DEF OnWaySame

LEMMA ItemFacts ==
    ASSUME NEW h \in Message
    PROVE  /\ ItemOf(h) \in Item
           /\ ItemOf(h).op = h.op /\ ItemOf(h).loc = h.id /\ ItemOf(h).val = h.val
BY DEF ItemOf, Item, Message

LEMMA ServerMapped ==
    ASSUME PrInv, WayInv, UNCHANGED <<job, master>>, NEW m \in Server, ServerStep(m)
    PROVE  Seen
<1>1. /\ TypeInv /\ JobOK /\ LinksOK /\ MemoryOK /\ mem \in Cells /\ m \in Ranks
      /\ Worker \subseteq Rank /\ Home /\ DOMAIN got = Worker
  BY Hosts DEF PrInv, TypeInv, MemoryOK, WayInv
<1>0. ReliedSame
  <2>1. UNCHANGED control
    BY DEF ServerStep, PutHandler, GetHandler, AccHandler, RmwHandler, AccApply, RmwApply,
           FenceHandler, MutexCreateHandler, MutexDestroyHandler, LockHandler,
           UnlockHandler, MallocHandler, FreeHandler, Quit, control
  <2> QED
    BY <2>1, ReliedIdle
<1>2. ASSUME NEW w \in Worker, PutHandler(m, w) PROVE Seen
  <2>0. /\ Incoming(m, w, {"OP_PUT"}) /\ Receive(m, w) /\ srv' = srv
        /\ UNCHANGED <<got, fence, held>>
        /\ mem' = [mem EXCEPT ![Msg(m, w).rank][Msg(m, w).id] = Msg(m, w).val]
    BY <1>2 DEF PutHandler, servers, locks
  <2>1. /\ Ongoing(w, m) # <<>> /\ Ongoing(w, m)' = Tail(Ongoing(w, m))
        /\ Head(Ongoing(w, m)).op \in {"OP_PUT"}
        /\ \A v \in Worker, k \in Server : v # w \/ k # m => Ongoing(v, k)' = Ongoing(v, k)
    BY <1>1, <2>0, Handled
  <2>2. Msg(m, w) = Head(Ongoing(w, m)) /\ Head(Ongoing(w, m)) \in Message
    BY <1>1, <2>0, Receiving
  <2>3. PICK h \in Message : h = Head(Ongoing(w, m))
    BY <2>2
  <2>4. PICK d \in Worker : d = h.rank
    BY <1>1, <2>1, <2>3, HeadHomed DEF Homed, ToMem
  <2>5. PICK i \in Item : i = ItemOf(h) /\ i.op = "OP_PUT" /\ i.loc = h.id /\ i.val = h.val
    BY <2>1, <2>3, ItemFacts
  <2>6. /\ OnWay(w, d) # <<>> /\ Head(OnWay(w, d)) = i
        /\ OnWay(w, d)' = Tail(OnWay(w, d)) /\ OthersOnWay(w, d)
    BY <1>1, <2>1, <2>3, <2>4, <2>5, ArrivalMapped DEF Reaching
  <2>7. mem' = [mem EXCEPT ![d][i.loc] = IF i.op = "OP_ACC" THEN @ + i.val ELSE i.val]
    BY <2>0, <2>2, <2>3, <2>4, <2>5
  <2>8. Promise!Arrive(w, d)
    BY <1>1, <2>0, <2>5, <2>6, <2>7, <1>0, MapArrive
  <2> QED
    BY <1>1, <2>8, MapStep
<1>3. ASSUME NEW w \in Worker, GetHandler(m, w) PROVE Seen
  <2>0. /\ Incoming(m, w, {"OP_GET"}) /\ Receive(m, w) /\ srv' = srv
        /\ UNCHANGED <<mem, fence, held>>
        /\ got' = [got EXCEPT ![w] = Append(@, mem[Msg(m, w).rank][Msg(m, w).id])]
    BY <1>3 DEF GetHandler, Returns, servers, locks
  <2>1. /\ Ongoing(w, m) # <<>> /\ Ongoing(w, m)' = Tail(Ongoing(w, m))
        /\ Head(Ongoing(w, m)).op \in {"OP_GET"}
        /\ \A v \in Worker, k \in Server : v # w \/ k # m => Ongoing(v, k)' = Ongoing(v, k)
    BY <1>1, <2>0, Handled
  <2>2. Msg(m, w) = Head(Ongoing(w, m)) /\ Head(Ongoing(w, m)) \in Message
    BY <1>1, <2>0, Receiving
  <2>3. PICK h \in Message : h = Head(Ongoing(w, m))
    BY <2>2
  <2>4. PICK d \in Worker : d = h.rank
    BY <1>1, <2>1, <2>3, HeadHomed DEF Homed, ToMem
  <2>5. PICK i \in Item : i = ItemOf(h) /\ i.op = "OP_GET" /\ i.loc = h.id
    BY <2>1, <2>3, ItemFacts
  <2>6. /\ OnWay(w, d) # <<>> /\ Head(OnWay(w, d)) = i
        /\ OnWay(w, d)' = Tail(OnWay(w, d)) /\ OthersOnWay(w, d)
    BY <1>1, <2>1, <2>3, <2>4, <2>5, ArrivalMapped DEF Reaching
  <2>7. got' = [got EXCEPT ![w] = Append(@, mem[d][i.loc])]
    BY <2>0, <2>2, <2>3, <2>4, <2>5
  <2>8. Promise!Arrive(w, d)
    BY <1>1, <2>0, <2>5, <2>6, <2>7, <1>0, MapArriveRead
  <2> QED
    BY <1>1, <2>8, MapStep
<1>4. ASSUME NEW w \in Worker, AccHandler(m, w) \/ RmwHandler(m, w) PROVE Seen
  <2>1. \E ops \in SUBSET {"OP_ACC", "OP_FETCH_AND_ADD", "OP_SWAP"} : Incoming(m, w, ops)
    BY <1>4 DEF AccHandler, RmwHandler
  <2>2. Receive(m, w) /\ Begin(m, w) /\ UNCHANGED <<mem, got, fence, held>>
    BY <1>4 DEF AccHandler, RmwHandler, data, locks
  <2>3. \A v \in Worker, k \in Server : Ongoing(v, k)' = Ongoing(v, k)
    BY <1>1, <2>1, <2>2, Beginning
  <2>4. OnWaySame
    BY <1>1, <2>3, WaySame
  <2> QED
    BY <2>2, <2>4, <1>0, MapStutter DEF Seen
<1>5. ASSUME AccApply(m) \/ RmwApply(m)
      PROVE  \E w \in Worker, h \in Message, d \in Worker :
               /\ srv[m] # <<>> /\ w = srv[m][1].from /\ h = srv[m][1].msg /\ d = h.rank
               /\ h.id \in Somewhere /\ srv[m][1].old = mem[d][h.id]
               /\ h = Head(Ongoing(w, m))
               /\ Ongoing(w, m) # <<>> /\ Ongoing(w, m)' = Tail(Ongoing(w, m))
               /\ \A v \in Worker, k \in Server : v # w \/ k # m => Ongoing(v, k)' = Ongoing(v, k)
  <2>1. srv[m] # <<>> /\ srv' = [srv EXCEPT ![m] = <<>>] /\ UNCHANGED chan
    BY <1>5 DEF AccApply, RmwApply, Busy
  <2>2. PICK w \in Worker :
                 /\ w = srv[m][1].from /\ Head(Ongoing(w, m)) = srv[m][1].msg
                 /\ Ongoing(w, m) # <<>> /\ Ongoing(w, m)' = Tail(Ongoing(w, m))
                 /\ \A v \in Worker, k \in Server :
                       v # w \/ k # m => Ongoing(v, k)' = Ongoing(v, k)
    BY <1>1, <2>1, Applying
  <2>3. /\ srv[m][1].msg \in Message /\ srv[m][1].msg.rank \in Worker
        /\ srv[m][1].msg.id \in Somewhere
    BY <1>1, <2>1, <2>2, HandHomed, HandFacts, HeadHomed
  <2>4. srv[m][1].old = mem[srv[m][1].msg.rank][srv[m][1].msg.id]
    BY <2>1 DEF WayInv, Current
  <2> QED
    BY <2>1, <2>2, <2>3, <2>4
<1>6. CASE AccApply(m)
  <2>1. PICK w \in Worker, h \in Message, d \in Worker :
               /\ srv[m] # <<>> /\ w = srv[m][1].from /\ h = srv[m][1].msg /\ d = h.rank
               /\ h.id \in Somewhere /\ srv[m][1].old = mem[d][h.id]
               /\ h = Head(Ongoing(w, m))
               /\ Ongoing(w, m) # <<>> /\ Ongoing(w, m)' = Tail(Ongoing(w, m))
               /\ \A v \in Worker, k \in Server : v # w \/ k # m => Ongoing(v, k)' = Ongoing(v, k)
    BY <1>5, <1>6
  <2>2. /\ h.op = "OP_ACC" /\ UNCHANGED <<got, fence, held>>
        /\ mem' = [mem EXCEPT ![d][h.id] = srv[m][1].old + h.val]
    BY <1>6, <2>1 DEF AccApply, Busy, locks
  <2>3. PICK i \in Item : i = ItemOf(h) /\ i.op = "OP_ACC" /\ i.loc = h.id /\ i.val = h.val
    BY <2>2, ItemFacts
  <2>4. /\ OnWay(w, d) # <<>> /\ Head(OnWay(w, d)) = i
        /\ OnWay(w, d)' = Tail(OnWay(w, d)) /\ OthersOnWay(w, d)
    <3>1. /\ Ongoing(w, m) # <<>> /\ Ongoing(w, m)' = Tail(Ongoing(w, m))
          /\ Head(Ongoing(w, m)).op \in Reaching /\ Head(Ongoing(w, m)).rank = d
          /\ ItemOf(Head(Ongoing(w, m))) = i /\ d \in Rank
      BY <1>1, <2>1, <2>2, <2>3 DEF Reaching
    <3>2. \A v \in Worker, k \in Server : v # w \/ k # m => Ongoing(v, k)' = Ongoing(v, k)
      BY <2>1
    <3> QED
      BY <1>1, <3>1, <3>2, ArrivalMapped
  <2>5. mem' = [mem EXCEPT ![d][i.loc] = IF i.op = "OP_ACC" THEN @ + i.val ELSE i.val]
    BY <2>1, <2>2, <2>3
  <2>6. Promise!Arrive(w, d)
    BY <1>1, <2>2, <2>3, <2>4, <2>5, <1>0, MapArrive
  <2> QED
    BY <1>1, <2>6, MapStep
<1>7. CASE RmwApply(m)
  <2>1. PICK w \in Worker, h \in Message, d \in Worker :
               /\ srv[m] # <<>> /\ w = srv[m][1].from /\ h = srv[m][1].msg /\ d = h.rank
               /\ h.id \in Somewhere /\ srv[m][1].old = mem[d][h.id]
               /\ h = Head(Ongoing(w, m))
               /\ Ongoing(w, m) # <<>> /\ Ongoing(w, m)' = Tail(Ongoing(w, m))
               /\ \A v \in Worker, k \in Server : v # w \/ k # m => Ongoing(v, k)' = Ongoing(v, k)
    BY <1>5, <1>7
  <2>2. /\ h.op \in {"OP_FETCH_AND_ADD", "OP_SWAP"} /\ UNCHANGED <<fence, held>>
        /\ \E v : mem' = [mem EXCEPT ![d][h.id] = v]
        /\ got' = [got EXCEPT ![w] = Append(@, mem[d][h.id])]
    BY <1>7, <2>1 DEF RmwApply, Busy, Returns, locks
  <2>3. \A i \in DOMAIN Ongoing(w, m) : Ongoing(w, m)[i].op \notin Reaching
    <3>1. \A i \in DOMAIN Ongoing(w, m) : Ongoing(w, m)[i] = h
      BY <1>1, <2>1, <2>2, AloneAtMaster DEF PrInv
    <3> QED
      BY <2>2, <3>1 DEF Reaching
  <2>4. OnWay(w, d) = <<>>
    <3>1. /\ d \in Ranks /\ master[d] = m /\ OnWay(w, d) = Accesses(Ongoing(w, m), d)
          /\ Ongoing(w, m) \in Seq(Message)
      <4>1. d \in Ranks /\ master[d] = m
        BY <1>1, <2>1, HandHomed, Hosts
      <4> QED
        BY <1>1, <4>1, WayOf
    <3> QED
      BY <2>3, <3>1, AccessesOf DEF IsAccess, Reaching
  <2>5. OnWaySame
    <3>1. h.op \notin Reaching
      BY <2>2 DEF Reaching
    <3>2. \A x : ~IsAccess(Head(Ongoing(w, m)), x)
      BY <2>1, <3>1 DEF IsAccess, Reaching
    <3>3. /\ Ongoing(w, m) # <<>> /\ Ongoing(w, m)' = Tail(Ongoing(w, m))
          /\ \A v \in Worker, k \in Server : v # w \/ k # m => Ongoing(v, k)' = Ongoing(v, k)
      BY <2>1
    <3> QED
      BY <1>1, <3>2, <3>3, WayTaken DEF OnWaySame
  <2>6. MemoryAt(d, h.id)
    <3>1. PICK v : mem' = [mem EXCEPT ![d][h.id] = v]
      BY <2>2
    <3>2. d \in Rank /\ h.id \in Somewhere
      BY <1>1, <2>1
    <3> QED
      BY <1>1, <3>1, <3>2, MemoryOne
  <2>7. Promise!ReadModifyWrite(w, d)
    BY <1>1, <2>1, <2>2, <2>4, <2>5, <2>6, <1>0, MapReadModifyWrite
  <2> QED
    BY <1>1, <2>7, MapStep
<1>8. ASSUME NEW w \in Worker, \/ FenceHandler(m, w) \/ MutexCreateHandler(m, w)
                               \/ MutexDestroyHandler(m, w) \/ LockHandler(m, w)
                               \/ UnlockHandler(m, w) \/ MallocHandler(m, w)
                               \/ FreeHandler(m, w) \/ Quit(m, w)
      PROVE  Seen
  <2>1. UNCHANGED <<mem, got, fence, held>>
    BY <1>8 DEF FenceHandler, MutexCreateHandler, MutexDestroyHandler, LockHandler,
                UnlockHandler, MallocHandler, FreeHandler, Quit, data, locks
  <2>2. OnWaySame
    BY <1>1, <1>8, QuietWay
  <2> QED
    BY <2>1, <2>2, <1>0, MapStutter DEF Seen
<1> QED
  BY <1>2, <1>3, <1>4, <1>6, <1>7, <1>8 DEF ServerStep

LEMMA SemaphoresStep ==
    ASSUME TypeInv, SemaphoresHeld, UNCHANGED <<job, master>>, [Next]_vars
    PROVE  SemaphoresHeld'
<1>1. ASSUME NEW ws \in SUBSET Worker, GroupStep(ws) PROVE SemaphoresHeld'
  BY <1>1, HeldSame DEF GroupStep, Sync, GatherMalloc, GatherFree, GatherCreate, data, servers
<1>2. ASSUME Leave PROVE SemaphoresHeld'
  BY <1>2, HeldSame DEF Leave, data, servers
<1>3. ASSUME UNCHANGED vars PROVE SemaphoresHeld'
  BY <1>3, HeldSame DEF vars, data, servers
<1> QED
  BY <1>1, <1>2, <1>3, HeldByWorker, HeldByServer DEF Next

LEMMA SeenStep ==
    ASSUME PrInv, TypeInv', WayInv, DirectInTurn, MutexHeldOnce', FenceFlushes',
           UNCHANGED <<job, master>>, [Next]_vars
    PROVE  Seen
<1>0. TypeInv
  BY DEF PrInv
<1>1. ASSUME UNCHANGED <<chan, data, held, servers>>, ReliedSame PROVE Seen
  <2>1. \A v \in Worker, k \in Server : Ongoing(v, k)' = Ongoing(v, k)
    BY <1>1, SameOngoing DEF servers
  <2>2. OnWaySame /\ UNCHANGED <<mem, got, fence, held>>
    BY <1>0, <1>1, <2>1, WaySame DEF data
  <2> QED
    BY <1>1, <2>2, MapStutter DEF Seen
<1>2. ASSUME NEW ws \in SUBSET Worker, GroupStep(ws) PROVE Seen
  <2>1. Advance(ws) /\ \A w \in ws : At(w, "sync") \/ At(w, "gather")
    BY <1>2 DEF GroupStep, Sync, GatherMalloc, GatherFree, GatherCreate, Met
  <2>2. ReliedSame
    BY <1>0, <2>1, ReliedByGroup
  <2> QED
    BY <1>1, <1>2, <2>2 DEF GroupStep, Sync, GatherMalloc, GatherFree, GatherCreate, locks
<1>3. ASSUME Leave PROVE Seen
  <2>1. ReliedSame
    BY <1>0, <1>3, ReliedByGroup DEF Leave
  <2> QED
    BY <1>1, <1>3, <2>1 DEF Leave, locks
<1>4. ASSUME UNCHANGED vars PROVE Seen
  <2>1. ReliedSame
    BY <1>4, ReliedIdle DEF vars
  <2> QED
    BY <1>1, <1>4, <2>1 DEF vars, locks
<1> QED
  BY <1>2, <1>3, <1>4, WorkerMapped, ServerMapped DEF Next

LEMMA SeenInit ==
    ASSUME Init
    PROVE  Promise!OInit
<1>1. TypeInv
  BY PrInit DEF PrInv
<1>2. \A w \in Worker, m \in Server : Ongoing(w, m) = <<>>
  <2>1. <<>> \o <<>> = <<>> /\ \A r \in Ranks : srv[r] = <<>>
    BY DEF Init
  <2> QED
    BY <2>1 DEF Init, Ongoing, Server
<1>3. \A s, d \in Rank : OnWay(s, d) = <<>>
  <2> TAKE s, d \in Rank
  <2>1. \A x : Accesses(<<>>, x) = <<>>
    <3>1. <<>> \in Seq(Message) /\ DOMAIN <<>> = {}
      OBVIOUS
    <3> QED
      BY <3>1, AccessesOf
  <2>2. CASE ~(s \in Worker /\ d \in Ranks)
    BY <2>2 DEF OnWay
  <2>3. CASE s \in Worker /\ d \in Ranks
    <3>1. master[d] \in Server
      BY <1>1, <2>3, Hosts DEF TypeInv
    <3> QED
      BY <1>2, <2>1, <2>3, <3>1 DEF OnWay
  <2> QED
    BY <2>2, <2>3
<1>4. Pend = [s \in Rank |-> [d \in Rank |-> <<>>]]
  BY <1>3 DEF Pend
<1>5. Log = [s \in Rank |-> <<>>] /\ Holding = [s \in Rank |-> {}]
  BY DEF Init, Log, Holding
<1>6. Dirty = [s \in Rank |-> [d \in Rank |-> FALSE]]
  <2>1. \A s \in Worker, d \in Ranks : fence[s][master[d]] = FALSE
    BY <1>1, Hosts DEF Init, TypeInv
  <2> QED
    BY <2>1 DEF Dirty
<1>7. mem = [d \in Rank |-> [c \in {Null} \cup Addr |-> 0]]
  BY DEF Init
<1> QED
  BY <1>4, <1>5, <1>6, <1>7 DEF Promise!OInit

\* What a program sees of the memory and the mutexes is what OneSided promises,
\* whatever the hosts, the programs and the number of handles: comex_put,
\* comex_get, comex_acc, comex_rmw, comex_fence_all and comex_lock hide the
\* messages and the servers, from programs that lock and unlock as they should,
\* do not overtake what they sent to a master, do not write directly to what a
\* master is updating, and call comex_fence_proc, which asks no master
\* (comex.c:768), only where nothing of theirs is under way to its target.
THEOREM OneSidedImplemented ==
    Spec /\ []Disciplined /\ []DirectInTurn /\ []UpdatesAlone
         /\ []FenceFlushes => ImplementsOneSided
<1>1. Init => PrInv /\ WayInv /\ SemaphoresHeld /\ Promise!OInit
  BY PrInit, WayInit, SeenInit
<1>2. ASSUME PrInv, WayInv, SemaphoresHeld, UpdatesAlone, [Next]_vars
      PROVE  PrInv' /\ WayInv' /\ SemaphoresHeld'
  <2>1. TypeInv /\ TypeInv' /\ UNCHANGED <<job, master>> /\ PrInv'
    BY <1>2, Steps, PrStep DEF PrInv
  <2>2. WayInv'
    BY <1>2, <2>1, WayStep
  <2>3. SemaphoresHeld'
    BY <1>2, <2>1, SemaphoresStep
  <2> QED
    BY <2>1, <2>2, <2>3
<1>3. ASSUME PrInv, WayInv, DirectInTurn, MutexHeldOnce', FenceFlushes', [Next]_vars
      PROVE  [Promise!ONext]_Promise!ovars
  <2>1. TypeInv' /\ UNCHANGED <<job, master>>
    BY <1>3, Steps DEF PrInv
  <2>2. Seen
    BY <1>3, <2>1, SeenStep
  <2> QED
    BY <2>2 DEF Seen
<1>4. Spec /\ []Disciplined => []MutexHeldOnce
  BY MutexesHeldOnce
<1> QED
  BY <1>1, <1>2, <1>3, <1>4, PTL DEF Spec, ImplementsOneSided, Promise!OSpec

================================================================================
