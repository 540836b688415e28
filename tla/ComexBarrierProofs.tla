--------------------------- MODULE ComexBarrierProofs ---------------------------
(***************************************************************************)
(* What a barrier promises, for every set of ranks, every bound and every  *)
(* program.  Two ranks count the barriers that they have in common; what   *)
(* one has left and what the other has answered never get apart            *)
(* (BarrierInv), whatever the programs are.  Programs that agree on their  *)
(* barriers (Matched) meet the barriers their requests are for, and find   *)
(* the channels drained behind them; collective memory relies on that.     *)
(* The bound on the messages under way (SendInv) needs nothing of it.      *)
(***************************************************************************)
EXTENDS ComexCallProofs

-----------------------------------------------------------------------------
(* Counting calls *)

\* The members of S among the first n numbers
Prefix(S, n) == Cardinality({i \in 1 .. n : i \in S})

LEMMA PrefixFinite ==
    ASSUME NEW S, NEW n \in Nat
    PROVE  IsFiniteSet({i \in 1 .. n : i \in S})
<1>1. IsFiniteSet(1 .. n)
  BY FS_Interval
<1>2. {i \in 1 .. n : i \in S} \subseteq 1 .. n
  OBVIOUS
<1> QED BY <1>1, <1>2, FS_Subset

LEMMA PrefixStep ==
    ASSUME NEW S, NEW n \in Nat
    PROVE  /\ Prefix(S, n) \in Nat
           /\ Prefix(S, 0) = 0
           /\ Prefix(S, n + 1) = Prefix(S, n) + Unit(n + 1 \in S)
<1> DEFINE A == {i \in 1 .. n : i \in S}
           B == {i \in 1 .. n + 1 : i \in S}
<1>1. IsFiniteSet(A)
  BY PrefixFinite
<1>2. B = IF n + 1 \in S THEN A \cup {n + 1} ELSE A
  OBVIOUS
<1>3. n + 1 \notin A
  OBVIOUS
<1>4. Cardinality(A) \in Nat /\ Cardinality(A \cup {n + 1}) = Cardinality(A) + 1
  BY <1>1, <1>3, FS_CardinalityType, FS_AddElement
<1>5. {i \in 1 .. 0 : i \in S} = {}
  OBVIOUS
<1> HIDE DEF A, B
<1>6. Cardinality(B) = Cardinality(A) + Unit(n + 1 \in S)
  BY <1>2, <1>4 DEF Unit
<1> QED BY <1>4, <1>5, <1>6, FS_EmptySet DEF Prefix, A, B

LEMMA PrefixMono ==
    ASSUME NEW S, NEW m \in Nat, NEW n \in Nat, m <= n
    PROVE  Prefix(S, m) <= Prefix(S, n)
<1> DEFINE A == {i \in 1 .. m : i \in S}
           B == {i \in 1 .. n : i \in S}
<1>1. IsFiniteSet(B)
  BY PrefixFinite
<1>2. A \subseteq B
  OBVIOUS
<1> QED BY <1>1, <1>2, FS_Subset DEF Prefix

\* A member of S counts, ...
LEMMA PrefixUnique ==
    ASSUME NEW S, NEW i \in Nat \ {0}, NEW j \in Nat \ {0}, i \in S, j \in S,
           Prefix(S, i) = Prefix(S, j)
    PROVE  i = j
<1>1. ASSUME NEW a \in Nat \ {0}, NEW b \in Nat \ {0}, b \in S, a < b
      PROVE  Prefix(S, a) < Prefix(S, b)
  <2>1. b - 1 \in Nat /\ a <= b - 1 /\ (b - 1) + 1 = b
    BY <1>1
  <2>2. Prefix(S, a) <= Prefix(S, b - 1)
    BY <2>1, PrefixMono
  <2>3. /\ Prefix(S, b - 1) \in Nat
        /\ Prefix(S, (b - 1) + 1) = Prefix(S, b - 1) + Unit((b - 1) + 1 \in S)
    BY <2>1, PrefixStep
  <2>4. Prefix(S, a) \in Nat
    BY PrefixStep
  <2> QED BY <1>1, <2>1, <2>2, <2>3, <2>4 DEF Unit
<1>2. Prefix(S, i) \in Nat /\ Prefix(S, j) \in Nat
  BY PrefixStep
<1> QED BY <1>1, <1>2

LEMMA PrefixBounds ==
    ASSUME NEW S, NEW n \in Nat, NEW i \in 1 .. n, i \in S
    PROVE  Prefix(S, n) \in Nat /\ Prefix(S, i) \in 1 .. Prefix(S, n)
<1>1. i - 1 \in Nat /\ (i - 1) + 1 = i /\ i \in Nat /\ i <= n
  OBVIOUS
<1>2. /\ Prefix(S, i - 1) \in Nat
      /\ Prefix(S, (i - 1) + 1) = Prefix(S, i - 1) + Unit((i - 1) + 1 \in S)
  BY <1>1, PrefixStep
<1>3. Prefix(S, n) \in Nat /\ Prefix(S, i) \in Nat /\ Prefix(S, i) <= Prefix(S, n)
  BY <1>1, PrefixStep, PrefixMono
<1>4. Prefix(S, i) # 0
  BY <1>1, <1>2 DEF Unit
<1> QED BY <1>3, <1>4

\* ... and every number up to the count is that of a member.
LEMMA PrefixOnto ==
    ASSUME NEW S, NEW n \in Nat, NEW k \in 1 .. Prefix(S, n)
    PROVE  \E i \in 1 .. n : i \in S /\ Prefix(S, i) = k
<1> DEFINE A == {i \in 1 .. n : i \in S}
           c == Prefix(S, n)
           T == 1 .. c
           f == [i \in A |-> Prefix(S, i)]
<1> SUFFICES ASSUME \A i \in A : Prefix(S, i) # k PROVE FALSE
  OBVIOUS
<1>1. IsFiniteSet(A) /\ Cardinality(A) = c /\ c \in Nat
  BY PrefixFinite, PrefixStep DEF Prefix
<1>2. IsFiniteSet(T \ {k}) /\ Cardinality(T \ {k}) < Cardinality(A)
  <2> HIDE DEF c, A
  <2>1. IsFiniteSet(T) /\ Cardinality(T) = c
    BY <1>1, FS_Interval
  <2>2. k \in T
    BY DEF c
  <2>3. IsFiniteSet(T \ {k}) /\ Cardinality(T \ {k}) = c - 1
    BY <2>1, <2>2, FS_RemoveElement
  <2> QED BY <1>1, <2>3
<1>3. f \in [A -> T \ {k}]
  <2>1. \A i \in A : Prefix(S, i) \in T
    BY PrefixBounds
  <2> QED BY <2>1
<1>4. \A x, y \in A : f[x] = f[y] => x = y
  <2> TAKE x, y \in A
  <2>1. x \in Nat \ {0} /\ y \in Nat \ {0} /\ x \in S /\ y \in S
    OBVIOUS
  <2> QED BY <2>1, PrefixUnique
<1> HIDE DEF A, T, f
<1> QED BY <1>1, <1>2, <1>3, <1>4, FS_PigeonHole

\* If the members of S that are in X are paired, in order, with members of T
\* that are in Y, then there are no more of those than of these.
LEMMA PrefixPaired ==
    ASSUME NEW S, NEW T, NEW X, NEW Y, NEW n \in Nat, NEW m \in Nat,
           Prefix(S, n) <= Prefix(T, m), X \subseteq S,
           \A i \in 1 .. n, j \in 1 .. m :
              i \in X /\ j \in T /\ Prefix(S, i) = Prefix(T, j) => j \in Y
    PROVE  Prefix(X, n) <= Prefix(Y, m)
<1> DEFINE A == {i \in 1 .. n : i \in X}
           B == {j \in 1 .. m : j \in Y}
<1>1. /\ IsFiniteSet(A) /\ Prefix(X, n) = Cardinality(A) /\ Cardinality(A) \in Nat
      /\ IsFiniteSet(B) /\ Prefix(Y, m) = Cardinality(B) /\ Cardinality(B) \in Nat
  BY PrefixFinite, FS_CardinalityType DEF Prefix
<1>2. ASSUME NEW i \in A PROVE \E j \in B : Prefix(T, j) = Prefix(S, i)
  <2>1. i \in 1 .. n /\ i \in S /\ i \in X
    OBVIOUS
  <2>2. Prefix(S, n) \in Nat /\ Prefix(S, i) \in 1 .. Prefix(S, n)
    BY <2>1, PrefixBounds
  <2>3. Prefix(S, i) \in 1 .. Prefix(T, m)
    BY <2>2, PrefixStep
  <2>4. PICK j \in 1 .. m : j \in T /\ Prefix(T, j) = Prefix(S, i)
    BY <2>3, PrefixOnto
  <2> QED BY <2>1, <2>4
<1> SUFFICES ASSUME Cardinality(B) < Cardinality(A) PROVE FALSE
  BY <1>1
<1> DEFINE f == [i \in A |-> CHOOSE j \in B : Prefix(T, j) = Prefix(S, i)]
<1>3. \A i \in A : f[i] \in B /\ Prefix(T, f[i]) = Prefix(S, i)
  BY <1>2
<1>4. f \in [A -> B]
  BY <1>3
<1>5. \A x, y \in A : f[x] = f[y] => x = y
  <2> TAKE x, y \in A
  <2> HAVE f[x] = f[y]
  <2>1. Prefix(S, x) = Prefix(S, y)
    BY <1>3
  <2>2. x \in Nat \ {0} /\ y \in Nat \ {0} /\ x \in S /\ y \in S
    OBVIOUS
  <2> QED BY <2>1, <2>2, PrefixUnique
<1> HIDE DEF A, B, f
<1> QED BY <1>1, <1>4, <1>5, FS_PigeonHole

\* The calls of p that are a barrier with q, and the barriers of p over g
WithOf(p, q) == {i \in Nat : Common(p, q, i)}
OverOf(p, g) == {i \in Nat : prog[p][i].op \in BarrierOp /\ prog[p][i].grp = g}

LEMMA CountsPrefix ==
    ASSUME NEW p, NEW q, NEW g, NEW n
    PROVE  /\ CommonCount(p, q, n) = Prefix(WithOf(p, q), n)
           /\ BarrierCount(p, g, n) = Prefix(OverOf(p, g), n)
<1>1. {i \in 1 .. n : Common(p, q, i)} = {i \in 1 .. n : i \in WithOf(p, q)}
  BY DEF WithOf
<1>2. {i \in 1 .. n : /\ prog[p][i].op \in BarrierOp
                      /\ prog[p][i].grp = g} = {i \in 1 .. n : i \in OverOf(p, g)}
  BY DEF OverOf
<1> QED BY <1>1, <1>2 DEF CommonCount, BarrierCount, Prefix

LEMMA CommonStep ==
    ASSUME NEW p, NEW q, NEW n \in Nat \ {0}
    PROVE  /\ CommonCount(p, q, n - 1) \in Nat
           /\ CommonCount(p, q, n) = CommonCount(p, q, n - 1) + Unit(Common(p, q, n))
<1>1. n - 1 \in Nat /\ (n - 1) + 1 = n
  OBVIOUS
<1>2. /\ Prefix(WithOf(p, q), n - 1) \in Nat
      /\ Prefix(WithOf(p, q), (n - 1) + 1)
            = Prefix(WithOf(p, q), n - 1) + Unit((n - 1) + 1 \in WithOf(p, q))
  BY <1>1, PrefixStep
<1>3. n \in WithOf(p, q) <=> Common(p, q, n)
  BY DEF WithOf
<1>4. Prefix(WithOf(p, q), n) = Prefix(WithOf(p, q), n - 1) + Unit(Common(p, q, n))
  BY <1>1, <1>2, <1>3 DEF Unit
<1> QED BY <1>2, <1>4, CountsPrefix

-----------------------------------------------------------------------------
(* The channels *)

BarrierRequest  == {"OP_BARRIER_REQUEST"}
BarrierResponse == {"OP_BARRIER_RESPONSE"}
OnlyAnswers(q)  == \A i \in DOMAIN q : q[i].op \in ResponseOp

\* A channel gains answers only, and loses a barrier request after all that
\* is ahead of it.
Drains(old, new) ==
    /\ \A i \in DOMAIN new :
          new[i].op \notin ResponseOp => \E j \in DOMAIN old : new[i] = old[j]
    /\ Behind(old) =>
          /\ Behind(new)
          /\ Holds(old, BarrierRequest) => Holds(new, BarrierRequest) \/ OnlyAnswers(new)

LEMMA DrainsTrans ==
    ASSUME NEW p, NEW q, NEW t, Drains(p, q), Drains(q, t)
    PROVE  Drains(p, t)
<1>1. \A i \in DOMAIN t :
         t[i].op \notin ResponseOp => \E j \in DOMAIN p : t[i] = p[j]
  BY DEF Drains
<1>2. OnlyAnswers(q) => OnlyAnswers(t)
  BY DEF Drains, OnlyAnswers
<1> QED BY <1>1, <1>2 DEF Drains

LEMMA DrainsSame == \A q : Drains(q, q)
  BY DEF Drains

LEMMA AppendAt ==
    ASSUME NEW q \in Seq(Message), NEW m
    PROVE  /\ \A i \in DOMAIN Append(q, m) :
                 \/ i \in DOMAIN q /\ Append(q, m)[i] = q[i]
                 \/ i = Len(q) + 1 /\ Append(q, m)[i] = m
           /\ \A i \in DOMAIN q : i \in DOMAIN Append(q, m) /\ Append(q, m)[i] = q[i]
           /\ \A i \in DOMAIN q : i <= Len(q) /\ i \in Nat
           /\ Len(q) \in Nat
           /\ Len(q) + 1 \in DOMAIN Append(q, m) /\ Append(q, m)[Len(q) + 1] = m
           /\ \A i \in DOMAIN Append(q, m) : i \in Nat /\ i <= Len(q) + 1
  OBVIOUS

LEMMA TailAt ==
    ASSUME NEW q \in Seq(Message), q # <<>>
    PROVE  /\ 1 \in DOMAIN q /\ Head(q) = q[1]
           /\ \A i \in DOMAIN q : i \in Nat \ {0}
           /\ \A i \in DOMAIN Tail(q) :
                 i \in Nat \ {0} /\ i + 1 \in DOMAIN q /\ Tail(q)[i] = q[i + 1]
           /\ \A i \in DOMAIN q : i # 1 => i - 1 \in DOMAIN Tail(q) /\ Tail(q)[i - 1] = q[i]
<1>1. /\ Tail(q) \in Seq(Message) /\ Len(Tail(q)) = Len(q) - 1 /\ Len(q) \in Nat \ {0}
      /\ DOMAIN q = 1 .. Len(q) /\ DOMAIN Tail(q) = 1 .. Len(Tail(q))
      /\ \A i \in 1 .. Len(Tail(q)) : Tail(q)[i] = q[i + 1]
  BY HeadTailProperties, EmptySeq
<1>2. \A i \in DOMAIN q : i # 1 => i - 1 \in DOMAIN Tail(q) /\ Tail(q)[i - 1] = q[i]
  <2> TAKE i \in DOMAIN q
  <2> HAVE i # 1
  <2>1. i \in Nat /\ i - 1 \in 1 .. Len(Tail(q)) /\ (i - 1) + 1 = i
    BY <1>1
  <2> QED BY <1>1, <2>1
<1>3. \A i \in DOMAIN Tail(q) :
         i \in Nat \ {0} /\ i + 1 \in DOMAIN q /\ Tail(q)[i] = q[i + 1]
  BY <1>1
<1>4. 1 \in DOMAIN q /\ Head(q) = q[1] /\ \A i \in DOMAIN q : i \in Nat \ {0}
  BY <1>1
<1> QED BY <1>2, <1>3, <1>4

LEMMA BehindAppend ==
    ASSUME NEW q \in Seq(Message), NEW m, Behind(q),
           m.op \in ResponseOp \/ ~Holds(q, BarrierRequest)
    PROVE  Behind(Append(q, m))
<1> SUFFICES ASSUME NEW i \in DOMAIN Append(q, m), NEW j \in DOMAIN Append(q, m),
                    Append(q, m)[i].op = "OP_BARRIER_REQUEST", i < j
             PROVE  Append(q, m)[j].op \in ResponseOp
  BY DEF Behind
<1>1. i \in DOMAIN q /\ Append(q, m)[i] = q[i]
  BY AppendAt
<1>2. Holds(q, BarrierRequest)
  BY <1>1 DEF Holds, BarrierRequest
<1>3. CASE Append(q, m)[j] = m
  BY <1>2, <1>3
<1>4. CASE j \in DOMAIN q /\ Append(q, m)[j] = q[j]
  BY <1>1, <1>4 DEF Behind
<1> QED BY <1>3, <1>4, AppendAt

LEMMA DrainsAppend ==
    ASSUME NEW q \in Seq(Message), NEW m, m.op \in ResponseOp
    PROVE  Drains(q, Append(q, m))
<1>1. \A i \in DOMAIN Append(q, m) :
         Append(q, m)[i].op \notin ResponseOp => \E j \in DOMAIN q : Append(q, m)[i] = q[j]
  BY AppendAt
<1>2. Holds(q, BarrierRequest) => Holds(Append(q, m), BarrierRequest)
  BY AppendAt DEF Holds
<1>3. Behind(q) => Behind(Append(q, m))
  BY BehindAppend
<1> QED BY <1>1, <1>2, <1>3 DEF Drains

LEMMA DrainsTail ==
    ASSUME NEW q \in Seq(Message), q # <<>>
    PROVE  Drains(q, Tail(q))
<1>1. \A i \in DOMAIN Tail(q) : \E j \in DOMAIN q : Tail(q)[i] = q[j]
  BY TailAt
<1>2. ASSUME Behind(q) PROVE Behind(Tail(q))
  <2> SUFFICES ASSUME NEW i \in DOMAIN Tail(q), NEW j \in DOMAIN Tail(q),
                      Tail(q)[i].op = "OP_BARRIER_REQUEST", i < j
               PROVE  Tail(q)[j].op \in ResponseOp
    BY DEF Behind
  <2>1. /\ i + 1 \in DOMAIN q /\ Tail(q)[i] = q[i + 1] /\ i \in Nat
        /\ j + 1 \in DOMAIN q /\ Tail(q)[j] = q[j + 1] /\ j \in Nat
        /\ i + 1 < j + 1
    BY TailAt
  <2> QED BY <1>2, <2>1 DEF Behind
<1>3. ASSUME Behind(q), Holds(q, BarrierRequest)
      PROVE  Holds(Tail(q), BarrierRequest) \/ OnlyAnswers(Tail(q))
  <2>1. PICK i \in DOMAIN q : q[i].op = "OP_BARRIER_REQUEST"
    BY <1>3 DEF Holds, BarrierRequest
  <2>2. CASE i = 1
    <3> SUFFICES ASSUME NEW j \in DOMAIN Tail(q) PROVE Tail(q)[j].op \in ResponseOp
      BY DEF OnlyAnswers
    <3>1. j + 1 \in DOMAIN q /\ Tail(q)[j] = q[j + 1] /\ 1 < j + 1
      BY TailAt
    <3> QED BY <1>3, <2>1, <2>2, <3>1 DEF Behind
  <2>3. CASE i # 1
    <3>1. i - 1 \in DOMAIN Tail(q) /\ Tail(q)[i - 1].op = "OP_BARRIER_REQUEST"
      BY <2>1, <2>3, TailAt
    <3> QED BY <3>1 DEF Holds, BarrierRequest
  <2> QED BY <2>2, <2>3
<1> QED BY <1>1, <1>2, <1>3 DEF Drains

AllDrain == \A x, y \in Rank : Drains(chan[x][y], chan'[x][y])

LEMMA SameDrain ==
    ASSUME UNCHANGED chan
    PROVE  AllDrain
  BY DrainsSame DEF AllDrain

LEMMA PushDrain ==
    ASSUME TypeInv, NEW r \in Rank, NEW d \in Rank, NEW m, Push(r, d, m),
           m.op \in ResponseOp
    PROVE  AllDrain
<1> SUFFICES ASSUME NEW x \in Rank, NEW y \in Rank
             PROVE  Drains(chan[x][y], chan'[x][y])
  BY DEF AllDrain
<1>1. chan'[x][y] = IF x = r /\ y = d THEN Append(chan[x][y], m) ELSE chan[x][y]
  BY PushChan
<1>2. Drains(chan[x][y], Append(chan[x][y], m))
  BY ChanType, DrainsAppend
<1> QED BY <1>1, <1>2, DrainsSame

\* Rank r receives a message of s, and answers nobody or one rank.
AnswersOnly(r, s) ==
    /\ chan[s][r] # <<>>
    /\ \/ Consume(r, s)
       \/ \E d \in Rank : \E m : Answer(r, s, d, m) /\ m.op \in ResponseOp

LEMMA AnswersDrain ==
    ASSUME TypeInv, NEW r \in Rank, NEW s \in Rank, AnswersOnly(r, s)
    PROVE  AllDrain
<1> SUFFICES ASSUME NEW x \in Rank, NEW y \in Rank
             PROVE  Drains(chan[x][y], chan'[x][y])
  BY DEF AllDrain
<1>1. Drains(chan[x][y], Taken(r, s)[x][y])
  <2>1. Taken(r, s)[x][y] = IF x = s /\ y = r THEN Tail(chan[x][y]) ELSE chan[x][y]
    BY TakenChan
  <2>2. chan[x][y] # <<>> => Drains(chan[x][y], Tail(chan[x][y]))
    BY ChanType, DrainsTail
  <2> QED BY <2>1, <2>2, DrainsSame DEF AnswersOnly
<1>2. CASE Consume(r, s)
  BY <1>1, <1>2 DEF Consume
<1>3. ASSUME NEW d \in Rank, NEW m, Answer(r, s, d, m), m.op \in ResponseOp
      PROVE  Drains(chan[x][y], chan'[x][y])
  <2> DEFINE t == Taken(r, s)[x][y]
  <2>1. t \in Seq(Message) /\ chan'[x][y] = IF x = r /\ y = d THEN Append(t, m) ELSE t
    BY <1>3, AnswerChan DEF AnswersOnly
  <2> HIDE DEF t
  <2>2. Drains(t, Append(t, m))
    BY <1>3, <2>1, DrainsAppend
  <2>3. Drains(chan[x][y], t)
    BY <1>1 DEF t
  <2> QED BY <2>1, <2>2, <2>3, DrainsTrans
<1> QED BY <1>2, <1>3 DEF AnswersOnly

-----------------------------------------------------------------------------
(* How a step keeps the invariant *)

\* No rank asks another one more.
NoneAsks == \A p, q \in Rank : p # q => (Asking(p, q)' => Asking(p, q))

CompleteSame == \A p, q \in Rank : CompleteWith(q, p)' = CompleteWith(q, p)

RanksSound == \A r \in Rank : MaskSound(r) /\ InProgram(r)

\* No rank goes back: what a call has sent it still has.
Onward ==
    /\ prog' = prog
    /\ \A p \in Rank : \A c \in DOMAIN prog[p] : c <= pc[p] => c <= pc'[p]
SendsNow(p, c) ==
    c \in DOMAIN prog'[p] /\ c <= pc'[p] /\ prog'[p][c].op # "gather"

LEMMA CommonCountNext ==
    ASSUME prog' = prog, NEW p, NEW q, NEW n
    PROVE  CommonCount(p, q, n)' = CommonCount(p, q, n)
  BY DEF CommonCount, Common

LEMMA SentAfterNext ==
    ASSUME prog' = prog, NEW p, NEW q,
           \A i \in DOMAIN chan'[p][q] : chan'[p][q][i].op \notin ResponseOp =>
              /\ SendsNow(p, chan'[p][q][i].call)
              /\ CompleteWith(q, p)' <= CommonCount(p, q, chan'[p][q][i].call - 1)
    PROVE  SentAfter(p, q)'
  BY DEF SentAfter, CommonCount, Common, Sends, SendsNow

LEMMA SendsNext ==
    ASSUME Onward, NEW p \in Rank, NEW c, Sends(p, c)
    PROVE  SendsNow(p, c)
  BY DEF Sends, SendsNow, Onward

LEMMA AloneOnward ==
    ASSUME TypeInv, NEW r \in Rank, Alone(r), pc'[r] = pc[r] \/ pc'[r] = pc[r] + 1
    PROVE  Onward
<1> SUFFICES ASSUME NEW p \in Rank, NEW c \in DOMAIN prog[p], c <= pc[p]
             PROVE  c <= pc'[p]
  BY DEF Onward, Alone
<1>1. c \in Nat
  <2>1. prog[p] \in Seq(Call)
    BY ProgramAssumption DEF TypeInv, TypeOK
  <2> QED BY <2>1
<1>2. pc[p] \in Nat
  BY CallVars
<1>3. pc'[p] = pc[p] \/ pc'[p] = pc[p] + 1
  BY DEF Alone
<1> QED BY <1>1, <1>2, <1>3

\* No request, put or other call is sent: every barrier that is complete was
\* so before, or has its channels drained.
LEMMA DrainFrame ==
    ASSUME BarrierInv, Onward, AllDrain, NoneAsks,
           \A p, q \in Rank : p # q =>
              CompleteWith(q, p)' = CompleteWith(q, p) \/ OnlyAnswers(chan'[p][q]),
           AnswersCounted', RanksSound'
    PROVE  BarrierInv'
<1>1. ASSUME NEW p \in Rank, NEW q \in Rank PROVE Behind(chan'[p][q])
  BY DEF BarrierInv, AllDrain, Drains
<1>2. ASSUME NEW p \in Rank, NEW q \in Rank, p # q, Asking(p, q)',
             ~Holds(chan'[p][q], BarrierRequest)
      PROVE  OnlyAnswers(chan'[p][q])
  <2>1. Behind(chan[p][q]) /\ RequestTaken(p, q) /\ Drains(chan[p][q], chan'[p][q])
        /\ Asking(p, q)
    BY <1>2 DEF BarrierInv, AllDrain, NoneAsks
  <2>2. CASE Holds(chan[p][q], BarrierRequest)
    BY <1>2, <2>1, <2>2 DEF Drains
  <2>3. CASE ~Holds(chan[p][q], BarrierRequest)
    <3>1. OnlyAnswers(chan[p][q])
      BY <2>1, <2>3 DEF RequestTaken, OnlyAnswers, BarrierRequest
    <3> QED BY <2>1, <3>1 DEF Drains, OnlyAnswers
  <2> QED BY <2>2, <2>3
<1>3. ASSUME NEW p \in Rank, NEW q \in Rank, p # q, NEW i \in DOMAIN chan'[p][q],
             chan'[p][q][i].op \notin ResponseOp
      PROVE  /\ SendsNow(p, chan'[p][q][i].call)
             /\ CompleteWith(q, p)' <= CommonCount(p, q, chan'[p][q][i].call - 1)
  <2>1. PICK j \in DOMAIN chan[p][q] : chan'[p][q][i] = chan[p][q][j]
    BY <1>3 DEF AllDrain, Drains
  <2>2. /\ Sends(p, chan[p][q][j].call)
        /\ CompleteWith(q, p) <= CommonCount(p, q, chan[p][q][j].call - 1)
    BY <1>3, <2>1 DEF BarrierInv, SentAfter
  <2>3. CompleteWith(q, p)' = CompleteWith(q, p)
    BY <1>3 DEF OnlyAnswers
  <2>4. SendsNow(p, chan[p][q][j].call)
    BY <2>2, SendsNext
  <2> QED BY <2>1, <2>2, <2>3, <2>4
<1>4. \A p, q \in Rank : p # q => RequestTaken(p, q)'
  BY <1>2 DEF RequestTaken, OnlyAnswers, BarrierRequest
<1>5. \A p, q \in Rank : p # q => SentAfter(p, q)'
  BY <1>3, SentAfterNext DEF Onward
<1> QED BY <1>1, <1>4, <1>5 DEF BarrierInv, RanksSound

\* Rank r sends d another message than an answer.
LEMMA SendFrame ==
    ASSUME TypeInv, BarrierInv, Onward, NEW r \in Rank, NEW d \in Rank, NEW m,
           Push(r, d, m), m.call = pc[r], pc[r] \in DOMAIN prog[r],
           Cur(r).op # "gather",
           ~Holds(chan[r][d], BarrierRequest), ~Told(r, d), ~Owes(d, r),
           m.op \in BarrierRequest \/ ~Asking(r, d)',
           \A p, q \in Rank : p # q /\ (p # r \/ q # d) => (Asking(p, q)' => Asking(p, q)),
           CompleteSame, AnswersCounted', RanksSound'
    PROVE  BarrierInv'
<1>1. \A p, q \in Rank : /\ chan[p][q] \in Seq(Message)
                         /\ chan'[p][q] = IF p = r /\ q = d THEN Append(chan[p][q], m)
                                                            ELSE chan[p][q]
  BY PushChan, ChanType
<1>2. ASSUME NEW p \in Rank, NEW q \in Rank PROVE Behind(chan'[p][q])
  <2>1. Behind(chan[p][q])
    BY DEF BarrierInv
  <2> QED BY <1>1, <2>1, BehindAppend
<1>3. ASSUME NEW p \in Rank, NEW q \in Rank, p # q, Asking(p, q)',
             ~Holds(chan'[p][q], BarrierRequest)
      PROVE  OnlyAnswers(chan'[p][q])
  <2>1. CASE p = r /\ q = d
    <3>1. m.op \in BarrierRequest
      BY <1>3, <2>1
    <3>2. Len(chan[r][d]) + 1 \in DOMAIN chan'[r][d] /\ chan'[r][d][Len(chan[r][d]) + 1] = m
      <4>1. chan[r][d] \in Seq(Message) /\ chan'[r][d] = Append(chan[r][d], m)
        BY <1>1
      <4> QED BY <4>1, AppendAt
    <3> QED BY <1>3, <2>1, <3>1, <3>2 DEF Holds
  <2>2. CASE ~(p = r /\ q = d)
    <3>1. Asking(p, q) /\ chan'[p][q] = chan[p][q]
      BY <1>1, <1>3, <2>2
    <3> QED BY <1>3, <3>1 DEF BarrierInv, RequestTaken, OnlyAnswers, BarrierRequest
  <2> QED BY <2>1, <2>2
<1>4. ASSUME NEW p \in Rank, NEW q \in Rank, p # q, NEW i \in DOMAIN chan'[p][q],
             chan'[p][q][i].op \notin ResponseOp
      PROVE  /\ SendsNow(p, chan'[p][q][i].call)
             /\ CompleteWith(q, p)' <= CommonCount(p, q, chan'[p][q][i].call - 1)
  <2>1. CompleteWith(q, p)' = CompleteWith(q, p)
    BY DEF CompleteSame
  <2>3. CASE i \in DOMAIN chan[p][q] /\ chan'[p][q][i] = chan[p][q][i]
    <3>1. /\ Sends(p, chan[p][q][i].call)
          /\ CompleteWith(q, p) <= CommonCount(p, q, chan[p][q][i].call - 1)
      BY <1>4, <2>3 DEF BarrierInv, SentAfter
    <3>2. SendsNow(p, chan[p][q][i].call)
      BY <3>1, SendsNext
    <3> QED BY <2>1, <2>3, <3>1, <3>2
  <2>4. CASE p = r /\ q = d /\ chan'[p][q][i] = m
    <3>1. LeftWith(r, d) + Unit(Told(r, d)) + Unit(Owes(d, r)) = CompleteWith(d, r)
      BY <1>4, <2>4 DEF BarrierInv, AnswersCounted
    <3>2. LeftWith(r, d) \in Nat
      <4>1. pc[r] \in Nat \ {0}
        BY CallVars
      <4> QED BY <4>1, CommonStep DEF LeftWith
    <3>3. LeftWith(r, d) = CompleteWith(d, r)
      BY <3>1, <3>2 DEF Unit
    <3>4. CompleteWith(d, r) <= CommonCount(r, d, pc[r] - 1)
      BY <3>2, <3>3 DEF LeftWith
    <3>5. SendsNow(r, pc[r])
      <4>1. pc[r] \in Nat
        BY CallVars
      <4>2. Sends(r, pc[r])
        BY <4>1 DEF Sends, Cur
      <4> QED BY <4>2, SendsNext
    <3> QED BY <2>1, <2>4, <3>4, <3>5
  <2>5. chan[p][q] \in Seq(Message)
    BY <1>1
  <2>6. CASE p = r /\ q = d
    <3>1. chan'[p][q] = Append(chan[p][q], m)
      BY <1>1, <2>6
    <3> QED BY <2>3, <2>4, <2>5, <2>6, <3>1, AppendAt
  <2> QED BY <1>1, <2>3, <2>6
<1>5. \A p, q \in Rank : p # q => RequestTaken(p, q)'
  BY <1>3 DEF RequestTaken, OnlyAnswers, BarrierRequest
<1>6. \A p, q \in Rank : p # q => SentAfter(p, q)'
  BY <1>4, SentAfterNext DEF Onward
<1> QED BY <1>2, <1>5, <1>6 DEF BarrierInv, RanksSound

-----------------------------------------------------------------------------
(* Who has asked, and who is told *)

LEMMA OpenNone ==
    ASSUME TypeInv, NEW r \in Rank, NEW p \in Rank, Open(r, p) = 0
    PROVE  /\ ~Holds(chan[r][p], BarrierRequest)
           /\ ~Holds(chan[p][r], BarrierResponse)
           /\ From(bq[p], r) = 0 /\ From(kept[p], r) = 0
<1>1. /\ \A i \in DOMAIN chan[r][p] : chan[r][p][i].op \notin RequestOp
      /\ \A i \in DOMAIN chan[p][r] : chan[p][r][i].op \notin ResponseOp
      /\ \A i \in DOMAIN bq[p] : bq[p][i].rank # r
      /\ \A i \in DOMAIN kept[p] : kept[p][i].rank # r
  BY OpenTrace
<1>2. From(bq[p], r) = 0 /\ From(kept[p], r) = 0
  BY <1>1, QueueTypes, FromType
<1> QED BY <1>1, <1>2 DEF Holds, BarrierRequest, BarrierResponse, RequestOp, ResponseOp

\* Rank p has queued a request of r.
Parks(p, r) == From(bq[p], r) + From(kept[p], r) # 0

LEMMA OwesParks ==
    ASSUME BarrierInv, NEW q \in Rank, NEW p, Owes(q, p)
    PROVE  phase[q] = "bscan" /\ p \in Cur(q).grp \ {q} /\ Parks(q, p)
<1>1. MaskSound(q) /\ p \in reqs[q] /\ phase[q] \in {"bscan", "bwait"}
  BY DEF BarrierInv, Owes, Complete
<1> QED BY <1>1 DEF MaskSound, Parks

\* A rank outside a barrier asks nobody, is told nothing, and is owed nothing.
LEMMA OutsideBarrier ==
    ASSUME TypeInv, CallInv, NEW r \in Rank, ~In(r, BarrierOp)
    PROVE  /\ phase[r] \notin BarrierPhase /\ ~Complete(r) /\ ~Gathering(r)
           /\ \A p \in Rank : /\ ~Told(r, p) /\ ~Asking(r, p) /\ ~Parks(p, r)
                              /\ ~Holds(chan[r][p], BarrierRequest)
<1>1. phase[r] \notin BarrierPhase
  BY DEF CallInv, PhaseAt, In, BarrierPhase
<1>2. ~Complete(r) /\ ~Gathering(r)
  BY <1>1 DEF Complete, Gathering, BarrierPhase
<1>3. ASSUME NEW p \in Rank PROVE ~Parks(p, r)
  <2>1. /\ \A i \in DOMAIN bq[p] : bq[p][i].rank # r
        /\ \A i \in DOMAIN kept[p] : kept[p][i].rank # r
    BY DEF CallInv, QueuesPresent, EntriesPresent, Present
  <2>2. From(bq[p], r) = 0 /\ From(kept[p], r) = 0
    BY <2>1, QueueTypes, FromType
  <2> QED BY <2>2 DEF Parks
<1>4. ASSUME NEW p \in Rank PROVE ~Holds(chan[r][p], BarrierRequest)
  <2>1. \A i \in DOMAIN chan[r][p] : chan[r][p][i].op # "OP_BARRIER_REQUEST"
    <3> SUFFICES ASSUME NEW i \in DOMAIN chan[r][p],
                        chan[r][p][i].op = "OP_BARRIER_REQUEST"
                 PROVE  FALSE
      OBVIOUS
    <3>1. "OP_BARRIER_REQUEST" \in RequestOp /\ Caller("OP_BARRIER_REQUEST") = BarrierOp
      BY DEF RequestOp, Caller, RmwRequest, RmwResponse
    <3> QED BY <3>1 DEF CallInv, MessagesPresent, Present
  <2> QED BY <2>1 DEF Holds, BarrierRequest
<1> QED BY <1>1, <1>2, <1>3, <1>4 DEF Told, Asking

\* A rank whose request is queued has asked, and has not been told.
LEMMA ParksAsked ==
    ASSUME TypeInv, CallInv, NEW p \in Rank, NEW r \in Rank, Parks(p, r)
    PROVE  /\ In(r, BarrierOp) /\ p \in Cur(r).grp \ {r} /\ p \notin todo[r]
           /\ resps[r][p] = 0 /\ ~Told(r, p) /\ Asking(r, p)
           /\ ~Holds(chan[r][p], BarrierRequest)
<1>1. In(r, BarrierOp)
  BY OutsideBarrier
<1>2. /\ Num(chan[r][p], RequestOp) \in Nat /\ Num(chan[p][r], ResponseOp) \in Nat
      /\ From(bq[p], r) \in Nat /\ From(kept[p], r) \in Nat /\ LockEntries(r, p) \in Nat
  BY OpenType
<1>3. IF p \in Cur(r).grp \ {r}
      THEN Open(r, p) + Unit(p \in todo[r]) + resps[r][p] = 1
      ELSE Open(r, p) = 0 /\ p \notin todo[r]
  BY <1>1 DEF CallInv, Counted, MasksCounted
<1>4. Open(r, p) = Num(chan[r][p], RequestOp) + Num(chan[p][r], ResponseOp)
                     + (From(bq[p], r) + From(kept[p], r) + LockEntries(r, p))
  BY DEF Open, Wire, Parked
<1>5. resps[r][p] \in Nat
  BY CallVars
<1>6. /\ p \in Cur(r).grp \ {r} /\ p \notin todo[r] /\ resps[r][p] = 0
      /\ Num(chan[r][p], RequestOp) = 0 /\ Num(chan[p][r], ResponseOp) = 0
  <2>1. Unit(p \in todo[r]) \in Nat /\ (Unit(p \in todo[r]) = 0 => p \notin todo[r])
    BY DEF Unit
  <2>2. From(bq[p], r) + From(kept[p], r) # 0
    BY DEF Parks
  <2>3. Open(r, p) \in Nat /\ Open(r, p) # 0
    BY <1>2, <1>4, <2>2
  <2>4. p \in Cur(r).grp \ {r} /\ Open(r, p) + Unit(p \in todo[r]) + resps[r][p] = 1
    BY <1>3, <2>3
  <2>5. Open(r, p) = 1 /\ Unit(p \in todo[r]) = 0 /\ resps[r][p] = 0
    BY <1>5, <2>1, <2>3, <2>4
  <2> QED BY <1>2, <1>4, <2>1, <2>2, <2>4, <2>5
<1>7. /\ \A i \in DOMAIN chan[r][p] : chan[r][p][i].op \notin RequestOp
      /\ \A i \in DOMAIN chan[p][r] : chan[p][r][i].op \notin ResponseOp
  BY <1>6, ChanType, NumType
<1>8. ~Holds(chan[r][p], BarrierRequest) /\ ~Holds(chan[p][r], BarrierResponse)
  BY <1>7 DEF Holds, BarrierRequest, BarrierResponse, RequestOp, ResponseOp
<1> QED BY <1>1, <1>6, <1>8 DEF Told, Asking, BarrierResponse

\* A rank that has still to be asked has told nothing.
LEMMA TodoUnasked ==
    ASSUME TypeInv, CallInv, NEW r \in Rank, In(r, BarrierOp), NEW p \in todo[r]
    PROVE  /\ p \in Rank /\ p \in Cur(r).grp \ {r}
           /\ ~Told(r, p) /\ ~Parks(p, r) /\ ~Asking(r, p)
           /\ ~Holds(chan[r][p], BarrierRequest)
<1>1. p \in Rank
  BY CallVars
<1>2. IF p \in Cur(r).grp \ {r}
      THEN Open(r, p) + Unit(p \in todo[r]) + resps[r][p] = 1
      ELSE Open(r, p) = 0 /\ p \notin todo[r]
  BY <1>1 DEF CallInv, Counted, MasksCounted
<1>3. resps[r][p] \in Nat /\ Open(r, p) \in Nat
  BY <1>1, CallVars, OpenType
<1>4. p \in Cur(r).grp \ {r} /\ Open(r, p) = 0 /\ resps[r][p] = 0
  BY <1>2, <1>3 DEF Unit
<1>5. /\ ~Holds(chan[r][p], BarrierRequest) /\ ~Holds(chan[p][r], BarrierResponse)
      /\ From(bq[p], r) = 0 /\ From(kept[p], r) = 0
  BY <1>1, <1>4, OpenNone
<1> QED BY <1>1, <1>4, <1>5 DEF Told, Parks, Asking, BarrierResponse

-----------------------------------------------------------------------------
(* Counts that stay *)

LeftSame  == \A p, q \in Rank : LeftWith(p, q)' = LeftWith(p, q)
ToldSame  == \A p, q \in Rank : p # q => (Told(p, q)' <=> Told(p, q))
OwesSame  == \A p, q \in Rank : p # q => (Owes(q, p)' <=> Owes(q, p))

LEMMA AnswersFrame ==
    ASSUME AnswersCounted, LeftSame, ToldSame, OwesSame, CompleteSame
    PROVE  AnswersCounted'
<1> SUFFICES ASSUME NEW p \in Rank, NEW q \in Rank, p # q
             PROVE  LeftWith(p, q)' + Unit(Told(p, q)') + Unit(Owes(q, p)') = CompleteWith(q, p)'
  BY DEF AnswersCounted, Unit
<1>1. LeftWith(p, q) + Unit(Told(p, q)) + Unit(Owes(q, p)) = CompleteWith(q, p)
  BY DEF AnswersCounted
<1>2. Unit(Told(p, q)') = Unit(Told(p, q)) /\ Unit(Owes(q, p)') = Unit(Owes(q, p))
  BY DEF ToldSame, OwesSame, Unit
<1> QED BY <1>1, <1>2 DEF LeftSame, CompleteSame

\* The counts of a rank that is where it was
LEMMA CountsStay ==
    ASSUME prog' = prog, NEW p, pc'[p] = pc[p]
    PROVE  \A q : /\ LeftWith(p, q)' = LeftWith(p, q)
                  /\ phase'[p] = phase[p] => CompleteWith(p, q)' = CompleteWith(p, q)
  BY DEF LeftWith, CompleteWith, CommonCount, Common, Complete

\* Only r acts, and it stays in its call without getting complete in a
\* barrier, or was so already.
LEMMA CountsAlone ==
    ASSUME NEW r \in Rank, Alone(r), pc'[r] = pc[r], Complete(r)' <=> Complete(r)
    PROVE  LeftSame /\ CompleteSame
<1>1. \A p \in Rank : pc'[p] = pc[p] /\ (Complete(p)' <=> Complete(p))
  BY DEF Alone, Complete
<1>2. \A p, q \in Rank : LeftWith(p, q)' = LeftWith(p, q)
                      /\ CompleteWith(p, q)' = CompleteWith(p, q)
  BY <1>1 DEF Alone, LeftWith, CompleteWith, CommonCount, Common
<1> QED BY <1>2 DEF LeftSame, CompleteSame

-----------------------------------------------------------------------------
(* The calls that are no barriers *)

\* Rank r sends one message at most, for the call it is in, neither an answer
\* nor a barrier request.
Posts(r) ==
    \/ chan' = chan
    \/ \E d \in Rank : \E m :
          /\ Push(r, d, m) /\ m.call = pc[r] /\ Cur(r).op # "gather"
          /\ m.op \notin ResponseOp \cup BarrierRequest

\* Rank r makes a step inside, into or out of a call that is no barrier.
Outside(r) ==
    /\ Alone(r)
    /\ pc[r] \in DOMAIN prog[r] /\ Cur(r).op \notin BarrierOp
    /\ \/ pc'[r] = pc[r]
       \/ pc'[r] = pc[r] + 1 /\ phase'[r] = "idle"
    /\ \A q \in Rank \ {r} : todo'[q] = todo[q]
    /\ UNCHANGED barriers
    /\ Posts(r)

LEMMA HoldsNum ==
    ASSUME NEW Q, NEW q \in Seq(Q), NEW ops
    PROVE  Holds(q, ops) <=> Num(q, ops) # 0
  BY NumType DEF Holds

\* The channels hold the same barrier answers.
AnswersSame ==
    \A x, y \in Rank : Holds(chan'[x][y], BarrierResponse) <=> Holds(chan[x][y], BarrierResponse)

LEMMA PushAnswers ==
    ASSUME TypeInv, NEW r \in Rank, NEW d \in Rank, NEW m, Push(r, d, m),
           m.op # "OP_BARRIER_RESPONSE"
    PROVE  AnswersSame
<1> SUFFICES ASSUME NEW x \in Rank, NEW y \in Rank
             PROVE  Holds(chan'[x][y], BarrierResponse) <=> Holds(chan[x][y], BarrierResponse)
  BY DEF AnswersSame
<1>1. chan'[x][y] = IF x = r /\ y = d THEN Append(chan[x][y], m) ELSE chan[x][y]
  BY PushChan
<1>2. chan[x][y] \in Seq(Message)
  BY ChanType
<1>3. Holds(Append(chan[x][y], m), BarrierResponse) <=> Holds(chan[x][y], BarrierResponse)
  BY <1>2, AppendAt DEF Holds, BarrierResponse
<1> QED BY <1>1, <1>3

LEMMA PostsFacts ==
    ASSUME TypeInv, NEW r \in Rank, Posts(r)
    PROVE  AnswersSame
<1>1. CASE chan' = chan
  BY <1>1 DEF AnswersSame
<1>2. ASSUME NEW d \in Rank, NEW m, Push(r, d, m), m.op \notin ResponseOp
      PROVE  AnswersSame
  <2>1. m.op # "OP_BARRIER_RESPONSE"
    BY <1>2 DEF ResponseOp
  <2> QED BY <1>2, <2>1, PushAnswers
<1> QED BY <1>1, <1>2 DEF Posts

LEMMA OutsideCounts ==
    ASSUME TypeInv, CallInv, CallInv', TypeInv', BarrierInv, NEW r \in Rank, Outside(r)
    PROVE  /\ AnswersCounted' /\ CompleteSame /\ RanksSound' /\ NoneAsks
           /\ ~In(r, BarrierOp) /\ \A p \in Rank : ~Asking(r, p)'
<1>1. /\ prog' = prog /\ ~In(r, BarrierOp) /\ ~In(r, BarrierOp)'
      /\ \A q \in Rank \ {r} : pc'[q] = pc[q] /\ phase'[q] = phase[q] /\ todo'[q] = todo[q]
      /\ bq' = bq /\ kept' = kept /\ reqs' = reqs /\ resps' = resps
  BY DEF Outside, Alone, In, Cur, barriers
<1>2. ~Complete(r) /\ ~Gathering(r) /\ phase[r] \notin BarrierPhase
  BY <1>1, OutsideBarrier
<1>3. phase'[r] \notin BarrierPhase
  BY <1>1 DEF CallInv, PhaseAt, In, BarrierPhase
<1>4. pc[r] \in Nat \ {0} /\ pc'[r] \in {pc[r], pc[r] + 1}
  BY CallVars DEF Outside
<1>5. ASSUME NEW p \in Rank
      PROVE  LeftWith(r, p)' = LeftWith(r, p) /\ CompleteWith(r, p)' = CompleteWith(r, p)
  <2>1. ~Common(r, p, pc[r])
    BY DEF Outside, Common, Cur
  <2>2. /\ CommonCount(r, p, pc[r] - 1) \in Nat
        /\ CommonCount(r, p, pc[r]) = CommonCount(r, p, pc[r] - 1)
    BY <1>4, <2>1, CommonStep DEF Unit
  <2>3. pc'[r] - 1 \in {pc[r] - 1, pc[r]}
    BY <1>4
  <2>4. LeftWith(r, p)' = CommonCount(r, p, pc'[r] - 1)
    BY <1>1 DEF LeftWith, CommonCount, Common
  <2>5. CompleteWith(r, p)' = CommonCount(r, p, pc'[r] - 1)
    <3>1. ~Complete(r)'
      BY <1>3 DEF Complete, BarrierPhase
    <3> QED BY <1>1, <3>1 DEF CompleteWith, CommonCount, Common
  <2>6. LeftWith(r, p) = CommonCount(r, p, pc[r] - 1) /\ CompleteWith(r, p) = CommonCount(r, p, pc[r] - 1)
    BY <1>2 DEF LeftWith, CompleteWith
  <2> QED BY <2>2, <2>3, <2>4, <2>5, <2>6
<1>6. LeftSame /\ CompleteSame
  <2>1. \A q \in Rank \ {r} : \A p : LeftWith(q, p)' = LeftWith(q, p) /\ CompleteWith(q, p)' = CompleteWith(q, p)
    BY <1>1, CountsStay
  <2> QED BY <1>5, <2>1 DEF LeftSame, CompleteSame
<1>7. AnswersSame
  BY PostsFacts DEF Outside
<1>8. ToldSame
  <2> SUFFICES ASSUME NEW p \in Rank, NEW q \in Rank PROVE Told(p, q)' <=> Told(p, q)
    BY DEF ToldSame
  <2>1. CASE p = r
    BY <1>1, <2>1 DEF Told
  <2>2. CASE p # r
    <3>1. (In(p, BarrierOp)' <=> In(p, BarrierOp)) /\ Cur(p)' = Cur(p)
      BY <1>1, <2>2 DEF In, Cur
    <3> QED BY <1>1, <1>7, <3>1 DEF Told, AnswersSame, BarrierResponse
  <2> QED BY <2>1, <2>2
<1>9. OwesSame
  <2> SUFFICES ASSUME NEW p \in Rank, NEW q \in Rank PROVE Owes(q, p)' <=> Owes(q, p)
    BY DEF OwesSame
  <2>1. ~Complete(r)'
    BY <1>3 DEF Complete, BarrierPhase
  <2> QED BY <1>1, <1>2, <2>1 DEF Owes, Complete
<1>10. AnswersCounted'
  BY <1>6, <1>8, <1>9, AnswersFrame DEF BarrierInv
<1>11. \A q \in Rank : MaskSound(q)'
  <2> TAKE q \in Rank
  <2>1. CASE q = r
    BY <1>3, <2>1 DEF MaskSound, Gathering, BarrierPhase
  <2>2. CASE q # r
    <3>1. MaskSound(q)
      BY DEF BarrierInv
    <3> QED BY <1>1, <2>2, <3>1 DEF MaskSound, Gathering, From, Cur
  <2> QED BY <2>1, <2>2
<1>12. \A q \in Rank : InProgram(q)'
  <2> TAKE q \in Rank
  <2>1. CASE q = r
    <3>1. pc[r] <= Len(prog[r]) /\ Len(prog[r]) \in Nat
      <4>1. prog[r] \in Seq(Call)
        BY ProgramAssumption DEF TypeInv, TypeOK
      <4> QED BY <4>1 DEF Outside
    <3> QED BY <1>1, <1>4, <2>1, <3>1 DEF InProgram
  <2>2. CASE q # r
    BY <1>1, <2>2 DEF BarrierInv, InProgram
  <2> QED BY <2>1, <2>2
<1>13. \A p, q \in Rank : Asking(p, q)' => Asking(p, q)
  <2> TAKE p, q \in Rank
  <2>1. CASE p = r
    BY <1>1, <2>1 DEF Asking
  <2>2. CASE p # r
    BY <1>1, <2>2 DEF Asking, In, Cur
  <2> QED BY <2>1, <2>2
<1> QED BY <1>1, <1>6, <1>10, <1>11, <1>12, <1>13 DEF NoneAsks, RanksSound, Asking

LEMMA OutsideStep ==
    ASSUME TypeInv, CallInv, CallInv', TypeInv', BarrierInv, NEW r \in Rank, Outside(r)
    PROVE  BarrierInv'
<1>1. /\ AnswersCounted' /\ CompleteSame /\ RanksSound' /\ NoneAsks
      /\ ~In(r, BarrierOp) /\ \A p \in Rank : ~Asking(r, p)'
  BY OutsideCounts
<1>2. Onward /\ Posts(r) /\ pc[r] \in DOMAIN prog[r]
  BY AloneOnward DEF Outside
<1>3. CASE chan' = chan
  BY <1>1, <1>2, <1>3, SameDrain, DrainFrame DEF CompleteSame
<1>4. ASSUME NEW d \in Rank, NEW m, Push(r, d, m), m.call = pc[r], Cur(r).op # "gather",
             m.op \notin ResponseOp \cup BarrierRequest
      PROVE  BarrierInv'
  <2>1. ~Holds(chan[r][d], BarrierRequest) /\ ~Told(r, d) /\ ~Parks(d, r)
    BY <1>1, OutsideBarrier
  <2>2. ~Owes(d, r)
    BY <2>1, OwesParks
  <2>3. \A p, q \in Rank : p # q /\ (p # r \/ q # d) => (Asking(p, q)' => Asking(p, q))
    BY <1>1 DEF NoneAsks
  <2> QED BY <1>1, <1>2, <1>4, <2>1, <2>2, <2>3, SendFrame
<1> QED BY <1>2, <1>3, <1>4 DEF Posts

\* What makes a step one of those: it goes on in a phase, ...
Quietly(r) ==
    /\ pc[r] \in DOMAIN prog[r] /\ Cur(r).op \notin BarrierOp
    /\ \A q \in Rank \ {r} : todo'[q] = todo[q]
    /\ UNCHANGED barriers

LEMMA OutsideOn ==
    ASSUME TypeInv, NEW r \in Rank, NEW ph \in Phase \ {"idle"},
           Progress(r, ph) \/ Proceed(r, ph) \/ Pushed(r, ph), Quietly(r), Posts(r)
    PROVE  Outside(r)
<1>1. Alone(r) /\ pc'[r] = pc[r]
  BY MovedOn
<1> QED BY <1>1 DEF Outside, Quietly

\* ... returns, ...
LEMMA OutsideBack ==
    ASSUME TypeInv, NEW r \in Rank, Return(r), Quietly(r), chan' = chan
    PROVE  Outside(r)
<1>1. Alone(r) /\ phase'[r] = "idle"
  BY MovedBack
<1>2. pc'[r] = pc[r] + 1
  BY CallVars DEF Return
<1> QED BY <1>1, <1>2 DEF Outside, Quietly, Posts

\* ... or issues a block.
LEMMA OutsideBlock ==
    ASSUME TypeInv, NEW r \in Rank, NEW ops \in SUBSET DataOp, NextBlock(r, ops),
           NEW pushed \in BOOLEAN, BlockIssued(r, pushed), UNCHANGED barriers, Posts(r)
    PROVE  Outside(r)
<1>1. Alone(r) /\ pc'[r] = pc[r]
  BY MovedBlock
<1>2. pc[r] \in DOMAIN prog[r] /\ Cur(r).op \in ops /\ Cur(r).op \in DataOp
  BY BlockType
<1>3. Cur(r).op \notin BarrierOp
  BY <1>2 DEF DataOp, BarrierOp
<1> QED BY <1>1, <1>2, <1>3 DEF Outside, NextBlock

LEMMA PostsOne ==
    ASSUME NEW r, NEW d \in Rank, NEW op, NEW loc, NEW val,
           Push(r, d, Msg(op, loc, val, pc[r])), op \notin ResponseOp \cup BarrierRequest,
           Cur(r).op # "gather"
    PROVE  Posts(r)
<1>1. Msg(op, loc, val, pc[r]).call = pc[r] /\ Msg(op, loc, val, pc[r]).op = op
  BY DEF Msg
<1> QED BY <1>1 DEF Posts

LEMMA PostOps ==
    {"OP_PUT", "OP_ACC", "OP_GET_REQUEST", "OP_FENCE_REQUEST", "OP_FETCH_AND_ADD_REQUEST",
     "OP_SWAP_REQUEST", "OP_LOCK_REQUEST", "OP_UNLOCK"}
       \cap (ResponseOp \cup BarrierRequest) = {}
  BY DEF ResponseOp, BarrierRequest

LEMMA BlockOutside ==
    ASSUME TypeInv, NEW r \in Rank,
           \/ PutSelf(r) \/ PutRemote(r) \/ AccSelf(r) \/ AccRemote(r)
           \/ GetSelf(r) \/ GetRemote(r)
    PROVE  Outside(r)
<1>1. PICK ops \in SUBSET DataOp, pushed \in BOOLEAN : NextBlock(r, ops) /\ BlockIssued(r, pushed)
  <2>1. /\ {"put", "putnext"} \in SUBSET DataOp /\ {"acc"} \in SUBSET DataOp
        /\ {"get"} \in SUBSET DataOp
    BY DEF DataOp
  <2> QED BY <2>1 DEF PutSelf, PutRemote, AccSelf, AccRemote, GetSelf, GetRemote
<1>2. Cur(r).to \in Rank /\ Cur(r).op # "gather"
  BY <1>1, BlockType DEF Call, DataOp
<1>3. UNCHANGED barriers
  BY DEF PutSelf, PutRemote, AccSelf, AccRemote, GetSelf, GetRemote
<1>4. Posts(r)
  <2>1. CASE PutSelf(r) \/ AccSelf(r) \/ GetSelf(r)
    BY <2>1 DEF PutSelf, AccSelf, GetSelf, Posts
  <2>2. CASE PutRemote(r)
    BY <1>2, <2>2, PostsOne, PostOps DEF PutRemote
  <2>3. CASE AccRemote(r)
    BY <1>2, <2>3, PostsOne, PostOps DEF AccRemote
  <2>4. CASE GetRemote(r)
    BY <1>2, <2>4, PostsOne, PostOps DEF GetRemote
  <2> QED BY <2>1, <2>2, <2>3, <2>4
<1> QED BY <1>1, <1>3, <1>4, OutsideBlock

LEMMA DataOutside ==
    ASSUME TypeInv, CallInv, NEW r \in Rank, DataStep(r)
    PROVE  Outside(r)
<1>1. CASE \/ PutSelf(r) \/ PutRemote(r) \/ AccSelf(r) \/ AccRemote(r)
           \/ GetSelf(r) \/ GetRemote(r)
  BY <1>1, BlockOutside
<1>2. CASE WaitStart(r)
  <2>1. Quietly(r) /\ Progress(r, "wait") /\ Posts(r) /\ "wait" \in Phase \ {"idle"}
    BY <1>2, CallsType DEF WaitStart, Quietly, issuing, BarrierOp, Posts, Phase
  <2> QED BY <2>1, OutsideOn
<1>3. CASE RmwStart(r)
  <2>1. /\ Quietly(r) /\ Progress(r, "wait") /\ "wait" \in Phase \ {"idle"}
        /\ Cur(r).to \in Rank /\ Cur(r).op # "gather"
    BY <1>3, CallsType DEF RmwStart, Quietly, issuing, RmwOp, BarrierOp, Phase, Call
  <2>2. PICK op \in {"OP_FETCH_AND_ADD_REQUEST", "OP_SWAP_REQUEST"} :
           Push(r, Cur(r).to, Msg(op, Cur(r).loc, Cur(r).val, pc[r]))
    BY <1>3 DEF RmwStart
  <2>3. Posts(r)
    BY <2>1, <2>2, PostsOne, PostOps
  <2> QED BY <2>1, <2>3, OutsideOn
<1>4. CASE FenceStart(r) \/ FenceNext(r)
  <2>1. PICK ps \in SUBSET Rank : \E p \in ps : SendFence(r, p, ps)
    <3>1. FenceStart(r) => FenceTargets(r) \in SUBSET Rank
      BY CallsType DEF FenceStart, FenceTargets, Call
    <3>2. todo[r] \in SUBSET Rank
      BY CallVars
    <3> QED BY <1>4, <3>1, <3>2 DEF FenceStart, FenceNext
  <2>2. PICK p \in ps : SendFence(r, p, ps)
    BY <2>1
  <2>5. pc[r] \in DOMAIN prog[r] /\ Cur(r).op = "fence"
    BY <1>4, CallsType DEF FenceStart, FenceNext, TypeInv, ControlOK
  <2>3. Posts(r)
    BY <2>2, <2>5, PostsOne, PostOps DEF SendFence
  <2>4. PICK ph \in Phase \ {"idle"} : Progress(r, ph) \/ Pushed(r, ph)
    BY <2>2 DEF SendFence, Phase
  <2>6. Quietly(r)
    BY <1>4, <2>2, <2>5, CallVars DEF Quietly, SendFence, FenceStart, FenceNext, BarrierOp
  <2> QED BY <2>3, <2>4, <2>6, OutsideOn
<1>5. CASE FenceNothing(r)
  <2>1. Quietly(r) /\ Return(r) /\ chan' = chan
    BY <1>5, CallsType DEF FenceNothing, Quietly, issuing, BarrierOp
  <2> QED BY <2>1, OutsideBack
<1>6. CASE FenceReturn(r) \/ CallReturn(r)
  <2>1. phase[r] = "wait" /\ pc[r] \in DOMAIN prog[r] /\ Return(r) /\ chan' = chan
        /\ UNCHANGED barriers /\ todo' = todo
    BY <1>6 DEF FenceReturn, CallReturn, TypeInv, ControlOK, issuing
  <2>2. Cur(r).op \notin BarrierOp
    BY <2>1 DEF CallInv, PhaseAt, In, BarrierPhase
  <2> QED BY <2>1, <2>2, OutsideBack DEF Quietly
<1> QED BY <1>1, <1>2, <1>3, <1>4, <1>5, <1>6 DEF DataStep

LEMMA MutexOutside ==
    ASSUME TypeInv, CallInv, NEW r \in Rank, MutexStep(r)
    PROVE  Outside(r) \/ DestroyReturn(r)
<1>1. CASE CreateMutexes(r)
  <2>1. /\ pc[r] \in DOMAIN prog[r] /\ Cur(r).op \notin BarrierOp
        /\ UNCHANGED barriers /\ todo' = todo /\ chan' = chan
    BY <1>1, CallsType DEF CreateMutexes, Abort, issuing, BarrierOp
  <2>2. CASE Abort
    <3>1. Alone(r) /\ pc' = pc
      BY <2>2, MovedNot DEF Abort
    <3> QED BY <2>1, <3>1 DEF Outside, Posts
  <2>3. CASE ~Abort
    <3>1. Return(r)
      BY <1>1, <2>3 DEF CreateMutexes
    <3> QED BY <2>1, <3>1, OutsideBack DEF Quietly
  <2> QED BY <2>2, <2>3
<1>2. CASE Lock(r)
  <2>1. /\ Quietly(r) /\ Progress(r, "wait") /\ "wait" \in Phase \ {"idle"}
        /\ Cur(r).to \in Rank /\ Cur(r).op # "gather"
    BY <1>2, CallsType DEF Lock, Quietly, issuing, BarrierOp, Phase, Call
  <2>2. Posts(r)
    BY <1>2, <2>1, PostsOne, PostOps DEF Lock
  <2> QED BY <2>1, <2>2, OutsideOn
<1>3. CASE Unlock(r)
  <2>1. /\ Quietly(r) /\ Pushed(r, "wait") /\ "wait" \in Phase \ {"idle"}
        /\ Cur(r).to \in Rank /\ Cur(r).op # "gather"
    BY <1>3, CallsType DEF Unlock, Quietly, issuing, BarrierOp, Phase, Call
  <2>2. Posts(r)
    BY <1>3, <2>1, PostsOne, PostOps DEF Unlock
  <2> QED BY <2>1, <2>2, OutsideOn
<1>4. CASE LockReturn(r)
  <2>1. Quietly(r) /\ Return(r) /\ chan' = chan
    BY <1>4 DEF LockReturn, TypeInv, ControlOK, Quietly, issuing, BarrierOp
  <2> QED BY <2>1, OutsideBack
<1> QED BY <1>1, <1>2, <1>3, <1>4 DEF MutexStep

LEMMA MemoryOutside ==
    ASSUME TypeInv, CallInv, NEW r \in Rank, MemoryStep(r)
    PROVE  Outside(r)
<1>1. CASE LocalSegment(r)
  <2>1. Quietly(r) /\ Return(r) /\ chan' = chan
    BY <1>1, CallsType DEF LocalSegment, Quietly, issuing, BarrierOp
  <2> QED BY <2>1, OutsideBack
<1>2. CASE GatherStart(r)
  <2>1. Quietly(r) /\ Proceed(r, "gather") /\ Posts(r) /\ "gather" \in Phase \ {"idle"}
    BY <1>2, CallsType DEF GatherStart, Quietly, issuing, BarrierOp, Posts, Phase
  <2> QED BY <2>1, OutsideOn
<1>3. CASE GatherReturn(r)
  <2>1. /\ phase[r] = "gather" /\ pc[r] \in DOMAIN prog[r] /\ Return(r) /\ chan' = chan
        /\ UNCHANGED barriers /\ todo' = todo
    BY <1>3 DEF GatherReturn, TypeInv, ControlOK, issuing
  <2>2. Cur(r).op \notin BarrierOp
    BY <2>1 DEF CallInv, PhaseAt, In, BarrierPhase
  <2> QED BY <2>1, <2>2, OutsideBack DEF Quietly
<1> QED BY <1>1, <1>2, <1>3 DEF MemoryStep

-----------------------------------------------------------------------------
(* The steps of a barrier *)

LEMMA ToldFrame ==
    ASSUME NEW r \in Rank, Alone(r), AnswersSame, \A q \in Rank \ {r} : resps'[q] = resps[q],
           \A q \in Rank : q # r => (Told(r, q)' <=> Told(r, q))
    PROVE  ToldSame
<1> SUFFICES ASSUME NEW p \in Rank, NEW q \in Rank, p # q PROVE Told(p, q)' <=> Told(p, q)
  BY DEF ToldSame
<1>1. CASE p = r
  BY <1>1
<1>2. CASE p # r
  <2>1. (In(p, BarrierOp)' <=> In(p, BarrierOp)) /\ Cur(p)' = Cur(p)
    BY <1>2 DEF Alone, In, Cur
  <2> QED BY <1>2, <2>1 DEF Told, AnswersSame, BarrierResponse
<1> QED BY <1>1, <1>2

LEMMA OwesFrame ==
    ASSUME NEW r \in Rank, Alone(r), \A q \in Rank \ {r} : reqs'[q] = reqs[q],
           \A p \in Rank : p # r => (Owes(r, p)' <=> Owes(r, p))
    PROVE  OwesSame
<1> SUFFICES ASSUME NEW p \in Rank, NEW q \in Rank, p # q PROVE Owes(q, p)' <=> Owes(q, p)
  BY DEF OwesSame
<1> QED BY DEF Owes, Complete, Alone

\* The masks of the other ranks, and their places in their programs
LEMMA RanksFrame ==
    ASSUME BarrierInv, NEW r \in Rank, Alone(r),
           \A q \in Rank \ {r} : bq'[q] = bq[q] /\ kept'[q] = kept[q] /\ reqs'[q] = reqs[q],
           MaskSound(r)', pc'[r] <= Len(prog[r]) + 1
    PROVE  RanksSound'
<1>1. ASSUME NEW q \in Rank PROVE MaskSound(q)' /\ InProgram(q)'
  <2>1. CASE q = r
    BY <2>1 DEF InProgram, Alone
  <2>2. CASE q # r
    <3>1. MaskSound(q) /\ InProgram(q)
      BY DEF BarrierInv
    <3>2. Cur(q)' = Cur(q) /\ phase'[q] = phase[q] /\ prog' = prog /\ pc'[q] = pc[q]
      BY <2>2 DEF Alone, Cur
    <3>3. InProgram(q)'
      BY <3>1, <3>2 DEF InProgram
    <3>4. From(bq[q], r)' = From(bq[q], r) /\ \A p : From(bq[q], p)' = From(bq[q], p)
          /\ From(kept[q], p)' = From(kept[q], p)
      BY <2>2 DEF From
    <3>5. reqs'[q] = reqs[q]
      BY <2>2
    <3>6. MaskSound(q)'
      BY <3>1, <3>2, <3>4, <3>5 DEF MaskSound, Gathering
    <3> QED BY <3>3, <3>6
  <2> QED BY <2>1, <2>2
<1> QED BY <1>1 DEF RanksSound

\* A rank that stays in its call asks the same ranks, but for those it asks
\* now.
LEMMA AsksFrame ==
    ASSUME NEW r \in Rank, Alone(r), \A q \in Rank \ {r} : todo'[q] = todo[q]
    PROVE  \A p, q \in Rank : p # r => (Asking(p, q)' => Asking(p, q))
  BY DEF Asking, In, Cur, Alone

\* A barrier asks p.
LEMMA SendRequestBarrier ==
    ASSUME TypeInv, CallInv, BarrierInv, NEW r \in Rank, NEW ps \in SUBSET Rank, NEW p \in ps,
           SendRequest(r, p, ps), pc[r] \in DOMAIN prog[r], ~Complete(r),
           Cur(r).op \in BarrierOp,
           reqs'[r] = {r}, UNCHANGED <<bq, kept>>,
           \A q \in Rank \ {r} : reqs'[q] = reqs[q] /\ resps'[q] = resps[q],
           ~Holds(chan[r][p], BarrierRequest), ~Told(r, p), ~Parks(p, r),
           AnswersSame => \A q \in Rank : q # r => (Told(r, q)' <=> Told(r, q)),
           \A q \in Rank \ {r, p} : Asking(r, q)' => Asking(r, q)
    PROVE  BarrierInv'
<1> DEFINE m == Msg("OP_BARRIER_REQUEST", 0, 0, pc[r])
<1>1. p \in Rank /\ Push(r, p, m) /\ m.op = "OP_BARRIER_REQUEST" /\ m.call = pc[r]
  BY DEF SendRequest, Msg
<1>2. PICK ph \in {"breq", "bsend"} : Progress(r, ph) \/ Pushed(r, ph)
  BY DEF SendRequest
<1>3. Alone(r) /\ phase'[r] = ph /\ pc'[r] = pc[r] /\ prog' = prog
  BY <1>2, MovedOn DEF Phase
<1>4. \A q \in Rank \ {r} : todo'[q] = todo[q]
  BY CallVars DEF SendRequest
<1> HIDE DEF m
<1>5. AnswersSame
  BY <1>1, PushAnswers
<1>6. ~Complete(r)' /\ Gathering(r)'
  BY <1>3 DEF Complete, Gathering
<1>7. LeftSame /\ CompleteSame
  BY <1>3, <1>6, CountsAlone
<1>8. ToldSame
  BY <1>3, <1>5, ToldFrame
<1>9. OwesSame
  <2>1. \A q \in Rank : ~Owes(r, q) /\ ~Owes(r, q)'
    BY <1>6 DEF Owes
  <2> QED BY <1>3, <2>1, OwesFrame
<1>10. AnswersCounted'
  BY <1>7, <1>8, <1>9, AnswersFrame DEF BarrierInv
<1>11. RanksSound'
  <2>1. MaskSound(r)'
    BY <1>3 DEF MaskSound
  <2>2. pc'[r] <= Len(prog[r]) + 1
    BY <1>3 DEF BarrierInv, InProgram
  <2> QED BY <1>3, <2>1, <2>2, RanksFrame
<1>12. \A x, y \in Rank : x # y /\ (x # r \/ y # p) => (Asking(x, y)' => Asking(x, y))
  BY <1>3, <1>4, AsksFrame
<1>13. ~Owes(p, r)
  BY <1>1, OwesParks
<1>14. m.op \in BarrierRequest
  BY <1>1 DEF BarrierRequest
<1>15. Onward
  BY <1>3, AloneOnward
<1>16. Cur(r).op # "gather"
  BY DEF BarrierOp
<1> QED BY <1>1, <1>3, <1>7, <1>10, <1>11, <1>12, <1>13, <1>14, <1>15, <1>16, SendFrame

LEMMA BarrierStartBarrier ==
    ASSUME TypeInv, CallInv, BarrierInv, NEW r \in Rank, BarrierStart(r)
    PROVE  BarrierInv'
<1> DEFINE others == Cur(r).grp \ {r}
<1>1. /\ Cur(r).op \in BarrierOp /\ phase[r] = "idle" /\ Cur(r).grp \in SUBSET Rank
      /\ pc[r] \in DOMAIN prog[r]
  BY CallsType DEF BarrierStart, Call
<1>2. /\ ~Complete(r)
      /\ \A q \in Rank : /\ ~Told(r, q) /\ ~Asking(r, q) /\ ~Parks(q, r)
                         /\ ~Holds(chan[r][q], BarrierRequest)
                         /\ ~Holds(chan[q][r], BarrierResponse)
  <2>1. ~In(r, BarrierOp)
    BY <1>1 DEF In
  <2>2. \A q \in Rank : ~Holds(chan[q][r], BarrierResponse)
    BY <1>1, IdleOpen, OpenNone DEF NoneOpen
  <2> QED BY <2>1, <2>2, OutsideBarrier
<1>3. /\ reqs'[r] = {r} /\ \A q \in Rank : resps'[r][q] = 0
      /\ \A q \in Rank \ {r} : reqs'[q] = reqs[q] /\ resps'[q] = resps[q]
      /\ UNCHANGED <<bq, kept>>
  <2>1. reqs \in [Rank -> SUBSET Rank] /\ resps \in [Rank -> [Rank -> Nat]]
    BY DEF TypeInv, TypeOK
  <2> QED BY <2>1 DEF BarrierStart
<1>4. ASSUME AnswersSame, NEW q \in Rank PROVE Told(r, q)' <=> Told(r, q)
  BY <1>2, <1>3, <1>4 DEF Told, AnswersSame, BarrierResponse
<1>5. CASE others = {}
  <2>1. Progress(r, "breq") /\ chan' = chan /\ todo' = todo
    BY <1>5 DEF BarrierStart
  <2>2. Alone(r) /\ phase'[r] = "breq" /\ pc'[r] = pc[r] /\ prog' = prog /\ Cur(r)' = Cur(r)
    BY <2>1, MovedOn DEF Phase
  <2>3. AnswersSame /\ ~Complete(r)' /\ AllDrain
    BY <2>1, <2>2, SameDrain DEF AnswersSame, Complete
  <2>4. LeftSame /\ CompleteSame
    BY <1>2, <2>2, <2>3, CountsAlone
  <2>5. ToldSame
    BY <1>3, <1>4, <2>2, <2>3, ToldFrame
  <2>6. OwesSame
    BY <1>2, <1>3, <2>2, <2>3, OwesFrame DEF Owes
  <2>7. AnswersCounted'
    BY <2>4, <2>5, <2>6, AnswersFrame DEF BarrierInv
  <2>8. RanksSound'
    <3>1. MaskSound(r)'
      BY <1>3, <2>2 DEF MaskSound
    <3>2. pc'[r] <= Len(prog[r]) + 1
      BY <2>2 DEF BarrierInv, InProgram
    <3> QED BY <1>3, <2>2, <3>1, <3>2, RanksFrame
  <2>9. NoneAsks
    <3>1. \A q \in Rank : q # r => ~Asking(r, q)'
      BY <1>5, <2>2 DEF Asking
    <3>2. \A p, q \in Rank : p # r => (Asking(p, q)' => Asking(p, q))
      BY <2>1, <2>2, AsksFrame
    <3> QED BY <3>1, <3>2 DEF NoneAsks
  <2>10. Onward
    BY <2>2, AloneOnward
  <2> QED BY <2>3, <2>4, <2>7, <2>8, <2>9, <2>10, DrainFrame DEF CompleteSame
<1>6. CASE others # {}
  <2>1. PICK p \in others : SendRequest(r, p, others)
    BY <1>6 DEF BarrierStart
  <2>2. others \in SUBSET Rank /\ p \in Rank
    BY <1>1
  <2>3. \A q \in Rank \ {r, p} : ~Asking(r, q)'
    <3>1. todo'[r] = others \ {p}
      BY CallVars, <2>1 DEF SendRequest
    <3>2. PICK ph \in {"breq", "bsend"} : Progress(r, ph) \/ Pushed(r, ph)
      BY <2>1 DEF SendRequest
    <3>3. Cur(r)' = Cur(r)
      BY <3>2, MovedOn DEF Phase
    <3> QED BY <3>1, <3>3 DEF Asking
  <2> HIDE DEF others
  <2> QED BY <1>1, <1>2, <1>3, <1>4, <2>1, <2>2, <2>3, SendRequestBarrier
<1> QED BY <1>5, <1>6

LEMMA BarrierSendBarrier ==
    ASSUME TypeInv, CallInv, BarrierInv, NEW r \in Rank, BarrierSend(r)
    PROVE  BarrierInv'
<1>1. phase[r] = "bsend" /\ UNCHANGED <<bq, kept, reqs, resps>> /\ pc[r] \in DOMAIN prog[r]
  BY DEF BarrierSend, barriers, TypeInv, ControlOK
<1>2. PICK p \in todo[r] : SendRequest(r, p, todo[r])
  BY DEF BarrierSend
<1>3. Cur(r).op \in BarrierOp /\ In(r, BarrierOp) /\ ~Complete(r) /\ reqs[r] = {r}
  <2>1. Cur(r).op \in BarrierOp
    BY <1>1, InBarrierCall DEF BarrierPhase
  <2> QED BY <1>1, <2>1 DEF In, Complete, Gathering, BarrierInv, MaskSound
<1>4. ~Told(r, p) /\ ~Parks(p, r) /\ ~Holds(chan[r][p], BarrierRequest)
  BY <1>3, TodoUnasked
<1>5. todo[r] \in SUBSET Rank /\ todo'[r] = todo[r] \ {p}
  BY <1>2, CallVars DEF SendRequest
<1>6. (In(r, BarrierOp)' <=> In(r, BarrierOp)) /\ Cur(r)' = Cur(r)
  <2>1. PICK ph \in {"breq", "bsend"} : Progress(r, ph) \/ Pushed(r, ph)
    BY <1>2 DEF SendRequest
  <2>2. Cur(r)' = Cur(r) /\ phase'[r] = ph
    BY <2>1, MovedOn DEF Phase
  <2> QED BY <1>3, <2>2 DEF In
<1>7. AnswersSame => \A q \in Rank : q # r => (Told(r, q)' <=> Told(r, q))
  BY <1>1, <1>6 DEF Told, AnswersSame, BarrierResponse
<1>8. \A q \in Rank \ {r, p} : Asking(r, q)' => Asking(r, q)
  BY <1>5, <1>6 DEF Asking
<1> QED BY <1>1, <1>2, <1>3, <1>4, <1>5, <1>7, <1>8, SendRequestBarrier

\* What a step inside a barrier leaves
LEMMA InsideBarrier ==
    ASSUME TypeInv, CallInv, BarrierInv, NEW r \in Rank, phase[r] \in BarrierPhase,
           NEW ph \in BarrierPhase, Progress(r, ph) \/ Proceed(r, ph) \/ Pushed(r, ph),
           todo' = todo
    PROVE  /\ In(r, BarrierOp) /\ Cur(r).op \in BarrierOp
           /\ Alone(r) /\ phase'[r] = ph /\ pc'[r] = pc[r] /\ prog' = prog
           /\ Cur(r)' = Cur(r) /\ In(r, BarrierOp)' /\ NoneAsks
           /\ pc'[r] <= Len(prog[r]) + 1 /\ pc[r] \in DOMAIN prog[r]
<1>1. Cur(r).op \in BarrierOp
  BY InBarrierCall
<1>2. Alone(r) /\ phase'[r] = ph /\ pc'[r] = pc[r] /\ prog' = prog /\ Cur(r)' = Cur(r)
  BY MovedOn DEF Phase, BarrierPhase
<1>3. In(r, BarrierOp) /\ In(r, BarrierOp)'
  BY <1>1, <1>2 DEF In, BarrierPhase
<1>4. NoneAsks
  <2>1. \A p, q \in Rank : p # r => (Asking(p, q)' => Asking(p, q))
    BY <1>2, AsksFrame
  <2>2. \A q \in Rank : Asking(r, q)' => Asking(r, q)
    BY <1>2, <1>3 DEF Asking
  <2> QED BY <2>1, <2>2 DEF NoneAsks
<1>5. pc'[r] <= Len(prog[r]) + 1 /\ pc[r] \in DOMAIN prog[r]
  BY <1>2 DEF BarrierInv, InProgram, BarrierPhase, TypeInv, ControlOK
<1> QED BY <1>1, <1>2, <1>3, <1>4, <1>5

\* A rank that is told the same, by the same masks
LEMMA TellsSame ==
    ASSUME NEW r \in Rank, In(r, BarrierOp), In(r, BarrierOp)', Cur(r)' = Cur(r), AnswersSame,
           \A q \in Rank : q # r => resps'[r][q] = resps[r][q]
    PROVE  \A q \in Rank : q # r => (Told(r, q)' <=> Told(r, q))
  BY DEF Told, AnswersSame, BarrierResponse

\* The number of barriers a rank is complete in when it gets so
LEMMA CompleteMore ==
    ASSUME TypeInv, NEW r \in Rank, Alone(r), pc'[r] = pc[r], ~Complete(r), Complete(r)',
           Cur(r).op \in BarrierOp, NEW p \in Rank
    PROVE  /\ CompleteWith(r, p)' = CompleteWith(r, p) + Unit(p \in Cur(r).grp)
           /\ CompleteWith(r, p) \in Nat
<1>1. pc[r] \in Nat \ {0}
  BY CallVars
<1>2. CommonCount(r, p, pc[r]) = CommonCount(r, p, pc[r] - 1) + Unit(Common(r, p, pc[r]))
      /\ CommonCount(r, p, pc[r] - 1) \in Nat
  BY <1>1, CommonStep
<1>3. Common(r, p, pc[r]) <=> p \in Cur(r).grp
  BY DEF Common, Cur
<1>4. CompleteWith(r, p)' = CommonCount(r, p, pc[r])
  BY DEF CompleteWith, CommonCount, Common, Alone
<1>5. CompleteWith(r, p) = CommonCount(r, p, pc[r] - 1)
  BY DEF CompleteWith
<1> QED BY <1>2, <1>3, <1>4, <1>5 DEF Unit

LEMMA BarrierGatheredBarrier ==
    ASSUME TypeInv, CallInv, BarrierInv, NEW r \in Rank, BarrierGathered(r)
    PROVE  BarrierInv'
<1>1. /\ phase[r] = "breq" /\ Progress(r, "bscan") /\ RequestsIn(r) = Cur(r).grp
      /\ UNCHANGED <<chan, todo, bq, kept>>
  BY DEF BarrierGathered, issuing
<1>2. /\ reqs'[r] = Cur(r).grp \ {r} /\ \A q \in Rank : q # r => resps'[r][q] = resps[r][q]
      /\ \A q \in Rank \ {r} : reqs'[q] = reqs[q] /\ resps'[q] = resps[q]
  <2>1. reqs \in [Rank -> SUBSET Rank] /\ resps \in [Rank -> [Rank -> Nat]]
    BY DEF TypeInv, TypeOK
  <2> QED BY <2>1 DEF BarrierGathered
<1>3. /\ In(r, BarrierOp) /\ Cur(r).op \in BarrierOp
      /\ Alone(r) /\ phase'[r] = "bscan" /\ pc'[r] = pc[r] /\ prog' = prog
      /\ Cur(r)' = Cur(r) /\ In(r, BarrierOp)' /\ NoneAsks
      /\ pc'[r] <= Len(prog[r]) + 1
  BY <1>1, InsideBarrier DEF BarrierPhase
<1>4. ~Complete(r) /\ Complete(r)' /\ reqs[r] = {r}
  BY <1>1, <1>3 DEF Complete, Gathering, BarrierInv, MaskSound
<1>5. ASSUME NEW p \in Cur(r).grp, p # r
      PROVE  p \in Rank /\ From(bq[r], p) + From(kept[r], p) # 0
  <2>1. p \in {bq[r][i].rank : i \in DOMAIN bq[r]}
    BY <1>1, <1>4, <1>5 DEF RequestsIn
  <2>2. bq[r] \in Seq(Waiter) /\ kept[r] \in Seq(Waiter)
    BY QueueTypes
  <2>3. PICK i \in DOMAIN bq[r] : bq[r][i].rank = p
    BY <2>1
  <2>4. bq[r][i] \in Waiter
    BY <2>2
  <2>5. From(bq[r], p) \in Nat \ {0} /\ From(kept[r], p) \in Nat
    BY <2>2, <2>3, FromType
  <2> QED BY <2>3, <2>4, <2>5 DEF Waiter
<1>6. ASSUME NEW p \in Rank, NEW q \in Rank, p # q
      PROVE  CompleteWith(q, p)' = CompleteWith(q, p) \/ OnlyAnswers(chan'[p][q])
  <2>1. CASE q # r
    BY <1>3, <2>1, CountsStay DEF Alone
  <2>2. CASE q = r /\ p \notin Cur(r).grp
    BY <1>3, <1>4, <2>2, CompleteMore DEF Unit
  <2>3. CASE q = r /\ p \in Cur(r).grp
    <3>1. Parks(r, p)
      BY <1>5, <1>6, <2>3 DEF Parks
    <3>2. Asking(p, r) /\ ~Holds(chan[p][r], BarrierRequest)
      BY <3>1, ParksAsked
    <3> QED BY <1>1, <1>6, <2>3, <3>2 DEF BarrierInv, RequestTaken, OnlyAnswers, BarrierRequest
  <2> QED BY <2>1, <2>2, <2>3
<1>7. AnswersSame /\ AllDrain
  BY <1>1, SameDrain DEF AnswersSame
<1>8. ToldSame
  BY <1>2, <1>3, <1>7, TellsSame, ToldFrame
<1>9. AnswersCounted'
  <2> SUFFICES ASSUME NEW p \in Rank, NEW q \in Rank, p # q
               PROVE  LeftWith(p, q)' + Unit(Told(p, q)') + Unit(Owes(q, p)') = CompleteWith(q, p)'
    BY DEF AnswersCounted, Unit
  <2>1. LeftWith(p, q) + Unit(Told(p, q)) + Unit(Owes(q, p)) = CompleteWith(q, p)
    BY DEF BarrierInv, AnswersCounted
  <2>2. LeftWith(p, q)' = LeftWith(p, q)
    BY <1>3, CountsStay DEF Alone
  <2>3. Unit(Told(p, q)') = Unit(Told(p, q))
    BY <1>8 DEF ToldSame, Unit
  <2>4. CASE q # r
    <3>1. CompleteWith(q, p)' = CompleteWith(q, p)
      BY <1>3, <2>4, CountsStay DEF Alone
    <3>2. Owes(q, p)' <=> Owes(q, p)
      BY <1>2, <1>3, <2>4 DEF Owes, Complete, Alone
    <3>3. Unit(Owes(q, p)') = Unit(Owes(q, p))
      BY <3>2 DEF Unit
    <3> QED BY <2>1, <2>2, <2>3, <3>1, <3>3
  <2>5. CASE q = r
    <3>1. /\ CompleteWith(q, p)' = CompleteWith(q, p) + Unit(p \in Cur(r).grp)
          /\ CompleteWith(q, p) \in Nat
      BY <1>3, <1>4, <2>5, CompleteMore
    <3>2. ~Owes(q, p) /\ (Owes(q, p)' <=> p \in Cur(r).grp)
      BY <1>2, <1>4, <2>5 DEF Owes
    <3>3. Unit(Owes(q, p)') = Unit(p \in Cur(r).grp) /\ Unit(Owes(q, p)) = 0
      BY <3>2 DEF Unit
    <3>4. LeftWith(p, q) \in Nat
      <4>1. pc[p] \in Nat \ {0}
        BY CallVars
      <4> QED BY <4>1, CommonStep DEF LeftWith
    <3>5. Unit(Told(p, q)) \in Nat /\ Unit(p \in Cur(r).grp) \in Nat
      BY DEF Unit
    <3> QED BY <2>1, <2>2, <2>3, <3>1, <3>3, <3>4, <3>5
  <2> QED BY <2>4, <2>5
<1>10. RanksSound'
  <2>1. MaskSound(r)'
    <3>1. \A p \in reqs'[r] : p \in Cur(r).grp \ {r} /\ From(bq[r], p) + From(kept[r], p) # 0
      BY <1>2, <1>5
    <3> QED BY <1>1, <1>3, <3>1 DEF MaskSound, Gathering, From
  <2> QED BY <1>1, <1>2, <1>3, <2>1, RanksFrame
<1>11. Onward
  BY <1>3, AloneOnward
<1> QED BY <1>3, <1>6, <1>7, <1>9, <1>10, <1>11, DrainFrame

\* A step inside a barrier whose counts stay
LEMMA InsideCounts ==
    ASSUME TypeInv, BarrierInv, NEW r \in Rank, Alone(r), pc'[r] = pc[r],
           Complete(r)' <=> Complete(r), AllDrain, NoneAsks, AnswersCounted', RanksSound'
    PROVE  BarrierInv'
<1>1. CompleteSame /\ prog' = prog
  BY CountsAlone DEF Alone
<1>2. Onward
  BY AloneOnward
<1> QED BY <1>1, <1>2, DrainFrame DEF CompleteSame

LEMMA FromTypes ==
    ASSUME TypeInv, NEW r \in Rank, NEW p
    PROVE  From(bq[r], p) \in Nat /\ From(kept[r], p) \in Nat
  BY QueueTypes, FromType

LEMMA BarrierAnswerBarrier ==
    ASSUME TypeInv, CallInv, BarrierInv, NEW r \in Rank, BarrierAnswer(r)
    PROVE  BarrierInv'
<1>0. PICK d, m : /\ d = Head(bq[r]).rank
                  /\ m = Msg("OP_BARRIER_RESPONSE", 0, 0, Head(bq[r]).call)
  OBVIOUS
<1>1. /\ phase[r] = "bscan" /\ Pushed(r, "bscan") /\ bq[r] # <<>>
      /\ d \in reqs[r] \cap Cur(r).grp /\ Push(r, d, m)
      /\ UNCHANGED <<kept, todo, resps>>
  BY <1>0 DEF BarrierAnswer, Answerable, issuing
<1>2. /\ reqs'[r] = reqs[r] \ {d} /\ bq'[r] = Tail(bq[r])
      /\ \A q \in Rank \ {r} : reqs'[q] = reqs[q] /\ bq'[q] = bq[q]
  <2>1. reqs \in [Rank -> SUBSET Rank] /\ bq \in [Rank -> Seq(Waiter)]
    BY DEF TypeInv, TypeOK
  <2> QED BY <1>0, <2>1 DEF BarrierAnswer
<1>3. m.op = "OP_BARRIER_RESPONSE" /\ m.op \in ResponseOp
  BY <1>0 DEF Msg, ResponseOp
<1>4. /\ In(r, BarrierOp) /\ Cur(r).op \in BarrierOp
      /\ Alone(r) /\ phase'[r] = "bscan" /\ pc'[r] = pc[r] /\ prog' = prog
      /\ Cur(r)' = Cur(r) /\ In(r, BarrierOp)' /\ NoneAsks
      /\ pc'[r] <= Len(prog[r]) + 1
  BY <1>1, InsideBarrier DEF BarrierPhase
<1>5. Complete(r) /\ Complete(r)'
  BY <1>1, <1>4 DEF Complete
<1>6. /\ \A p \in reqs[r] : p \in Cur(r).grp \ {r} /\ From(bq[r], p) + From(kept[r], p) # 0
      /\ d \in Rank /\ d # r
  <2>1. MaskSound(r) /\ reqs[r] \subseteq Rank
    BY DEF BarrierInv, TypeInv, TypeOK
  <2> QED BY <1>1, <2>1 DEF MaskSound
<1>7. AllDrain
  BY <1>1, <1>3, <1>6, PushDrain
<1>8. \A x, y \in Rank : ~(x = r /\ y = d) => chan'[x][y] = chan[x][y]
  BY <1>1, <1>6, PushChan
<1>9. /\ ~Told(d, r) /\ In(d, BarrierOp) /\ r \in Cur(d).grp
  <2>1. Parks(r, d)
    BY <1>1, <1>6 DEF Parks
  <2> QED BY <1>6, <2>1, ParksAsked
<1>10. Told(d, r)'
  <2>1. chan[r][d] \in Seq(Message) /\ chan'[r][d] = Append(chan[r][d], m)
    <3>1. chan[r][d] \in Seq(Message)
      BY <1>6, ChanType
    <3>2. \A y \in Rank : chan'[r][y] = IF r = r /\ y = d THEN Append(chan[r][y], m) ELSE chan[r][y]
      BY <1>1, <1>6, PushChan
    <3> QED BY <1>6, <3>1, <3>2
  <2>2. Holds(chan'[r][d], BarrierResponse)
    BY <1>3, <2>1, AppendAt DEF Holds, BarrierResponse
  <2>3. Cur(d)' = Cur(d) /\ In(d, BarrierOp)'
    BY <1>4, <1>6, <1>9 DEF Alone, Cur, In
  <2> QED BY <1>9, <2>2, <2>3 DEF Told, BarrierResponse
<1>11. LeftSame /\ CompleteSame
  BY <1>4, <1>5, CountsAlone
<1>12. AnswersCounted'
  <2> SUFFICES ASSUME NEW p \in Rank, NEW q \in Rank, p # q
               PROVE  LeftWith(p, q)' + Unit(Told(p, q)') + Unit(Owes(q, p)') = CompleteWith(q, p)'
    BY DEF AnswersCounted, Unit
  <2>1. LeftWith(p, q) + Unit(Told(p, q)) + Unit(Owes(q, p)) = CompleteWith(q, p)
    BY DEF BarrierInv, AnswersCounted
  <2>2. LeftWith(p, q)' = LeftWith(p, q) /\ CompleteWith(q, p)' = CompleteWith(q, p)
    BY <1>11 DEF LeftSame, CompleteSame
  <2>3. CASE q = r /\ p = d
    <3>1. Owes(q, p) /\ ~Owes(q, p)'
      BY <1>1, <1>2, <1>5, <2>3 DEF Owes
    <3>2. ~Told(p, q) /\ Told(p, q)'
      BY <1>9, <1>10, <2>3
    <3>3. /\ Unit(Owes(q, p)) = 1 /\ Unit(Owes(q, p)') = 0
          /\ Unit(Told(p, q)) = 0 /\ Unit(Told(p, q)') = 1
      BY <3>1, <3>2 DEF Unit
    <3>4. LeftWith(p, q) \in Nat
      <4>1. pc[p] \in Nat \ {0}
        BY CallVars
      <4> QED BY <4>1, CommonStep DEF LeftWith
    <3> HIDE DEF Unit
    <3> QED BY <2>1, <2>2, <3>3, <3>4
  <2>4. CASE ~(q = r /\ p = d)
    <3>1. Owes(q, p)' <=> Owes(q, p)
      BY <1>2, <1>4, <1>5, <2>4 DEF Owes, Complete, Alone
    <3>2. Told(p, q)' <=> Told(p, q)
      <4>1. chan'[q][p] = chan[q][p] /\ resps' = resps
        BY <1>1, <1>8, <2>4
      <4>2. Cur(p)' = Cur(p) /\ (In(p, BarrierOp)' <=> In(p, BarrierOp))
        BY <1>4 DEF Alone, Cur, In
      <4> QED BY <4>1, <4>2 DEF Told
    <3>3. Unit(Owes(q, p)') = Unit(Owes(q, p)) /\ Unit(Told(p, q)') = Unit(Told(p, q))
      BY <3>1, <3>2 DEF Unit
    <3> QED BY <2>1, <2>2, <3>3
  <2> QED BY <2>3, <2>4
<1>13. RanksSound'
  <2>1. MaskSound(r)'
    <3>1. ASSUME NEW p \in reqs'[r]
          PROVE  p \in Cur(r).grp \ {r} /\ From(bq'[r], p) + From(kept'[r], p) # 0
      <4>1. p \in Cur(r).grp \ {r} /\ From(bq[r], p) + From(kept[r], p) # 0 /\ p # d
        BY <1>2, <1>6, <3>1
      <4>2. bq[r] \in Seq(Waiter)
        BY QueueTypes
      <4>3. From(bq[r], p) = From(Tail(bq[r]), p) + Unit(Head(bq[r]).rank = p)
        BY <1>1, <4>2, FromTail
      <4>4. Tail(bq[r]) \in Seq(Waiter)
        BY <1>1, <4>2, HeadTailProperties
      <4>5. From(Tail(bq[r]), p) \in Nat
        BY <4>4, FromType
      <4>6. From(bq'[r], p) = From(bq[r], p)
        BY <1>0, <1>2, <4>1, <4>3, <4>5 DEF Unit
      <4> QED BY <1>1, <4>1, <4>6
    <3> QED BY <1>4, <3>1 DEF MaskSound, Gathering, From
  <2> QED BY <1>1, <1>2, <1>4, <2>1, RanksFrame
<1> QED BY <1>4, <1>5, <1>7, <1>12, <1>13, InsideCounts

\* The traversal keeps requests, or starts again.
LEMMA BarrierScanBarrier ==
    ASSUME TypeInv, CallInv, BarrierInv, NEW r \in Rank, phase[r] = "bscan",
           NEW ph \in {"bscan", "bwait"}, Progress(r, ph) \/ Proceed(r, ph),
           UNCHANGED <<chan, todo, reqs, resps>>,
           \A q \in Rank \ {r} : bq'[q] = bq[q] /\ kept'[q] = kept[q],
           \A p \in Rank : From(bq'[r], p) + From(kept'[r], p) = From(bq[r], p) + From(kept[r], p),
           ph = "bwait" => reqs[r] = {}
    PROVE  BarrierInv'
<1>1. /\ In(r, BarrierOp) /\ Cur(r).op \in BarrierOp
      /\ Alone(r) /\ phase'[r] = ph /\ pc'[r] = pc[r] /\ prog' = prog
      /\ Cur(r)' = Cur(r) /\ In(r, BarrierOp)' /\ NoneAsks
      /\ pc'[r] <= Len(prog[r]) + 1
  BY InsideBarrier DEF BarrierPhase
<1>2. Complete(r) /\ Complete(r)'
  BY <1>1 DEF Complete
<1>3. AnswersSame /\ AllDrain
  BY SameDrain DEF AnswersSame
<1>4. LeftSame /\ CompleteSame
  BY <1>1, <1>2, CountsAlone
<1>5. ToldSame
  BY <1>1, <1>3, TellsSame, ToldFrame
<1>6. OwesSame
  BY <1>1, <1>2, OwesFrame DEF Owes
<1>7. AnswersCounted'
  BY <1>4, <1>5, <1>6, AnswersFrame DEF BarrierInv
<1>8. RanksSound'
  <2>1. MaskSound(r)'
    <3>1. \A p \in reqs[r] : p \in Cur(r).grp \ {r} /\ From(bq[r], p) + From(kept[r], p) # 0
      BY DEF BarrierInv, MaskSound
    <3>2. reqs[r] \subseteq Rank
      BY DEF TypeInv, TypeOK
    <3>3. \A p \in reqs'[r] : p \in Cur(r).grp \ {r} /\ From(bq'[r], p) + From(kept'[r], p) # 0
      BY <3>1, <3>2
    <3> QED BY <1>1, <3>3 DEF MaskSound, Gathering, From
  <2> QED BY <1>1, <2>1, RanksFrame
<1> QED BY <1>1, <1>2, <1>3, <1>7, <1>8, InsideCounts

LEMMA BarrierKeepBarrier ==
    ASSUME TypeInv, CallInv, BarrierInv, NEW r \in Rank, BarrierKeep(r)
    PROVE  BarrierInv'
<1>1. /\ phase[r] = "bscan" /\ Proceed(r, "bscan") /\ bq[r] # <<>>
      /\ UNCHANGED <<chan, todo, reqs, resps>>
  BY DEF BarrierKeep, issuing
<1>2. /\ bq'[r] = Tail(bq[r]) /\ kept'[r] = Append(kept[r], Head(bq[r]))
      /\ \A q \in Rank \ {r} : bq'[q] = bq[q] /\ kept'[q] = kept[q]
  <2>1. kept \in [Rank -> Seq(Waiter)] /\ bq \in [Rank -> Seq(Waiter)]
    BY DEF TypeInv, TypeOK
  <2> QED BY <2>1 DEF BarrierKeep
<1>3. ASSUME NEW p \in Rank
      PROVE  From(bq'[r], p) + From(kept'[r], p) = From(bq[r], p) + From(kept[r], p)
  <2>1. /\ bq[r] \in Seq(Waiter) /\ kept[r] \in Seq(Waiter)
        /\ Tail(bq[r]) \in Seq(Waiter) /\ Head(bq[r]) \in Waiter
    BY <1>1, QueueTypes, HeadTailProperties
  <2>2. From(bq[r], p) = From(Tail(bq[r]), p) + Unit(Head(bq[r]).rank = p)
    BY <1>1, <2>1, FromTail
  <2>3. From(Append(kept[r], Head(bq[r])), p) = From(kept[r], p) + Unit(Head(bq[r]).rank = p)
    BY <2>1, FromAppend
  <2>4. From(Tail(bq[r]), p) \in Nat /\ From(kept[r], p) \in Nat
    BY <2>1, FromType
  <2> QED BY <1>2, <2>2, <2>3, <2>4 DEF Unit
<1> QED BY <1>1, <1>2, <1>3, BarrierScanBarrier

LEMMA BarrierScannedBarrier ==
    ASSUME TypeInv, CallInv, BarrierInv, NEW r \in Rank, BarrierScanned(r)
    PROVE  BarrierInv'
<1>1. PICK ph \in {"bscan", "bwait"} :
         /\ Progress(r, ph) /\ (ph = "bwait" => reqs[r] = {})
  BY DEF BarrierScanned
<1>2. phase[r] = "bscan" /\ bq[r] = <<>> /\ UNCHANGED <<chan, todo, reqs, resps>>
  BY DEF BarrierScanned, issuing
<1>3. /\ bq'[r] = kept[r] /\ kept'[r] = <<>>
      /\ \A q \in Rank \ {r} : bq'[q] = bq[q] /\ kept'[q] = kept[q]
  <2>1. kept \in [Rank -> Seq(Waiter)] /\ bq \in [Rank -> Seq(Waiter)]
    BY DEF TypeInv, TypeOK
  <2> QED BY <2>1 DEF BarrierScanned
<1>4. ASSUME NEW p \in Rank
      PROVE  From(bq'[r], p) + From(kept'[r], p) = From(bq[r], p) + From(kept[r], p)
  <2>1. From(<<>>, p) = 0
    <3>1. {i \in DOMAIN <<>> : <<>>[i].rank = p} = {}
      OBVIOUS
    <3> QED BY <3>1, FS_EmptySet DEF From
  <2>2. From(kept[r], p) \in Nat
    BY FromTypes
  <2> QED BY <1>2, <1>3, <2>1, <2>2
<1> QED BY <1>1, <1>2, <1>3, <1>4, BarrierScanBarrier

\* A rank leaves a barrier: it has been told by every member.
LEMMA BarrierOverBarrier ==
    ASSUME TypeInv, CallInv, BarrierInv, NEW r \in Rank, phase[r] = "bwait",
           Answered(r), Return(r), UNCHANGED <<chan, todo, bq, kept, reqs, resps>>
    PROVE  BarrierInv'
<1>1. /\ Cur(r).op \in BarrierOp /\ pc[r] \in DOMAIN prog[r] /\ reqs[r] = {}
      /\ pc[r] \in Nat \ {0}
  BY InBarrierCall, CallVars DEF BarrierPhase, TypeInv, ControlOK, BarrierInv, MaskSound
<1>2. /\ Alone(r) /\ phase'[r] = "idle" /\ pc'[r] = pc[r] + 1 /\ prog' = prog
  <2>1. Alone(r) /\ phase'[r] = "idle"
    BY MovedBack
  <2>2. pc'[r] = pc[r] + 1
    BY CallVars DEF Return
  <2> QED BY <2>1, <2>2 DEF Alone
<1>3. In(r, BarrierOp) /\ ~In(r, BarrierOp)' /\ Complete(r) /\ ~Complete(r)'
  BY <1>1, <1>2 DEF In, Complete
<1>4. ASSUME NEW q \in Rank
      PROVE  /\ LeftWith(r, q)' = LeftWith(r, q) + Unit(q \in Cur(r).grp)
             /\ LeftWith(r, q) \in Nat
             /\ CompleteWith(r, q)' = CompleteWith(r, q)
  <2>1. CommonCount(r, q, pc[r]) = CommonCount(r, q, pc[r] - 1) + Unit(Common(r, q, pc[r]))
        /\ CommonCount(r, q, pc[r] - 1) \in Nat
    BY <1>1, CommonStep
  <2>2. Common(r, q, pc[r]) <=> q \in Cur(r).grp
    BY <1>1 DEF Common, Cur
  <2>3. pc'[r] - 1 = pc[r]
    BY <1>1, <1>2
  <2>4. LeftWith(r, q)' = CommonCount(r, q, pc[r]) /\ CompleteWith(r, q)' = CommonCount(r, q, pc[r])
    BY <1>2, <1>3, <2>3 DEF LeftWith, CompleteWith, CommonCount, Common
  <2>5. LeftWith(r, q) = CommonCount(r, q, pc[r] - 1) /\ CompleteWith(r, q) = CommonCount(r, q, pc[r])
    BY <1>3 DEF LeftWith, CompleteWith
  <2> QED BY <2>1, <2>2, <2>4, <2>5 DEF Unit
<1>5. CompleteSame
  <2>1. \A q \in Rank \ {r} : \A p : CompleteWith(q, p)' = CompleteWith(q, p)
    BY <1>2, CountsStay DEF Alone
  <2> QED BY <1>4, <2>1 DEF CompleteSame
<1>6. OwesSame
  <2>1. \A p \in Rank : ~Owes(r, p) /\ ~Owes(r, p)'
    BY <1>1, <1>3 DEF Owes
  <2> QED BY <1>2, <2>1, OwesFrame
<1>7. AnswersCounted'
  <2> SUFFICES ASSUME NEW p \in Rank, NEW q \in Rank, p # q
               PROVE  LeftWith(p, q)' + Unit(Told(p, q)') + Unit(Owes(q, p)') = CompleteWith(q, p)'
    BY DEF AnswersCounted, Unit
  <2>1. LeftWith(p, q) + Unit(Told(p, q)) + Unit(Owes(q, p)) = CompleteWith(q, p)
    BY DEF BarrierInv, AnswersCounted
  <2>2. Unit(Owes(q, p)') = Unit(Owes(q, p)) /\ CompleteWith(q, p)' = CompleteWith(q, p)
    BY <1>5, <1>6 DEF OwesSame, CompleteSame, Unit
  <2>3. CASE p = r
    <3>1. ~Told(p, q)' /\ (Told(p, q) <=> q \in Cur(r).grp)
      BY <1>3, <2>3 DEF Told, Answered
    <3>2. Unit(Told(p, q)') = 0 /\ Unit(Told(p, q)) = Unit(q \in Cur(r).grp)
      BY <3>1 DEF Unit
    <3>3. /\ LeftWith(p, q)' = LeftWith(p, q) + Unit(q \in Cur(r).grp)
          /\ LeftWith(p, q) \in Nat
      BY <1>4, <2>3
    <3>4. Unit(q \in Cur(r).grp) \in Nat
      BY DEF Unit
    <3> HIDE DEF Unit
    <3> QED BY <2>1, <2>2, <3>2, <3>3, <3>4
  <2>4. CASE p # r
    <3>1. LeftWith(p, q)' = LeftWith(p, q)
      BY <1>2, <2>4, CountsStay DEF Alone
    <3>2. Cur(p)' = Cur(p) /\ (In(p, BarrierOp)' <=> In(p, BarrierOp))
      BY <1>2, <2>4 DEF Alone, Cur, In
    <3>3. Told(p, q)' <=> Told(p, q)
      BY <3>2 DEF Told
    <3>4. Unit(Told(p, q)') = Unit(Told(p, q))
      BY <3>3 DEF Unit
    <3> QED BY <2>1, <2>2, <3>1, <3>4
  <2> QED BY <2>3, <2>4
<1>8. RanksSound'
  <2>1. MaskSound(r)'
    BY <1>2 DEF MaskSound, Gathering
  <2>2. prog[r] \in Seq(Call)
    BY ProgramAssumption DEF TypeInv, TypeOK
  <2>3. pc'[r] <= Len(prog[r]) + 1
    BY <1>1, <1>2, <2>2
  <2> QED BY <1>2, <2>1, <2>3, RanksFrame
<1>9. NoneAsks
  <2>1. \A p, q \in Rank : p # r => (Asking(p, q)' => Asking(p, q))
    BY <1>2, AsksFrame
  <2>2. \A q \in Rank : ~Asking(r, q)'
    BY <1>3 DEF Asking
  <2> QED BY <2>1, <2>2 DEF NoneAsks
<1>10. AllDrain
  BY SameDrain
<1>11. Onward
  BY <1>2, AloneOnward
<1> QED BY <1>5, <1>7, <1>8, <1>9, <1>10, <1>11, DrainFrame DEF CompleteSame

LEMMA LocalBarrier ==
    ASSUME TypeInv, CallInv, BarrierInv, TypeInv', CallInv', NEW r \in Rank, LocalStep(r)
    PROVE  BarrierInv'
<1>1. CASE Outside(r)
  BY <1>1, OutsideStep
<1>2. CASE BarrierStep(r)
  <2>1. CASE BarrierReturn(r)
    BY <2>1, BarrierOverBarrier DEF BarrierReturn, issuing, barriers
  <2> QED BY <1>2, <2>1, BarrierStartBarrier, BarrierSendBarrier, BarrierGatheredBarrier,
          BarrierAnswerBarrier, BarrierKeepBarrier, BarrierScannedBarrier DEF BarrierStep
<1>3. CASE DestroyReturn(r)
  BY <1>3, BarrierOverBarrier DEF DestroyReturn, issuing, barriers
<1> QED BY <1>1, <1>2, <1>3, DataOutside, MutexOutside, MemoryOutside DEF LocalStep

-----------------------------------------------------------------------------
(* The handlers *)

LEMMA SameCounts ==
    ASSUME TypeInv, BarrierInv, UNCHANGED control, UNCHANGED todo, UNCHANGED reqs,
           \A p, q \in Rank : p # q => (Told(p, q)' <=> Told(p, q)),
           \A r, p \in Rank :
              From(bq[r], p) + From(kept[r], p) # 0 => From(bq'[r], p) + From(kept'[r], p) # 0,
           AllDrain
    PROVE  BarrierInv'
<1>1. prog' = prog /\ pc' = pc /\ phase' = phase /\ \A p : Cur(p)' = Cur(p)
  BY DEF control, Cur
<1>2. LeftSame /\ CompleteSame
  BY <1>1, CountsStay DEF LeftSame, CompleteSame
<1>3. OwesSame /\ ToldSame
  BY <1>1 DEF OwesSame, Owes, Complete, ToldSame
<1>4. AnswersCounted'
  BY <1>2, <1>3, AnswersFrame DEF BarrierInv
<1>5. NoneAsks
  BY <1>1 DEF NoneAsks, Asking, In
<1>6. ASSUME NEW r \in Rank PROVE MaskSound(r)' /\ InProgram(r)'
  <2>1. MaskSound(r) /\ InProgram(r)
    BY DEF BarrierInv
  <2>2. InProgram(r)'
    BY <1>1, <2>1 DEF InProgram
  <2>3. reqs[r] \subseteq Rank /\ reqs'[r] = reqs[r]
    BY DEF TypeInv, TypeOK
  <2>4. phase[r] = "bscan" =>
           \A p \in reqs'[r] : p \in Cur(r).grp \ {r} /\ From(bq'[r], p) + From(kept'[r], p) # 0
    BY <2>1, <2>3 DEF MaskSound
  <2>5. MaskSound(r)'
    BY <1>1, <2>1, <2>3, <2>4 DEF MaskSound, Gathering, From
  <2> QED BY <2>2, <2>5
<1>7. Onward
  BY <1>1 DEF Onward
<1> QED BY <1>2, <1>4, <1>5, <1>6, <1>7, DrainFrame DEF CompleteSame, RanksSound

\* Rank r receives a message of s that is no answer in a barrier, and answers
\* by none.
Serves(r, s) ==
    /\ chan[s][r] # <<>>
    /\ Head(chan[s][r]).op # "OP_BARRIER_RESPONSE"
    /\ \/ Consume(r, s)
       \/ \E d \in Rank : \E m : /\ Answer(r, s, d, m)
                                 /\ m.op \in ResponseOp \ BarrierResponse

LEMMA TakenAnswers ==
    ASSUME TypeInv, NEW r \in Rank, NEW s \in Rank, chan[s][r] # <<>>,
           Head(chan[s][r]).op # "OP_BARRIER_RESPONSE", NEW x \in Rank, NEW y \in Rank
    PROVE  Holds(Taken(r, s)[x][y], BarrierResponse) <=> Holds(chan[x][y], BarrierResponse)
<1>1. Taken(r, s)[x][y] = IF x = s /\ y = r THEN Tail(chan[x][y]) ELSE chan[x][y]
  BY TakenChan
<1>2. ASSUME NEW q \in Seq(Message), q # <<>>, Head(q).op # "OP_BARRIER_RESPONSE"
      PROVE  Holds(Tail(q), BarrierResponse) <=> Holds(q, BarrierResponse)
  <2>1. ASSUME NEW i \in DOMAIN Tail(q), Tail(q)[i].op = "OP_BARRIER_RESPONSE"
        PROVE  \E j \in DOMAIN q : q[j].op = "OP_BARRIER_RESPONSE"
    BY <1>2, <2>1, TailAt
  <2>2. ASSUME NEW i \in DOMAIN q, q[i].op = "OP_BARRIER_RESPONSE"
        PROVE  \E j \in DOMAIN Tail(q) : Tail(q)[j].op = "OP_BARRIER_RESPONSE"
    <3>1. i # 1
      BY <1>2, <2>2, TailAt
    <3>2. i - 1 \in DOMAIN Tail(q) /\ Tail(q)[i - 1] = q[i]
      BY <1>2, <3>1, TailAt
    <3> QED BY <2>2, <3>2
  <2> QED BY <2>1, <2>2 DEF Holds, BarrierResponse
<1>3. CASE x = s /\ y = r
  <2>1. chan[s][r] \in Seq(Message)
    BY ChanType
  <2> QED BY <1>1, <1>2, <1>3, <2>1
<1>4. CASE ~(x = s /\ y = r)
  BY <1>1, <1>4
<1> QED BY <1>3, <1>4

LEMMA ServesFacts ==
    ASSUME TypeInv, NEW r \in Rank, NEW s \in Rank, Serves(r, s)
    PROVE  AllDrain /\ AnswersSame
<1>1. AnswersOnly(r, s)
  BY DEF Serves, AnswersOnly
<1>2. AllDrain
  BY <1>1, AnswersDrain
<1>3. ASSUME NEW x \in Rank, NEW y \in Rank
      PROVE  Holds(chan'[x][y], BarrierResponse) <=> Holds(chan[x][y], BarrierResponse)
  <2>1. Holds(Taken(r, s)[x][y], BarrierResponse) <=> Holds(chan[x][y], BarrierResponse)
    BY TakenAnswers DEF Serves
  <2>2. CASE Consume(r, s)
    BY <2>1, <2>2 DEF Consume
  <2>3. ASSUME NEW d \in Rank, NEW m, Answer(r, s, d, m), m.op \in ResponseOp \ BarrierResponse
        PROVE  Holds(chan'[x][y], BarrierResponse) <=> Holds(chan[x][y], BarrierResponse)
    <3> DEFINE t == Taken(r, s)[x][y]
    <3>1. t \in Seq(Message) /\ chan'[x][y] = IF x = r /\ y = d THEN Append(t, m) ELSE t
      BY <2>3, AnswerChan DEF Serves
    <3> HIDE DEF t
    <3>2. m.op # "OP_BARRIER_RESPONSE"
      BY <2>3 DEF BarrierResponse
    <3>3. Holds(Append(t, m), BarrierResponse) <=> Holds(t, BarrierResponse)
      BY <3>1, <3>2, AppendAt DEF Holds, BarrierResponse
    <3>4. Holds(t, BarrierResponse) <=> Holds(chan[x][y], BarrierResponse)
      BY <2>1 DEF t
    <3> QED BY <3>1, <3>3, <3>4
  <2> QED BY <2>2, <2>3 DEF Serves
<1> QED BY <1>2, <1>3 DEF AnswersSame

\* The handlers of the other components
LEMMA ReplyServes ==
    ASSUME TypeInv, NEW r \in Rank, NEW s \in Rank, NEW op, Receives(r, s, op),
           op # "OP_BARRIER_RESPONSE", NEW to \in ResponseOp \ BarrierResponse, NEW val,
           \/ Answer(r, s, s, [Head(chan[s][r]) EXCEPT !.op = to, !.val = val])
           \/ Answer(r, s, s, [Head(chan[s][r]) EXCEPT !.op = to])
    PROVE  Serves(r, s)
<1>1. chan[s][r] # <<>> /\ Head(chan[s][r]) \in Message /\ Head(chan[s][r]).op = op
  BY HeadType DEF Receives
<1>2. /\ [Head(chan[s][r]) EXCEPT !.op = to, !.val = val].op = to
      /\ [Head(chan[s][r]) EXCEPT !.op = to].op = to
  BY <1>1 DEF Message
<1> QED BY <1>1, <1>2 DEF Serves

LEMMA DataServes ==
    ASSUME TypeInv, NEW r \in Rank, NEW s \in Rank, DataReceive(r, s)
    PROVE  Serves(r, s)
<1>1. CASE PutHandler(r, s) \/ AccHandler(r, s) \/ GetResponseHandler(r, s)
           \/ RmwResponseHandler(r, s) \/ FenceResponseHandler(r, s)
  BY <1>1 DEF PutHandler, AccHandler, GetResponseHandler, RmwResponseHandler,
     FenceResponseHandler, Receives, Serves
<1>2. {"OP_GET_RESPONSE", "OP_FETCH_AND_ADD_RESPONSE", "OP_SWAP_RESPONSE",
       "OP_FENCE_RESPONSE"} \subseteq ResponseOp \ BarrierResponse
  BY DEF ResponseOp, BarrierResponse
<1>3. CASE GetRequestHandler(r, s)
  BY <1>2, <1>3, ReplyServes DEF GetRequestHandler
<1>4. CASE FetchAndAddRequestHandler(r, s)
  BY <1>2, <1>4, ReplyServes DEF FetchAndAddRequestHandler
<1>5. CASE SwapRequestHandler(r, s)
  BY <1>2, <1>5, ReplyServes DEF SwapRequestHandler
<1>6. CASE FenceRequestHandler(r, s)
  BY <1>2, <1>6, ReplyServes DEF FenceRequestHandler
<1> QED BY <1>1, <1>3, <1>4, <1>5, <1>6 DEF DataReceive

LEMMA LqProgressServes ==
    ASSUME TypeInv, NEW r \in Rank, NEW s \in Rank, chan[s][r] # <<>>,
           Head(chan[s][r]).op # "OP_BARRIER_RESPONSE", NEW id, NEW holder,
           NEW queue \in Seq(Waiter), LqProgress(r, s, id, holder, queue)
    PROVE  Serves(r, s)
<1>1. CASE holder = Nobody /\ queue # <<>>
  <2>1. Head(queue) \in Waiter
    BY <1>1, HeadTailProperties
  <2>2. Head(queue).rank \in Rank
    BY <2>1 DEF Waiter
  <2>3. Answer(r, s, Head(queue).rank, Msg("OP_LOCK_RESPONSE", -1, 0, Head(queue).call))
    BY <1>1 DEF LqProgress
  <2> QED BY <2>2, <2>3 DEF Serves, Msg, ResponseOp, BarrierResponse
<1>2. CASE ~(holder = Nobody /\ queue # <<>>)
  BY <1>2 DEF LqProgress, Serves
<1> QED BY <1>1, <1>2

LEMMA MutexServes ==
    ASSUME TypeInv, NEW r \in Rank, NEW s \in Rank, MutexReceive(r, s)
    PROVE  Abort \/ Serves(r, s)
<1>1. CASE LockResponseHandler(r, s)
  BY <1>1 DEF LockResponseHandler, Receives, Serves
<1> DEFINE m == Head(chan[s][r])
           w == [rank |-> s, call |-> m.call]
<1>2. CASE LockRequestHandler(r, s) /\ ~Abort
  <2>1. /\ chan[s][r] # <<>> /\ m.op = "OP_LOCK_REQUEST" /\ ~NoSuchMutex(r, m.loc)
        /\ LqProgress(r, s, m.loc, mutexes[r][m.loc], Append(lq[r][m.loc], w))
    BY <1>2 DEF LockRequestHandler, Receives
  <2>2. m.loc \in Nat /\ m.call \in Nat
    BY <2>1, HeadType DEF Message
  <2>3. lq[r][m.loc] \in Seq(Waiter) /\ w \in Waiter
    BY <2>1, <2>2, MutexId, LockVars DEF Waiter
  <2> HIDE DEF w
  <2>4. Append(lq[r][m.loc], w) \in Seq(Waiter)
    BY <2>3
  <2> QED BY <2>1, <2>4, LqProgressServes
<1>3. CASE UnlockRequestHandler(r, s) /\ ~Abort
  <2>1. /\ chan[s][r] # <<>> /\ m.op = "OP_UNLOCK" /\ ~NoSuchMutex(r, m.loc)
        /\ LqProgress(r, s, m.loc, Nobody, lq[r][m.loc])
    BY <1>3 DEF UnlockRequestHandler, Receives
  <2>2. m.loc \in Nat
    BY <2>1, HeadType DEF Message
  <2>3. lq[r][m.loc] \in Seq(Waiter)
    BY <2>1, <2>2, MutexId, LockVars
  <2> QED BY <2>1, <2>3, LqProgressServes
<1> QED BY <1>1, <1>2, <1>3 DEF MutexReceive

\* A step that leaves the masks, the queues and the answers in the channels
LEMMA QuietBarrier ==
    ASSUME TypeInv, BarrierInv, UNCHANGED <<control, todo, barriers>>, AllDrain, AnswersSame
    PROVE  BarrierInv'
<1>1. \A p : Cur(p)' = Cur(p) /\ (In(p, BarrierOp)' <=> In(p, BarrierOp))
  BY DEF control, Cur, In
<1>2. \A p, q \in Rank : p # q => (Told(p, q)' <=> Told(p, q))
  BY <1>1 DEF Told, AnswersSame, BarrierResponse, barriers
<1> QED BY <1>2, SameCounts DEF barriers

LEMMA ServesBarrier ==
    ASSUME TypeInv, BarrierInv, NEW r \in Rank, NEW s \in Rank,
           DataReceive(r, s) \/ MutexReceive(r, s)
    PROVE  BarrierInv'
<1>1. UNCHANGED <<control, todo, barriers>>
  BY DEF DataReceive, PutHandler, AccHandler, GetRequestHandler,
     GetResponseHandler, FetchAndAddRequestHandler, SwapRequestHandler,
     RmwResponseHandler, FenceRequestHandler, FenceResponseHandler,
     MutexReceive, LockRequestHandler, UnlockRequestHandler, LockResponseHandler,
     Abort, issuing
<1>2. CASE Abort
  BY <1>1, <1>2, SameDrain, QuietBarrier DEF Abort, AnswersSame
<1>3. CASE Serves(r, s)
  BY <1>1, <1>3, ServesFacts, QuietBarrier
<1> QED BY <1>2, <1>3, DataServes, MutexServes

LEMMA BarrierRequestBarrier ==
    ASSUME TypeInv, BarrierInv, NEW r \in Rank, NEW s \in Rank, BarrierRequestHandler(r, s)
    PROVE  BarrierInv'
<1>1. PICK w : w = [rank |-> s, call |-> Head(chan[s][r]).call]
  OBVIOUS
<1>2. /\ Consume(r, s) /\ UNCHANGED <<control, todo, kept, reqs, resps>>
      /\ bq' = [bq EXCEPT ![r] = Append(@, w)] /\ Serves(r, s)
  BY <1>1 DEF BarrierRequestHandler, Receives, Serves, issuing
<1>3. AllDrain /\ AnswersSame
  BY <1>2, ServesFacts
<1>4. \A p : Cur(p)' = Cur(p) /\ (In(p, BarrierOp)' <=> In(p, BarrierOp))
  BY <1>2 DEF control, Cur, In
<1>5. \A p, q \in Rank : p # q => (Told(p, q)' <=> Told(p, q))
  BY <1>2, <1>3, <1>4 DEF Told, AnswersSame, BarrierResponse
<1>6. w \in Waiter
  BY <1>1, <1>2, HeadType DEF Waiter, Message, Serves
<1>7. ASSUME NEW q \in Rank, NEW p \in Rank, From(bq[q], p) + From(kept[q], p) # 0
      PROVE  From(bq'[q], p) + From(kept'[q], p) # 0
  <2>1. bq[q] \in Seq(Waiter) /\ From(bq[q], p) \in Nat /\ From(kept[q], p) \in Nat
    BY QueueTypes, FromTypes
  <2>2. bq'[q] = IF q = r THEN Append(bq[q], w) ELSE bq[q]
    BY <1>2 DEF TypeInv, TypeOK
  <2>3. From(Append(bq[q], w), p) = From(bq[q], p) + Unit(w.rank = p)
    BY <1>6, <2>1, FromAppend
  <2> QED BY <1>2, <1>7, <2>1, <2>2, <2>3 DEF Unit
<1> QED BY <1>2, <1>3, <1>5, <1>7, SameCounts

\* The answer of a member reaches the barrier that asked for it.
LEMMA BarrierResponseBarrier ==
    ASSUME TypeInv, CallInv, BarrierInv, NEW r \in Rank, NEW s \in Rank,
           BarrierResponseHandler(r, s)
    PROVE  BarrierInv'
<1>1. /\ chan[s][r] # <<>> /\ Head(chan[s][r]).op = "OP_BARRIER_RESPONSE"
      /\ Consume(r, s) /\ UNCHANGED <<control, todo, bq, kept, reqs>>
      /\ resps' = [resps EXCEPT ![r][s] = IF Notified(r, Head(chan[s][r])) THEN @ + 1 ELSE @]
  BY DEF BarrierResponseHandler, Receives, issuing
<1>2. AllDrain
  BY <1>1, AnswersDrain DEF AnswersOnly
<1>3. /\ In(r, BarrierOp) /\ Notified(r, Head(chan[s][r])) /\ s \in Cur(r).grp
  <2>1. Head(chan[s][r]).op \in ResponseOp /\ Caller(Head(chan[s][r]).op) = BarrierOp
    BY <1>1 DEF ResponseOp, Caller, RmwRequest, RmwResponse
  <2>2. Present(r, Head(chan[s][r]).call, BarrierOp) /\ Open(r, s) # 0
    BY <1>1, <2>1, HeadPresent
  <2>3. In(r, BarrierOp) /\ phase[r] \in BarrierPhase /\ Notified(r, Head(chan[s][r]))
    BY <2>2 DEF Present, In, Notified, CallInv, PhaseAt
  <2> QED BY <2>2, <2>3, InBarrierCall
<1>4. /\ resps[r][s] \in Nat /\ resps'[r][s] = resps[r][s] + 1
      /\ \A p, q \in Rank : ~(p = r /\ q = s) => resps'[p][q] = resps[p][q]
  BY <1>1, <1>3, CallVars
<1>5. \A x, y \in Rank : ~(x = s /\ y = r) => chan'[x][y] = chan[x][y]
  BY <1>1, TakenChan DEF Consume
<1>6. \A p : Cur(p)' = Cur(p) /\ (In(p, BarrierOp)' <=> In(p, BarrierOp))
  BY <1>1 DEF control, Cur, In
<1>7. Told(r, s) /\ Told(r, s)'
  <2>1. Holds(chan[s][r], BarrierResponse)
    <3>1. chan[s][r] \in Seq(Message)
      BY ChanType
    <3> QED BY <1>1, <3>1, TailAt DEF Holds, BarrierResponse
  <2>2. resps'[r][s] # 0
    BY <1>4
  <2> QED BY <1>3, <1>6, <2>1, <2>2 DEF Told, BarrierResponse
<1>8. ASSUME NEW p \in Rank, NEW q \in Rank PROVE Told(p, q)' <=> Told(p, q)
  <2>1. CASE p = r /\ q = s
    BY <1>7, <2>1
  <2>2. CASE ~(p = r /\ q = s)
    BY <1>4, <1>5, <1>6, <2>2 DEF Told
  <2> QED BY <2>1, <2>2
<1> QED BY <1>1, <1>2, <1>8, SameCounts

LEMMA ReceiveBarrier ==
    ASSUME TypeInv, CallInv, BarrierInv, NEW r \in Rank, NEW s \in Rank, Receive(r, s)
    PROVE  BarrierInv'
  BY ServesBarrier, BarrierRequestBarrier, BarrierResponseBarrier DEF Receive, BarrierReceive

-----------------------------------------------------------------------------
(* The theorems *)

LEMMA InitBarrier == Init => BarrierInv
<1> SUFFICES ASSUME Init PROVE BarrierInv
  OBVIOUS
<1>1. /\ phase = [r \in Rank |-> "idle"] /\ pc = [r \in Rank |-> 1]
      /\ chan = [s \in Rank |-> [d \in Rank |-> <<>>]]
      /\ prog \in [Rank -> Seq(Call)]
  BY ProgramAssumption DEF Init
<1>2. \A p, q \in Rank : ~Told(p, q) /\ ~Complete(p) /\ ~Gathering(p) /\ ~Asking(p, q) /\ ~Owes(p, q)
  BY <1>1 DEF Told, Complete, Gathering, Asking, Owes, In
<1>3. ASSUME NEW p \in Rank, NEW q \in Rank
      PROVE  LeftWith(p, q) = 0 /\ CompleteWith(p, q) = 0
  <2>1. Prefix(WithOf(p, q), 0) = 0
    BY PrefixStep
  <2>2. CommonCount(p, q, 0) = 0
    BY <2>1, CountsPrefix
  <2> QED BY <1>1, <1>2, <2>2 DEF LeftWith, CompleteWith
<1>4. AnswersCounted
  BY <1>2, <1>3 DEF AnswersCounted, Unit
<1>5. \A r \in Rank : MaskSound(r) /\ InProgram(r)
  <2>1. \A r \in Rank : Len(prog[r]) \in Nat
    BY <1>1
  <2> QED BY <1>1, <1>2, <2>1 DEF MaskSound, InProgram
<1>6. \A p, q \in Rank : Behind(chan[p][q]) /\ SentAfter(p, q) /\ RequestTaken(p, q)
  BY <1>1 DEF Behind, SentAfter, RequestTaken
<1> QED BY <1>4, <1>5, <1>6 DEF BarrierInv

LEMMA NextBarrier ==
    TypeInv /\ TypeInv' /\ CallInv /\ CallInv' /\ BarrierInv /\ [Next]_vars => BarrierInv'
<1> SUFFICES ASSUME TypeInv, TypeInv', CallInv, CallInv', BarrierInv, [Next]_vars
             PROVE  BarrierInv'
  OBVIOUS
<1>1. CASE UNCHANGED vars
  BY <1>1, SameDrain, QuietBarrier DEF vars, issuing, AnswersSame
<1>2. ASSUME NEW r \in Rank, LocalStep(r) PROVE BarrierInv'
  BY <1>2, LocalBarrier
<1>3. ASSUME NEW r \in Rank, NEW s \in Rank, Receive(r, s) PROVE BarrierInv'
  BY <1>3, ReceiveBarrier
<1> QED BY <1>1, <1>2, <1>3 DEF Next, ReceiveStep, Over

\* The barriers two ranks have in common never get apart: whatever the
\* programs are, what one has left, with the answer it has been given and the
\* one it is owed, is what the other has gathered all requests of.
THEOREM BarrierCounts == Spec => []BarrierInv
<1>1. Spec => [](TypeInv /\ CallInv /\ BarrierInv)
  BY InitType, NextType, InitCall, NextCall, InitBarrier, NextBarrier, PTL DEF Spec
<1> QED BY <1>1, PTL

\* What a rank has left, the others have a request of.
LEMMA LeftComplete ==
    ASSUME TypeInv, BarrierInv, NEW p \in Rank, NEW q \in Rank, p # q
    PROVE  LeftWith(p, q) <= CompleteWith(q, p)
<1>1. LeftWith(p, q) + Unit(Told(p, q)) + Unit(Owes(q, p)) = CompleteWith(q, p)
  BY DEF BarrierInv, AnswersCounted
<1>2. LeftWith(p, q) \in Nat
  <2>1. pc[p] \in Nat \ {0}
    BY CallVars
  <2> QED BY <2>1, CommonStep DEF LeftWith
<1>3. Unit(Told(p, q)) \in Nat /\ Unit(Owes(q, p)) \in Nat
  BY DEF Unit
<1> QED BY <1>1, <1>2, <1>3

\* The number of the last barrier that r is complete in
Gathered(r) == IF Complete(r) THEN pc[r] ELSE pc[r] - 1

LEMMA GatheredCall ==
    ASSUME TypeInv, BarrierInv, NEW r \in Rank
    PROVE  /\ Gathered(r) \in Nat /\ Gathered(r) <= Len(prog[r])
           /\ pc[r] - 1 \in Nat /\ pc[r] - 1 <= Gathered(r) /\ Len(prog[r]) \in Nat
           /\ DOMAIN prog[r] = 1 .. Len(prog[r])
           /\ Gathered(r) <= IF phase[r] = "idle" THEN pc[r] - 1 ELSE pc[r]
<1>1. pc[r] \in Nat \ {0} /\ prog[r] \in Seq(Call) /\ pc[r] <= Len(prog[r]) + 1
  BY CallVars, ProgramAssumption DEF TypeInv, TypeOK, BarrierInv, InProgram
<1>2. Complete(r) => phase[r] # "idle" /\ pc[r] \in DOMAIN prog[r]
  BY DEF Complete, TypeInv, ControlOK
<1>3. Len(prog[r]) \in Nat /\ DOMAIN prog[r] = 1 .. Len(prog[r])
  BY <1>1
<1> QED BY <1>1, <1>2, <1>3 DEF Gathered

\* Programs that agree on their barriers agree on those of each group.
LEMMA GroupsPaired ==
    ASSUME Matched(prog), NEW a \in Rank, NEW b \in Rank, NEW g, a \in g, b \in g,
           NEW n \in Nat, NEW m \in Nat, 1 .. n \subseteq DOMAIN prog[a],
           1 .. m \subseteq DOMAIN prog[b], CommonCount(a, b, n) <= CommonCount(b, a, m)
    PROVE  BarrierCount(a, g, n) <= BarrierCount(b, g, m)
<1>1. Prefix(WithOf(a, b), n) <= Prefix(WithOf(b, a), m)
  BY CountsPrefix
<1>2. OverOf(a, g) \subseteq WithOf(a, b)
  BY DEF OverOf, WithOf, Common
<1>3. ASSUME NEW i \in 1 .. n, NEW j \in 1 .. m, i \in OverOf(a, g), j \in WithOf(b, a),
             Prefix(WithOf(a, b), i) = Prefix(WithOf(b, a), j)
      PROVE  j \in OverOf(b, g)
  <2>1. Common(a, b, i) /\ Common(b, a, j) /\ CommonCount(a, b, i) = CommonCount(b, a, j)
    BY <1>2, <1>3, CountsPrefix DEF WithOf
  <2>2. i \in DOMAIN prog[a] /\ j \in DOMAIN prog[b] /\ j \in Nat
    OBVIOUS
  <2>3. prog[a][i].grp = prog[b][j].grp
    BY <2>1, <2>2 DEF Matched, Common, CommonCount
  <2> QED BY <1>3, <2>1, <2>2, <2>3 DEF OverOf, Common
<1>4. Prefix(OverOf(a, g), n) <= Prefix(OverOf(b, g), m)
  BY <1>1, <1>2, <1>3, PrefixPaired
<1> QED BY <1>4, CountsPrefix

\* Nobody has left more barriers of a group than a member is complete in.
LEMMA LeftGathered ==
    ASSUME TypeInv, BarrierInv, Matched(prog), NEW r \in Rank, NEW q \in Rank, NEW g,
           r \in g, q \in g
    PROVE  Left(r, g) <= BarrierCount(q, g, Gathered(q))
<1>1. /\ Gathered(q) \in Nat /\ Gathered(q) <= Len(prog[q]) /\ Len(prog[q]) \in Nat
      /\ pc[q] - 1 \in Nat /\ pc[q] - 1 <= Gathered(q) /\ DOMAIN prog[q] = 1 .. Len(prog[q])
  BY GatheredCall
<1>2. /\ pc[r] - 1 \in Nat /\ pc[r] - 1 <= Gathered(r) /\ Gathered(r) <= Len(prog[r])
      /\ Gathered(r) \in Nat /\ Len(prog[r]) \in Nat /\ DOMAIN prog[r] = 1 .. Len(prog[r])
  BY GatheredCall
<1>3. CASE q = r
  <2>1. Prefix(OverOf(r, g), pc[r] - 1) <= Prefix(OverOf(r, g), Gathered(r))
    BY <1>2, PrefixMono
  <2> QED BY <1>3, <2>1, CountsPrefix DEF Left
<1>4. CASE q # r
  <2>1. CommonCount(r, q, pc[r] - 1) <= CommonCount(q, r, Gathered(q))
    BY <1>4, LeftComplete DEF LeftWith, CompleteWith, Gathered
  <2>2. 1 .. Gathered(q) \subseteq DOMAIN prog[q]
    BY <1>1
  <2>3. 1 .. (pc[r] - 1) \subseteq DOMAIN prog[r]
    BY <1>2
  <2> QED BY <1>1, <1>2, <2>1, <2>2, <2>3, GroupsPaired DEF Left
<1> QED BY <1>3, <1>4

\* The groups of a rank have it as a member.
LEMMA GroupMembers ==
    ASSUME TypeInv, Matched(prog), NEW r \in Rank, NEW g \in Groups(r)
    PROVE  r \in g /\ g \subseteq Rank
<1>1. PICK i \in DOMAIN prog[r] : prog[r][i].op \in BarrierOp /\ prog[r][i].grp = g
  BY DEF Groups
<1>2. prog[r][i] \in Call
  BY ProgramAssumption DEF TypeInv, TypeOK
<1> QED BY <1>1, <1>2 DEF Matched, Call

LEMMA BarriersSafe ==
    ASSUME TypeInv, BarrierInv, Matched(prog)
    PROVE  BarrierSafety
<1> SUFFICES ASSUME NEW r \in Rank, NEW g \in Groups(r), NEW q \in g
             PROVE  Left(r, g) <= Entered(q, g)
  BY DEF BarrierSafety
<1>1. r \in g /\ q \in Rank
  BY GroupMembers
<1> DEFINE e == IF phase[q] = "idle" THEN pc[q] - 1 ELSE pc[q]
<1>2. Left(r, g) <= BarrierCount(q, g, Gathered(q))
  BY <1>1, LeftGathered
<1>3. Gathered(q) \in Nat /\ Gathered(q) <= e /\ e \in Nat
  <2>1. pc[q] \in Nat \ {0}
    BY <1>1, CallVars
  <2> QED BY <1>1, <2>1, GatheredCall
<1>4. Prefix(OverOf(q, g), Gathered(q)) <= Prefix(OverOf(q, g), e)
  BY <1>3, PrefixMono
<1>5. /\ Prefix(OverOf(q, g), Gathered(q)) \in Nat /\ Prefix(OverOf(q, g), e) \in Nat
      /\ Prefix(OverOf(r, g), pc[r] - 1) \in Nat
  BY <1>3, PrefixStep, GatheredCall
<1> QED BY <1>2, <1>4, <1>5, CountsPrefix DEF Left, Entered

\* A barrier of programs that agree on their barriers synchronizes: nobody
\* leaves one of a group before every member has entered its own, whatever
\* barriers of other groups are in progress, and every request meets the
\* barrier it is for although it names no group.
THEOREM BarriersMeet == Spec => [](Matched(prog) => BarriersMatched)
<1>1. Spec => [](TypeInv /\ CallInv /\ BarrierInv)
  BY InitType, NextType, InitCall, NextCall, InitBarrier, NextBarrier, PTL DEF Spec
<1>2. TypeInv /\ CallInv /\ BarrierInv => (Matched(prog) => BarriersMatched)
  BY BarriersSafe, CountedRequests DEF BarriersMatched
<1> QED BY <1>1, <1>2, PTL

LEMMA ChannelsDrained ==
    ASSUME TypeInv, BarrierInv, Matched(prog)
    PROVE  BarrierDrains
<1> SUFFICES ASSUME NEW p \in Rank, NEW q \in Rank, p # q, NEW i \in DOMAIN chan[p][q],
                    chan[p][q][i].op \notin ResponseOp, NEW g \in Groups(p), q \in g,
                    NEW r \in g
             PROVE  Left(r, g) <= BarrierCount(p, g, chan[p][q][i].call - 1)
  BY DEF BarrierDrains, InFlight
<1>1. p \in g /\ r \in Rank
  BY GroupMembers
<1>2. Left(r, g) <= BarrierCount(q, g, Gathered(q))
  BY <1>1, LeftGathered
<1>3. PICK c : c = chan[p][q][i].call
  OBVIOUS
<1>4. c \in DOMAIN prog[p] /\ CompleteWith(q, p) <= CommonCount(p, q, c - 1)
  BY <1>3 DEF BarrierInv, SentAfter, Sends
<1>5. /\ Gathered(q) \in Nat /\ 1 .. Gathered(q) \subseteq DOMAIN prog[q]
      /\ c - 1 \in Nat /\ 1 .. (c - 1) \subseteq DOMAIN prog[p] /\ pc[r] - 1 \in Nat
  <2>1. /\ Gathered(q) \in Nat /\ Gathered(q) <= Len(prog[q]) /\ Len(prog[q]) \in Nat
        /\ DOMAIN prog[q] = 1 .. Len(prog[q])
    BY GatheredCall
  <2>2. Len(prog[p]) \in Nat /\ DOMAIN prog[p] = 1 .. Len(prog[p]) /\ pc[r] - 1 \in Nat
    BY <1>1, GatheredCall
  <2> QED BY <1>4, <2>1, <2>2
<1>6. CommonCount(q, p, Gathered(q)) <= CommonCount(p, q, c - 1)
  BY <1>4 DEF CompleteWith, Gathered
<1>7. BarrierCount(q, g, Gathered(q)) <= BarrierCount(p, g, c - 1)
  BY <1>1, <1>5, <1>6, GroupsPaired
<1>8. /\ Prefix(OverOf(r, g), pc[r] - 1) \in Nat
      /\ Prefix(OverOf(q, g), Gathered(q)) \in Nat
      /\ Prefix(OverOf(p, g), c - 1) \in Nat
  BY <1>5, PrefixStep
<1> QED BY <1>2, <1>3, <1>7, <1>8, CountsPrefix DEF Left

\* A barrier drains: once anybody has left one, all that a member sent another
\* before entering it has been received, without any fence.
THEOREM BarriersDrain == Spec => [](Matched(prog) => BarrierDrains)
<1>1. Spec => [](TypeInv /\ CallInv /\ BarrierInv)
  BY InitType, NextType, InitCall, NextCall, InitBarrier, NextBarrier, PTL DEF Spec
<1>2. TypeInv /\ CallInv /\ BarrierInv => (Matched(prog) => BarrierDrains)
  BY ChannelsDrained
<1> QED BY <1>1, <1>2, PTL

LEMMA QuietFinalized ==
    ASSUME TypeInv, CallInv, BarrierInv, Matched(prog), FinalizeLast(prog)
    PROVE  FinalizeQuiet
<1> SUFFICES ASSUME NEW r \in Rank, Finalized(r), NEW s \in Rank, s # r,
                    chan[s][r] # <<>>
             PROVE  FALSE
  BY DEF FinalizeQuiet
<1>1. /\ pc[r] - 1 \in Nat /\ pc[r] - 1 <= Len(prog[r]) /\ Len(prog[r]) \in Nat
      /\ DOMAIN prog[r] = 1 .. Len(prog[r]) /\ pc[r] \in Nat
  BY GatheredCall, CallVars
<1>2. PICK n : n = pc[r] - 1
  OBVIOUS
<1>3. /\ n \in DOMAIN prog[r] /\ prog[r][n].op = "finalize" /\ n = Len(prog[r])
      /\ prog[r][n].grp = Rank
  BY <1>1, <1>2 DEF Finalized, FinalizeLast
<1>4. phase[r] = "idle"
  <2>1. pc[r] \notin DOMAIN prog[r]
    BY <1>1, <1>2, <1>3
  <2> QED BY <2>1 DEF TypeInv, ControlOK
<1>5. 1 \in DOMAIN chan[s][r]
  <2>1. chan[s][r] \in Seq(Message)
    BY ChanType
  <2> QED BY <2>1, TailAt
<1>6. chan[s][r][1].op \notin ResponseOp
  BY <1>4, <1>5 DEF CallInv, MessagesPresent, Present, In
<1>7. PICK c : c = chan[s][r][1].call
  OBVIOUS
<1>8. c \in DOMAIN prog[s] /\ CompleteWith(r, s) <= CommonCount(s, r, c - 1)
  BY <1>5, <1>6, <1>7 DEF BarrierInv, SentAfter, Sends
<1>9. CompleteWith(r, s) = Prefix(WithOf(r, s), n)
  BY <1>2, <1>4, CountsPrefix DEF CompleteWith, Complete
<1>10. /\ Len(prog[s]) \in Nat /\ DOMAIN prog[s] = 1 .. Len(prog[s])
  BY GatheredCall
<1>11. n \in WithOf(r, s) /\ n \in 1 .. n /\ n \in Nat
  BY <1>1, <1>3 DEF WithOf, Common, BarrierOp
<1>12. Prefix(WithOf(r, s), n) \in 1 .. Prefix(WithOf(s, r), c - 1)
  <2>1. Prefix(WithOf(r, s), n) \in Nat /\ Prefix(WithOf(r, s), n) \in 1 .. Prefix(WithOf(r, s), n)
    BY <1>11, PrefixBounds
  <2>2. CommonCount(s, r, c - 1) = Prefix(WithOf(s, r), c - 1)
    BY CountsPrefix
  <2>3. c - 1 \in Nat
    BY <1>8, <1>10
  <2>4. Prefix(WithOf(s, r), c - 1) \in Nat
    BY <2>3, PrefixStep
  <2> QED BY <1>8, <1>9, <2>1, <2>2, <2>4
<1>13. PICK j \in 1 .. (c - 1) : j \in WithOf(s, r) /\ Prefix(WithOf(s, r), j) = Prefix(WithOf(r, s), n)
  <2>1. c - 1 \in Nat
    BY <1>8, <1>10
  <2> QED BY <1>12, <2>1, PrefixOnto
<1>14. j \in DOMAIN prog[s] /\ j # Len(prog[s])
  BY <1>8, <1>10
<1>15. Common(r, s, n) /\ Common(s, r, j) /\ CommonCount(r, s, n) = CommonCount(s, r, j)
  BY <1>11, <1>13, CountsPrefix DEF WithOf
<1>16. prog[r][n].op = "finalize" <=> prog[s][j].op = "finalize"
  BY <1>3, <1>14, <1>15 DEF Matched, Common, CommonCount
<1> QED BY <1>3, <1>14, <1>16 DEF FinalizeLast

\* Nothing arrives where what it needs has been freed: no response after its
\* call has returned, and nothing at all at a rank that has returned from
\* comex_finalize and freed the communicator.
THEOREM NothingComesLate ==
    Spec => [](Matched(prog) /\ FinalizeLast(prog) => NothingLate)
<1>1. Spec => [](TypeInv /\ CallInv /\ BarrierInv)
  BY InitType, NextType, InitCall, NextCall, InitBarrier, NextBarrier, PTL DEF Spec
<1>2. TypeInv /\ CallInv /\ BarrierInv =>
         (Matched(prog) /\ FinalizeLast(prog) => NothingLate)
  BY QuietFinalized, PresentResponses DEF NothingLate
<1> QED BY <1>1, <1>2, PTL

-----------------------------------------------------------------------------
(* Collective memory *)

\* What is under way to r was sent after the last barrier that r was complete
\* in, and before any other: the sender has not left the next one.
LEMMA SentBetween ==
    ASSUME TypeInv, BarrierInv, NEW s \in Rank, NEW r \in Rank, s # r,
           NEW i \in DOMAIN chan[s][r], chan[s][r][i].op \notin ResponseOp
    PROVE  /\ Sends(s, chan[s][r][i].call)
           /\ CommonCount(s, r, chan[s][r][i].call - 1) = CompleteWith(r, s)
<1>1. PICK c : c = chan[s][r][i].call
  OBVIOUS
<1>2. Sends(s, c) /\ CompleteWith(r, s) <= CommonCount(s, r, c - 1)
  BY <1>1 DEF BarrierInv, SentAfter
<1>3. c \in Nat \ {0} /\ c - 1 \in Nat /\ pc[s] - 1 \in Nat /\ c - 1 <= pc[s] - 1
  <2>1. Len(prog[s]) \in Nat /\ DOMAIN prog[s] = 1 .. Len(prog[s]) /\ pc[s] \in Nat \ {0}
    BY GatheredCall, CallVars
  <2> QED BY <1>2, <2>1 DEF Sends
<1>4. Prefix(WithOf(s, r), c - 1) <= Prefix(WithOf(s, r), pc[s] - 1)
  BY <1>3, PrefixMono
<1>5. CommonCount(s, r, c - 1) <= LeftWith(s, r)
  BY <1>4, CountsPrefix DEF LeftWith
<1>6. LeftWith(s, r) <= CompleteWith(r, s)
  BY LeftComplete
<1>7. /\ CommonCount(s, r, c - 1) \in Nat /\ LeftWith(s, r) \in Nat
      /\ CompleteWith(r, s) \in Nat
  <2>1. pc[s] \in Nat \ {0} /\ pc[r] \in Nat \ {0}
    BY CallVars
  <2>2. CommonCount(s, r, pc[s] - 1) \in Nat /\ CommonCount(s, r, c - 1) \in Nat
    BY <1>3, <2>1, CommonStep
  <2>3. CommonCount(r, s, pc[r] - 1) \in Nat /\ CommonCount(r, s, pc[r]) \in Nat
    BY <2>1, CommonStep DEF Unit
  <2> QED BY <2>2, <2>3 DEF LeftWith, CompleteWith
<1> QED BY <1>1, <1>2, <1>5, <1>6, <1>7

LEMMA SegmentsSafe ==
    ASSUME TypeInv, BarrierInv
    PROVE  SegmentSafe
<1> SUFFICES ASSUME NEW s \in Rank, NEW r \in Rank, s # r, NEW i \in DOMAIN chan[s][r],
                    chan[s][r][i].op \in CellOp, Covered(s, chan[s][r][i].call, r)
             PROVE  SegmentAfter(r, pc[r] - 1)
  BY DEF SegmentSafe, InFlight, HasSegment
<1>1. PICK c : c = chan[s][r][i].call
  OBVIOUS
<1>2. CommonCount(s, r, c - 1) = CompleteWith(r, s)
  <2>1. chan[s][r][i].op \notin ResponseOp
    BY DEF CellOp, ResponseOp
  <2> QED BY <1>1, <2>1, SentBetween
<1>3. PICK n : n = pc[r] - 1
  OBVIOUS
<1>4. n \in 0 .. Len(prog[r]) /\ (Complete(r) => n # Len(prog[r]) /\ n + 1 = pc[r])
  <2>1. /\ pc[r] - 1 \in Nat /\ pc[r] - 1 <= Gathered(r) /\ Gathered(r) <= Len(prog[r])
        /\ Len(prog[r]) \in Nat /\ Gathered(r) \in Nat
    BY GatheredCall
  <2>2. pc[r] \in Nat \ {0}
    BY CallVars
  <2> QED BY <1>3, <2>1, <2>2 DEF Gathered
<1>5. \/ CommonCount(r, s, n) = CommonCount(s, r, c - 1)
      \/ n # Len(prog[r]) /\ CommonCount(r, s, n + 1) = CommonCount(s, r, c - 1)
  BY <1>2, <1>3, <1>4 DEF CompleteWith
<1>6. SegmentAfter(r, n)
  BY <1>1, <1>4, <1>5 DEF Covered
<1> QED BY <1>3, <1>6

\* The collectives of MPI over g among the calls of p
GathersOf(p, g) ==
    {i \in DOMAIN prog[p] : prog[p][i].op = "gather" /\ prog[p][i].grp = g}

LEMMA GathersPrefix ==
    ASSUME NEW p, NEW g, NEW n \in Nat, 1 .. n \subseteq DOMAIN prog[p]
    PROVE  CallsOver(p, "gather", g, n) = Prefix(GathersOf(p, g), n)
<1>1. {i \in 1 .. n : prog[p][i].op = "gather" /\ prog[p][i].grp = g}
         = {i \in 1 .. n : i \in GathersOf(p, g)}
  BY DEF GathersOf
<1> QED BY <1>1 DEF CallsOver, Prefix

\* Counting the calls that come before those of a set
LEMMA PrefixBefore ==
    ASSUME NEW S, NEW n \in Nat \ {0}, 1 \notin S
    PROVE  Prefix(S, n) = Prefix({i \in Nat : i + 1 \in S}, n - 1)
<1> DEFINE A == {i \in 1 .. n : i \in S}
           B == {j \in 1 .. n - 1 : j \in {i \in Nat : i + 1 \in S}}
<1>1. n - 1 \in Nat
  OBVIOUS
<1>2. IsFiniteSet(B)
  BY <1>1, PrefixFinite
<1>3. Cardinality(A) = Cardinality(B)
  <2>1. A \in SUBSET Nat /\ B \in SUBSET Nat
    OBVIOUS
  <2>2. \A j \in Nat : j \in A <=> j # 0 /\ j - 1 \in B
    OBVIOUS
  <2> HIDE DEF A, B
  <2> QED BY <1>2, <2>1, <2>2, ShiftCard
<1> QED BY <1>3 DEF Prefix

\* Programs that agree on their collectives: those that a rank has entered in
\* an epoch of its barriers, a rank that went on to a later call of the same
\* epoch has left.
LEMMA GathersPaired ==
    ASSUME TypeInv, Matched(prog), GathersMatched(prog), NEW r \in Rank, NEW s \in Rank, r # s,
           NEW g, r \in g, s \in g, NEW n \in DOMAIN prog[r], NEW c \in DOMAIN prog[s],
           CommonCount(r, s, n - 1) <= CommonCount(s, r, c - 1)
    PROVE  CallsOver(r, "gather", g, n) <= CallsOver(s, "gather", g, c)
<1> DEFINE X == {i \in Nat : i + 1 \in GathersOf(r, g)}
           Y == {i \in Nat : i + 1 \in GathersOf(s, g)}
<1>0. prog[r] \in Seq(Call) /\ prog[s] \in Seq(Call)
  BY ProgramAssumption DEF TypeInv, TypeOK
<1>1. /\ n \in Nat \ {0} /\ 1 .. n \subseteq DOMAIN prog[r]
      /\ c \in Nat \ {0} /\ 1 .. c \subseteq DOMAIN prog[s]
  <2>1. /\ Len(prog[r]) \in Nat /\ DOMAIN prog[r] = 1 .. Len(prog[r])
        /\ Len(prog[s]) \in Nat /\ DOMAIN prog[s] = 1 .. Len(prog[s])
    BY <1>0
  <2> QED BY <2>1
<1>2. ASSUME NEW p \in {r, s}, NEW i \in GathersOf(p, g)
      PROVE  /\ i - 1 \in DOMAIN prog[p] /\ prog[p][i - 1].op \in BarrierOp
             /\ prog[p][i - 1].grp = g
  BY <1>2 DEF GathersOf, GathersMatched
<1>3. 1 \notin GathersOf(r, g) /\ 1 \notin GathersOf(s, g)
  <2>1. 0 \notin DOMAIN prog[r] /\ 0 \notin DOMAIN prog[s]
    BY <1>0
  <2> QED BY <1>2, <2>1
<1>4. Prefix(X, n - 1) <= Prefix(Y, c - 1)
  <2>1. n - 1 \in Nat /\ c - 1 \in Nat
    BY <1>1
  <2>2. Prefix(WithOf(r, s), n - 1) <= Prefix(WithOf(s, r), c - 1)
    BY CountsPrefix
  <2>3. X \subseteq WithOf(r, s)
    <3> SUFFICES ASSUME NEW i \in Nat, i + 1 \in GathersOf(r, g) PROVE i \in WithOf(r, s)
      OBVIOUS
    <3>1. (i + 1) - 1 = i
      OBVIOUS
    <3>2. prog[r][i].op \in BarrierOp /\ prog[r][i].grp = g
      BY <1>2, <3>1
    <3> QED BY <3>2 DEF WithOf, Common
  <2>4. ASSUME NEW i \in 1 .. n - 1, NEW j \in 1 .. c - 1, i \in X, j \in WithOf(s, r),
               Prefix(WithOf(r, s), i) = Prefix(WithOf(s, r), j)
        PROVE  j \in Y
    <3>1. i \in DOMAIN prog[r] /\ j \in DOMAIN prog[s] /\ j \in Nat /\ i \in Nat
      BY <1>1
    <3>2. Common(r, s, i) /\ Common(s, r, j) /\ CommonCount(r, s, i) = CommonCount(s, r, j)
      BY <2>3, <2>4, CountsPrefix DEF WithOf
    <3>3. i + 1 \in DOMAIN prog[r] /\ prog[r][i + 1].op = "gather"
      BY <2>4 DEF GathersOf
    <3>4. j + 1 \in DOMAIN prog[s] /\ prog[s][j + 1].op = "gather"
      BY <3>1, <3>2, <3>3 DEF GathersMatched, Common, CommonCount
    <3>5. prog[r][i].grp = prog[s][j].grp
      BY <3>1, <3>2 DEF Matched, Common, CommonCount
    <3>6. prog[r][i].grp = g
      <4>1. i + 1 \in GathersOf(r, g) /\ (i + 1) - 1 = i
        BY <2>4, <3>1
      <4> QED BY <1>2, <4>1
    <3>7. prog[s][j].grp = prog[s][j + 1].grp
      <4>1. (j + 1) - 1 = j
        BY <3>1
      <4> QED BY <3>4, <4>1 DEF GathersMatched
    <3> QED BY <3>1, <3>4, <3>5, <3>6, <3>7 DEF GathersOf
  <2> HIDE DEF X, Y
  <2> QED BY <2>1, <2>2, <2>3, <2>4, PrefixPaired
<1>5. Prefix(GathersOf(r, g), n) = Prefix(X, n - 1)
  BY <1>1, <1>3, PrefixBefore
<1>6. Prefix(GathersOf(s, g), c) = Prefix(Y, c - 1)
  BY <1>1, <1>3, PrefixBefore
<1>7. CallsOver(r, "gather", g, n) = Prefix(GathersOf(r, g), n)
  BY <1>1, GathersPrefix
<1>8. CallsOver(s, "gather", g, c) = Prefix(GathersOf(s, g), c)
  BY <1>1, GathersPrefix
<1> QED BY <1>4, <1>5, <1>6, <1>7, <1>8

LEMMA EpochsEnd ==
    ASSUME TypeInv, CallInv, BarrierInv, Matched(prog), GathersMatched(prog)
    PROVE  EpochEnds
<1> SUFFICES ASSUME NEW r \in Rank, phase[r] = "gather", NEW s \in Cur(r).grp \ {r},
                    chan[s][r] # <<>>
             PROVE  CallsOver(s, "gather", Cur(r).grp, pc[s] - 1)
                       >= GathersEntered(r, Cur(r).grp)
  BY DEF EpochEnds
<1>1. PICK g, n : g = Cur(r).grp /\ n = pc[r]
  OBVIOUS
<1>2. n \in DOMAIN prog[r] /\ prog[r][n].op = "gather" /\ prog[r][n].grp = g /\ Cur(r).op = "gather"
  BY <1>1 DEF CallInv, PhaseAt, TypeInv, ControlOK, Cur
<1>3. s \in Rank
  <2>1. Cur(r) \in Call
    BY <1>1, <1>2, ProgramAssumption DEF TypeInv, TypeOK, Cur
  <2> QED BY <2>1 DEF Call
<1>4. 1 \in DOMAIN chan[s][r]
  <2>1. chan[s][r] \in Seq(Message)
    BY <1>3, ChanType
  <2> QED BY <2>1, TailAt
<1>5. chan[s][r][1].op \notin ResponseOp
  <2>1. SUFFICES ASSUME chan[s][r][1].op \in ResponseOp PROVE FALSE
    OBVIOUS
  <2>2. Present(r, chan[s][r][1].call, Caller(chan[s][r][1].op))
    BY <1>3, <1>4, <2>1 DEF CallInv, MessagesPresent
  <2>3. "gather" \notin Caller(chan[s][r][1].op)
    BY <2>1 DEF ResponseOp, Caller, RmwRequest, RmwResponse, RmwOp, BarrierOp
  <2> QED BY <1>2, <2>2, <2>3 DEF Present, In
<1>6. PICK c : c = chan[s][r][1].call
  OBVIOUS
<1>7. Sends(s, c) /\ CommonCount(s, r, c - 1) = CommonCount(r, s, n - 1)
  <2>1. ~Complete(r)
    BY DEF Complete
  <2>2. Sends(s, c) /\ CommonCount(s, r, c - 1) = CompleteWith(r, s)
    BY <1>3, <1>4, <1>5, <1>6, SentBetween
  <2> QED BY <1>1, <2>1, <2>2 DEF CompleteWith
<1>8. /\ c \in DOMAIN prog[s] /\ c <= pc[s] /\ prog[s][c].op # "gather"
      /\ c \in Nat \ {0} /\ pc[s] - 1 \in Nat /\ 1 .. (pc[s] - 1) \subseteq DOMAIN prog[s]
      /\ 1 .. c \subseteq DOMAIN prog[s]
  <2>1. /\ Len(prog[s]) \in Nat /\ DOMAIN prog[s] = 1 .. Len(prog[s])
        /\ pc[s] - 1 \in Nat /\ pc[s] - 1 <= Gathered(s) /\ Gathered(s) <= Len(prog[s])
        /\ Gathered(s) \in Nat /\ pc[s] \in Nat
    BY <1>3, GatheredCall, CallVars
  <2> QED BY <1>7, <2>1 DEF Sends
<1>9. CommonCount(r, s, n - 1) <= CommonCount(s, r, c - 1)
  <2>1. pc[r] \in Nat \ {0}
    BY CallVars
  <2>2. CommonCount(r, s, n - 1) \in Nat
    BY <1>1, <2>1, CommonStep
  <2> QED BY <1>7, <2>2
<1>10. r \in g /\ s \in g
  <2>1. n - 1 \in DOMAIN prog[r] /\ prog[r][n - 1].op \in BarrierOp /\ prog[r][n - 1].grp = g
    BY <1>2 DEF GathersMatched
  <2> QED BY <1>1, <2>1 DEF Matched
<1>11. CallsOver(r, "gather", g, n) <= CallsOver(s, "gather", g, c)
  BY <1>2, <1>3, <1>8, <1>9, <1>10, GathersPaired
<1>12. CallsOver(s, "gather", g, c) <= CallsOver(s, "gather", g, pc[s] - 1)
  <2>1. c - 1 \in Nat /\ (c - 1) + 1 = c /\ c - 1 <= pc[s] - 1
    <3>1. pc[s] \in Nat
      BY <1>3, CallVars
    <3> QED BY <1>8, <3>1
  <2>2. /\ Prefix(GathersOf(s, g), c - 1) \in Nat
        /\ Prefix(GathersOf(s, g), (c - 1) + 1)
              = Prefix(GathersOf(s, g), c - 1) + Unit((c - 1) + 1 \in GathersOf(s, g))
    BY <2>1, PrefixStep
  <2>3. c \notin GathersOf(s, g)
    BY <1>8 DEF GathersOf
  <2>4. Prefix(GathersOf(s, g), c) = Prefix(GathersOf(s, g), c - 1)
    BY <2>1, <2>2, <2>3 DEF Unit
  <2>5. Prefix(GathersOf(s, g), c - 1) <= Prefix(GathersOf(s, g), pc[s] - 1)
    BY <1>8, <2>1, PrefixMono
  <2>6. CallsOver(s, "gather", g, c) = Prefix(GathersOf(s, g), c)
    BY <1>8, GathersPrefix
  <2>7. CallsOver(s, "gather", g, pc[s] - 1) = Prefix(GathersOf(s, g), pc[s] - 1)
    BY <1>8, GathersPrefix
  <2> QED BY <2>4, <2>5, <2>6, <2>7
<1>13. /\ CallsOver(r, "gather", g, n) \in Nat /\ CallsOver(s, "gather", g, c) \in Nat
       /\ CallsOver(s, "gather", g, pc[s] - 1) \in Nat
  <2>1. n \in Nat /\ 1 .. n \subseteq DOMAIN prog[r]
    <3>1. Len(prog[r]) \in Nat /\ DOMAIN prog[r] = 1 .. Len(prog[r])
      BY GatheredCall
    <3> QED BY <1>2, <3>1
  <2>2. /\ Prefix(GathersOf(r, g), n) \in Nat /\ Prefix(GathersOf(s, g), c) \in Nat
        /\ Prefix(GathersOf(s, g), pc[s] - 1) \in Nat
    BY <1>8, <2>1, PrefixStep
  <2> QED BY <1>8, <2>1, <2>2, GathersPrefix
<1>14. CallsOver(r, "gather", g, n) <= CallsOver(s, "gather", g, pc[s] - 1)
  BY <1>11, <1>12, <1>13
<1> QED BY <1>1, <1>13, <1>14 DEF GathersEntered

\* Collective memory calls find the channels in order, among ranks that agree
\* on their barriers and on the MPI collectives that follow them: no message
\* comes too late for a segment, and none to a rank inside MPI from a member
\* of its group, but from one that has left the collective already.
THEOREM MemoryOrdered ==
    Spec => [](Matched(prog) /\ GathersMatched(prog) => MemorySafe)
<1>1. Spec => [](TypeInv /\ CallInv /\ BarrierInv)
  BY InitType, NextType, InitCall, NextCall, InitBarrier, NextBarrier, PTL DEF Spec
<1>2. TypeInv /\ CallInv /\ BarrierInv =>
         (Matched(prog) /\ GathersMatched(prog) => MemorySafe)
  BY SegmentsSafe, EpochsEnd DEF MemorySafe
<1> QED BY <1>1, <1>2, PTL

-----------------------------------------------------------------------------
(* How many messages are under way *)

InLoop == Phase \ {"idle", "gather"}

\* A step of r: it enters the progress loop; it is not in it, or leaves it,
\* and goes on; it does so and pushes one message; or an assertion fails.
Goes(r) ==
    \/ UNCHANGED control /\ chan' = chan
    \/ /\ \E ph \in InLoop : Progress(r, ph)
       /\ \A q \in Rank \ {r} : chan'[q] = chan[q]
    \/ /\ Returned(r) /\ chan' = chan
       /\ Return(r) \/ \E ph \in Phase : Proceed(r, ph)
    \/ /\ Returned(r)
       /\ \E ph \in InLoop : \E d \in Rank : \E m : Pushed(r, ph) /\ Push(r, d, m)

\* Rank r receives a message of s in the progress loop.
Takes(r, s) ==
    /\ busy[r] /\ chan[s][r] # <<>> /\ UNCHANGED control
    /\ Consume(r, s) \/ \E d \in Rank : \E m : Answer(r, s, d, m)

LEMMA UnreceivedFinite ==
    ASSUME TypeInv, NEW r \in Rank
    PROVE  IsFiniteSet(Unreceived(r)) /\ Cardinality(Unreceived(r)) \in Nat
<1> DEFINE f == [d \in Rank |-> {d} \X DOMAIN chan[r][d]]
           S == {{d} \X DOMAIN chan[r][d] : d \in Rank}
<1>1. f \in Surjection(Rank, S)
  <2>1. f \in [Rank -> S]
    OBVIOUS
  <2>2. \A T \in S : \E d \in Rank : f[d] = T
    OBVIOUS
  <2> QED BY <2>1, <2>2 DEF Surjection
<1>2. IsFiniteSet(S)
  <2> HIDE DEF S, f
  <2> QED BY <1>1, RankAssumption, FS_Surjection
<1>3. ASSUME NEW d \in Rank PROVE IsFiniteSet({d} \X DOMAIN chan[r][d])
  <2>1. PICK n \in Nat : DOMAIN chan[r][d] = 1 .. n
    <3>1. Len(chan[r][d]) \in Nat /\ DOMAIN chan[r][d] = 1 .. Len(chan[r][d])
      BY ChanType
    <3> QED BY <3>1
  <2>2. IsFiniteSet(1 .. n)
    BY FS_Interval
  <2>3. IsFiniteSet({d})
    BY FS_Singleton
  <2> QED BY <2>1, <2>2, <2>3, FS_Product
<1>4. \A T \in S : IsFiniteSet(T)
  BY <1>3
<1>5. IsFiniteSet(UNION S)
  <2> HIDE DEF S
  <2> QED BY <1>2, <1>4, FS_UNION
<1> QED BY <1>5, FS_CardinalityType DEF Unreceived

LEMMA UnreceivedPush ==
    ASSUME TypeInv, NEW r \in Rank, NEW d \in Rank, NEW m, Push(r, d, m)
    PROVE  Cardinality(Unreceived(r)') = Cardinality(Unreceived(r)) + 1
<1>1. PICK n : n = Len(chan[r][d])
  OBVIOUS
<1>2. /\ n \in Nat /\ DOMAIN chan[r][d] = 1 .. n /\ chan[r][d] \in Seq(Message)
  BY <1>1, ChanType
<1>3. DOMAIN Append(chan[r][d], m) = 1 .. n + 1
  BY <1>1, <1>2
<1>4. ASSUME NEW x \in Rank
      PROVE  DOMAIN chan'[r][x] = IF x = d THEN 1 .. n + 1 ELSE DOMAIN chan[r][x]
  <2>1. chan'[r][x] = IF r = r /\ x = d THEN Append(chan[r][x], m) ELSE chan[r][x]
    BY PushChan
  <2> QED BY <1>3, <2>1
<1>5. 1 .. n + 1 = (1 .. n) \cup {n + 1} /\ n + 1 \notin 1 .. n
  BY <1>2
<1>6. Unreceived(r)' = Unreceived(r) \cup {<<d, n + 1>>}
  BY <1>2, <1>4, <1>5 DEF Unreceived
<1>7. <<d, n + 1>> \notin Unreceived(r)
  BY <1>2, <1>5 DEF Unreceived
<1> QED BY <1>6, <1>7, UnreceivedFinite, FS_AddElement

\* A receive takes from what is under way, but an answer adds to it.
LEMMA UnreceivedTaken ==
    ASSUME TypeInv, NEW r \in Rank, NEW s \in Rank, Takes(r, s), NEW q \in Rank, q # r
    PROVE  /\ Cardinality(Unreceived(q)') \in Nat
           /\ Cardinality(Unreceived(q)') <= Cardinality(Unreceived(q))
<1>1. ASSUME NEW x \in Rank
      PROVE  chan'[q][x] = IF q = s /\ x = r THEN Tail(chan[q][x]) ELSE chan[q][x]
  <2>1. Taken(r, s)[q][x] = IF q = s /\ x = r THEN Tail(chan[q][x]) ELSE chan[q][x]
    BY TakenChan
  <2>2. CASE Consume(r, s)
    BY <2>1, <2>2 DEF Consume
  <2>3. ASSUME NEW d \in Rank, NEW m, Answer(r, s, d, m)
        PROVE  chan'[q][x] = Taken(r, s)[q][x]
    BY <2>3, AnswerChan DEF Takes
  <2> QED BY <2>1, <2>2, <2>3 DEF Takes
<1>2. ASSUME NEW x \in Rank PROVE DOMAIN chan'[q][x] \subseteq DOMAIN chan[q][x]
  <2>1. CASE q = s /\ x = r
    <3>1. chan[q][x] \in Seq(Message) /\ chan[q][x] # <<>>
      BY <2>1, ChanType DEF Takes
    <3>2. DOMAIN Tail(chan[q][x]) \subseteq DOMAIN chan[q][x]
      BY <3>1
    <3> QED BY <1>1, <2>1, <3>2
  <2>2. CASE ~(q = s /\ x = r)
    BY <1>1, <2>2
  <2> QED BY <2>1, <2>2
<1>3. Unreceived(q)' \subseteq Unreceived(q)
  BY <1>2 DEF Unreceived
<1>4. IsFiniteSet(Unreceived(q)') /\ Cardinality(Unreceived(q)') <= Cardinality(Unreceived(q))
  BY <1>3, UnreceivedFinite, FS_Subset
<1> QED BY <1>4, FS_CardinalityType

LEMMA SendFacts ==
    ASSUME TypeInv, SendInv, NEW r \in Rank
    PROVE  /\ posted \in [Rank -> Nat] /\ busy \in [Rank -> BOOLEAN] /\ phase \in [Rank -> Phase]
           /\ MaxOutstanding \in Nat \ {0} /\ posted[r] < MaxOutstanding
           /\ phase[r] \in {"idle", "gather"} => Returned(r)
           /\ Returned(r) /\ ~Eager => Cardinality(Unreceived(r)) <= posted[r]
<1>1. posted \in [Rank -> Nat] /\ busy \in [Rank -> BOOLEAN] /\ phase \in [Rank -> Phase]
  BY DEF TypeInv, TypeOK
<1>2. posted[r] < MaxOutstanding /\ (phase[r] \in {"idle", "gather"} => Returned(r))
  BY DEF SendInv, Returned
<1>3. ASSUME Returned(r), ~Eager, busy[r] PROVE Cardinality(Unreceived(r)) <= posted[r]
  <2>1. \A d \in Rank : chan[r][d] = <<>>
    BY <1>3 DEF Returned, SendsReceived
  <2>2. Unreceived(r) = {}
    BY <2>1 DEF Unreceived
  <2> QED BY <1>1, <2>2, FS_EmptySet
<1> QED BY <1>1, <1>2, <1>3, BoundAssumption DEF SendInv

LEMMA GoesSends ==
    ASSUME TypeInv, SendInv, NEW r \in Rank, Goes(r)
    PROVE  SendInv'
<1> SUFFICES ASSUME NEW q \in Rank
             PROVE  /\ posted'[q] < MaxOutstanding
                    /\ busy'[q] => posted'[q] = 0 /\ phase'[q] \notin {"idle", "gather"}
                    /\ ~busy'[q] /\ ~Eager' => Cardinality(Unreceived(q)') <= posted'[q]
  BY DEF SendInv
<1>1. /\ posted \in [Rank -> Nat] /\ busy \in [Rank -> BOOLEAN] /\ phase \in [Rank -> Phase]
      /\ MaxOutstanding \in Nat \ {0} /\ posted[q] < MaxOutstanding
      /\ Returned(q) /\ ~Eager => Cardinality(Unreceived(q)) <= posted[q]
      /\ busy[q] => posted[q] = 0 /\ phase[q] \notin {"idle", "gather"}
      /\ ~busy[q] => Returned(q)
  BY SendFacts DEF SendInv, Returned
<1>2. Eager' <=> Eager
  BY DEF Goes, control, Progress, Return, Proceed, Pushed, Eager
<1>3. CASE q # r
  <2>1. posted'[q] = posted[q] /\ busy'[q] = busy[q] /\ phase'[q] = phase[q]
    BY <1>1, <1>3 DEF Goes, control, Progress, Return, Proceed, Pushed
  <2>2. chan'[q] = chan[q]
    BY <1>3 DEF Goes, Push, TypeInv, TypeOK
  <2>3. Unreceived(q)' = Unreceived(q)
    BY <2>2 DEF Unreceived
  <2> QED BY <1>1, <1>2, <2>1, <2>3
<1>4. CASE q = r /\ UNCHANGED control /\ chan' = chan
  BY <1>1, <1>2, <1>4 DEF control, Unreceived
<1>5. ASSUME q = r, NEW ph \in InLoop, Progress(r, ph)
      PROVE  busy'[q] /\ posted'[q] = 0 /\ phase'[q] \notin {"idle", "gather"}
  BY <1>1, <1>5 DEF Progress, InLoop
<1>6. CASE q = r /\ Returned(r) /\ chan' = chan /\ (Return(r) \/ \E ph \in Phase : Proceed(r, ph))
  <2>1. ~busy'[q] /\ posted'[q] = posted[q]
    BY <1>1, <1>6 DEF Return, Proceed
  <2>2. Unreceived(q)' = Unreceived(q)
    BY <1>6 DEF Unreceived
  <2> QED BY <1>1, <1>2, <1>6, <2>1, <2>2
<1>7. ASSUME q = r, Returned(r), NEW ph \in InLoop, NEW d \in Rank, NEW m,
             Pushed(r, ph), Push(r, d, m), ~Flooded(r)
      PROVE  /\ ~busy'[q] /\ posted'[q] < MaxOutstanding
             /\ ~Eager => Cardinality(Unreceived(q)') <= posted'[q]
  <2>1. ~busy'[q] /\ posted'[q] = posted[q] + 1 /\ posted[q] + 1 < MaxOutstanding
    BY <1>1, <1>7 DEF Pushed, Flooded
  <2>2. Cardinality(Unreceived(q)') = Cardinality(Unreceived(q)) + 1
    BY <1>7, UnreceivedPush
  <2>3. Cardinality(Unreceived(q)) \in Nat /\ posted[q] \in Nat
    BY <1>1, UnreceivedFinite
  <2> QED BY <1>1, <1>7, <2>1, <2>2, <2>3
<1>8. CASE q = r /\ Returned(r) /\ \E ph \in InLoop : \E d \in Rank : \E m : Pushed(r, ph) /\ Push(r, d, m)
  <2>1. PICK ph \in InLoop, d \in Rank : \E m : Pushed(r, ph) /\ Push(r, d, m)
    BY <1>8
  <2>2. PICK m : Pushed(r, ph) /\ Push(r, d, m)
    BY <2>1
  <2>3. CASE Flooded(r)
    BY <1>1, <1>5, <1>8, <2>2, <2>3 DEF Pushed
  <2>4. CASE ~Flooded(r)
    BY <1>2, <1>7, <1>8, <2>2, <2>4
  <2> QED BY <2>3, <2>4
<1> QED BY <1>1, <1>3, <1>4, <1>5, <1>6, <1>8 DEF Goes

LEMMA TakesSends ==
    ASSUME TypeInv, SendInv, NEW r \in Rank, NEW s \in Rank, Takes(r, s)
    PROVE  SendInv'
<1> SUFFICES ASSUME NEW q \in Rank, ~busy'[q], ~Eager'
             PROVE  Cardinality(Unreceived(q)') <= posted'[q]
  BY DEF SendInv, Takes, control
<1>1. ~busy[q] /\ ~Eager /\ posted'[q] = posted[q] /\ q # r
  BY DEF Takes, control, Eager
<1>2. /\ Cardinality(Unreceived(q)') \in Nat
      /\ Cardinality(Unreceived(q)') <= Cardinality(Unreceived(q))
  BY <1>1, UnreceivedTaken
<1>3. Cardinality(Unreceived(q)) <= posted[q]
  BY <1>1 DEF SendInv
<1>4. posted[q] \in Nat /\ Cardinality(Unreceived(q)) \in Nat
  BY UnreceivedFinite DEF TypeInv, TypeOK
<1> QED BY <1>1, <1>2, <1>3, <1>4

\* A block, ...
LEMMA BlockGoes ==
    ASSUME TypeInv, SendInv, NEW r \in Rank,
           \/ PutSelf(r) \/ PutRemote(r) \/ AccSelf(r) \/ AccRemote(r)
           \/ GetSelf(r) \/ GetRemote(r)
    PROVE  Goes(r)
<1>1. "wait" \in InLoop /\ "issue" \in InLoop /\ "issue" \in Phase
  BY DEF InLoop, Phase
<1>2. CASE PutSelf(r) \/ AccSelf(r) \/ GetSelf(r)
  <2>1. chan' = chan /\ Returned(r) /\ BlockIssued(r, FALSE)
    BY <1>2 DEF PutSelf, AccSelf, GetSelf, NextBlock
  <2> QED BY <1>1, <2>1 DEF Goes, BlockIssued
<1>3. CASE PutRemote(r) \/ AccRemote(r) \/ GetRemote(r)
  <2>1. Cur(r).to \in Rank /\ Returned(r)
    <3>1. PICK ops \in SUBSET DataOp : NextBlock(r, ops)
      <4>1. /\ {"put", "putnext"} \in SUBSET DataOp /\ {"acc"} \in SUBSET DataOp
            /\ {"get"} \in SUBSET DataOp
        BY DEF DataOp
      <4> QED BY <1>3, <4>1 DEF PutRemote, AccRemote, GetRemote
    <3> QED BY <3>1, BlockType DEF Call, NextBlock
  <2>2. PICK m : Push(r, Cur(r).to, m)
    BY <1>3 DEF PutRemote, AccRemote, GetRemote
  <2>3. BlockIssued(r, TRUE)
    BY <1>3 DEF PutRemote, AccRemote, GetRemote
  <2>4. \A q \in Rank \ {r} : chan'[q] = chan[q]
    BY <2>2 DEF Push, TypeInv, TypeOK
  <2> QED BY <1>1, <2>1, <2>2, <2>3, <2>4 DEF Goes, BlockIssued
<1> QED BY <1>2, <1>3

\* ... a request to each of several ranks, ...
LEMMA EachGoes ==
    ASSUME TypeInv, NEW r \in Rank, Returned(r), NEW p \in Rank, NEW m, Push(r, p, m),
           NEW last \in InLoop, NEW next \in InLoop, Progress(r, last) \/ Pushed(r, next)
    PROVE  Goes(r)
<1>1. \A q \in Rank \ {r} : chan'[q] = chan[q]
  BY DEF Push, TypeInv, TypeOK
<1> QED BY <1>1 DEF Goes

\* ... and all other steps
LEMMA LocalGoes ==
    ASSUME TypeInv, SendInv, NEW r \in Rank, LocalStep(r)
    PROVE  Goes(r)
<1>1. /\ {"wait", "fence", "bsend", "breq", "bscan", "bwait"} \subseteq InLoop
      /\ "gather" \in Phase /\ "bscan" \in Phase
  BY DEF InLoop, Phase
<1>2. phase[r] \in {"idle", "gather"} => Returned(r)
  BY SendFacts
<1>3. CASE \/ PutSelf(r) \/ PutRemote(r) \/ AccSelf(r) \/ AccRemote(r)
           \/ GetSelf(r) \/ GetRemote(r)
  BY <1>3, BlockGoes
<1>4. CASE WaitStart(r) \/ BarrierGathered(r) \/ BarrierScanned(r)
  <2>1. chan' = chan /\ \E ph \in InLoop : Progress(r, ph)
    BY <1>1, <1>4 DEF WaitStart, BarrierGathered, BarrierScanned
  <2> QED BY <2>1 DEF Goes
<1>5. CASE \/ FenceNothing(r) \/ FenceReturn(r) \/ CallReturn(r) \/ LockReturn(r)
           \/ BarrierReturn(r) \/ DestroyReturn(r) \/ LocalSegment(r) \/ GatherReturn(r)
  <2>1. chan' = chan /\ Return(r) /\ Returned(r)
    BY <1>2, <1>5 DEF FenceNothing, FenceReturn, CallReturn, LockReturn, BarrierReturn,
       DestroyReturn, LocalSegment, GatherReturn, Calls
  <2> QED BY <2>1 DEF Goes
<1>6. CASE GatherStart(r) \/ BarrierKeep(r)
  <2>1. chan' = chan /\ Returned(r) /\ \E ph \in Phase : Proceed(r, ph)
    BY <1>1, <1>2, <1>6 DEF GatherStart, BarrierKeep, Calls
  <2> QED BY <2>1 DEF Goes
<1>7. CASE RmwStart(r) \/ Lock(r) \/ Unlock(r)
  <2>1. Cur(r).to \in Rank /\ Returned(r)
    BY <1>2, <1>7, CallsType DEF RmwStart, Lock, Unlock, Call
  <2>2. PICK m : Push(r, Cur(r).to, m)
    BY <1>7 DEF RmwStart, Lock, Unlock
  <2>3. Progress(r, "wait") \/ Pushed(r, "wait")
    BY <1>7 DEF RmwStart, Lock, Unlock
  <2> QED BY <1>1, <2>1, <2>2, <2>3, EachGoes
<1>8. CASE FenceStart(r) \/ FenceNext(r)
  <2>1. PICK ps \in SUBSET Rank : \E p \in ps : SendFence(r, p, ps)
    <3>1. FenceStart(r) => FenceTargets(r) \in SUBSET Rank
      BY CallsType DEF FenceStart, FenceTargets, Call
    <3>2. todo[r] \in SUBSET Rank
      BY CallVars
    <3> QED BY <1>8, <3>1, <3>2 DEF FenceStart, FenceNext
  <2>2. PICK p \in ps : SendFence(r, p, ps)
    BY <2>1
  <2>3. Returned(r)
    BY <1>2, <1>8 DEF FenceStart, FenceNext, Calls
  <2>4. PICK m : Push(r, p, m)
    BY <2>2 DEF SendFence
  <2>5. Progress(r, "wait") \/ Pushed(r, "fence")
    BY <2>2 DEF SendFence
  <2> QED BY <1>1, <2>3, <2>4, <2>5, EachGoes
<1>9. ASSUME NEW ps \in SUBSET Rank, NEW p \in ps, SendRequest(r, p, ps), Returned(r)
      PROVE  Goes(r)
  <2>1. PICK m : Push(r, p, m)
    BY <1>9 DEF SendRequest
  <2>2. Progress(r, "breq") \/ Pushed(r, "bsend")
    BY <1>9 DEF SendRequest
  <2> QED BY <1>1, <1>9, <2>1, <2>2, EachGoes
<1>10. CASE BarrierStart(r)
  <2>1. Cur(r).grp \ {r} \in SUBSET Rank /\ Returned(r)
    BY <1>2, <1>10, CallsType DEF BarrierStart, Call
  <2>2. CASE Progress(r, "breq") /\ chan' = chan
    BY <1>1, <2>2 DEF Goes
  <2> QED BY <1>9, <1>10, <2>1, <2>2 DEF BarrierStart
<1>11. CASE BarrierSend(r)
  <2>1. todo[r] \in SUBSET Rank
    BY CallVars
  <2> QED BY <1>9, <1>11, <2>1 DEF BarrierSend
<1>12. CASE BarrierAnswer(r)
  <2>1. bq[r] # <<>> /\ Returned(r) /\ Pushed(r, "bscan") /\ \E m : Push(r, Head(bq[r]).rank, m)
    BY <1>12 DEF BarrierAnswer, Answerable
  <2>2. Head(bq[r]).rank \in Rank
    <3>1. Head(bq[r]) \in Waiter
      BY <2>1, QueueTypes, HeadTailProperties
    <3> QED BY <3>1 DEF Waiter
  <2> QED BY <1>1, <2>1, <2>2, EachGoes
<1>13. CASE CreateMutexes(r)
  <2>1. CASE Abort
    BY <2>1 DEF Abort, Goes
  <2>2. CASE ~Abort
    BY <1>2, <1>13, <2>2 DEF CreateMutexes, Goes, Calls
  <2> QED BY <2>1, <2>2
<1> QED BY <1>3, <1>4, <1>5, <1>6, <1>7, <1>8, <1>10, <1>11, <1>12, <1>13
    DEF LocalStep, DataStep, BarrierStep, MutexStep, MemoryStep

LEMMA ReceiveTakes ==
    ASSUME TypeInv, NEW r \in Rank, NEW s \in Rank, Receive(r, s)
    PROVE  Takes(r, s) \/ (UNCHANGED control /\ chan' = chan)
<1>1. busy[r] /\ UNCHANGED control
  BY DEF Receive, DataReceive, PutHandler, AccHandler, GetRequestHandler,
     GetResponseHandler, FetchAndAddRequestHandler, SwapRequestHandler,
     RmwResponseHandler, FenceRequestHandler, FenceResponseHandler,
     MutexReceive, LockRequestHandler, UnlockRequestHandler, LockResponseHandler,
     BarrierReceive, BarrierRequestHandler, BarrierResponseHandler, Abort, Receives
<1>2. Serves(r, s) => Takes(r, s)
  BY <1>1 DEF Serves, Takes
<1>3. Abort => UNCHANGED control /\ chan' = chan
  BY DEF Abort
<1>4. BarrierReceive(r, s) => Takes(r, s)
  BY <1>1 DEF BarrierReceive, BarrierRequestHandler, BarrierResponseHandler, Receives, Takes
<1> QED BY <1>2, <1>3, <1>4, DataServes, MutexServes DEF Receive

LEMMA NextSends == TypeInv /\ SendInv /\ [Next]_vars => SendInv'
<1> SUFFICES ASSUME TypeInv, SendInv, [Next]_vars PROVE SendInv'
  OBVIOUS
<1>1. ASSUME UNCHANGED control, chan' = chan PROVE SendInv'
  BY <1>1 DEF control, SendInv, Eager, Unreceived
<1>2. CASE UNCHANGED vars
  BY <1>1, <1>2 DEF vars
<1>3. ASSUME NEW r \in Rank, LocalStep(r) PROVE SendInv'
  BY <1>3, LocalGoes, GoesSends
<1>4. ASSUME NEW r \in Rank, NEW s \in Rank, Receive(r, s) PROVE SendInv'
  BY <1>1, <1>4, ReceiveTakes, TakesSends
<1> QED BY <1>2, <1>3, <1>4 DEF Next, ReceiveStep, Over

LEMMA InitSends == Init => SendInv
<1> SUFFICES ASSUME Init, NEW r \in Rank
             PROVE  /\ posted[r] < MaxOutstanding /\ ~busy[r]
                    /\ Cardinality(Unreceived(r)) <= posted[r]
  BY DEF SendInv
<1>1. posted[r] = 0 /\ ~busy[r] /\ \A d \in Rank : chan[r][d] = <<>>
  BY DEF Init
<1>2. Unreceived(r) = {}
  BY <1>1 DEF Unreceived
<1> QED BY <1>1, <1>2, FS_EmptySet, BoundAssumption

\* A program that runs on has fewer than MAX_NB_OUTSTANDING messages on their
\* way, whichever calls push them, the answers that it sends while it polls
\* and those of the traversal of a barrier included: the counter is back to
\* zero only when all of them have been received.
THEOREM SendsStayBounded == Spec => []SendsBounded
<1>1. Spec => [](TypeInv /\ SendInv)
  BY InitType, NextType, InitSends, NextSends, PTL DEF Spec
<1>2. TypeInv /\ SendInv => SendsBounded
  <2> SUFFICES ASSUME TypeInv, SendInv, NEW r \in Rank, ~busy[r], ~Eager
               PROVE  Cardinality(Unreceived(r)) < MaxOutstanding
    BY DEF SendsBounded
  <2>1. Cardinality(Unreceived(r)) <= posted[r] /\ posted[r] < MaxOutstanding
    BY DEF SendInv
  <2>2. Cardinality(Unreceived(r)) \in Nat /\ posted[r] \in Nat /\ MaxOutstanding \in Nat
    BY UnreceivedFinite, SendFacts
  <2> QED BY <2>1, <2>2
<1> QED BY <1>1, <1>2, PTL

=============================================================================
