------------------------------ MODULE LocalProofs ------------------------------
(***************************************************************************)
(* The theorems about what a process keeps to itself.                      *)
(*                                                                         *)
(* Handles: waits complete in every modest program, for every number of    *)
(* handles, slots, tags and requests.                                      *)
(*                                                                         *)
(* The allocator, for any layout of memory, any types and any sequence of  *)
(* calls: the blocks of heap and stack neither overlap nor get lost, and   *)
(* clients have the space they asked for, where they want it.  The         *)
(* argument is about sets of blocks that follow one another (Tiles): what  *)
(* splitting a block, cutting the heap, coalescing and popping the stack   *)
(* make of such a set.                                                     *)
(***************************************************************************)
EXTENDS NbHandles, MemoryAllocator, FiniteSetTheorems, WellFoundedInduction, TLAPS

-----------------------------------------------------------------------------
(* NON-BLOCKING HANDLES *)

\* Every request under way can be found from the handle it was made for.
Traceable ==
    \A q \in pending : /\ q[2] \in open
                       /\ Valid(q[2])
                       /\ q[1] \in list[hdl[q[2]].slot]

\* A free slot has an empty list, a slot in use an open handle that names it:
\* so there are no more slots in use than open handles.
SlotsOwned ==
    /\ \A s \in free : list[s] = {}
    /\ \A s \in Slot \ free :
          \E h \in open : hdl[h].slot = s /\ slotTag[s] = hdl[h].tag
    /\ IsFiniteSet(open)
    /\ Cardinality(open) <= program.open

\* A call in progress has its handle to itself.
CallOwns ==
    \A h \in Handle : Making(h) =>
        /\ h \in open
        /\ hdl[h].slot # NoSlot => Valid(h) /\ hdl[h].slot \notin free

NbInv == NbTypeOK /\ (Modest => Traceable /\ SlotsOwned /\ CallOwns)

-----------------------------------------------------------------------------
(* The smallest element of a set of indices *)

LEMMA FirstIsElement ==
    ASSUME NEW S \in SUBSET Nat, S # {}
    PROVE  First(S) \in S
<1>1. PICK i \in S : \A j \in S : ~ (<<j, i>> \in OpToRel(<, Nat))
  BY NatLessThanWellFounded, WFMin
<1>2. \A j \in S : i <= j
  <2>1. SUFFICES ASSUME NEW j \in S, j < i PROVE FALSE
    OBVIOUS
  <2>2. <<j, i>> \in OpToRel(<, Nat)
    BY <2>1 DEF OpToRel
  <2>3. QED
    BY <1>1, <2>2
<1>3. QED
  BY <1>2 DEF First

\* The constants of a slot table.
LEMMA SlotTable ==
    /\ Slot \subseteq Nat /\ Element \subseteq Nat
    /\ NoSlot \notin Slot
    /\ 0 \in Slot /\ 0 \in Element /\ 0 \in Tag
    /\ \A i \in Slot : Following(i) \in Slot
    /\ \A t \in Tag : (t + 1) % TagSpan \in Tag
    /\ IsFiniteSet(Slot) /\ Cardinality(Slot) = NumHdls
<1>1. IsFiniteSet(Slot) /\ Cardinality(Slot) = NumHdls
  BY NbAssumption, FS_Interval DEF Slot
<1>2. QED
  BY <1>1, NbAssumption DEF Slot, Element, Tag, NoSlot, Following

-----------------------------------------------------------------------------
(* Types *)

LEMMA FirstFree ==
    ASSUME NbTypeOK
    PROVE  /\ free # {} => First(free) \in free
           /\ unused # {} => First(unused) \in unused
  BY FirstIsElement, SlotTable DEF NbTypeOK

LEMMA NbTypeNext == NbTypeOK /\ [NbNext]_nbvars => NbTypeOK'
<1> SUFFICES ASSUME NbTypeOK, [NbNext]_nbvars PROVE NbTypeOK'
  OBVIOUS
<1> USE SlotTable DEF NbTypeOK
<1>1. ASSUME NEW h \in Handle, NEW n \in 0 .. MaxRequests, NbCall(h, n)
      PROVE  NbTypeOK'
  BY <1>1 DEF NbCall, Start
<1>2. ASSUME NEW h \in Handle, NEW n \in 1 .. MaxRequests, NbCallCyclic(h, n)
      PROVE  NbTypeOK'
  BY <1>2, NbAssumption DEF NbCallCyclic, Start
<1>3. ASSUME NEW h \in Handle, TakeSlot(h) PROVE NbTypeOK'
  BY <1>3, FirstFree DEF TakeSlot, KeepTag
<1>4. ASSUME NEW h \in Handle, EvictSlot(h) PROVE NbTypeOK'
  BY <1>4 DEF EvictSlot, KeepTag
<1>5. ASSUME NEW h \in Handle, NEW e \in Element, Making(h), MakeRequest(h, e)
      PROVE  /\ list' \in [Slot -> SUBSET Element]
             /\ pending' \subseteq Element \X Handle
             /\ left' \in [Handle -> 0 .. MaxRequests]
  BY <1>5, NbAssumption DEF MakeRequest, Making
<1>6. ASSUME NEW h \in Handle, TakeElement(h) PROVE NbTypeOK'
  <2>1. First(unused) \in Element
    BY <1>6, FirstFree DEF TakeElement
  <2>2. QED
    BY <1>6, <1>5, <2>1 DEF TakeElement
<1>7. ASSUME NEW h \in Handle, EvictElement(h) PROVE NbTypeOK'
  BY <1>7, <1>5 DEF EvictElement, Element, Slot
<1>8. ASSUME NEW h \in Handle, Wait(h) PROVE NbTypeOK'
  <2>1. open' \subseteq Handle /\ UNCHANGED <<program, hdl, oldest, lastTag, left>>
    BY <1>8 DEF Wait
  <2>2. CASE Valid(h)
    <3>1. hdl[h].slot \in Slot /\ list[hdl[h].slot] \subseteq Element
      BY <2>2 DEF Valid
    <3>2. /\ free' = free \cup {hdl[h].slot}
          /\ slotTag' = [slotTag EXCEPT ![hdl[h].slot] = 0]
          /\ unused' = unused \cup list[hdl[h].slot]
          /\ pending' \subseteq pending
          /\ list' = [list EXCEPT ![hdl[h].slot] = {}]
      BY <1>8, <2>2 DEF Wait
    <3>3. /\ slotTag' \in [Slot -> Tag]
          /\ list' \in [Slot -> SUBSET Element]
      BY <3>2
    <3>4. QED
      BY <2>1, <3>1, <3>2, <3>3
  <2>3. CASE ~Valid(h)
    BY <1>8, <2>1, <2>3 DEF Wait
  <2>4. QED
    BY <2>2, <2>3
<1>9. ASSUME NEW e \in Element, Complete(e) PROVE NbTypeOK'
  BY <1>9 DEF Complete
<1>10. CASE UNCHANGED nbvars
  BY <1>10 DEF nbvars
<1>11. QED
  BY <1>1, <1>2, <1>3, <1>4, <1>6, <1>7, <1>8, <1>9, <1>10 DEF NbNext

-----------------------------------------------------------------------------
(* Waits *)

\* As long as the program is modest, a call finds a free slot.
LEMMA SlotLeft ==
    ASSUME NbTypeOK, SlotsOwned, Modest,
           NEW h \in open, hdl[h].slot = NoSlot
    PROVE  free # {}
<1> SUFFICES ASSUME free = {} PROVE FALSE
  OBVIOUS
<1> DEFINE Owner(s) == CHOOSE g \in open : hdl[g].slot = s
           f == [s \in Slot |-> Owner(s)]
<1>1. \A s \in Slot : Owner(s) \in open /\ hdl[Owner(s)].slot = s
  BY DEF SlotsOwned
<1>2. \A s \in Slot : Owner(s) # h
  BY <1>1, SlotTable
<1>3. f \in Injection(Slot, open \ {h})
  <2>1. f \in [Slot -> open \ {h}]
    BY <1>1, <1>2
  <2>2. ASSUME NEW s \in Slot, NEW t \in Slot, f[s] = f[t] PROVE s = t
    BY <1>1, <2>2
  <2>3. QED
    BY <2>1, <2>2 DEF Injection, IsInjective
<1>4. IsFiniteSet(open \ {h}) /\ Cardinality(open \ {h}) = Cardinality(open) - 1
  BY FS_RemoveElement DEF SlotsOwned
<1>5. Cardinality(Slot) <= Cardinality(open \ {h})
  BY <1>3, <1>4, FS_Injection
<1>6. Cardinality(open) \in Nat /\ program.open \in Nat
  BY FS_CardinalityType, NbAssumption DEF SlotsOwned, NbTypeOK
<1>7. QED
  BY <1>4, <1>5, <1>6, SlotTable, NbAssumption DEF SlotsOwned, Modest

LEMMA NbInvInit == NbInit => NbInv
<1> SUFFICES ASSUME NbInit PROVE NbInv
  OBVIOUS
<1>1. NbTypeOK
  BY SlotTable, NbAssumption DEF NbInit, NbTypeOK
<1>2. Traceable /\ CallOwns
  BY DEF NbInit, Traceable, CallOwns, Making
<1>3. SlotsOwned
  <2>1. IsFiniteSet({}) /\ Cardinality({}) = 0
    BY FS_EmptySet
  <2>2. program.open \in Nat
    BY NbAssumption DEF NbInit
  <2>3. QED
    BY <2>1, <2>2 DEF NbInit, SlotsOwned
<1>4. QED
  BY <1>1, <1>2, <1>3 DEF NbInv

\* A call starts with a handle that no request under way was made for.
LEMMA StartKeeps ==
    ASSUME NbTypeOK, NbTypeOK', Traceable, SlotsOwned, CallOwns,
           NEW h \in Handle, NEW n \in 0 .. MaxRequests, NbCall(h, n)
    PROVE  Traceable' /\ SlotsOwned' /\ CallOwns'
<1>1. h \notin open /\ open' = open \cup {h}
  BY DEF NbCall, Start
<1>2. /\ \A g \in open : hdl'[g] = hdl[g]
      /\ hdl'[h].slot = NoSlot
      /\ UNCHANGED <<list, slotTag, free, pending, program>>
  BY <1>1 DEF NbCall, NbTypeOK
<1>3. Traceable'
  BY <1>1, <1>2 DEF Traceable, Valid
<1>4. SlotsOwned'
  <2>1. IsFiniteSet(open') /\ Cardinality(open') = Cardinality(open) + 1
    BY <1>1, FS_AddElement DEF SlotsOwned
  <2>2. Cardinality(open) < program.open
    BY DEF NbCall, Start
  <2>3. Cardinality(open) \in Nat /\ program.open \in Nat
    BY FS_CardinalityType, NbAssumption DEF SlotsOwned, NbTypeOK
  <2>4. Cardinality(open') <= program'.open
    BY <1>2, <2>1, <2>2, <2>3
  <2>5. QED
    BY <1>1, <1>2, <2>1, <2>4 DEF SlotsOwned
<1>5. CallOwns'
  <2>1. \A g \in Handle : g # h => left'[g] = 0
    BY DEF NbCall, Start, Idle, NbTypeOK
  <2>2. QED
    BY <1>1, <1>2, <2>1 DEF CallOwns, Making
<1>6. QED
  BY <1>3, <1>4, <1>5

\* A free slot has no requests of the handle that named it last.
LEMMA TakeSlotKeeps ==
    ASSUME NbTypeOK, NbTypeOK', Traceable, SlotsOwned, CallOwns,
           NEW h \in Handle, TakeSlot(h)
    PROVE  Traceable' /\ SlotsOwned' /\ CallOwns'
<1> DEFINE s == First(free)
<1>1. s \in free /\ s \in Slot /\ list[s] = {}
  BY FirstFree DEF TakeSlot, NbTypeOK, SlotsOwned
<1>2. h \in open /\ hdl[h].slot = NoSlot
  BY DEF TakeSlot, CallOwns
<1>3. /\ hdl'[h].slot = s /\ slotTag'[s] = hdl'[h].tag
      /\ \A g \in Handle : g # h => hdl'[g] = hdl[g]
      /\ \A t \in Slot : t # s => slotTag'[t] = slotTag[t]
      /\ free' = free \ {s}
      /\ UNCHANGED <<list, open, pending, program, left>>
  BY <1>1 DEF TakeSlot, KeepTag, NbTypeOK
<1>4. Traceable'
  <2> SUFFICES ASSUME NEW q \in pending
               PROVE  q[2] \in open /\ Valid(q[2])' /\ q[1] \in list[hdl'[q[2]].slot]
    BY <1>3 DEF Traceable
  <2>1. q[2] \in open /\ Valid(q[2]) /\ q[1] \in list[hdl[q[2]].slot]
    BY DEF Traceable
  <2>2. q[2] \in Handle /\ q[2] # h /\ hdl[q[2]].slot # s
    BY <1>1, <1>2, <2>1, SlotTable DEF NbTypeOK, Valid
  <2>3. QED
    BY <1>3, <2>1, <2>2 DEF Valid
<1>5. SlotsOwned'
  <2>1. ASSUME NEW t \in Slot \ free'
        PROVE  \E g \in open : hdl'[g].slot = t /\ slotTag'[t] = hdl'[g].tag
    <3>1. CASE t = s
      BY <1>2, <1>3, <3>1
    <3>2. CASE t # s
      <4>1. PICK g \in open : hdl[g].slot = t /\ slotTag[t] = hdl[g].tag
        BY <1>3, <2>1, <3>2 DEF SlotsOwned
      <4>2. g # h /\ g \in Handle
        BY <1>2, <2>1, <4>1, SlotTable DEF NbTypeOK
      <4>3. QED
        BY <1>3, <2>1, <3>2, <4>1, <4>2
    <3>3. QED
      BY <3>1, <3>2
  <2>2. QED
    BY <1>3, <2>1 DEF SlotsOwned
<1>6. CallOwns'
  <2> SUFFICES ASSUME NEW g \in Handle, Making(g)
               PROVE  /\ g \in open
                      /\ hdl'[g].slot # NoSlot => Valid(g)' /\ hdl'[g].slot \notin free'
    BY <1>3 DEF CallOwns, Making
  <2>1. CASE g = h
    BY <1>1, <1>2, <1>3, <2>1 DEF Valid
  <2>2. CASE g # h
    <3>1. g \in open /\ (hdl[g].slot # NoSlot => Valid(g) /\ hdl[g].slot \notin free)
      BY DEF CallOwns
    <3>2. QED
      BY <1>1, <1>3, <2>2, <3>1 DEF Valid
  <2>3. QED
    BY <2>1, <2>2
<1>7. QED
  BY <1>4, <1>5, <1>6

\* A request goes to the slot of the call, and any earlier request of its
\* element is complete.
LEMMA MakeRequestKeeps ==
    ASSUME NbTypeOK, Traceable, SlotsOwned, CallOwns,
           NEW h \in Handle, NEW e \in Element,
           Making(h), hdl[h].slot # NoSlot, MakeRequest(h, e),
           UNCHANGED <<program, hdl, slotTag, free, open>>
    PROVE  Traceable' /\ SlotsOwned' /\ CallOwns'
<1>1. h \in open /\ Valid(h) /\ hdl[h].slot \notin free
  BY DEF CallOwns
<1>2. /\ e \in list'[hdl[h].slot]
      /\ \A s \in Slot : list'[s] \ {e} = list[s] \ {e}
      /\ \A s \in Slot : s # hdl[h].slot => list'[s] \subseteq list[s]
      /\ pending' = {q \in pending : q[1] # e} \cup {<<e, h>>}
  BY <1>1 DEF MakeRequest, NbTypeOK, Valid
<1>3. Traceable'
  <2> SUFFICES ASSUME NEW q \in pending'
               PROVE  q[2] \in open /\ Valid(q[2]) /\ q[1] \in list'[hdl[q[2]].slot]
    BY DEF Traceable, Valid
  <2>1. CASE q = <<e, h>>
    BY <1>1, <1>2, <2>1
  <2>2. CASE q \in pending /\ q[1] # e
    BY <1>2, <2>2 DEF Traceable, Valid
  <2>3. QED
    BY <1>2, <2>1, <2>2
<1>4. SlotsOwned'
  BY <1>1, <1>2 DEF SlotsOwned, NbTypeOK
<1>5. CallOwns'
  BY DEF CallOwns, Making, MakeRequest, NbTypeOK, Valid
<1>6. QED
  BY <1>3, <1>4, <1>5

\* A wait takes with it the requests of every handle that names its slot.
LEMMA WaitKeeps ==
    ASSUME NbTypeOK, Traceable, SlotsOwned, CallOwns,
           NEW h \in Handle, Wait(h)
    PROVE  Traceable' /\ SlotsOwned' /\ CallOwns'
<1>1. /\ open' = open \ {h}
      /\ UNCHANGED <<program, hdl, left>>
      /\ \A g \in Handle : left[g] = 0
  BY DEF Wait, Idle
<1>2. CallOwns'
  BY <1>1 DEF CallOwns, Making
<1>3. IsFiniteSet(open') /\ Cardinality(open') <= program'.open
  <2>1. Cardinality(open') <= Cardinality(open) /\ IsFiniteSet(open')
    BY <1>1, FS_Subset DEF SlotsOwned
  <2>2. Cardinality(open) \in Nat /\ Cardinality(open') \in Nat /\ program.open \in Nat
    BY <2>1, FS_CardinalityType, NbAssumption DEF SlotsOwned, NbTypeOK
  <2>3. QED
    BY <1>1, <2>1, <2>2 DEF SlotsOwned
<1>4. CASE Valid(h)
  <2> DEFINE s == hdl[h].slot
  <2>1. /\ s \in Slot
        /\ list'[s] = {}
        /\ \A t \in Slot : t # s => list'[t] = list[t] /\ slotTag'[t] = slotTag[t]
        /\ free' = free \cup {s}
        /\ pending' = {q \in pending : q[1] \notin list[s]}
    BY <1>4 DEF Wait, Valid, NbTypeOK
  <2>2. Traceable'
    <3> SUFFICES ASSUME NEW q \in pending, q[1] \notin list[s]
                 PROVE  /\ q[2] \in open' /\ Valid(q[2])'
                        /\ q[1] \in list'[hdl[q[2]].slot]
      BY <1>1, <2>1 DEF Traceable
    <3>1. q[2] \in open /\ Valid(q[2]) /\ q[1] \in list[hdl[q[2]].slot]
      BY DEF Traceable
    <3>2. QED
      BY <1>1, <2>1, <3>1 DEF Valid
  <2>3. SlotsOwned'
    <3>1. ASSUME NEW t \in Slot \ free'
          PROVE  \E g \in open' : hdl[g].slot = t /\ slotTag'[t] = hdl[g].tag
      <4>1. t \in Slot \ free /\ t # s
        BY <2>1, <3>1
      <4>2. PICK g \in open : hdl[g].slot = t /\ slotTag[t] = hdl[g].tag
        BY <4>1 DEF SlotsOwned
      <4>3. QED
        BY <1>1, <2>1, <4>1, <4>2
    <3>2. \A t \in free' : list'[t] = {}
      BY <2>1 DEF SlotsOwned, NbTypeOK
    <3>3. QED
      BY <1>1, <1>3, <3>1, <3>2 DEF SlotsOwned
  <2>4. QED
    BY <1>2, <2>2, <2>3
<1>5. CASE ~Valid(h)
  <2>1. UNCHANGED <<list, slotTag, free, pending>>
    BY <1>5 DEF Wait
  <2>2. Traceable'
    BY <1>1, <1>5, <2>1 DEF Traceable, Valid
  <2>3. SlotsOwned'
    <3>1. ASSUME NEW t \in Slot \ free
          PROVE  \E g \in open' : hdl[g].slot = t /\ slotTag[t] = hdl[g].tag
      BY <1>1, <1>5, <3>1 DEF SlotsOwned, Valid
    <3>2. QED
      BY <1>1, <1>3, <2>1, <3>1 DEF SlotsOwned
  <2>4. QED
    BY <1>2, <2>2, <2>3
<1>6. QED
  BY <1>4, <1>5

LEMMA NbInvNext == NbInv /\ [NbNext]_nbvars => NbInv'
<1> SUFFICES ASSUME NbInv, [NbNext]_nbvars PROVE NbInv'
  OBVIOUS
<1>1. NbTypeOK /\ NbTypeOK'
  BY NbTypeNext DEF NbInv
<1>2. UNCHANGED program
  BY DEF NbNext, nbvars, NbCall, NbCallCyclic, TakeSlot, EvictSlot,
         TakeElement, EvictElement, Wait, Complete
<1> SUFFICES ASSUME Modest PROVE Traceable' /\ SlotsOwned' /\ CallOwns'
  BY <1>1, <1>2 DEF NbInv, Modest
<1>3. Traceable /\ SlotsOwned /\ CallOwns
  BY DEF NbInv
<1>4. ASSUME NEW h \in Handle, NEW n \in 0 .. MaxRequests, NbCall(h, n)
      PROVE  Traceable' /\ SlotsOwned' /\ CallOwns'
  BY <1>1, <1>3, <1>4, StartKeeps
<1>5. ASSUME NEW h \in Handle, NEW n \in 1 .. MaxRequests, NbCallCyclic(h, n)
      PROVE  FALSE
  BY <1>5 DEF NbCallCyclic, Modest
<1>6. ASSUME NEW h \in Handle, TakeSlot(h)
      PROVE  Traceable' /\ SlotsOwned' /\ CallOwns'
  BY <1>1, <1>3, <1>6, TakeSlotKeeps
<1>7. ASSUME NEW h \in Handle, EvictSlot(h) PROVE FALSE
  <2>1. h \in open /\ hdl[h].slot = NoSlot /\ free = {}
    BY <1>3, <1>7 DEF EvictSlot, CallOwns
  <2>2. QED
    BY <1>1, <1>3, <2>1, SlotLeft
<1>8. ASSUME NEW h \in Handle, TakeElement(h)
      PROVE  Traceable' /\ SlotsOwned' /\ CallOwns'
  <2>1. First(unused) \in Element
    BY <1>1, <1>8, FirstFree DEF TakeElement, NbTypeOK
  <2>2. QED
    BY <1>1, <1>3, <1>8, <2>1, MakeRequestKeeps DEF TakeElement
<1>9. ASSUME NEW h \in Handle, EvictElement(h)
      PROVE  Traceable' /\ SlotsOwned' /\ CallOwns'
  <2>1. oldest.element \in Element
    BY <1>1 DEF NbTypeOK
  <2>2. QED
    BY <1>1, <1>3, <1>9, <2>1, MakeRequestKeeps DEF EvictElement
<1>10. ASSUME NEW h \in Handle, Wait(h)
       PROVE  Traceable' /\ SlotsOwned' /\ CallOwns'
  BY <1>1, <1>3, <1>10, WaitKeeps
<1>11. ASSUME NEW e \in Element, Complete(e)
       PROVE  Traceable' /\ SlotsOwned' /\ CallOwns'
  BY <1>3, <1>11 DEF Complete, Traceable, SlotsOwned, CallOwns, Making, Valid
<1>12. CASE UNCHANGED nbvars
  BY <1>3, <1>12 DEF nbvars, Traceable, SlotsOwned, CallOwns, Making, Valid
<1>13. QED
  BY <1>4, <1>5, <1>6, <1>7, <1>8, <1>9, <1>10, <1>11, <1>12 DEF NbNext

\* In every program that leaves no more handles unwaited than there are slots
\* and uses regular arrays, a wait returns when the requests of its call are
\* complete (nga_wait_internal), however often elements are taken over and
\* tags repeat.
THEOREM WaitsComplete == NbSpec => []WaitCompletes
<1>1. NbInv => WaitCompletes
  BY DEF NbInv, Traceable, WaitCompletes, EveryWaitCompletes
<1>2. QED
  BY <1>1, NbInvInit, NbInvNext, PTL DEF NbSpec

\* When all that is left of an open call is one list element, a test that
\* answers 0 is right (nga_test_internal): the request of that element is
\* complete, and so are those whose elements were taken over since.
THEOREM TestsTruthful == NbSpec => []TestTruthful
<1>1. NbInv => TestTruthful
  <2> SUFFICES ASSUME NbInv, Modest,
                      NEW h \in open, Single(h), TestZero(h),
                      NEW q \in pending, q[2] = h
               PROVE  FALSE
    BY DEF TestTruthful
  <2>1. NbTypeOK /\ Valid(h) /\ q[1] \in list[hdl[h].slot]
    BY DEF NbInv, Traceable
  <2>2. PICK e \in list[hdl[h].slot] : Tested(e)
    BY <2>1 DEF TestZero
  <2>3. IsFiniteSet(list[hdl[h].slot]) /\ Cardinality(list[hdl[h].slot]) <= 1
    <3>1. list[hdl[h].slot] \subseteq Element
      BY <2>1 DEF Valid, NbTypeOK
    <3>2. IsFiniteSet(0 .. NumHdls - 1)
      BY FS_Interval, NbAssumption
    <3>3. QED
      BY <2>1, <3>1, <3>2, FS_Subset DEF Single, Element
  <2>4. list[hdl[h].slot] \ {e} = {}
    <3>1. /\ IsFiniteSet(list[hdl[h].slot] \ {e})
          /\ Cardinality(list[hdl[h].slot] \ {e}) = Cardinality(list[hdl[h].slot]) - 1
      BY <2>2, <2>3, FS_RemoveElement
    <3>2. Cardinality(list[hdl[h].slot] \ {e}) \in Nat /\ Cardinality(list[hdl[h].slot]) \in Nat
      BY <2>3, <3>1, FS_CardinalityType
    <3>3. QED
      BY <2>3, <3>1, <3>2, FS_EmptySet
  <2>5. q[1] = e
    BY <2>1, <2>4
  <2>6. QED
    BY <2>2, <2>5 DEF Tested
<1>2. QED
  BY <1>1, NbInvInit, NbInvNext, PTL DEF NbSpec

-----------------------------------------------------------------------------
(* Lists *)

\* An element joins the list of the call, and leaves any other.
LEMMA RequestMoves ==
    ASSUME NbTypeOK, ListsSound, NEW h \in Handle, NEW e \in Element,
           hdl[h].slot # NoSlot, MakeRequest(h, e)
    PROVE  /\ \A s, t \in Slot : s # t => list'[s] \cap list'[t] = {}
           /\ UNION {list'[s] : s \in Slot} = (UNION {list[s] : s \in Slot}) \cup {e}
<1>1. hdl[h].slot \in Slot
  BY DEF NbTypeOK
<1>2. \A s \in Slot : list'[s] = IF s = hdl[h].slot THEN list[s] \cup {e} ELSE list[s] \ {e}
  BY DEF MakeRequest
<1>3. \A s, t \in Slot : s # t => list'[s] \cap list'[t] = {}
  BY <1>2 DEF ListsSound
<1>4. UNION {list'[s] : s \in Slot} = (UNION {list[s] : s \in Slot}) \cup {e}
  <2>1. \A x : (\E s \in Slot : x \in list'[s]) <=> x = e \/ \E s \in Slot : x \in list[s]
    BY <1>1, <1>2
  <2>2. \A x : x \in UNION {list[s] : s \in Slot} <=> \E s \in Slot : x \in list[s]
    OBVIOUS
  <2>3. \A x : x \in UNION {list'[s] : s \in Slot} <=> \E s \in Slot : x \in list'[s]
    OBVIOUS
  <2> DEFINE before == UNION {list[s] : s \in Slot}
             after  == UNION {list'[s] : s \in Slot}
  <2>4. \A x : x \in after <=> x = e \/ x \in before
    BY <2>1, <2>2, <2>3
  <2> HIDE DEF before, after
  <2>5. after = before \cup {e}
    BY <2>4
  <2>6. QED
    BY <2>5 DEF before, after
<1>5. QED
  BY <1>3, <1>4

\* The list of a slot is given back as a whole.
LEMMA ListFreed ==
    ASSUME NbTypeOK, ListsSound, NEW s \in Slot,
           unused' = unused \cup list[s], list' = [list EXCEPT ![s] = {}]
    PROVE  ListsSound'
<1>1. \A t \in Slot : list'[t] = IF t = s THEN {} ELSE list[t]
  BY DEF NbTypeOK
<1>2. \A t, r \in Slot : t # r => list'[t] \cap list'[r] = {}
  BY <1>1 DEF ListsSound
<1>3. ASSUME NEW x \in Element
      PROVE  x \in unused' <=> ~ \E t \in Slot : x \in list'[t]
  <2>1. x \in unused <=> ~ \E t \in Slot : x \in list[t]
    BY DEF ListsSound
  <2>2. QED
    BY <1>1, <2>1 DEF ListsSound
<1>4. unused' \subseteq Element
  BY DEF NbTypeOK
<1>5. QED
  BY <1>2, <1>3, <1>4 DEF ListsSound

LEMMA ListsNext == NbTypeOK /\ ListsSound /\ [NbNext]_nbvars => ListsSound'
<1> SUFFICES ASSUME NbTypeOK, ListsSound, [NbNext]_nbvars PROVE ListsSound'
  OBVIOUS
<1>1. ASSUME UNCHANGED <<list, unused>> PROVE ListsSound'
  BY <1>1 DEF ListsSound
<1>2. ASSUME NEW h \in Handle, EvictSlot(h) PROVE ListsSound'
  <2>1. oldest.slot \in Slot
    BY DEF NbTypeOK
  <2>2. QED
    BY <1>2, <2>1, ListFreed DEF EvictSlot
<1>3. ASSUME NEW h \in Handle, Wait(h) PROVE ListsSound'
  <2>1. CASE Valid(h)
    BY <1>3, <2>1, ListFreed DEF Wait, Valid
  <2>2. CASE ~Valid(h)
    BY <1>1, <1>3, <2>2 DEF Wait
  <2>3. QED
    BY <2>1, <2>2
<1>4. ASSUME NEW h \in Handle, TakeElement(h) PROVE ListsSound'
  <2> DEFINE e == First(unused)
  <2>1. e \in unused /\ e \in Element /\ unused' = unused \ {e}
    BY <1>4, FirstFree DEF TakeElement, NbTypeOK
  <2>2. hdl[h].slot # NoSlot /\ MakeRequest(h, e)
    BY <1>4 DEF TakeElement
  <2> HIDE DEF e
  <2>3. QED
    BY <2>1, <2>2, RequestMoves DEF ListsSound
<1>5. ASSUME NEW h \in Handle, EvictElement(h) PROVE ListsSound'
  <2> DEFINE e == oldest.element
  <2>1. e \in Element /\ unused = {} /\ unused' = unused
    BY <1>5 DEF EvictElement, NbTypeOK
  <2>2. hdl[h].slot # NoSlot /\ MakeRequest(h, e)
    BY <1>5 DEF EvictElement
  <2>3. e \in UNION {list[s] : s \in Slot}
    BY <2>1 DEF ListsSound
  <2> HIDE DEF e
  <2>4. UNION {list'[s] : s \in Slot} = (UNION {list[s] : s \in Slot}) \cup {e}
        /\ \A s, t \in Slot : s # t => list'[s] \cap list'[t] = {}
    BY <2>1, <2>2, RequestMoves
  <2> DEFINE before == UNION {list[s] : s \in Slot}
             after  == UNION {list'[s] : s \in Slot}
  <2>5. unused = Element \ before
    BY DEF ListsSound
  <2>6. after = before
    BY <2>3, <2>4
  <2> HIDE DEF before, after
  <2>7. unused' = Element \ after
    BY <2>1, <2>5, <2>6
  <2>8. QED
    BY <2>4, <2>7 DEF ListsSound, after
<1>6. ASSUME NEW h \in Handle, TakeSlot(h) PROVE ListsSound'
  BY <1>1, <1>6 DEF TakeSlot
<1>7. ASSUME NEW h \in Handle, NEW n, NbCall(h, n) \/ NbCallCyclic(h, n) PROVE ListsSound'
  BY <1>1, <1>7 DEF NbCall, NbCallCyclic
<1>8. ASSUME NEW e \in Element, Complete(e) PROVE ListsSound'
  BY <1>1, <1>8 DEF Complete
<1>9. CASE UNCHANGED nbvars
  BY <1>1, <1>9 DEF nbvars
<1>10. QED
  BY <1>2, <1>3, <1>4, <1>5, <1>6, <1>7, <1>8, <1>9 DEF NbNext

\* No list element leaks and none is in two lists, in any program: not when
\* the table is full and a slot is evicted, nor when an element is moved from
\* one list to another (get_armcihdl, clear_list_element,
\* free_armci_handle_list).
THEOREM ListsStaySound == NbSpec => []ListsSound
<1>1. NbInit => NbTypeOK /\ ListsSound
  <2> SUFFICES ASSUME NbInit PROVE NbTypeOK /\ ListsSound
    OBVIOUS
  <2>1. NbTypeOK
    BY NbInvInit DEF NbInv
  <2>2. list = [s \in Slot |-> {}] /\ unused = Element
    BY DEF NbInit
  <2>3. UNION {list[s] : s \in Slot} = {}
    BY <2>2
  <2>4. QED
    BY <2>1, <2>2, <2>3 DEF ListsSound
<1>2. NbTypeOK /\ ListsSound /\ [NbNext]_nbvars => (NbTypeOK /\ ListsSound)'
  BY NbTypeNext, ListsNext
<1>3. QED
  BY <1>1, <1>2, PTL DEF NbSpec

-----------------------------------------------------------------------------
(* THE ALLOCATOR *)

-----------------------------------------------------------------------------
(* Numbers *)

\* A set of integers that is bounded below has a least element.
LEMMA LeastIn ==
    ASSUME NEW S \in SUBSET Int, S # {}, NEW lo \in Int, \A k \in S : lo <= k
    PROVE  Least(S) \in S /\ \A k \in S : Least(S) <= k
<1>1. PICK m \in S : TRUE
  OBVIOUS
<1> DEFINE B == {k \in S : k <= m}
           T == {lo .. k : k \in B}
           R == StrictSubsetOrdering(lo .. m)
<1>2. IsWellFoundedOn(R, SUBSET (lo .. m))
  BY FS_Interval, FS_StrictSubsetOrderingWellFounded, FS_FiniteSubsetsOfFinite
<1>3. \A k \in B : lo .. k \in SUBSET (lo .. m)
  OBVIOUS
<1>4. T \subseteq SUBSET (lo .. m) /\ T # {}
  BY <1>3
<1> HIDE DEF T, R
<1>5. PICK x \in T : \A y \in T : <<y, x>> \notin R
  BY <1>2, <1>4, WFMin
<1>6. PICK n \in B : x = lo .. n
  BY <1>5 DEF T
<1>7. ASSUME NEW k \in B, k < n
      PROVE  FALSE
  <2>1. lo .. k \in T
    BY DEF T
  <2>2. lo .. k \subseteq x /\ lo .. k # x
    BY <1>6, <1>7
  <2> QED
    BY <2>1, <2>2, <1>4, <1>5 DEF R, StrictSubsetOrdering
<1>8. n \in S /\ \A k \in S : n <= k
  BY <1>7
<1> QED
  BY <1>8 DEF Least

\* A set of integers that is bounded above has a greatest element.
LEMMA GreatestIn ==
    ASSUME NEW S \in SUBSET Int, S # {}, NEW hi \in Int, \A k \in S : k <= hi
    PROVE  Greatest(S) \in S /\ \A k \in S : k <= Greatest(S)
<1> DEFINE T == {-k : k \in S}
<1>1. T \in SUBSET Int /\ -hi \in Int
  OBVIOUS
<1>6. PICK m \in S : TRUE
  OBVIOUS
<1>7. -m \in T
  OBVIOUS
<1>8. \A k \in S : -hi <= -k
  OBVIOUS
<1>9. \A k \in T : -hi <= k
  BY <1>8
<1>2. Least(T) \in T /\ \A k \in T : Least(T) <= k
  <2> HIDE DEF T
  <2> QED
    BY <1>1, <1>7, <1>9, LeastIn
<1>3. PICK n \in S : Least(T) = -n
  BY <1>2
<1>4. \A k \in S : -n <= -k
  BY <1>2, <1>3
<1>5. \A k \in S : k <= n
  BY <1>4
<1> QED
  BY <1>5 DEF Greatest

LEMMA Remainder ==
    ASSUME NEW x \in Int, NEW u \in Nat \ {0}
    PROVE  x % u \in 0 .. u - 1
OBVIOUS

LEMMA Times ==
    ASSUME NEW m \in Nat, NEW n \in Nat
    PROVE  m * n \in Nat
OBVIOUS

LEMMA TimesLess ==
    ASSUME NEW m \in Nat, NEW n \in Nat, NEW k \in Nat, m <= n
    PROVE  m * k <= n * k
OBVIOUS

\* Rounding adds less than a unit.
LEMMA RoundedUp ==
    ASSUME NEW v \in Int, NEW u \in Nat \ {0}
    PROVE  Rounded(v, u) \in Int /\ v <= Rounded(v, u) /\ Rounded(v, u) < v + u
<1>1. (-v) % u \in 0 .. u - 1
  BY Remainder
<1> QED
  BY <1>1 DEF Rounded

-----------------------------------------------------------------------------
(* Multiples of a unit *)

LEMMA MultipleSum ==
    ASSUME NEW u \in Nat \ {0}, NEW x \in Int, NEW y \in Int, x % u = 0, y % u = 0
    PROVE  (x + y) % u = 0 /\ (x - y) % u = 0
<1>1. PICK p \in Int : x = p * u
  OBVIOUS
<1>2. PICK q \in Int : y = q * u
  OBVIOUS
<1>3. x + y = (p + q) * u /\ x - y = (p - q) * u
  BY <1>1, <1>2
<1>4. ASSUME NEW r \in Int PROVE (r * u) % u = 0
  OBVIOUS
<1> QED
  BY <1>3, <1>4

LEMMA MultipleNeg ==
    ASSUME NEW u \in Nat \ {0}, NEW x \in Int, x % u = 0
    PROVE  (-x) % u = 0
<1>1. PICK p \in Int : x = p * u
  OBVIOUS
<1>2. -x = (-p) * u
  BY <1>1
<1>3. ASSUME NEW r \in Int PROVE (r * u) % u = 0
  OBVIOUS
<1> QED
  BY <1>2, <1>3

\* What is left after the remainder is taken away
LEMMA WithoutRemainder ==
    ASSUME NEW u \in Nat \ {0}, NEW x \in Int
    PROVE  (x - (x % u)) % u = 0
OBVIOUS

LEMMA MultipleOfMultiple ==
    ASSUME NEW u \in Nat \ {0}, NEW w \in Nat \ {0}, NEW x \in Int,
           x % w = 0, w % u = 0
    PROVE  x % u = 0
<1>1. PICK p \in Int : x = p * w
  OBVIOUS
<1>2. PICK q \in Int : w = q * u
  OBVIOUS
<1>3. x = (p * q) * u
  BY <1>1, <1>2
<1>4. ASSUME NEW r \in Int PROVE (r * u) % u = 0
  OBVIOUS
<1>5. p * q \in Int
  OBVIOUS
<1> QED
  BY <1>3, <1>4, <1>5

LEMMA SmallRemainder ==
    ASSUME NEW u \in Nat \ {0}, NEW x \in Int, 0 <= x, x < u
    PROVE  x % u = x
OBVIOUS

LEMMA RoundedMultiple ==
    ASSUME NEW v \in Int, NEW u \in Nat \ {0}
    PROVE  Rounded(v, u) % u = 0
<1> DEFINE r == (-v) % u
<1>1. r \in Int
  BY Remainder
<1>2. ((-v) - r) % u = 0
  BY WithoutRemainder
<1>3. (-v) - r \in Int /\ -((-v) - r) = v + r
  <2> HIDE DEF r
  <2> QED
    BY <1>1
<1>4. (v + r) % u = 0
  <2>1. (-((-v) - r)) % u = 0
    <3> HIDE DEF r
    <3> QED
      BY <1>2, <1>3, MultipleNeg
  <2> QED
    BY <2>1, <1>3
<1> QED
  BY <1>4 DEF Rounded

-----------------------------------------------------------------------------
(* The parts of a block *)

Kind == [datatype : Type, nelem : Nat, client_space : Int]

\* Types
MaTypeOK ==
    /\ layout \in Layouts /\ ma_numalign \in Nat \ {0}
    /\ ma_hp \in Int /\ ma_sp \in Int
    /\ ma_hused \in SUBSET Int /\ ma_hfree \in SUBSET Int /\ ma_sused \in SUBSET Int
    /\ nbytes \in [Heap \cup ma_sused -> Int]
    /\ ad \in [Used -> Kind]

LEMMA Sizes ==
    ASSUME layout \in Layouts
    PROVE  /\ DescLen \in Nat /\ GuardLen \in Nat \ {0} /\ ALIGNMENT \in Nat \ {0}
           /\ \A t \in Type : sizeof(t) \in Nat \ {0} /\ base(t) \in Nat
           /\ ma_segment \in Nat /\ ma_eos \in Int /\ ma_segment <= ma_eos
<1>1. /\ DescLen \in Nat /\ GuardLen \in Nat \ {0} /\ ALIGNMENT \in Nat \ {0}
      /\ \A t \in Type : sizeof(t) \in Nat \ {0} /\ base(t) \in Nat
      /\ ma_segment \in Nat
  BY AllocatorAssumption DEF Type, sizeof, base, ma_segment
<1>2. ASSUME NEW n \in Nat
      PROVE  RegionLen(n) \in Nat
  <2> DEFINE s == sizeof(layout.datatype)
  <2>1. s \in Nat \ {0}
    BY AllocatorAssumption DEF sizeof
  <2>2. n * s \in Nat
    BY <2>1, Times
  <2>3. n * s + MaxOverhead(s) \in Nat
    BY <1>1, <2>1, <2>2 DEF MaxOverhead, BLOCK_OVERHEAD_FIXED
  <2>4. Rounded(n * s + MaxOverhead(s), ALIGNMENT) \in Nat
    BY <1>1, <2>3, RoundedUp
  <2> QED
    BY <2>4 DEF RegionLen
<1>3. RegionLen(layout.nominal_heap) \in Nat /\ RegionLen(layout.nominal_stack) \in Nat
  BY <1>2, AllocatorAssumption
<1> QED
  BY <1>1, <1>3 DEF ma_eos, ma_partition

\* A block that begins at a has room for its descriptor, the guards and n
\* elements (balloc_after).
LEMMA RoomAfter ==
    ASSUME layout \in Layouts, ma_numalign \in Nat \ {0},
           NEW t \in Type, NEW n \in Nat, NEW a \in Int
    PROVE  /\ ClientAfter(t, a) \in Int /\ BytesAfter(t, n, a) \in Nat \ {0}
           /\ a + DescLen + GuardLen <= ClientAfter(t, a)
           /\ ClientAfter(t, a) + n * sizeof(t) + GuardLen <= a + BytesAfter(t, n, a)
<1> DEFINE s == sizeof(t)
           g == (base(t) - a - DescLen - GuardLen) % s
           c == a + DescLen + g + GuardLen
           d == (-c) % ma_numalign
<1>1. s \in Nat \ {0} /\ base(t) \in Nat /\ n * s \in Nat
  BY Sizes, Times
<1>2. DescLen \in Nat /\ GuardLen \in Nat \ {0} /\ ALIGNMENT \in Nat \ {0}
  BY Sizes
<1>3. g \in Nat
  <2>1. base(t) - a - DescLen - GuardLen \in Int
    BY <1>1, <1>2
  <2> QED
    BY <2>1, <1>1, Remainder
<1>4. d \in Nat
  <2> HIDE DEF g
  <2> QED
    BY <1>2, <1>3, Remainder
<1>5. ClientAfter(t, a) \in {c, c + d}
  BY DEF ClientAfter, Up
<1>6. ClientAfter(t, a) \in Int /\ a + DescLen + GuardLen <= ClientAfter(t, a)
  <2> HIDE DEF g, d
  <2> QED
    BY <1>2, <1>3, <1>4, <1>5
<1> DEFINE e == ClientAfter(t, a) + n * s + GuardLen - a
<1>7. e \in Nat \ {0}
  BY <1>1, <1>2, <1>6
<1>8. e <= BytesAfter(t, n, a) /\ BytesAfter(t, n, a) \in Int
  BY <1>2, <1>7, RoundedUp DEF BytesAfter
<1> HIDE DEF s
<1>9. BytesAfter(t, n, a) \in Nat \ {0}
  BY <1>7, <1>8
<1>10. ClientAfter(t, a) + n * s + GuardLen <= a + BytesAfter(t, n, a)
  BY <1>1, <1>2, <1>6, <1>8
<1> QED
  BY <1>6, <1>9, <1>10 DEF s

\* ... and so has a block that ends at e (balloc_before).
LEMMA RoomBefore ==
    ASSUME layout \in Layouts, ma_numalign \in Nat \ {0},
           NEW t \in Type, NEW n \in Nat, NEW e \in Int
    PROVE  /\ ClientBefore(t, n, e) \in Int /\ BytesBefore(t, n, e) \in Nat \ {0}
           /\ e - BytesBefore(t, n, e) + DescLen + GuardLen <= ClientBefore(t, n, e)
           /\ ClientBefore(t, n, e) + n * sizeof(t) + GuardLen <= e
<1> DEFINE s == sizeof(t)
           f == e - GuardLen - n * s
           g == ((f - base(t)) % Word) % s
           d == (f - g) % ma_numalign
           c == ClientBefore(t, n, e)
           h == (c - GuardLen - DescLen) % ALIGNMENT
<1>1. s \in Nat \ {0} /\ base(t) \in Nat /\ n * s \in Nat
  BY Sizes, Times
<1>2. DescLen \in Nat /\ GuardLen \in Nat \ {0} /\ ALIGNMENT \in Nat \ {0}
      /\ Word \in Nat \ {0}
  BY Sizes, AllocatorAssumption
<1>3. f \in Int
  BY <1>1, <1>2
<1>4. g \in Nat
  <2> DEFINE b == base(t)
             w == (f - b) % Word
  <2>1. w \in Int
    <3>1. b \in Nat
      BY <1>1
    <3>2. f - b \in Int
      <4> HIDE DEF f, b
      <4> QED
        BY <1>3, <3>1
    <3> HIDE DEF f, b
    <3> QED
      BY <1>2, <3>2, Remainder
  <2>2. g = w % s
    OBVIOUS
  <2> HIDE DEF w, s, g
  <2> QED
    BY <2>1, <2>2, <1>1, Remainder
<1>5. d \in Nat
  <2> HIDE DEF f, g
  <2> QED
    BY <1>3, <1>4, Remainder
<1>6. c \in {f - g, f - g - d}
  BY DEF ClientBefore, Down
<1> HIDE DEF g, d
<1>7. c \in Int /\ c <= f
  <2> HIDE DEF f, c
  <2> QED
    BY <1>3, <1>4, <1>5, <1>6
<1>8. h \in Nat
  <2> HIDE DEF c, f
  <2> QED
    BY <1>2, <1>7, Remainder
<1>9. BytesBefore(t, n, e) = e - c + GuardLen + h + DescLen
  BY DEF BytesBefore
<1> HIDE DEF c, h, s
<1>10. /\ BytesBefore(t, n, e) \in Nat \ {0}
       /\ e - BytesBefore(t, n, e) + DescLen + GuardLen <= c
       /\ c + n * s + GuardLen <= e
  BY <1>1, <1>2, <1>7, <1>8, <1>9
<1> QED
  BY <1>7, <1>10 DEF c, s

-----------------------------------------------------------------------------
(* Alignment *)

\* balloc_after aligns the client space, and the length of the block.
LEMMA AlignedAfter ==
    ASSUME layout \in Layouts, ma_numalign \in Nat \ {0},
           NEW t \in Type, NEW n \in Nat, NEW a \in Int
    PROVE  /\ (ClientAfter(t, a) - base(t)) % sizeof(t) = 0
           /\ BytesAfter(t, n, a) % ALIGNMENT = 0
<1> DEFINE s == sizeof(t)
           b == base(t)
           x == b - a - DescLen - GuardLen
           g == x % s
           c == a + DescLen + g + GuardLen
           d == (-c) % ma_numalign
<1>1. s \in Nat \ {0} /\ b \in Nat
  BY Sizes
<1>2. DescLen \in Nat /\ GuardLen \in Nat \ {0} /\ ALIGNMENT \in Nat \ {0}
  BY Sizes
<1>3. ClientAfter(t, a) = IF d % s = 0 THEN c + d ELSE c
  BY DEF ClientAfter, Up
<1>4. x \in Int /\ x = b - a - DescLen - GuardLen
  BY <1>1, <1>2
<1>5. c = a + DescLen + g + GuardLen
  OBVIOUS
<1> HIDE DEF s, b, x
<1>6. g \in Int /\ (x - g) % s = 0
  BY <1>1, <1>4, Remainder, WithoutRemainder
<1> HIDE DEF g, c
<1>7. c \in Int /\ x - g \in Int /\ c - b = -(x - g)
  BY <1>1, <1>2, <1>4, <1>5, <1>6
<1>8. (c - b) % s = 0 /\ c - b \in Int
  <2>1. (-(x - g)) % s = 0
    BY <1>1, <1>6, <1>7, MultipleNeg
  <2> QED
    BY <1>1, <1>7, <2>1
<1>9. d \in Int
  BY <1>7, Remainder
<1> HIDE DEF d
<1>10. (ClientAfter(t, a) - b) % s = 0
  <2>1. CASE d % s = 0
    <3>1. ((c - b) + d) % s = 0
      BY <1>1, <1>8, <1>9, <2>1, MultipleSum
    <3>2. (c - b) + d = ClientAfter(t, a) - b
      BY <1>1, <1>3, <1>7, <1>9, <2>1
    <3> QED
      BY <3>1, <3>2
  <2>2. CASE d % s # 0
    BY <1>3, <1>8, <2>2
  <2> QED
    BY <2>1, <2>2
<1>11. BytesAfter(t, n, a) % ALIGNMENT = 0
  <2> DEFINE v == ClientAfter(t, a) + n * s + GuardLen - a
  <2>1. ClientAfter(t, a) \in Int
    BY RoomAfter
  <2>2. n * s \in Nat
    BY <1>1, Times
  <2>3. v \in Int
    BY <1>2, <2>1, <2>2
  <2>4. BytesAfter(t, n, a) = Rounded(v, ALIGNMENT)
    BY DEF BytesAfter, s
  <2> HIDE DEF v
  <2> QED
    BY <1>2, <2>3, <2>4, RoundedMultiple
<1> QED
  BY <1>10, <1>11 DEF s, b

\* balloc_before aligns the descriptor, and the client space where the
\* difference of its address and the base is not taken modulo a word, or does
\* not mind.
LEMMA AlignedBefore ==
    ASSUME layout \in Layouts, ma_numalign \in Nat \ {0},
           NEW t \in Type, NEW n \in Nat, NEW e \in Int
    PROVE  /\ (e - BytesBefore(t, n, e)) % ALIGNMENT = 0
           /\ \/ Word % sizeof(t) = 0
              \/ base(t) <= ClientBefore(t, n, e) /\ e <= Word
              => (ClientBefore(t, n, e) - base(t)) % sizeof(t) = 0
<1> DEFINE s == sizeof(t)
           b == base(t)
           f == e - GuardLen - n * s
           w == (f - b) % Word
           g == w % s
           d == (f - g) % ma_numalign
           c == ClientBefore(t, n, e)
           h == (c - GuardLen - DescLen) % ALIGNMENT
<1>1. s \in Nat \ {0} /\ b \in Nat /\ n * s \in Nat
  BY Sizes, Times
<1>2. DescLen \in Nat /\ GuardLen \in Nat \ {0} /\ ALIGNMENT \in Nat \ {0}
      /\ Word \in Nat \ {0}
  BY Sizes, AllocatorAssumption
<1>3. f \in Int /\ f <= e
  BY <1>1, <1>2
<1>4. c = IF d % s = 0 THEN f - g - d ELSE f - g
  BY DEF ClientBefore, Down
<1>5. c \in Int /\ c + n * s + GuardLen <= e
  BY RoomBefore
<1>6. c <= f
  BY <1>1, <1>2, <1>5
<1>7. BytesBefore(t, n, e) = e - c + GuardLen + h + DescLen
  BY DEF BytesBefore
<1>8. (e - BytesBefore(t, n, e)) % ALIGNMENT = 0
  <2> DEFINE x == c - GuardLen - DescLen
  <2>1. x \in Int
    BY <1>2, <1>5
  <2>2. h = x % ALIGNMENT
    OBVIOUS
  <2>3. x = c - GuardLen - DescLen
    OBVIOUS
  <2> HIDE DEF x, h, c
  <2>4. h \in Int /\ (x - h) % ALIGNMENT = 0
    BY <1>2, <2>1, <2>2, Remainder, WithoutRemainder
  <2>5. e - BytesBefore(t, n, e) = x - h
    BY <1>2, <1>5, <1>7, <2>3, <2>4
  <2> QED
    BY <2>4, <2>5
<1> HIDE DEF c, s, b, f
<1>9. w \in Int /\ g \in Int /\ (w - g) % s = 0
  <2>1. f - b \in Int
    BY <1>1, <1>3
  <2>2. w \in Int
    BY <1>2, <2>1, Remainder
  <2> HIDE DEF w
  <2>3. w % s \in Int /\ (w - (w % s)) % s = 0
    <3>1. s \in Nat \ {0}
      BY <1>1
    <3> HIDE DEF g, h
    <3>2. w % s \in Int
      BY <2>2, <3>1, Remainder
    <3> QED
      BY <2>2, <3>1, <3>2, WithoutRemainder
  <2> QED
    BY <2>2, <2>3
<1>10. ASSUME Word % s = 0 \/ (b <= c /\ e <= Word)
       PROVE  ((f - b) - w) % s = 0 /\ (f - b) - w \in Int
  <2>1. f - b \in Int
    BY <1>1, <1>3
  <2>2. CASE Word % s = 0
    <3>1. ((f - b) - w) % Word = 0
      BY <1>2, <2>1, WithoutRemainder
    <3>2. (f - b) - w \in Int
      BY <1>9, <2>1
    <3> HIDE DEF w
    <3> QED
      BY <1>1, <1>2, <2>2, <3>1, <3>2, MultipleOfMultiple
  <2>3. CASE b <= c /\ e <= Word
    <3>1. 0 <= f - b /\ f - b < Word
      <4>1. f < e
        BY <1>1, <1>2, <1>3 DEF f
      <4> QED
        BY <1>1, <1>2, <1>3, <1>5, <1>6, <2>3, <4>1
    <3>2. w = f - b
      BY <1>2, <2>1, <3>1, SmallRemainder
    <3>3. (f - b) - w = 0
      BY <2>1, <3>2
    <3>4. 0 % s = 0
      BY <1>1
    <3> QED
      BY <3>3, <3>4
  <2> QED
    BY <1>10, <2>2, <2>3
<1> HIDE DEF g, w
<1>11. d \in Int
  <2>1. f - g \in Int
    BY <1>3, <1>9
  <2> QED
    BY <2>1, Remainder
<1> HIDE DEF d
<1>12. ASSUME Word % s = 0 \/ (b <= c /\ e <= Word)
       PROVE  (c - b) % s = 0
  <2>1. w - g \in Int /\ f - g - b \in Int /\ f - g - b = ((f - b) - w) + (w - g)
    BY <1>1, <1>3, <1>9
  <2>2. (((f - b) - w) + (w - g)) % s = 0
    BY <1>1, <1>9, <1>10, <1>12, <2>1, MultipleSum
  <2>3. (f - g - b) % s = 0
    BY <2>1, <2>2
  <2>4. CASE d % s = 0
    <3>1. ((f - g - b) - d) % s = 0
      BY <1>1, <1>11, <2>1, <2>3, <2>4, MultipleSum
    <3>2. (f - g - b) - d = c - b
      BY <1>1, <1>3, <1>4, <1>9, <1>11, <2>4
    <3> QED
      BY <3>1, <3>2
  <2>5. CASE d % s # 0
    <3>1. c - b = f - g - b
      BY <1>1, <1>3, <1>4, <1>9, <2>5
    <3> QED
      BY <2>3, <3>1
  <2> QED
    BY <2>4, <2>5
<1> QED
  BY <1>8, <1>12 DEF c, s, b

-----------------------------------------------------------------------------
(* Blocks that follow one another *)

\* Lengths may change outside of the set.
LEMMA TilesSame ==
    ASSUME NEW S, NEW len, NEW new, NEW lo, NEW hi, Tiles(S, len, lo, hi),
           \A b \in S : new[b] = len[b]
    PROVE  Tiles(S, new, lo, hi)
<1>1. \A b \in S : End(b, new) = End(b, len)
  BY DEF End
<1> QED
  BY <1>1 DEF Tiles

\* A block is cut in two (block_split).
LEMMA TilesSplit ==
    ASSUME NEW S \in SUBSET Int, NEW len, \A b \in S : len[b] \in Int,
           NEW lo \in Int, NEW hi \in Int, Tiles(S, len, lo, hi),
           NEW a \in S, NEW need \in Int, 0 < need, need < len[a],
           NEW new, new[a] = need, new[a + need] = len[a] - need,
           \A b \in S \ {a} : new[b] = len[b]
    PROVE  /\ a + need \notin S
           /\ End(a + need, new) = End(a, len)
           /\ Tiles(S \cup {a + need}, new, lo, hi)
<1> DEFINE n == a + need
           T == S \cup {n}
<1>1. End(a, new) = n /\ End(n, new) = End(a, len)
  BY DEF End
<1>2. a < n /\ n < End(a, len) /\ n \in Int /\ End(a, len) \in Int
  BY DEF End
<1>3. \A b \in S \ {a} : End(b, new) = End(b, len)
  BY DEF End
<1>4. \A b \in S : End(b, len) \in Int
  BY DEF End
<1> HIDE DEF n
<1>5. n \notin S
  BY <1>2 DEF Tiles
<1>6. \A b \in T : /\ lo <= b /\ b < End(b, new) /\ End(b, new) <= hi
                   /\ End(b, new) \in T \cup {hi}
  BY <1>1, <1>2, <1>3, <1>4 DEF Tiles
<1>7. ASSUME NEW b \in T, NEW c \in T, b < c
      PROVE  End(b, new) <= c
  <2>1. CASE b = a /\ c \in S
    BY <1>1, <1>2, <1>7, <2>1 DEF Tiles
  <2>2. CASE b = a /\ c = n
    BY <1>1, <1>2, <2>2
  <2>3. CASE b = n
    BY <1>1, <1>2, <1>7, <2>3 DEF Tiles
  <2>4. CASE b # a /\ b \in S /\ c \in S
    BY <1>3, <1>7, <2>4 DEF Tiles
  <2>5. CASE b # a /\ b \in S /\ c = n
    <3>1. b < a \/ a < b
      BY <2>5
    <3>2. CASE b < a
      BY <1>2, <1>3, <1>4, <2>5, <3>2 DEF Tiles
    <3>3. CASE a < b
      BY <1>2, <1>4, <1>7, <2>5, <3>3 DEF Tiles
    <3> QED
      BY <3>1, <3>2, <3>3
  <2> QED
    BY <2>1, <2>2, <2>3, <2>4, <2>5
<1>8. lo \in T \cup {hi}
  BY DEF Tiles
<1>9. Tiles(T, new, lo, hi)
  BY <1>6, <1>7, <1>8 DEF Tiles
<1> QED
  BY <1>1, <1>5, <1>9 DEF n

\* What is left when the set is cut behind a block (block_free_heap).
LEMMA TilesUpTo ==
    ASSUME NEW S \in SUBSET Int, NEW len, \A b \in S : len[b] \in Int,
           NEW lo \in Int, NEW hi \in Int, Tiles(S, len, lo, hi), NEW last \in S
    PROVE  Tiles({b \in S : b <= last}, len, lo, End(last, len))
<1> DEFINE T == {b \in S : b <= last}
<1>1. \A b \in S : End(b, len) \in Int
  BY DEF End
<1>2. lo \in T
  BY <1>1 DEF Tiles
<1>3. ASSUME NEW b \in T
      PROVE  /\ lo <= b /\ b < End(b, len) /\ End(b, len) <= End(last, len)
             /\ End(b, len) \in T \cup {End(last, len)}
  <2>1. CASE b = last
    BY <1>1, <2>1 DEF Tiles
  <2>2. CASE b < last
    <3>1. End(b, len) <= last /\ End(b, len) \in S \cup {hi} /\ last < End(last, len)
          /\ End(last, len) <= hi /\ lo <= b /\ b < End(b, len)
      BY <2>2 DEF Tiles
    <3> QED
      BY <3>1, <1>1
  <2> QED
    BY <2>1, <2>2
<1> QED
  BY <1>2, <1>3 DEF Tiles

\* What is left behind a block, after it and all below it were popped.
LEMMA TilesAfter ==
    ASSUME NEW S \in SUBSET Int, NEW len, \A b \in S : len[b] \in Int,
           NEW lo \in Int, NEW hi \in Int, Tiles(S, len, lo, hi), NEW a \in S
    PROVE  Tiles({b \in S : b > a}, len, End(a, len), hi) /\ lo <= End(a, len)
<1> DEFINE T == {b \in S : b > a}
<1>1. \A b \in S : End(b, len) \in Int
  BY DEF End
<1>2. End(a, len) \in T \cup {hi} /\ lo <= End(a, len)
  BY <1>1 DEF Tiles
<1>3. ASSUME NEW b \in T
      PROVE  /\ End(a, len) <= b /\ b < End(b, len) /\ End(b, len) <= hi
             /\ End(b, len) \in T \cup {hi}
  BY <1>1 DEF Tiles
<1> QED
  BY <1>2, <1>3 DEF Tiles

\* A block is added above or below.
LEMMA TilesAbove ==
    ASSUME NEW S \in SUBSET Int, NEW len, \A b \in S : len[b] \in Int,
           NEW lo \in Int, NEW hi \in Int, lo <= hi, Tiles(S, len, lo, hi),
           NEW n \in Int, 0 < n, NEW new, new[hi] = n, \A b \in S : new[b] = len[b]
    PROVE  Tiles(S \cup {hi}, new, lo, hi + n)
<1>1. \A b \in S : End(b, len) \in Int /\ End(b, new) = End(b, len)
  BY DEF End
<1>2. End(hi, new) = hi + n
  BY DEF End
<1> QED
  BY <1>1, <1>2 DEF Tiles

LEMMA TilesBelow ==
    ASSUME NEW S \in SUBSET Int, NEW len, \A b \in S : len[b] \in Int,
           NEW lo \in Int, NEW hi \in Int, lo <= hi, Tiles(S, len, lo, hi),
           NEW a \in Int, a < lo, NEW new, new[a] = lo - a,
           \A b \in S : new[b] = len[b]
    PROVE  Tiles(S \cup {a}, new, a, hi)
<1>1. \A b \in S : End(b, len) \in Int /\ End(b, new) = End(b, len)
  BY DEF End
<1>2. End(a, new) = lo
  BY DEF End
<1> QED
  BY <1>1, <1>2 DEF Tiles

-----------------------------------------------------------------------------
(* Coalescing *)

\* Used blocks U and free blocks F, with a used one at the end
Coalescible(U, F, len, lo, last) ==
    /\ U \in SUBSET Int /\ F \in SUBSET Int /\ U \cap F = {}
    /\ \A b \in U \cup F : b \in DOMAIN len /\ len[b] \in Int
    /\ lo \in Int /\ last \in U
    /\ Tiles(U \cup F, len, lo, End(last, len))

\* When the blocks of F are merged nothing is lost, and every block of F is
\* then before one of U.
Coalesces(U, F, len, lo, last) ==
    /\ Tiles(U \cup Heads(F, len), Merged(F, len), lo, End(last, len))
    /\ \A h \in Heads(F, len) : /\ End(h, Merged(F, len)) \in U
                                /\ Merged(F, len)[h] \in Int
    /\ \A u \in U : Merged(F, len)[u] = len[u]

LEMMA Coalesced ==
    ASSUME NEW U, NEW F, NEW len, NEW lo, NEW last, Coalescible(U, F, len, lo, last)
    PROVE  Coalesces(U, F, len, lo, last)
<1> DEFINE S == U \cup F
           H == Heads(F, len)
           M == Merged(F, len)
           hi == End(last, len)
           R(h) == {End(b, len) : b \in {c \in F : c >= h /\ End(c, len) \notin F}}
<1>0. /\ U \in SUBSET Int /\ F \in SUBSET Int /\ U \cap F = {}
      /\ \A b \in S : b \in DOMAIN len /\ len[b] \in Int
      /\ lo \in Int /\ last \in U
      /\ Tiles(S, len, lo, hi)
  BY DEF Coalescible
<1> USE <1>0
<1>1. \A b \in S : /\ End(b, len) \in Int /\ lo <= b /\ b < End(b, len)
                   /\ End(b, len) <= hi /\ End(b, len) \in S \cup {hi}
  BY DEF Tiles, End
<1>2. \A b, c \in S : b < c => End(b, len) <= c
  BY DEF Tiles
<1>3. hi \in Int
  BY DEF End
<1>4. \A f \in F : End(f, len) \in S
  <2> TAKE f \in F
  <2>1. f # last /\ last < hi
    BY <1>1
  <2>2. f < last \/ last < f
    BY <2>1
  <2>3. CASE f < last
    BY <1>1, <1>2, <2>1, <2>3
  <2>4. CASE last < f
    BY <1>1, <1>2, <1>3, <2>4
  <2> QED
    BY <2>2, <2>3, <2>4
<1>5. H \subseteq F
  BY DEF Heads
<1>6. \A b \in F : b \in H \/ \E c \in F : End(c, len) = b
  BY DEF Heads
<1>7. \A b \in H : \A c \in F : End(c, len) # b
  BY DEF Heads
<1>8. \A u \in U : M[u] = len[u]
  BY <1>5 DEF Merged
<1> HIDE DEF hi, H
<1>9. ASSUME NEW h \in H
      PROVE  /\ RunEnd(h, F, len) \in R(h)
             /\ \A r \in R(h) : RunEnd(h, F, len) <= r
  <2> DEFINE C == {c \in F : c >= h}
  <2>1. h \in F
    BY <1>5
  <2>2. h \in C /\ C \in SUBSET Int /\ C # {} /\ \A c \in C : c <= hi
    <3>1. h \in C
      BY <2>1
    <3>2. \A c \in F : c <= hi
      BY <1>1, <1>3
    <3> QED
      BY <3>1, <3>2
  <2>3. Greatest(C) \in C /\ \A c \in C : c <= Greatest(C)
    <3> HIDE DEF C
    <3> QED
      BY <2>2, <1>3, GreatestIn
  <2>4. PICK g \in C : \A c \in C : c <= g
    BY <2>3
  <2>5. End(g, len) \notin F
    <3>1. End(g, len) \in Int /\ g < End(g, len) /\ h <= g /\ h \in Int
      BY <2>1, <2>4, <1>1
    <3>2. End(g, len) \notin C
      BY <3>1, <2>4
    <3> QED
      BY <3>1, <3>2
  <2>6. End(g, len) \in R(h)
    BY <2>5
  <2>7. R(h) \in SUBSET Int
    BY <1>1
  <2>8. \A r \in R(h) : h <= r
    BY <1>1, <2>1
  <2>9. Least(R(h)) \in R(h) /\ \A r \in R(h) : Least(R(h)) <= r
    <3> HIDE DEF R
    <3> QED
      BY <2>1, <2>6, <2>7, <2>8, LeastIn
  <2> QED
    BY <2>9 DEF RunEnd
<1>10. ASSUME NEW h \in H
       PROVE  /\ M[h] \in Int /\ End(h, M) = RunEnd(h, F, len)
              /\ End(h, M) \in U /\ h < End(h, M)
  <2>1. PICK c \in F : /\ c >= h /\ End(c, len) \notin F
                       /\ RunEnd(h, F, len) = End(c, len)
    BY <1>9
  <2>2. End(c, len) \in U /\ End(c, len) \in Int /\ h < End(c, len) /\ h \in Int
    BY <2>1, <1>1, <1>4, <1>5
  <2>3. M[h] = RunEnd(h, F, len) - h
    BY <1>5 DEF Merged, H
  <2> QED
    BY <2>1, <2>2, <2>3 DEF End
<1>11. ASSUME NEW u \in U
       PROVE  /\ End(u, M) = End(u, len)
              /\ End(u, len) \in U \cup H \cup {hi}
  <2>1. End(u, M) = End(u, len)
    BY <1>8 DEF End
  <2>2. ASSUME NEW c \in F, End(c, len) = End(u, len)
        PROVE  FALSE
    <3>1. c < u \/ u < c
      OBVIOUS
    <3> QED
      BY <3>1, <2>2, <1>1, <1>2
  <2> QED
    BY <2>1, <2>2, <1>1, <1>6
<1> HIDE DEF M
<1>12. lo \in U \cup H
  <2>1. lo \in S
    BY <1>1, <1>3 DEF Tiles, hi
  <2>2. \A c \in F : End(c, len) # lo
    BY <1>1
  <2> QED
    BY <2>1, <2>2, <1>6
<1>13. ASSUME NEW h \in H, NEW y \in U \cup H, h < y
       PROVE  End(h, M) <= y
  <2> DEFINE C == {c \in F : h <= c /\ c < y}
  <2>1. h \in F /\ y \in S /\ y \in Int
    BY <1>5
  <2>2. C \in SUBSET Int /\ C # {} /\ \A c \in C : c <= y
    <3>1. h \in C
      BY <2>1, <1>13
    <3>2. \A c \in C : c \in Int /\ c <= y
      BY <2>1
    <3> HIDE DEF C
    <3> QED
      BY <3>1, <3>2
  <2>3. Greatest(C) \in C /\ \A c \in C : c <= Greatest(C)
    <3> HIDE DEF C
    <3> QED
      BY <2>1, <2>2, GreatestIn
  <2>4. PICK g \in C : \A c \in C : c <= g
    BY <2>3
  <2>5. End(g, len) <= y /\ g < End(g, len) /\ End(g, len) \in Int
    BY <2>1, <1>1, <1>2
  <2>6. End(g, len) \notin F
    <3>1. SUFFICES ASSUME End(g, len) \in F
                   PROVE  FALSE
      OBVIOUS
    <3>2. End(g, len) = y
      BY <3>1, <2>1, <2>4, <2>5
    <3>3. y \in H
      BY <3>1, <3>2
    <3> QED
      BY <3>2, <3>3, <1>7
  <2>7. End(g, len) \in R(h)
    BY <2>6
  <2>8. RunEnd(h, F, len) <= End(g, len)
    BY <2>7, <1>9
  <2>9. RunEnd(h, F, len) \in Int
    BY <1>10
  <2> QED
    BY <2>1, <2>5, <2>8, <2>9, <1>10
<1>14. \A b \in U \cup H : /\ lo <= b /\ b < End(b, M) /\ End(b, M) <= hi
                           /\ End(b, M) \in U \cup H \cup {hi}
  <2> TAKE b \in U \cup H
  <2>1. CASE b \in U
    BY <2>1, <1>1, <1>11
  <2>2. CASE b \in H
    <3>1. End(b, M) \in U /\ b < End(b, M)
      BY <2>2, <1>10
    <3>2. End(b, M) <= hi /\ lo <= b
      <4>1. End(b, M) < End(End(b, M), len) /\ End(End(b, M), len) <= hi
        BY <3>1, <1>1
      <4>2. lo <= b /\ End(End(b, M), len) \in Int /\ End(b, M) \in Int
        BY <3>1, <2>2, <1>1, <1>5
      <4> QED
        BY <4>1, <4>2, <1>3
    <3> QED
      BY <3>1, <3>2
  <2> QED
    BY <2>1, <2>2
<1>15. \A b, c \in U \cup H : b < c => End(b, M) <= c
  BY <1>2, <1>5, <1>11, <1>13
<1>16. Tiles(U \cup H, M, lo, hi)
  BY <1>12, <1>14, <1>15 DEF Tiles
<1> QED
  BY <1>8, <1>10, <1>16 DEF H, M, hi, Coalesces

-----------------------------------------------------------------------------
(* The invariant *)

MaInv == MaTypeOK /\ BlocksSound

\* Heap blocks are below the end of the heap, stack blocks are not.
LEMMA Apart ==
    ASSUME MaInv
    PROVE  /\ \A b \in Heap : b < End(b, nbytes) /\ End(b, nbytes) <= ma_hp /\ b < ma_hp
           /\ \A b \in ma_sused : ma_sp <= b
           /\ Heap \cap ma_sused = {}
           /\ \A b \in Heap \cup ma_sused : nbytes[b] \in Int /\ End(b, nbytes) \in Int
<1>1. \A b \in Heap \cup ma_sused : nbytes[b] \in Int /\ b \in Int
  BY DEF MaInv, MaTypeOK, Heap
<1>2. \A b \in Heap \cup ma_sused : End(b, nbytes) \in Int
  BY <1>1 DEF End
<1>3. \A b \in Heap : b < End(b, nbytes) /\ End(b, nbytes) <= ma_hp
  BY DEF MaInv, BlocksSound, Tiles
<1>4. ma_hp \in Int /\ ma_sp \in Int /\ ma_hp <= ma_sp
  BY DEF MaInv, MaTypeOK, BlocksSound
<1>5. \A b \in Heap : b < ma_hp
  BY <1>1, <1>2, <1>3, <1>4
<1>6. \A b \in ma_sused : ma_sp <= b
  BY DEF MaInv, BlocksSound, Tiles
<1> QED
  BY <1>1, <1>2, <1>3, <1>4, <1>5, <1>6

\* Used blocks, the free ones, and a block a to be freed, in a heap up to hi
Reclaimable(a, used, len, hi) ==
    /\ layout \in Layouts /\ ma_sp \in Int
    /\ used \in SUBSET Int /\ ma_hfree \in SUBSET Int /\ ma_sused \in SUBSET Int
    /\ a \in Int /\ used \cap ma_hfree = {} /\ a \notin used /\ a \notin ma_hfree
    /\ len \in [used \cup ma_hfree \cup {a} \cup ma_sused -> Int]
    /\ hi \in Int /\ hi <= ma_sp
    /\ Tiles(used \cup ma_hfree \cup {a}, len, ma_segment, hi)
    /\ Tiles(ma_sused, len, ma_sp, ma_eos)
    /\ (used \cup ma_hfree \cup {a}) \cap ma_sused = {}
    /\ \A f \in ma_hfree : End(f, len) \in used \cup {a}

\* The heap is sound again, and the other blocks are what they were.
Reclaimed(used, len) ==
    /\ BlocksSound'
    /\ ma_hp' \in Int /\ ma_hfree' \in SUBSET Int
    /\ nbytes' \in [Heap' \cup ma_sused' -> Int]
    /\ \A b \in used \cup ma_sused : nbytes'[b] = len[b]

\* block_free_heap
LEMMA ReclaimSound ==
    ASSUME NEW used, NEW a, NEW len, NEW hi, Reclaimable(a, used, len, hi),
           Reclaim(a, used, len), ma_hused' = used,
           UNCHANGED <<layout, ma_sp, ma_sused>>
    PROVE  Reclaimed(used, len)
<1> DEFINE S == used \cup ma_hfree \cup {a}
<1>0. /\ layout \in Layouts /\ ma_sp \in Int
      /\ used \in SUBSET Int /\ ma_hfree \in SUBSET Int /\ ma_sused \in SUBSET Int
      /\ a \in Int /\ used \cap ma_hfree = {} /\ a \notin used /\ a \notin ma_hfree
      /\ len \in [S \cup ma_sused -> Int]
      /\ hi \in Int /\ hi <= ma_sp
      /\ Tiles(S, len, ma_segment, hi)
      /\ Tiles(ma_sused, len, ma_sp, ma_eos)
      /\ S \cap ma_sused = {}
      /\ \A f \in ma_hfree : End(f, len) \in used \cup {a}
  BY DEF Reclaimable
<1> USE <1>0
<1>1. ma_segment' = ma_segment /\ ma_eos' = ma_eos /\ ma_segment \in Int
  BY Sizes DEF ma_segment, ma_eos, ma_partition, RegionLen, sizeof, MaxOverhead
<1>2. \A b \in S : len[b] \in Int /\ End(b, len) \in Int
  BY DEF End
<1>3. SUFFICES /\ ma_hp' <= ma_sp
               /\ used \cap ma_hfree' = {}
               /\ Tiles(used \cup ma_hfree', nbytes', ma_segment, ma_hp')
               /\ \A f \in ma_hfree' : End(f, nbytes') \in used
               /\ ma_hp' \in Int /\ ma_hfree' \in SUBSET Int
               /\ nbytes' \in [used \cup ma_hfree' \cup ma_sused -> Int]
               /\ \A b \in used \cup ma_sused : nbytes'[b] = len[b]
  <2>1. Heap' = used \cup ma_hfree'
    BY DEF Heap
  <2>2. \A b \in ma_sused : nbytes'[b] = len[b]
    BY <1>3
  <2>3. Tiles(ma_sused, nbytes', ma_sp, ma_eos)
    BY <2>2, TilesSame
  <2> QED
    BY <1>1, <1>3, <2>1, <2>3 DEF BlocksSound, Tiles, End, Reclaimed
<1>4. CASE used = {}
  <2>1. ma_hp' = ma_segment /\ ma_hfree' = {} /\ nbytes' = Only(len, ma_sused)
    BY <1>4 DEF Reclaim
  <2>2. ma_segment <= hi
    BY <1>1, <1>2 DEF Tiles
  <2>3. Tiles({}, nbytes', ma_segment, ma_segment)
    BY DEF Tiles
  <2>4. nbytes' \in [ma_sused -> Int] /\ \A b \in ma_sused : nbytes'[b] = len[b]
    BY <2>1 DEF Only
  <2> QED
    BY <1>1, <1>4, <2>1, <2>2, <2>3, <2>4
<1>5. CASE used # {}
  <2> DEFINE last == Greatest(used)
             kept == {f \in ma_hfree : f <= last}
  <2>1. last \in used /\ \A u \in used : u <= last
    <3>1. \A u \in used : u <= hi
      BY <1>2 DEF Tiles
    <3> QED
      BY <3>1, <1>5, GreatestIn
  <2> HIDE DEF last
  <2>2. Tiles({b \in S : b <= last}, len, ma_segment, End(last, len))
    BY <2>1, <1>1, <1>2, TilesUpTo
  <2>3. last # a /\ last \in Int /\ last < End(last, len) /\ End(last, len) <= hi
        /\ End(last, len) \in Int /\ End(last, len) <= ma_sp
    BY <2>1, <1>2 DEF Tiles
  <2>4. ma_hp' = End(last, len) /\ ma_hp' \in Int /\ ma_hp' <= ma_sp
    BY <1>5, <2>3 DEF Reclaim, last
  <2>5. CASE last < a
    <3>1. ma_hfree' = kept /\ nbytes' = Only(len, used \cup kept \cup ma_sused)
      <4>1. ~(a < last)
        BY <2>3, <2>5
      <4> QED
        BY <1>5, <4>1 DEF Reclaim, last
    <3>2. {b \in S : b <= last} = used \cup kept
      <4>1. ~(a <= last)
        BY <2>3, <2>5
      <4> QED
        BY <2>1, <4>1
    <3>3. \A b \in used \cup kept \cup ma_sused : nbytes'[b] = len[b]
      BY <3>1 DEF Only
    <3>4. nbytes' \in [used \cup kept \cup ma_sused -> Int]
      BY <3>1 DEF Only
    <3>5. Tiles(used \cup kept, nbytes', ma_segment, End(last, len))
      BY <2>2, <3>2, <3>3, TilesSame
    <3>6. ASSUME NEW f \in kept
          PROVE  End(f, nbytes') \in used
      <4>1. f < last
        BY <2>1, <2>3
      <4>2. End(f, len) <= last
        BY <4>1, <2>1 DEF Tiles
      <4>3. End(f, len) # a
        BY <4>2, <2>3, <2>5, <1>2
      <4>4. End(f, nbytes') = End(f, len)
        BY <3>3 DEF End
      <4> QED
        BY <4>3, <4>4
    <3> QED
      BY <2>4, <3>1, <3>3, <3>4, <3>5, <3>6
  <2>6. CASE a < last
    <3> DEFINE F == kept \cup {a}
    <3>1. /\ ma_hfree' = Heads(F, len)
          /\ nbytes' = Only(Merged(F, len), used \cup ma_hfree' \cup ma_sused)
      BY <1>5, <2>6 DEF Reclaim, last
    <3>2. {b \in S : b <= last} = used \cup F
      <4>1. a <= last
        BY <2>3, <2>6
      <4> QED
        BY <2>1, <4>1
    <3>3. F \in SUBSET Int /\ used \cap F = {} /\ F \cap ma_sused = {}
      OBVIOUS
    <3>4. \A b \in used \cup F : b \in DOMAIN len /\ len[b] \in Int
      OBVIOUS
    <3> HIDE DEF F
    <3>5. /\ Tiles(used \cup Heads(F, len), Merged(F, len), ma_segment, End(last, len))
          /\ \A h \in Heads(F, len) : End(h, Merged(F, len)) \in used
                                      /\ Merged(F, len)[h] \in Int
          /\ \A u \in used : Merged(F, len)[u] = len[u]
      <4>1. Tiles(used \cup F, len, ma_segment, End(last, len))
        BY <2>2, <3>2
      <4>2. Coalescible(used, F, len, ma_segment, last)
        BY <2>1, <3>3, <3>4, <4>1, <1>1 DEF Coalescible
      <4>3. Coalesces(used, F, len, ma_segment, last)
        BY <4>2, Coalesced
      <4> QED
        BY <4>3 DEF Coalesces
    <3>6. Heads(F, len) \subseteq F
      BY DEF Heads
    <3>7. \A b \in used \cup Heads(F, len) \cup ma_sused : nbytes'[b] = Merged(F, len)[b]
      BY <3>1 DEF Only
    <3>8. \A b \in ma_sused : Merged(F, len)[b] = len[b]
      BY <3>3, <3>6 DEF Merged
    <3>9. DOMAIN nbytes' = used \cup Heads(F, len) \cup ma_sused
      BY <3>1 DEF Only
    <3>10. \A b \in used \cup ma_sused : nbytes'[b] = len[b]
      BY <3>5, <3>7, <3>8
    <3>11. nbytes' \in [used \cup Heads(F, len) \cup ma_sused -> Int]
      <4>1. \A b \in used \cup Heads(F, len) \cup ma_sused : nbytes'[b] \in Int
        BY <3>5, <3>7, <3>10
      <4>2. nbytes' = [b \in used \cup Heads(F, len) \cup ma_sused |-> nbytes'[b]]
        BY <3>1 DEF Only
      <4> QED
        BY <4>1, <4>2
    <3>12. Tiles(used \cup Heads(F, len), nbytes', ma_segment, End(last, len))
      BY <3>5, <3>7, TilesSame
    <3>13. \A f \in Heads(F, len) : End(f, nbytes') \in used
      BY <3>5, <3>7 DEF End
    <3>14. used \cap Heads(F, len) = {} /\ Heads(F, len) \in SUBSET Int
      BY <3>3, <3>6
    <3> QED
      BY <2>4, <3>1, <3>10, <3>11, <3>12, <3>13, <3>14
  <2> QED
    BY <2>3, <2>5, <2>6
<1> QED
  BY <1>4, <1>5

-----------------------------------------------------------------------------
(* The clients *)

\* The client space of a heap block is where balloc_after puts it, whatever
\* was released of the block.
InPlace == Still => \A a \in ma_hused : ad[a].client_space = ClientAfter(ad[a].datatype, a)

ClientsInv == InPlace /\ ClientsInside

\* Nothing that a call leaves alone moves.
LEMMA SamePlaces ==
    ASSUME UNCHANGED <<layout, ma_numalign>>
    PROVE  /\ Type' = Type /\ Kind' = Kind /\ Still' = Still
           /\ ma_segment' = ma_segment /\ ma_eos' = ma_eos
           /\ \A t : sizeof(t)' = sizeof(t)
           /\ InPlace' <=>
                (Still => \A a \in ma_hused' :
                             ad'[a].client_space = ClientAfter(ad'[a].datatype, a))
BY DEF InPlace, Type, Kind, Still, ma_segment, ma_eos, ma_partition, RegionLen, MaxOverhead,
       sizeof, base, ClientAfter, Up

\* A block of n elements of type t at a, with its client space at c and its
\* end at e
Inside(a, t, n, c, e) ==
    a + DescLen + GuardLen <= c /\ c + n * sizeof(t) + GuardLen <= e

\* A call that changes nothing but lengths of used blocks, and those that it
\* changes only to make room for another used block, or adds one.
LEMMA ClientsKept ==
    ASSUME MaTypeOK, ClientsInv, UNCHANGED <<layout, ma_numalign>>,
           \A a \in Used' : a \in Used /\ ad'[a] = ad[a] /\ nbytes'[a] = nbytes[a],
           ma_hused' \subseteq ma_hused
    PROVE  ClientsInv'
<1>1. \A a \in Used' : End(a, nbytes)' = End(a, nbytes)
  BY DEF End
<1>2. ma_hused' \subseteq Used'
  BY DEF Used
<1>3. InPlace'
  <2>1. Still => \A a \in ma_hused' :
                    ad'[a].client_space = ClientAfter(ad'[a].datatype, a)
    BY <1>2 DEF ClientsInv, InPlace
  <2> QED
    BY <2>1, SamePlaces
<1>4. ClientsInside'
  BY <1>1, SamePlaces DEF ClientsInv, ClientsInside
<1> QED
  BY <1>3, <1>4 DEF ClientsInv

\* A call that adds the block a, and changes no other used block.
LEMMA ClientAdded ==
    ASSUME ClientsInv, UNCHANGED <<layout, ma_numalign>>,
           NEW t, NEW n, NEW c, NEW a, Describe(a, t, n, c),
           Inside(a, t, n, c, End(a, nbytes')), a \notin Used,
           Used' = Used \cup {a}, \A b \in Used : nbytes'[b] = nbytes[b],
           DOMAIN ad = Used,
           \/ ma_hused' = ma_hused \cup {a} /\ c = ClientAfter(t, a)
           \/ ma_hused' = ma_hused
    PROVE  ClientsInv'
<1>1. \A b \in Used : End(b, nbytes)' = End(b, nbytes) /\ ad'[b] = ad[b]
  BY DEF End, Describe, With
<1>2. ad'[a] = [datatype |-> t, nelem |-> n, client_space |-> c]
  BY DEF Describe, With
<1>3. InPlace'
  <2>1. ma_hused \subseteq Used
    BY DEF Used
  <2>2. ASSUME Still, NEW b \in ma_hused'
        PROVE  ad'[b].client_space = ClientAfter(ad'[b].datatype, b)
    <3>1. CASE b = a /\ c = ClientAfter(t, a)
      BY <1>2, <3>1
    <3>2. CASE b \in ma_hused
      BY <1>1, <2>1, <2>2, <3>2 DEF ClientsInv, InPlace
    <3> QED
      BY <3>1, <3>2
  <2> QED
    BY <2>2, SamePlaces
<1>4. ASSUME Still, NEW b \in Used'
      PROVE  /\ b + DescLen + GuardLen <= ad'[b].client_space
             /\ ad'[b].client_space + ad'[b].nelem * sizeof(ad'[b].datatype) + GuardLen
                  <= End(b, nbytes')
  <2>1. CASE b = a
    BY <1>2, <2>1 DEF Inside
  <2>2. CASE b \in Used
    BY <1>1, <1>4, <2>2 DEF ClientsInv, ClientsInside
  <2> QED
    BY <2>1, <2>2
<1>5. ClientsInside'
  BY <1>4, SamePlaces DEF ClientsInside
<1> QED
  BY <1>3, <1>5 DEF ClientsInv

-----------------------------------------------------------------------------
(* The calls *)

Inv == MaInv /\ ClientsInv

\* What every call can rely on
LEMMA Known ==
    ASSUME Inv
    PROVE  /\ layout \in Layouts /\ ma_numalign \in Nat \ {0}
           /\ ma_hp \in Int /\ ma_sp \in Int /\ ma_hp <= ma_sp
           /\ ma_segment \in Int /\ ma_eos \in Int
           /\ Heap \in SUBSET Int /\ ma_sused \in SUBSET Int /\ Heap \cap ma_sused = {}
           /\ Tiles(Heap, nbytes, ma_segment, ma_hp)
           /\ Tiles(ma_sused, nbytes, ma_sp, ma_eos)
           /\ \A b \in Heap \cup ma_sused : nbytes[b] \in Int /\ End(b, nbytes) \in Int
           /\ DOMAIN nbytes = Heap \cup ma_sused
           /\ Used \subseteq Heap \cup ma_sused /\ DOMAIN ad = Used
<1>1. layout \in Layouts /\ MaTypeOK /\ BlocksSound /\ MaInv
  BY DEF Inv, MaInv, MaTypeOK
<1>2. ma_segment \in Int /\ ma_eos \in Int
  BY <1>1, Sizes
<1> QED
  BY <1>1, <1>2, Apart DEF MaTypeOK, BlocksSound, Heap, Used

LEMMA WithFacts ==
    ASSUME NEW f, NEW a, NEW v
    PROVE  /\ With(f, a, v)[a] = v /\ DOMAIN With(f, a, v) = DOMAIN f \cup {a}
           /\ \A b \in DOMAIN f \ {a} : With(f, a, v)[b] = f[b]
BY DEF With

\* block_split, of a heap block
SplitSound(a, need) ==
    /\ a + need \notin Heap /\ a + need \notin ma_sused /\ a + need \in Int
    /\ Split(a, need) \in [Heap \cup {a + need} \cup ma_sused -> Int]
    /\ Split(a, need)[a] = need /\ Split(a, need)[a + need] = nbytes[a] - need
    /\ \A b \in (Heap \cup ma_sused) \ {a} : Split(a, need)[b] = nbytes[b]
    /\ End(a + need, Split(a, need)) = End(a, nbytes)
    /\ Tiles(Heap \cup {a + need}, Split(a, need), ma_segment, ma_hp)
    /\ Tiles(ma_sused, Split(a, need), ma_sp, ma_eos)

LEMMA SplitFacts ==
    ASSUME Inv, NEW a \in Heap, NEW need \in Int, 0 < need, need < nbytes[a]
    PROVE  SplitSound(a, need)
<1> DEFINE n == a + need
           new == Split(a, need)
<1>1. a \in Int /\ nbytes[a] \in Int /\ End(a, nbytes) \in Int /\ n \in Int
  BY Known
<1>2. a < n /\ n < End(a, nbytes) /\ End(a, nbytes) <= ma_hp
  <2>1. End(a, nbytes) <= ma_hp
    BY Known DEF Tiles
  <2> QED
    BY <1>1, <2>1 DEF End
<1>3. n \notin ma_sused
  <2>1. \A b \in ma_sused : ma_sp <= b /\ b \in Int
    BY Known DEF Tiles
  <2>2. n < ma_sp
    BY <1>1, <1>2, Known
  <2> QED
    BY <1>1, <2>1, <2>2, Known
<1>4. n \notin Heap
  <2>1. \A b \in Heap : a < b => End(a, nbytes) <= b
    BY Known DEF Tiles
  <2> QED
    BY <1>1, <1>2, <2>1
<1>5. n # a
  BY <1>1
<1>6. new = [x \in Heap \cup ma_sused \cup {n} \cup {a} |->
               IF x = a THEN need ELSE IF x = n THEN nbytes[a] - need ELSE nbytes[x]]
  <2>1. DOMAIN nbytes = Heap \cup ma_sused
    BY Known
  <2> QED
    BY <2>1 DEF Split, With
<1> HIDE DEF n, new
<1>7. Heap \cup ma_sused \cup {n} \cup {a} = Heap \cup {n} \cup ma_sused
  OBVIOUS
<1>8. /\ new[a] = need /\ new[n] = nbytes[a] - need
      /\ \A b \in (Heap \cup ma_sused) \ {a} : new[b] = nbytes[b]
  BY <1>3, <1>4, <1>5, <1>6
<1>9. new \in [Heap \cup {n} \cup ma_sused -> Int]
  <2>1. \A x \in Heap \cup ma_sused : nbytes[x] \in Int
    BY Known
  <2>2. nbytes[a] - need \in Int
    BY <1>1
  <2>3. \A x \in Heap \cup {n} \cup ma_sused :
            (IF x = a THEN need ELSE IF x = n THEN nbytes[a] - need ELSE nbytes[x]) \in Int
    BY <2>1, <2>2
  <2> QED
    BY <1>6, <1>7, <2>3
<1>10. End(n, new) = End(a, nbytes) /\ Tiles(Heap \cup {n}, new, ma_segment, ma_hp)
  <2>1. new[a + need] = nbytes[a] - need /\ \A b \in Heap \ {a} : new[b] = nbytes[b]
    BY <1>8 DEF n
  <2>2. \A b \in Heap : nbytes[b] \in Int
    BY Known
  <2> QED
    BY <1>1, <1>8, <2>1, <2>2, Known, TilesSplit DEF n
<1>11. Tiles(ma_sused, new, ma_sp, ma_eos)
  <2>1. \A b \in ma_sused : new[b] = nbytes[b]
    BY <1>8, Known
  <2> QED
    BY <2>1, Known, TilesSame
<1> QED
  BY <1>1, <1>3, <1>4, <1>8, <1>9, <1>10, <1>11 DEF n, new, SplitSound

\* What a call has to establish about the blocks, if it changes no alignment
Sound ==
    /\ layout \in Layouts /\ ma_numalign \in Nat \ {0}
    /\ ma_hp \in Int /\ ma_sp \in Int
    /\ ma_hused \in SUBSET Int /\ ma_hfree \in SUBSET Int /\ ma_sused \in SUBSET Int
    /\ nbytes \in [Heap \cup ma_sused -> Int]
    /\ BlocksSound

LEMMA SoundNow == ASSUME Inv PROVE Sound
BY DEF Inv, MaInv, MaTypeOK, Sound

\* The descriptors of the used blocks keep their type.
LEMMA Described ==
    ASSUME Inv, UNCHANGED layout, NEW t \in Type, NEW n \in Nat, NEW c \in Int, NEW a,
           Describe(a, t, n, c), Used' = Used \cup {a}
    PROVE  ad' \in [Used' -> Kind']
<1>1. ad \in [Used -> Kind] /\ Kind' = Kind
  BY DEF Inv, MaInv, MaTypeOK, Kind, Type
<1>2. [datatype |-> t, nelem |-> n, client_space |-> c] \in Kind
  BY DEF Kind
<1>3. ad' = [x \in Used \cup {a} |->
               IF x = a THEN [datatype |-> t, nelem |-> n, client_space |-> c] ELSE ad[x]]
  BY <1>1 DEF Describe, With
<1> QED
  BY <1>1, <1>2, <1>3

LEMMA MinBlock ==
    ASSUME Inv
    PROVE  MINBLOCKSIZE \in Nat \ {0}
<1>1. DescLen \in Nat /\ GuardLen \in Nat \ {0} /\ ALIGNMENT \in Nat \ {0}
  BY AllocatorAssumption
<1>2. ALIGNMENT + BLOCK_OVERHEAD_FIXED \in Nat \ {0}
  BY <1>1 DEF BLOCK_OVERHEAD_FIXED
<1> DEFINE v == ALIGNMENT + BLOCK_OVERHEAD_FIXED
<1>3. v <= Rounded(v, ALIGNMENT) /\ Rounded(v, ALIGNMENT) \in Int
  <2> HIDE DEF v
  <2>1. v \in Int
    BY <1>2 DEF v
  <2> QED
    BY <1>1, <2>1, RoundedUp
<1> QED
  BY <1>2, <1>3 DEF MINBLOCKSIZE

LEMMA AllocateFreeKeeps ==
    ASSUME Inv, NEW t \in Type, NEW n \in Count, AllocateFree(t, n)
    PROVE  Inv'
<1> DEFINE a == Least(BigEnough(t, n))
           need == BytesAfter(t, n, a)
           rest == IF Splits(a, need) THEN {a + need} ELSE {}
<1>1. n \in Nat
  BY DEF Count
<1>2. a \in ma_hfree /\ need <= nbytes[a]
  <2>1. BigEnough(t, n) \in SUBSET Int /\ BigEnough(t, n) # {}
        /\ \A f \in BigEnough(t, n) : ma_segment <= f
    BY Known DEF BigEnough, AllocateFree, Tiles, Heap
  <2>2. a \in BigEnough(t, n)
    BY <2>1, Known, LeastIn
  <2> QED
    BY <2>2 DEF BigEnough
<1>3. /\ ma_hfree' = (ma_hfree \ {a}) \cup rest
      /\ nbytes' = IF Splits(a, need) THEN Split(a, need) ELSE nbytes
      /\ ma_hused' = ma_hused \cup {a}
      /\ ma_hp' = Larger(ma_hp, a + nbytes'[a])
      /\ Describe(a, t, n, ClientAfter(t, a))
      /\ UNCHANGED <<layout, ma_numalign, ma_sp, ma_sused>>
  BY DEF AllocateFree
<1> HIDE DEF a
<1>4. /\ a \in Int /\ a \in Heap /\ need \in Nat \ {0}
      /\ ClientAfter(t, a) \in Int
      /\ a + DescLen + GuardLen <= ClientAfter(t, a)
      /\ ClientAfter(t, a) + n * sizeof(t) + GuardLen <= a + need
  <2>1. a \in Int /\ a \in Heap
    BY <1>2, Known DEF Heap
  <2> QED
    BY <2>1, <1>1, Known, RoomAfter
<1> HIDE DEF need
<1>5. a \notin ma_hused /\ a \notin ma_sused /\ a \notin Used
  <2>1. a \notin ma_hused
    BY <1>2 DEF Inv, MaInv, BlocksSound
  <2> QED
    BY <2>1, <1>4, Known DEF Used
<1>6. Used' = Used \cup {a}
  BY <1>3 DEF Used
<1>7. /\ nbytes' \in [Heap \cup rest \cup ma_sused -> Int]
      /\ Tiles(Heap \cup rest, nbytes', ma_segment, ma_hp)
      /\ Tiles(ma_sused, nbytes', ma_sp, ma_eos)
      /\ rest \in SUBSET Int /\ rest \cap (Heap \cup ma_sused) = {}
      /\ \A b \in (Heap \cup ma_sused) \ {a} : nbytes'[b] = nbytes[b]
      /\ \A r \in rest : End(r, nbytes') = End(a, nbytes)
      /\ need <= nbytes'[a] /\ nbytes'[a] \in Int
  <2>1. CASE Splits(a, need)
    <3>1. need < nbytes[a] /\ need \in Int /\ 0 < need
      BY <1>4, <2>1, MinBlock, Known DEF Splits
    <3>2. nbytes' = Split(a, need) /\ rest = {a + need}
      BY <1>3, <2>1
    <3>3. SplitSound(a, need)
      BY <1>4, <3>1, SplitFacts
    <3>4. rest \in SUBSET Int /\ rest \cap (Heap \cup ma_sused) = {}
      BY <3>2, <3>3 DEF SplitSound
    <3>5. \A r \in rest : End(r, nbytes') = End(a, nbytes)
      BY <3>2, <3>3 DEF SplitSound
    <3> HIDE DEF rest
    <3> QED
      BY <3>1, <3>2, <3>3, <3>4, <3>5 DEF SplitSound
  <2>2. CASE ~Splits(a, need)
    <3>1. nbytes' = nbytes /\ rest = {}
      BY <1>3, <2>2
    <3>2. nbytes \in [Heap \cup ma_sused -> Int]
      BY SoundNow DEF Sound
    <3> QED
      BY <1>2, <1>4, <3>1, <3>2, Known
  <2> QED
    BY <2>1, <2>2
<1> HIDE DEF rest
<1>8. Heap' = Heap \cup rest
  BY <1>2, <1>3 DEF Heap
<1>9. ma_hp' = ma_hp
  <2>1. End(a, nbytes') <= ma_hp /\ End(a, nbytes') \in Int
    BY <1>4, <1>7 DEF Tiles, End
  <2> QED
    BY <1>3, <2>1, Known DEF Larger, End
<1>10. ASSUME NEW f \in ma_hfree'
       PROVE  End(f, nbytes') \in ma_hused'
  <2>1. \A g \in ma_hfree : End(g, nbytes) \in ma_hused
    BY DEF Inv, MaInv, BlocksSound
  <2>2. CASE f \in ma_hfree \ {a}
    <3>1. nbytes'[f] = nbytes[f]
      BY <1>7, <2>2 DEF Heap
    <3> QED
      BY <1>3, <2>1, <2>2, <3>1 DEF End
  <2>3. CASE f \in rest
    BY <1>2, <1>3, <1>7, <2>1, <2>3
  <2> QED
    BY <1>3, <2>2, <2>3
<1>11. ma_hused' \cap ma_hfree' = {}
  <2>1. ma_hused \cap ma_hfree = {} /\ rest \cap ma_hused = {} /\ a \notin rest
    BY <1>4, <1>7 DEF Inv, MaInv, BlocksSound, Heap
  <2> QED
    BY <1>3, <2>1
<1>12. BlocksSound'
  BY <1>3, <1>7, <1>8, <1>9, <1>10, <1>11, Known, SamePlaces DEF BlocksSound, Tiles, End
<1>13. MaTypeOK'
  <2>1. ad' \in [Used' -> Kind']
    BY <1>1, <1>3, <1>4, <1>6, Described
  <2> QED
    BY <1>2, <1>3, <1>7, <1>8, <1>9, <2>1, SoundNow DEF Sound, MaTypeOK
<1>14. ClientsInv'
  <2>1. a + nbytes'[a] >= a + need
    BY <1>4, <1>7
  <2>2. n * sizeof(t) \in Nat
    BY <1>1, Known, Sizes, Times
  <2>3. Inside(a, t, n, ClientAfter(t, a), End(a, nbytes'))
    BY <1>4, <1>7, <2>1, <2>2, Sizes, Known DEF Inside, End
  <2>4. \A b \in Used : nbytes'[b] = nbytes[b]
    BY <1>5, <1>7, Known
  <2> QED
    BY <1>3, <1>5, <1>6, <2>3, <2>4, Known, ClientAdded DEF Inv
<1> QED
  BY <1>12, <1>13, <1>14 DEF Inv, MaInv

LEMMA AllocateEndKeeps ==
    ASSUME Inv, NEW t \in Type, NEW n \in Count, AllocateEnd(t, n)
    PROVE  Inv'
<1> DEFINE a == ma_hp
           need == BytesAfter(t, n, a)
<1>1. n \in Nat
  BY DEF Count
<1>2. /\ a + need <= ma_sp
      /\ ma_hused' = ma_hused \cup {a} /\ nbytes' = With(nbytes, a, need)
      /\ Describe(a, t, n, ClientAfter(t, a)) /\ ma_hp' = a + need
      /\ UNCHANGED <<layout, ma_numalign, ma_sp, ma_hfree, ma_sused>>
  BY DEF AllocateEnd
<1>3. /\ need \in Nat \ {0} /\ ClientAfter(t, a) \in Int
      /\ a + DescLen + GuardLen <= ClientAfter(t, a)
      /\ ClientAfter(t, a) + n * sizeof(t) + GuardLen <= a + need
  BY <1>1, Known, RoomAfter
<1> HIDE DEF need
<1>4. a \notin Heap /\ a \notin ma_sused /\ a \in Int
  <2>1. a \in Int /\ ma_sp \in Int /\ a < ma_sp
    BY <1>2, <1>3, Known
  <2>2. \A b \in ma_sused : ma_sp <= b /\ b \in Int
    BY Known DEF Tiles
  <2>3. \A b \in Heap : b < a
    BY Apart DEF Inv
  <2> QED
    BY <2>1, <2>2, <2>3
<1>5. Used' = Used \cup {a} /\ Heap' = Heap \cup {a}
  BY <1>2 DEF Used, Heap
<1>6. /\ nbytes'[a] = need /\ \A b \in Heap \cup ma_sused : nbytes'[b] = nbytes[b]
      /\ nbytes' = [b \in Heap \cup ma_sused \cup {a} |-> nbytes'[b]]
  BY <1>2, <1>4, Known DEF With
<1>7. nbytes' \in [Heap' \cup ma_sused -> Int]
  <2>1. \A b \in Heap \cup ma_sused \cup {a} : nbytes'[b] \in Int
    BY <1>3, <1>6, Known
  <2>2. Heap \cup ma_sused \cup {a} = Heap' \cup ma_sused
    BY <1>5
  <2> QED
    BY <1>6, <2>1, <2>2
<1>8. Tiles(Heap', nbytes', ma_segment, ma_hp')
  <2>1. ma_segment <= a
    <3>1. ma_segment \in Heap \cup {a}
      BY Known DEF Tiles
    <3> QED
      BY <3>1, Known, Apart DEF Inv
  <2> QED
    BY <1>2, <1>3, <1>5, <1>6, <2>1, Known, TilesAbove
<1>9. Tiles(ma_sused, nbytes', ma_sp, ma_eos)
  BY <1>6, Known, TilesSame
<1>10. \A f \in ma_hfree' : End(f, nbytes') \in ma_hused'
  <2>1. \A f \in ma_hfree : End(f, nbytes) \in ma_hused
    BY DEF Inv, MaInv, BlocksSound
  <2>2. \A f \in ma_hfree : nbytes'[f] = nbytes[f]
    BY <1>6 DEF Heap
  <2> QED
    BY <1>2, <2>1, <2>2 DEF End
<1>11. ma_hused' \cap ma_hfree' = {}
  BY <1>2, <1>4 DEF Heap, Inv, MaInv, BlocksSound
<1>12. BlocksSound'
  BY <1>2, <1>8, <1>9, <1>10, <1>11, SamePlaces DEF BlocksSound, Tiles, End
<1>13. MaTypeOK'
  <2>1. ad' \in [Used' -> Kind']
    BY <1>1, <1>2, <1>3, <1>5, Described
  <2> QED
    BY <1>2, <1>3, <1>4, <1>7, <2>1, SoundNow DEF Sound, MaTypeOK
<1>14. ClientsInv'
  <2>1. Inside(a, t, n, ClientAfter(t, a), End(a, nbytes'))
    BY <1>3, <1>6 DEF Inside, End
  <2>2. a \notin Used /\ \A b \in Used : nbytes'[b] = nbytes[b]
    BY <1>4, <1>6, Known
  <2> QED
    BY <1>2, <1>5, <2>1, <2>2, Known, ClientAdded DEF Inv
<1> QED
  BY <1>12, <1>13, <1>14 DEF Inv, MaInv

LEMMA FreeHeapKeeps ==
    ASSUME Inv, NEW a \in ma_hused, FreeHeap(a)
    PROVE  Inv'
<1> DEFINE used == ma_hused \ {a}
<1>1. /\ ma_hused' = used /\ Reclaim(a, used, nbytes)
      /\ ad' = Only(ad, DOMAIN ad \ {a})
      /\ UNCHANGED <<layout, ma_numalign, ma_sp, ma_sused>>
  BY DEF FreeHeap
<1>2. used \cup ma_hfree \cup {a} = Heap
  BY DEF Heap
<1>3. /\ used \in SUBSET Int /\ a \in Int /\ a \notin used /\ a \notin ma_hfree
      /\ ma_hfree \in SUBSET Int /\ used \cap ma_hfree = {}
      /\ nbytes \in [used \cup ma_hfree \cup {a} \cup ma_sused -> Int]
  BY <1>2, SoundNow DEF Sound, BlocksSound
<1>4. \A f \in ma_hfree : End(f, nbytes) \in used \cup {a}
  BY DEF Inv, MaInv, BlocksSound
<1> HIDE DEF used
<1>5. /\ BlocksSound' /\ ma_hp' \in Int /\ ma_hfree' \in SUBSET Int
      /\ nbytes' \in [Heap' \cup ma_sused' -> Int]
      /\ \A b \in used \cup ma_sused : nbytes'[b] = nbytes[b]
  <2>1. Reclaimable(a, used, nbytes, ma_hp)
    BY <1>2, <1>3, <1>4, Known DEF Reclaimable
  <2>2. Reclaimed(used, nbytes)
    BY <1>1, <2>1, ReclaimSound
  <2> QED
    BY <2>2 DEF Reclaimed
<1>6. Used' = used \cup ma_sused /\ Used' = Used \ {a}
  <2>1. a \notin ma_sused
    BY Known DEF Heap
  <2> QED
    BY <1>1, <2>1 DEF Used, used
<1>7. ad \in [Used -> Kind] /\ ad' = [x \in Used' |-> ad[x]]
  BY <1>1, <1>6 DEF Only, Inv, MaInv, MaTypeOK
<1>8. MaTypeOK'
  <2>1. ad' \in [Used' -> Kind']
    BY <1>1, <1>6, <1>7, SamePlaces
  <2> QED
    BY <1>1, <1>3, <1>5, <2>1, SoundNow DEF Sound, MaTypeOK
<1>9. ClientsInv'
  <2>1. \A b \in Used' : b \in Used /\ ad'[b] = ad[b] /\ nbytes'[b] = nbytes[b]
    BY <1>5, <1>6, <1>7
  <2> QED
    BY <1>1, <2>1, ClientsKept DEF Inv, MaInv, used
<1> QED
  BY <1>5, <1>8, <1>9 DEF Inv, MaInv

LEMMA FreeHeapPieceKeeps ==
    ASSUME Inv, NEW a \in ma_hused, NEW n \in Count, FreeHeapPiece(a, n)
    PROVE  Inv'
<1> DEFINE t == ad[a].datatype
           keep == ad[a].nelem - n
           need == BytesAfter(t, keep, a)
           cut == need < nbytes[a] /\ Splits(a, need)
<1>1. /\ n < ad[a].nelem
      /\ IF cut THEN Reclaim(a + need, ma_hused, Split(a, need))
                ELSE UNCHANGED <<ma_hp, ma_hfree, nbytes>>
      /\ ad' = [ad EXCEPT ![a].nelem = keep]
      /\ UNCHANGED <<layout, ma_numalign, ma_sp, ma_hused, ma_sused>>
  BY DEF FreeHeapPiece
<1>2. a \in Used /\ a \in Heap /\ a \in Int /\ a \notin ma_hfree /\ a \notin ma_sused
  BY Known DEF Used, Heap, Inv, MaInv, BlocksSound
<1>3. ad \in [Used -> Kind] /\ t \in Type /\ ad[a].nelem \in Nat /\ n \in Nat
      /\ keep \in Nat /\ keep <= ad[a].nelem
  <2>1. ad \in [Used -> Kind] /\ n \in Nat
    BY DEF Inv, MaInv, MaTypeOK, Count
  <2>2. ad[a] \in Kind
    BY <1>2, <2>1
  <2> QED
    BY <1>1, <2>1, <2>2 DEF Kind
<1>4. /\ need \in Nat \ {0} /\ ClientAfter(t, a) \in Int
      /\ ClientAfter(t, a) + keep * sizeof(t) + GuardLen <= a + need
  <2> HIDE DEF t, keep
  <2> QED
    BY <1>2, <1>3, Known, RoomAfter
<1>5. Used' = Used
  BY <1>1 DEF Used
<1>6. /\ ad'[a] = [datatype |-> t, nelem |-> keep, client_space |-> ad[a].client_space]
      /\ \A b \in Used \ {a} : ad'[b] = ad[b]
      /\ ad' \in [Used -> Kind]
  <2>1. ad[a] \in Kind
    BY <1>2, <1>3
  <2>2. [ad[a] EXCEPT !.nelem = keep]
          = [datatype |-> t, nelem |-> keep, client_space |-> ad[a].client_space]
    BY <2>1 DEF Kind
  <2>3. [ad[a] EXCEPT !.nelem = keep] \in Kind
    BY <2>1, <1>3 DEF Kind
  <2> HIDE DEF t, keep
  <2> QED
    BY <1>1, <1>2, <1>3, <2>2, <2>3
<1> HIDE DEF t, keep, need
<1>7. /\ BlocksSound' /\ ma_hp' \in Int /\ ma_hfree' \in SUBSET Int
      /\ nbytes' \in [Heap' \cup ma_sused' -> Int]
      /\ \A b \in Used \ {a} : nbytes'[b] = nbytes[b]
      /\ nbytes'[a] = nbytes[a] \/ nbytes'[a] = need
  <2>1. CASE cut
    <3>1. SplitSound(a, need)
      BY <1>2, <1>4, <2>1, SplitFacts
    <3>2. \A f \in ma_hfree : End(f, Split(a, need)) \in ma_hused
      <4> TAKE f \in ma_hfree
      <4>1. f # a /\ f \in Heap /\ End(f, nbytes) \in ma_hused
        BY <1>2 DEF Heap, Inv, MaInv, BlocksSound
      <4>2. Split(a, need)[f] = nbytes[f]
        BY <3>1, <4>1 DEF SplitSound
      <4> QED
        BY <4>1, <4>2 DEF End
    <3>3. ma_hused \cup ma_hfree \cup {a + need} = Heap \cup {a + need}
      BY DEF Heap
    <3>4. ma_hused \cap ma_hfree = {} /\ ma_hused \in SUBSET Int
          /\ ma_hfree \in SUBSET Int
      BY SoundNow DEF Sound, BlocksSound
    <3>5. a + need \in Int /\ a + need \notin ma_hused /\ a + need \notin ma_hfree
      BY <3>1 DEF SplitSound, Heap
    <3>6. Reclaimable(a + need, ma_hused, Split(a, need), ma_hp)
      BY <3>1, <3>2, <3>3, <3>4, <3>5, Known DEF Reclaimable, SplitSound
    <3>7. Reclaimed(ma_hused, Split(a, need))
      BY <1>1, <2>1, <3>6, ReclaimSound
    <3>8. \A b \in Used : nbytes'[b] = Split(a, need)[b]
      BY <3>7 DEF Reclaimed, Used
    <3>9. nbytes'[a] = need /\ \A b \in Used \ {a} : nbytes'[b] = nbytes[b]
      BY <1>2, <3>1, <3>8, Known DEF SplitSound
    <3> QED
      BY <3>7, <3>9 DEF Reclaimed
  <2>2. CASE ~cut
    <3>1. UNCHANGED <<ma_hp, ma_hfree, nbytes>>
      BY <1>1, <2>2
    <3>2. BlocksSound'
      BY <1>1, <3>1, SoundNow, SamePlaces DEF Sound, BlocksSound, Heap, Tiles, End
    <3> QED
      BY <1>1, <3>1, <3>2, SoundNow DEF Sound, Heap
  <2> QED
    BY <2>1, <2>2
<1>8. MaTypeOK'
  BY <1>1, <1>5, <1>6, <1>7, SamePlaces, SoundNow DEF Sound, MaTypeOK
<1>9. ASSUME Still
      PROVE  /\ a + DescLen + GuardLen <= ad[a].client_space
             /\ ad[a].client_space = ClientAfter(t, a)
             /\ ad[a].client_space + keep * sizeof(t) + GuardLen <= End(a, nbytes')
  <2>1. /\ a + DescLen + GuardLen <= ad[a].client_space
        /\ ad[a].client_space + ad[a].nelem * sizeof(t) + GuardLen <= End(a, nbytes)
        /\ ad[a].client_space = ClientAfter(t, a)
    BY <1>2, <1>9 DEF Inv, ClientsInv, ClientsInside, InPlace, t
  <2>2. sizeof(t) \in Nat /\ GuardLen \in Nat
    BY <1>3, Known, Sizes
  <2>3. keep * sizeof(t) <= ad[a].nelem * sizeof(t)
        /\ keep * sizeof(t) \in Nat /\ ad[a].nelem * sizeof(t) \in Nat
    BY <1>3, <2>2, Times, TimesLess
  <2>4. nbytes[a] \in Int
    BY <1>2, Known
  <2> QED
    BY <1>2, <1>4, <1>7, <2>1, <2>2, <2>3, <2>4 DEF End
<1>10. ClientsInv'
  <2>1. ASSUME Still, NEW b \in ma_hused'
        PROVE  ad'[b].client_space = ClientAfter(ad'[b].datatype, b)
    <3>1. b \in ma_hused /\ b \in Used
      BY <1>1 DEF Used
    <3> QED
      BY <1>6, <1>9, <2>1, <3>1 DEF Inv, ClientsInv, InPlace
  <2>2. InPlace'
    BY <1>1, <2>1, SamePlaces
  <2>3. ASSUME Still, NEW b \in Used'
        PROVE  /\ b + DescLen + GuardLen <= ad'[b].client_space
               /\ ad'[b].client_space + ad'[b].nelem * sizeof(ad'[b].datatype) + GuardLen
                    <= End(b, nbytes')
    <3>1. CASE b = a
      BY <1>6, <1>9, <2>3, <3>1
    <3>2. CASE b # a
      BY <1>5, <1>6, <1>7, <2>3, <3>2 DEF Inv, ClientsInv, ClientsInside, End
    <3> QED
      BY <3>1, <3>2
  <2>4. ClientsInside'
    BY <1>1, <2>3, SamePlaces DEF ClientsInside
  <2> QED
    BY <2>2, <2>4 DEF ClientsInv
<1> QED
  BY <1>7, <1>8, <1>10 DEF Inv, MaInv

LEMMA PushStackKeeps ==
    ASSUME Inv, NEW t \in Type, NEW n \in Count, PushStack(t, n)
    PROVE  Inv'
<1> DEFINE bytes == BytesBefore(t, n, ma_sp)
           a == ma_sp - bytes
           c == ClientBefore(t, n, ma_sp)
<1>1. n \in Nat
  BY DEF Count
<1>2. /\ bytes <= ma_sp - ma_hp
      /\ ma_sused' = ma_sused \cup {a} /\ nbytes' = With(nbytes, a, ma_sp - a)
      /\ Describe(a, t, n, c) /\ ma_sp' = a
      /\ UNCHANGED <<layout, ma_numalign, ma_hp, ma_hused, ma_hfree>>
  BY DEF PushStack
<1>3. /\ bytes \in Nat \ {0} /\ c \in Int
      /\ a + DescLen + GuardLen <= c /\ c + n * sizeof(t) + GuardLen <= ma_sp
  BY <1>1, Known, RoomBefore
<1> HIDE DEF bytes, c
<1>4. a \in Int /\ a < ma_sp /\ ma_hp <= a
  BY <1>2, <1>3, Known
<1> HIDE DEF a
<1>5. a \notin Heap /\ a \notin ma_sused
  <2>1. \A b \in ma_sused : ma_sp <= b /\ b \in Int
    BY Known DEF Tiles
  <2>2. \A b \in Heap : b < ma_hp /\ b \in Int
    BY Apart, Known DEF Inv
  <2> QED
    BY <1>4, <2>1, <2>2, Known
<1>6. Used' = Used \cup {a} /\ Heap' = Heap
  BY <1>2 DEF Used, Heap
<1>7. /\ nbytes'[a] = ma_sp - a /\ \A b \in Heap \cup ma_sused : nbytes'[b] = nbytes[b]
      /\ nbytes' = [b \in Heap \cup ma_sused \cup {a} |-> nbytes'[b]]
  BY <1>2, <1>5, Known DEF With
<1>8. nbytes' \in [Heap \cup ma_sused' -> Int]
  <2>1. \A b \in Heap \cup ma_sused \cup {a} : nbytes'[b] \in Int
    BY <1>4, <1>7, Known
  <2>2. Heap \cup ma_sused \cup {a} = Heap \cup ma_sused'
    BY <1>2
  <2> QED
    BY <1>7, <2>1, <2>2
<1>9. Tiles(Heap, nbytes', ma_segment, ma_hp)
  BY <1>7, Known, TilesSame
<1>10. Tiles(ma_sused', nbytes', a, ma_eos)
  <2>1. ma_sp <= ma_eos
    <3>1. ma_sp \in ma_sused \cup {ma_eos}
      BY Known DEF Tiles
    <3>2. \A b \in ma_sused : b < End(b, nbytes) /\ End(b, nbytes) <= ma_eos
      BY Known DEF Tiles
    <3> QED
      BY <3>1, <3>2, Known
  <2>2. \A b \in ma_sused : nbytes'[b] = nbytes[b] /\ nbytes[b] \in Int
    BY <1>7, Known
  <2> QED
    BY <1>2, <1>4, <1>7, <2>1, <2>2, Known, TilesBelow
<1>11. \A f \in ma_hfree : End(f, nbytes') \in ma_hused
  <2>1. \A f \in ma_hfree : End(f, nbytes) \in ma_hused
    BY DEF Inv, MaInv, BlocksSound
  <2>2. \A f \in ma_hfree : nbytes'[f] = nbytes[f]
    BY <1>7 DEF Heap
  <2> QED
    BY <2>1, <2>2 DEF End
<1>12. BlocksSound'
  BY <1>2, <1>4, <1>6, <1>9, <1>10, <1>11, SoundNow, SamePlaces
     DEF Sound, BlocksSound, Tiles, End
<1>13. MaTypeOK'
  <2>1. ad' \in [Used' -> Kind']
    BY <1>1, <1>2, <1>3, <1>6, Described
  <2> QED
    BY <1>2, <1>4, <1>6, <1>8, <2>1, SoundNow DEF Sound, MaTypeOK
<1>14. ClientsInv'
  <2>1. a + nbytes'[a] = ma_sp
    BY <1>4, <1>7, Known
  <2>2. Inside(a, t, n, c, End(a, nbytes'))
    BY <1>3, <2>1 DEF Inside, End, a
  <2>3. a \notin Used /\ \A b \in Used : nbytes'[b] = nbytes[b]
    BY <1>5, <1>7, Known
  <2> QED
    BY <1>2, <1>6, <2>2, <2>3, Known, ClientAdded DEF Inv
<1> QED
  BY <1>12, <1>13, <1>14 DEF Inv, MaInv

\* A block of the stack and those below it are popped.
LEMMA PoppedKeeps ==
    ASSUME Inv, NEW a \in ma_sused,
           ma_sused' = {s \in ma_sused : s > a}, ma_sp' = a + nbytes[a],
           Drop({s \in ma_sused : s <= a}),
           UNCHANGED <<layout, ma_numalign, ma_hp, ma_hused, ma_hfree>>
    PROVE  Inv'
<1> DEFINE kept == {s \in ma_sused : s > a}
           gone == {s \in ma_sused : s <= a}
<1>1. Heap' = Heap
  BY DEF Heap
<1>2. (Heap \cup ma_sused) \ gone = Heap \cup kept /\ Used \ gone = ma_hused \cup kept
      /\ Used' = ma_hused \cup kept
  BY Known DEF Heap, Used
<1>3. nbytes' = [x \in Heap \cup kept |-> nbytes[x]] /\ ad' = [x \in Used' |-> ad[x]]
  BY <1>2, Known DEF Drop, Only
<1>4. \A b \in ma_sused : nbytes[b] \in Int
  BY Known
<1>5. Tiles(kept, nbytes, ma_sp', ma_eos) /\ ma_sp <= ma_sp' /\ ma_sp' \in Int
  <2>1. Tiles(kept, nbytes, End(a, nbytes), ma_eos) /\ ma_sp <= End(a, nbytes)
    BY <1>4, Known, TilesAfter
  <2> QED
    BY <2>1, Known DEF End
<1> HIDE DEF kept, gone
<1>6. \A b \in Heap \cup kept : nbytes'[b] = nbytes[b]
  BY <1>3
<1>7. Tiles(kept, nbytes', ma_sp', ma_eos) /\ Tiles(Heap, nbytes', ma_segment, ma_hp)
  BY <1>5, <1>6, Known, TilesSame
<1>8. \A f \in ma_hfree : End(f, nbytes') \in ma_hused
  BY <1>6 DEF Heap, End, Inv, MaInv, BlocksSound
<1>9. ma_hp <= ma_sp'
  BY <1>5, Known
<1>10. BlocksSound'
  BY <1>1, <1>7, <1>8, <1>9, SoundNow, SamePlaces
     DEF Sound, BlocksSound, Tiles, End, kept
<1>11. kept \in SUBSET Int /\ kept \subseteq ma_sused
  BY Known DEF kept
<1>12. MaTypeOK'
  <2>1. nbytes' \in [Heap \cup kept -> Int]
    BY <1>3, <1>11, Known
  <2>2. ad \in [Used -> Kind] /\ Used' \subseteq Used
    BY <1>2, <1>11 DEF Inv, MaInv, MaTypeOK, Used
  <2>3. ad' \in [Used' -> Kind']
    BY <1>3, <2>2, SamePlaces
  <2> QED
    BY <1>1, <1>5, <1>11, <2>1, <2>3, SoundNow DEF Sound, MaTypeOK, kept
<1>13. ClientsInv'
  <2>1. \A b \in Used' : b \in Used /\ ad'[b] = ad[b] /\ nbytes'[b] = nbytes[b]
    BY <1>2, <1>3, <1>6, <1>11 DEF Used, Heap
  <2> QED
    BY <2>1, ClientsKept DEF Inv, MaInv
<1> QED
  BY <1>10, <1>12, <1>13 DEF Inv, MaInv

LEMMA ChopStackKeeps ==
    ASSUME Inv, NEW a \in ma_sused, ChopStack(a)
    PROVE  Inv'
BY PoppedKeeps DEF ChopStack

\* MA_pop_stack takes the block at the stack pointer, which is the lowest.
LEMMA PopStackKeeps ==
    ASSUME Inv, NEW a \in ma_sused, PopStack(a)
    PROVE  Inv'
<1>1. \A b \in ma_sused : a <= b /\ b \in Int /\ a \in Int
  BY Known DEF PopStack, Tiles
<1>2. {s \in ma_sused : s <= a} = {a} /\ {s \in ma_sused : s > a} = ma_sused \ {a}
  BY <1>1
<1> QED
  BY <1>2, PoppedKeeps DEF PopStack

LEMMA SetNumalignKeeps ==
    ASSUME Inv, NEW v \in layout.later, SetNumalign(v)
    PROVE  Inv'
<1>1. v \in Nat \ {0} /\ ~Still
  BY Known, AllocatorAssumption DEF Still
<1>2. UNCHANGED <<layout, ma_hp, ma_sp, ma_hused, ma_hfree, ma_sused, nbytes, ad>>
      /\ ma_numalign' = v
  BY DEF SetNumalign
<1>3. MaTypeOK'
  BY <1>1, <1>2 DEF Inv, MaInv, MaTypeOK, Heap, Used, Kind, Type
<1>4. BlocksSound'
  BY <1>2 DEF Inv, MaInv, BlocksSound, Heap, Tiles, End, ma_segment, ma_eos, ma_partition,
              RegionLen, MaxOverhead, sizeof
<1>5. ~Still'
  BY <1>1, <1>2 DEF Still
<1>6. ClientsInv'
  BY <1>5 DEF ClientsInv, InPlace, ClientsInside
<1> QED
  BY <1>3, <1>4, <1>6 DEF Inv, MaInv

-----------------------------------------------------------------------------
(* Alignment of the blocks *)

\* The address is a multiple of ALIGNMENT away from the segment.
Aligned(a) == (a - ma_segment) % ALIGNMENT = 0

\* The client space of a block of type t is where the type wants it
Suits(t, c) == Word % sizeof(t) = 0 \/ base(t) <= ma_segment => (c - base(t)) % sizeof(t) = 0

\* Every block, used or free, begins at a multiple of ALIGNMENT, and so does
\* the gap; the segment has an end.
AlignedInv ==
    /\ ma_eos <= Word
    /\ Aligned(ma_hp)
    /\ \A b \in Heap \cup ma_sused : Aligned(b)
    /\ \A a \in Used : Suits(ad[a].datatype, ad[a].client_space)

\* A multiple of ALIGNMENT later
LEMMA AlignedOn ==
    ASSUME Inv, NEW a \in Int, Aligned(a), NEW n \in Int, n % ALIGNMENT = 0
    PROVE  Aligned(a + n)
<1> DEFINE s == ma_segment
<1>1. s \in Int /\ ALIGNMENT \in Nat \ {0}
  BY Known, AllocatorAssumption
<1>2. (a - s) % ALIGNMENT = 0
  BY DEF Aligned
<1> HIDE DEF s
<1>3. a - s \in Int /\ (a - s) + n = (a + n) - s
  BY <1>1
<1>4. ((a - s) + n) % ALIGNMENT = 0
  BY <1>1, <1>2, <1>3, MultipleSum
<1> QED
  BY <1>3, <1>4 DEF Aligned, s

\* Where a heap block ends there is another one, or the end of the heap.
LEMMA EndAligned ==
    ASSUME Inv, AlignedInv, NEW a \in Heap
    PROVE  Aligned(End(a, nbytes))
BY Known DEF Tiles, AlignedInv

\* Nothing moves with the variables of the layout unchanged.
LEMMA SameAligned ==
    ASSUME UNCHANGED layout
    PROVE  /\ ma_segment' = ma_segment /\ ma_eos' = ma_eos
           /\ \A a : Aligned(a)' <=> Aligned(a)
           /\ \A t, c : Suits(t, c)' <=> Suits(t, c)
BY DEF Aligned, Suits, ma_segment, ma_eos, ma_partition, RegionLen, MaxOverhead, sizeof, base

\* A call that describes no block anew
LEMMA AlignedKept ==
    ASSUME AlignedInv, UNCHANGED layout, Aligned(ma_hp'),
           \A b \in Heap' \cup ma_sused' : Aligned(b),
           \A a \in Used' : /\ a \in Used
                            /\ ad'[a].datatype = ad[a].datatype
                            /\ ad'[a].client_space = ad[a].client_space
    PROVE  AlignedInv'
<1>1. ma_eos' <= Word /\ Aligned(ma_hp)'
  BY SameAligned DEF AlignedInv
<1>2. (\A b \in Heap \cup ma_sused : Aligned(b))'
  BY SameAligned
<1>3. \A a \in Used' : Suits(ad'[a].datatype, ad'[a].client_space)
  BY DEF AlignedInv
<1>4. (\A a \in Used : Suits(ad[a].datatype, ad[a].client_space))'
  BY <1>3, SameAligned
<1> QED
  BY <1>1, <1>2, <1>4 DEF AlignedInv

\* A call that describes the block a
LEMMA AlignedMore ==
    ASSUME AlignedInv, UNCHANGED layout, Aligned(ma_hp'),
           \A b \in Heap' \cup ma_sused' : Aligned(b),
           NEW t, NEW n, NEW c, NEW a, Describe(a, t, n, c), a \notin Used,
           Used' = Used \cup {a}, DOMAIN ad = Used, Suits(t, c)
    PROVE  AlignedInv'
<1>1. ma_eos' <= Word /\ Aligned(ma_hp)'
  BY SameAligned DEF AlignedInv
<1>2. (\A b \in Heap \cup ma_sused : Aligned(b))'
  BY SameAligned
<1>3. \A b \in Used : ad'[b] = ad[b]
  BY DEF Describe, With
<1>4. ad'[a] = [datatype |-> t, nelem |-> n, client_space |-> c]
  BY DEF Describe, With
<1>5. \A b \in Used' : Suits(ad'[b].datatype, ad'[b].client_space)
  BY <1>3, <1>4 DEF AlignedInv
<1>6. (\A b \in Used : Suits(ad[b].datatype, ad[b].client_space))'
  BY <1>5, SameAligned
<1> QED
  BY <1>1, <1>2, <1>6 DEF AlignedInv

LEMMA AllocateFreeAligned ==
    ASSUME Inv, AlignedInv, NEW t \in Type, NEW n \in Count, AllocateFree(t, n)
    PROVE  AlignedInv'
<1> DEFINE a == Least(BigEnough(t, n))
           need == BytesAfter(t, n, a)
<1>1. n \in Nat
  BY DEF Count
<1>2. BigEnough(t, n) \in SUBSET Int /\ BigEnough(t, n) # {}
      /\ \A f \in BigEnough(t, n) : ma_segment <= f
  BY Known DEF BigEnough, AllocateFree, Tiles, Heap
<1>3. a \in BigEnough(t, n)
  BY <1>2, Known, LeastIn
<1>4. /\ ma_hfree' \subseteq (ma_hfree \ {a}) \cup {a + need}
      /\ ma_hused' = ma_hused \cup {a}
      /\ ma_hp' = Larger(ma_hp, a + nbytes'[a])
      /\ nbytes' = IF Splits(a, need) THEN Split(a, need) ELSE nbytes
      /\ Describe(a, t, n, ClientAfter(t, a))
      /\ UNCHANGED <<layout, ma_numalign, ma_sp, ma_sused>>
  BY DEF AllocateFree
<1> HIDE DEF a
<1>5. a \in ma_hfree /\ a \in Heap /\ a \in Int /\ need <= nbytes[a]
  BY <1>3, Known DEF BigEnough, Heap
<1>6. /\ need \in Nat \ {0} /\ need % ALIGNMENT = 0
      /\ (ClientAfter(t, a) - base(t)) % sizeof(t) = 0
  BY <1>1, <1>5, Known, RoomAfter, AlignedAfter
<1> HIDE DEF need
<1>7. Aligned(a) /\ Aligned(a + need) /\ Aligned(End(a, nbytes))
  <2>1. Aligned(a)
    BY <1>5 DEF AlignedInv
  <2> QED
    BY <1>5, <1>6, <2>1, AlignedOn, EndAligned
<1>8. Aligned(ma_hp')
  <2>1. nbytes'[a] = need \/ nbytes'[a] = nbytes[a]
    <3>1. ASSUME Splits(a, need) PROVE nbytes'[a] = need
      <4>1. need < nbytes[a] /\ need \in Int /\ 0 < need
        BY <1>5, <1>6, <3>1, MinBlock, Known DEF Splits
      <4>2. SplitSound(a, need)
        BY <1>5, <4>1, SplitFacts
      <4> QED
        BY <1>4, <3>1, <4>2 DEF SplitSound
    <3> QED
      BY <1>4, <3>1
  <2>2. ma_hp' = ma_hp \/ ma_hp' = a + need \/ ma_hp' = End(a, nbytes)
    BY <1>4, <2>1 DEF Larger, End
  <2> QED
    BY <1>7, <2>2 DEF AlignedInv
<1>9. \A b \in Heap' \cup ma_sused' : Aligned(b)
  BY <1>4, <1>7 DEF Heap, AlignedInv
<1>10. a \notin Used /\ Used' = Used \cup {a} /\ DOMAIN ad = Used
  BY <1>4, <1>5, Known DEF Used, Heap, Inv, MaInv, BlocksSound
<1>11. Suits(t, ClientAfter(t, a))
  BY <1>6 DEF Suits
<1> QED
  BY <1>4, <1>8, <1>9, <1>10, <1>11, AlignedMore

LEMMA AllocateEndAligned ==
    ASSUME Inv, AlignedInv, NEW t \in Type, NEW n \in Count, AllocateEnd(t, n)
    PROVE  AlignedInv'
<1> DEFINE a == ma_hp
           need == BytesAfter(t, n, a)
<1>1. n \in Nat
  BY DEF Count
<1>2. /\ a + need <= ma_sp
      /\ ma_hused' = ma_hused \cup {a}
      /\ Describe(a, t, n, ClientAfter(t, a)) /\ ma_hp' = a + need
      /\ UNCHANGED <<layout, ma_numalign, ma_sp, ma_hfree, ma_sused>>
  BY DEF AllocateEnd
<1>3. a \in Int /\ ma_sp \in Int
  BY Known
<1>4. /\ need \in Nat \ {0} /\ need % ALIGNMENT = 0
      /\ (ClientAfter(t, a) - base(t)) % sizeof(t) = 0
  BY <1>1, <1>3, Known, RoomAfter, AlignedAfter
<1> HIDE DEF need
<1>5. Aligned(a) /\ Aligned(ma_hp')
  <2>1. Aligned(a)
    BY DEF AlignedInv
  <2> QED
    BY <1>2, <1>3, <1>4, <2>1, AlignedOn
<1>6. \A b \in Heap' \cup ma_sused' : Aligned(b)
  BY <1>2, <1>5 DEF Heap, AlignedInv
<1>7. a \notin Heap /\ a \notin ma_sused
  <2>1. a < ma_sp
    BY <1>2, <1>3, <1>4
  <2>2. \A b \in ma_sused : ma_sp <= b /\ b \in Int
    BY Known DEF Tiles
  <2>3. \A b \in Heap : b < a
    BY Apart DEF Inv
  <2> QED
    BY <1>3, <2>1, <2>2, <2>3
<1>8. a \notin Used /\ Used' = Used \cup {a} /\ DOMAIN ad = Used
  BY <1>2, <1>7, Known DEF Used, Heap
<1>9. Suits(t, ClientAfter(t, a))
  BY <1>4 DEF Suits
<1> QED
  BY <1>2, <1>5, <1>6, <1>8, <1>9, AlignedMore

\* The free blocks that are left begin where free blocks began, and the heap
\* ends where a used block does.
LEMMA ReclaimAligned ==
    ASSUME NEW used \in SUBSET Int, NEW a, NEW len, NEW hi \in Int,
           Reclaim(a, used, len), \A b \in used : b <= hi,
           Aligned(a), \A f \in ma_hfree : Aligned(f), Aligned(ma_segment),
           \A b \in used : Aligned(End(b, len))
    PROVE  Aligned(ma_hp') /\ \A f \in ma_hfree' : Aligned(f)
<1>1. CASE used = {}
  BY <1>1 DEF Reclaim
<1>2. CASE used # {}
  <2>1. Greatest(used) \in used
    BY <1>2, GreatestIn
  <2>2. ma_hp' = End(Greatest(used), len) /\ ma_hfree' \subseteq ma_hfree \cup {a}
    BY <1>2 DEF Reclaim, Heads
  <2> QED
    BY <2>1, <2>2
<1> QED
  BY <1>1, <1>2

LEMMA SegmentAligned ==
    ASSUME Inv
    PROVE  Aligned(ma_segment)
<1>1. ma_segment \in Int /\ ALIGNMENT \in Nat \ {0}
  BY Known, AllocatorAssumption
<1>2. ma_segment - ma_segment = 0 /\ 0 % ALIGNMENT = 0
  BY <1>1
<1> QED
  BY <1>2 DEF Aligned

LEMMA FreeHeapAligned ==
    ASSUME Inv, AlignedInv, NEW a \in ma_hused, FreeHeap(a)
    PROVE  AlignedInv'
<1> DEFINE used == ma_hused \ {a}
<1>1. /\ ma_hused' = used /\ Reclaim(a, used, nbytes)
      /\ ad' = Only(ad, DOMAIN ad \ {a})
      /\ UNCHANGED <<layout, ma_numalign, ma_sp, ma_sused>>
  BY DEF FreeHeap
<1>2. used \in SUBSET Int /\ \A b \in used : b <= ma_hp /\ Aligned(End(b, nbytes))
  <2>1. used \subseteq Heap
    BY DEF Heap
  <2>2. \A b \in Heap : b < ma_hp /\ b \in Int
    BY Apart, Known DEF Inv
  <2> HIDE DEF used
  <2> QED
    BY <2>1, <2>2, Known, EndAligned
<1>3. Aligned(a) /\ \A f \in ma_hfree : Aligned(f)
  BY DEF AlignedInv, Heap
<1> HIDE DEF used
<1>4. Aligned(ma_hp') /\ \A f \in ma_hfree' : Aligned(f)
  BY <1>1, <1>2, <1>3, Known, SegmentAligned, ReclaimAligned
<1>5. \A b \in Heap' \cup ma_sused' : Aligned(b)
  BY <1>1, <1>4 DEF Heap, AlignedInv, used
<1>6. Used' \subseteq Used /\ a \notin Used' /\ DOMAIN ad = Used
  BY <1>1, Known DEF Used, Heap, used, Inv, MaInv, BlocksSound
<1>7. \A b \in Used' : b \in Used /\ ad'[b] = ad[b]
  BY <1>1, <1>6 DEF Only
<1> QED
  BY <1>1, <1>4, <1>5, <1>7, AlignedKept

LEMMA FreeHeapPieceAligned ==
    ASSUME Inv, AlignedInv, NEW a \in ma_hused, NEW n \in Count, FreeHeapPiece(a, n)
    PROVE  AlignedInv'
<1> DEFINE t == ad[a].datatype
           keep == ad[a].nelem - n
           need == BytesAfter(t, keep, a)
           cut == need < nbytes[a] /\ Splits(a, need)
<1>1. /\ n < ad[a].nelem
      /\ IF cut THEN Reclaim(a + need, ma_hused, Split(a, need))
                ELSE UNCHANGED <<ma_hp, ma_hfree, nbytes>>
      /\ ad' = [ad EXCEPT ![a].nelem = keep]
      /\ UNCHANGED <<layout, ma_numalign, ma_sp, ma_hused, ma_sused>>
  BY DEF FreeHeapPiece
<1>2. a \in Used /\ a \in Heap /\ a \in Int /\ a \notin ma_hfree /\ a \notin ma_sused
  BY Known DEF Used, Heap, Inv, MaInv, BlocksSound
<1>3. ad \in [Used -> Kind] /\ t \in Type /\ keep \in Nat
  <2>1. ad \in [Used -> Kind] /\ n \in Nat
    BY DEF Inv, MaInv, MaTypeOK, Count
  <2>2. ad[a] \in Kind
    BY <1>2, <2>1
  <2> QED
    BY <1>1, <2>1, <2>2 DEF Kind
<1>4. need \in Nat \ {0} /\ need % ALIGNMENT = 0
  <2> HIDE DEF t, keep
  <2> QED
    BY <1>2, <1>3, Known, RoomAfter, AlignedAfter
<1>5. Used' = Used
  BY <1>1 DEF Used
<1>6. \A b \in Used' : /\ b \in Used
                       /\ ad'[b].datatype = ad[b].datatype
                       /\ ad'[b].client_space = ad[b].client_space
  <2> TAKE b \in Used'
  <2>1. ad[b] \in Kind /\ b \in Used
    BY <1>3, <1>5
  <2>2. ad'[b] = ad[b] \/ ad'[b] = [ad[b] EXCEPT !.nelem = keep]
    BY <1>1, <1>3, <2>1
  <2> QED
    BY <2>1, <2>2 DEF Kind
<1> HIDE DEF t, keep, need
<1>7. Aligned(ma_hp') /\ \A f \in ma_hfree' : Aligned(f)
  <2>1. CASE cut
    <3>1. SplitSound(a, need)
      BY <1>2, <1>4, <2>1, SplitFacts
    <3>2. Aligned(a) /\ \A f \in ma_hfree : Aligned(f)
      BY DEF AlignedInv, Heap
    <3>3. Aligned(a + need)
      BY <1>2, <1>4, <3>2, AlignedOn
    <3>4. ASSUME NEW b \in ma_hused
          PROVE  Aligned(End(b, Split(a, need)))
      <4>1. CASE b = a
        BY <3>1, <3>3, <4>1 DEF SplitSound, End
      <4>2. CASE b # a
        <5>1. Split(a, need)[b] = nbytes[b] /\ b \in Heap
          BY <3>1, <4>2 DEF SplitSound, Heap
        <5> QED
          BY <5>1, EndAligned DEF End
      <4> QED
        BY <4>1, <4>2
    <3>5. ma_hused \in SUBSET Int /\ \A b \in ma_hused : b <= ma_hp
      <4>1. \A b \in Heap : b < ma_hp /\ b \in Int
        BY Apart, Known DEF Inv
      <4> QED
        BY <4>1, Known DEF Heap
    <3> QED
      BY <1>1, <2>1, <3>2, <3>3, <3>4, <3>5, Known, SegmentAligned, ReclaimAligned
  <2>2. CASE ~cut
    BY <1>1, <2>2 DEF AlignedInv, Heap
  <2> QED
    BY <2>1, <2>2
<1>8. \A b \in Heap' \cup ma_sused' : Aligned(b)
  BY <1>1, <1>7 DEF Heap, AlignedInv
<1> QED
  BY <1>1, <1>6, <1>7, <1>8, AlignedKept

LEMMA PushStackAligned ==
    ASSUME Inv, AlignedInv, NEW t \in Type, NEW n \in Count, PushStack(t, n)
    PROVE  AlignedInv'
<1> DEFINE bytes == BytesBefore(t, n, ma_sp)
           a == ma_sp - bytes
           c == ClientBefore(t, n, ma_sp)
<1>1. n \in Nat /\ ma_sp \in Int /\ ma_hp \in Int
  BY Known DEF Count
<1>2. /\ bytes <= ma_sp - ma_hp
      /\ ma_sused' = ma_sused \cup {a} /\ Describe(a, t, n, c)
      /\ UNCHANGED <<layout, ma_numalign, ma_hp, ma_hused, ma_hfree>>
  BY DEF PushStack
<1>3. /\ bytes \in Nat \ {0} /\ c \in Int
      /\ a + DescLen + GuardLen <= c
  BY <1>1, Known, RoomBefore
<1>4. /\ a % ALIGNMENT = 0
      /\ Word % sizeof(t) = 0 \/ (base(t) <= c /\ ma_sp <= Word)
           => (c - base(t)) % sizeof(t) = 0
  BY <1>1, Known, AlignedBefore
<1> HIDE DEF bytes, c
<1>5. a \in Int /\ a < ma_sp /\ ma_hp <= a
  BY <1>1, <1>2, <1>3
<1> HIDE DEF a
<1>6. Aligned(a)
  <2>1. ma_segment \in Int /\ ALIGNMENT \in Nat \ {0} /\ ma_segment % ALIGNMENT = 0
    BY Known, AllocatorAssumption DEF ma_segment
  <2> QED
    BY <1>4, <1>5, <2>1, MultipleSum DEF Aligned
<1>7. a \notin Used /\ Used' = Used \cup {a} /\ DOMAIN ad = Used /\ Heap' = Heap
  <2>1. \A b \in ma_sused : ma_sp <= b /\ b \in Int
    BY Known DEF Tiles
  <2>2. \A b \in Heap : b < ma_hp /\ b \in Int
    BY Apart, Known DEF Inv
  <2>3. a \notin Heap /\ a \notin ma_sused
    BY <1>1, <1>5, <2>1, <2>2
  <2> QED
    BY <1>2, <2>3, Known DEF Used, Heap
<1>8. Suits(t, c)
  <2>1. ma_segment <= ma_hp /\ ma_segment \in Int
    <3>1. ma_segment \in Heap \cup {ma_hp}
      BY Known DEF Tiles
    <3> QED
      BY <3>1, Known, Apart DEF Inv
  <2>2. ma_sp <= ma_eos /\ ma_eos \in Int
    <3>1. ma_sp \in ma_sused \cup {ma_eos}
      BY Known DEF Tiles
    <3>2. \A b \in ma_sused : b < End(b, nbytes) /\ End(b, nbytes) <= ma_eos
      BY Known DEF Tiles
    <3> QED
      BY <3>1, <3>2, Known
  <2>3. ma_sp <= Word
    BY <1>1, <2>2, AllocatorAssumption DEF AlignedInv
  <2>4. DescLen \in Nat /\ GuardLen \in Nat /\ base(t) \in Nat
    BY Known, Sizes
  <2>5. ASSUME base(t) <= ma_segment PROVE base(t) <= c
    BY <1>1, <1>3, <1>5, <2>1, <2>4, <2>5
  <2> QED
    BY <1>4, <2>3, <2>5 DEF Suits
<1>9. Aligned(ma_hp') /\ \A b \in Heap' \cup ma_sused' : Aligned(b)
  BY <1>2, <1>6, <1>7 DEF AlignedInv
<1> QED
  BY <1>2, <1>7, <1>8, <1>9, AlignedMore

\* MA_pop_stack, MA_chop_stack
LEMMA DroppedAligned ==
    ASSUME Inv, AlignedInv, NEW S \in SUBSET ma_sused, ma_sused' = ma_sused \ S, Drop(S),
           UNCHANGED <<layout, ma_numalign, ma_hp, ma_hused, ma_hfree>>
    PROVE  AlignedInv'
<1>1. Heap' = Heap /\ Used' \subseteq Used /\ Used' \cap S = {} /\ DOMAIN ad = Used
  BY Known DEF Heap, Used
<1>2. \A b \in Used' : b \in Used /\ ad'[b] = ad[b]
  BY <1>1 DEF Drop, Only
<1>3. Aligned(ma_hp') /\ \A b \in Heap' \cup ma_sused' : Aligned(b)
  BY <1>1 DEF AlignedInv
<1> QED
  BY <1>2, <1>3, AlignedKept

-----------------------------------------------------------------------------
(* The theorems *)

LEMMA Initially == MaInit => Inv
<1> SUFFICES ASSUME MaInit PROVE Inv
  OBVIOUS
<1>1. /\ layout \in Layouts /\ ma_numalign = layout.numalign
      /\ ma_hp = ma_segment /\ ma_sp = ma_eos
      /\ ma_hused = {} /\ ma_hfree = {} /\ ma_sused = {}
      /\ nbytes = <<>> /\ ad = <<>>
  BY DEF MaInit
<1>2. Heap = {} /\ Used = {}
  BY <1>1 DEF Heap, Used
<1>3. ma_segment \in Int /\ ma_eos \in Int /\ ma_segment <= ma_eos
  BY <1>1, Sizes
<1>4. nbytes \in [{} -> Int] /\ ad \in [{} -> Kind]
  BY <1>1
<1>5. MaTypeOK
  BY <1>1, <1>2, <1>3, <1>4, AllocatorAssumption DEF MaTypeOK
<1>6. BlocksSound
  BY <1>1, <1>2, <1>3 DEF BlocksSound, Tiles
<1>7. ClientsInv
  BY <1>1, <1>2 DEF ClientsInv, InPlace, ClientsInside
<1> QED
  BY <1>5, <1>6, <1>7 DEF Inv, MaInv

LEMMA Inductive == Inv /\ [MaNext]_mavars => Inv'
<1> SUFFICES ASSUME Inv, [MaNext]_mavars PROVE Inv'
  OBVIOUS
<1>1. ASSUME NEW t \in Type, NEW n \in Count, AllocateFree(t, n)
      PROVE  Inv'
  BY <1>1, AllocateFreeKeeps
<1>2. ASSUME NEW t \in Type, NEW n \in Count, AllocateEnd(t, n)
      PROVE  Inv'
  BY <1>2, AllocateEndKeeps
<1>3. ASSUME NEW t \in Type, NEW n \in Count, PushStack(t, n)
      PROVE  Inv'
  BY <1>3, PushStackKeeps
<1>4. ASSUME NEW a \in ma_hused, FreeHeap(a)
      PROVE  Inv'
  BY <1>4, FreeHeapKeeps
<1>5. ASSUME NEW a \in ma_hused, NEW n \in Count, FreeHeapPiece(a, n)
      PROVE  Inv'
  BY <1>5, FreeHeapPieceKeeps
<1>6. ASSUME NEW a \in ma_sused, PopStack(a)
      PROVE  Inv'
  BY <1>6, PopStackKeeps
<1>7. ASSUME NEW a \in ma_sused, ChopStack(a)
      PROVE  Inv'
  BY <1>7, ChopStackKeeps
<1>8. ASSUME NEW v \in layout.later, SetNumalign(v)
      PROVE  Inv'
  BY <1>8, SetNumalignKeeps
<1>9. ASSUME UNCHANGED mavars
      PROVE  Inv'
  <2>1. UNCHANGED <<layout, ma_numalign, ma_hp, ma_sp, ma_hused, ma_hfree, ma_sused,
                    nbytes, ad>>
    BY <1>9 DEF mavars
  <2>2. Heap' = Heap /\ Used' = Used
    BY <2>1 DEF Heap, Used
  <2>3. MaTypeOK'
    BY <2>1, <2>2, SamePlaces DEF Inv, MaInv, MaTypeOK
  <2>4. BlocksSound'
    BY <2>1, <2>2, SamePlaces DEF Inv, MaInv, BlocksSound, Tiles, End
  <2>5. ClientsInv'
    BY <2>1, <2>2, ClientsKept DEF Inv, MaInv
  <2> QED
    BY <2>3, <2>4, <2>5 DEF Inv, MaInv
<1> QED
  BY <1>1, <1>2, <1>3, <1>4, <1>5, <1>6, <1>7, <1>8, <1>9 DEF MaNext

LEMMA AlignedInitially == MaInit => AlignedInv
<1> SUFFICES ASSUME MaInit PROVE AlignedInv
  OBVIOUS
<1>1. Inv
  BY Initially
<1>2. /\ ma_eos <= Word /\ ma_hp = ma_segment
      /\ ma_hused = {} /\ ma_hfree = {} /\ ma_sused = {}
  BY DEF MaInit
<1> QED
  BY <1>1, <1>2, SegmentAligned DEF AlignedInv, Heap, Used

LEMMA AlignedInductive == Inv /\ AlignedInv /\ [MaNext]_mavars => AlignedInv'
<1> SUFFICES ASSUME Inv, AlignedInv, [MaNext]_mavars PROVE AlignedInv'
  OBVIOUS
<1>1. ASSUME NEW t \in Type, NEW n \in Count, AllocateFree(t, n)
      PROVE  AlignedInv'
  BY <1>1, AllocateFreeAligned
<1>2. ASSUME NEW t \in Type, NEW n \in Count, AllocateEnd(t, n)
      PROVE  AlignedInv'
  BY <1>2, AllocateEndAligned
<1>3. ASSUME NEW t \in Type, NEW n \in Count, PushStack(t, n)
      PROVE  AlignedInv'
  BY <1>3, PushStackAligned
<1>4. ASSUME NEW a \in ma_hused, FreeHeap(a)
      PROVE  AlignedInv'
  BY <1>4, FreeHeapAligned
<1>5. ASSUME NEW a \in ma_hused, NEW n \in Count, FreeHeapPiece(a, n)
      PROVE  AlignedInv'
  BY <1>5, FreeHeapPieceAligned
<1>6. ASSUME NEW a \in ma_sused, PopStack(a)
      PROVE  AlignedInv'
  BY <1>6, DroppedAligned DEF PopStack
<1>7. ASSUME NEW a \in ma_sused, ChopStack(a)
      PROVE  AlignedInv'
  <2> DEFINE S == {s \in ma_sused : s <= a}
  <2>1. ma_sused' = ma_sused \ S
    BY <1>7, Known DEF ChopStack
  <2>2. /\ S \in SUBSET ma_sused /\ Drop(S)
        /\ UNCHANGED <<layout, ma_numalign, ma_hp, ma_hused, ma_hfree>>
    BY <1>7 DEF ChopStack
  <2> HIDE DEF S
  <2> QED
    BY <2>1, <2>2, DroppedAligned
<1>8. ASSUME NEW v \in layout.later, SetNumalign(v)
      PROVE  AlignedInv'
  <2>1. UNCHANGED <<layout, ma_hp, ma_hused, ma_hfree, ma_sused, ad>>
    BY <1>8 DEF SetNumalign
  <2>2. Aligned(ma_hp') /\ \A b \in Heap' \cup ma_sused' : Aligned(b)
    BY <2>1 DEF AlignedInv, Heap
  <2>3. Used' = Used
    BY <2>1 DEF Used
  <2> QED
    BY <2>1, <2>2, <2>3, AlignedKept
<1>9. ASSUME UNCHANGED mavars
      PROVE  AlignedInv'
  <2>1. UNCHANGED <<layout, ma_hp, ma_hused, ma_hfree, ma_sused, ad>>
    BY <1>9 DEF mavars
  <2>2. Aligned(ma_hp') /\ \A b \in Heap' \cup ma_sused' : Aligned(b)
    BY <2>1 DEF AlignedInv, Heap
  <2>3. Used' = Used
    BY <2>1 DEF Used
  <2> QED
    BY <2>1, <2>2, <2>3, AlignedKept
<1> QED
  BY <1>1, <1>2, <1>3, <1>4, <1>5, <1>6, <1>7, <1>8, <1>9 DEF MaNext

\* Whatever a process allocates and releases, in whole or in part, heap and
\* stack do not meet, no block is lost or overlaps another, and free blocks
\* are coalesced.
THEOREM BlocksStaySound == MaSpec => []BlocksSound
<1>1. MaSpec => []Inv
  BY Initially, Inductive, PTL DEF MaSpec
<1>2. Inv => BlocksSound
  BY DEF Inv, MaInv
<1> QED
  BY <1>1, <1>2, PTL

\* The space a client asked for, less what it gave back, stays inside its
\* block with both guards, if the alignment is not changed; descriptors are
\* aligned, and the space is where its type wants it, unless the type's length
\* does not divide the number of words and its base is above the segment.
THEOREM ClientsStaySound == MaSpec => []ClientsSound
<1>1. MaInit => Inv /\ AlignedInv
  BY Initially, AlignedInitially
<1>2. Inv /\ AlignedInv /\ [MaNext]_mavars => (Inv /\ AlignedInv)'
  BY Inductive, AlignedInductive
<1>3. Inv /\ AlignedInv => ClientsSound
  <2> SUFFICES ASSUME Inv, AlignedInv PROVE ClientsSound
    OBVIOUS
  <2>1. ClientsInside
    BY DEF Inv, ClientsInv
  <2>2. ClientsAligned
    BY DEF AlignedInv, Aligned, Suits, ClientsAligned, Used, Heap
  <2> QED
    BY <2>1, <2>2 DEF ClientsSound
<1> QED
  BY <1>1, <1>2, <1>3, PTL DEF MaSpec

-----------------------------------------------------------------------------
(* The inquiries *)

\* A larger value is not rounded to a smaller one.
LEMMA RoundedMonotone ==
    ASSUME NEW u \in Nat \ {0}, NEW v \in Int, NEW w \in Int, v <= w
    PROVE  Rounded(v, u) <= Rounded(w, u)
<1> DEFINE x == Rounded(v, u)
           y == Rounded(w, u)
<1>1. x \in Int /\ x < v + u /\ x % u = 0
  BY RoundedUp, RoundedMultiple
<1>2. y \in Int /\ w <= y /\ y % u = 0
  BY RoundedUp, RoundedMultiple
<1> HIDE DEF x, y
<1>3. ASSUME y < x PROVE FALSE
  <2>4. (x - y) % u = 0
    BY <1>1, <1>2, MultipleSum
  <2>1. (x - y) % u = 0 /\ x - y \in Int
    BY <1>1, <1>2, <2>4
  <2>2. 0 < x - y /\ x - y < u
    BY <1>1, <1>2, <1>3
  <2>3. (x - y) % u = x - y
    BY <2>1, <2>2, SmallRemainder
  <2> QED
    BY <2>1, <2>2, <2>3
<1> QED
  BY <1>1, <1>2, <1>3 DEF x, y

\* ma_nelem is the largest number that fits, or zero.
LEMMA ElementsFit ==
    ASSUME layout \in Layouts, ma_numalign \in Nat \ {0},
           NEW t \in Type, NEW a \in Int, NEW len \in Int
    PROVE  /\ Elements(t, a, len) \in Nat
           /\ Elements(t, a, len) <= len \/ Elements(t, a, len) = 0
           /\ Elements(t, a, len) > 0 => BytesAfter(t, Elements(t, a, len), a) <= len
           /\ \A n \in Nat : BytesAfter(t, n, a) <= len /\ n > 0 => n <= Elements(t, a, len)
<1> DEFINE S == {0} \cup {n \in 0 .. len : BytesAfter(t, n, a) <= len}
           m == Elements(t, a, len)
<1>1. BLOCK_OVERHEAD_FIXED \in Nat
  BY AllocatorAssumption DEF BLOCK_OVERHEAD_FIXED
<1>2. ASSUME NEW n \in Nat, n > 0, BytesAfter(t, n, a) <= len
      PROVE  n \in 0 .. len /\ BLOCK_OVERHEAD_FIXED < len
  <2> DEFINE s == sizeof(t)
             c == ClientAfter(t, a)
             b == BytesAfter(t, n, a)
  <2>1. s \in Nat \ {0} /\ DescLen \in Nat /\ GuardLen \in Nat \ {0}
    BY Sizes
  <2>2. /\ c \in Int /\ b \in Nat \ {0}
        /\ a + DescLen + GuardLen <= c /\ c + n * s + GuardLen <= a + b
    BY RoomAfter
  <2>3. n <= n * s /\ n * s \in Nat
    BY <2>1
  <2> HIDE DEF s, c
  <2>4. DescLen + 2 * GuardLen + n <= b
    BY <2>1, <2>2, <2>3
  <2> HIDE DEF b
  <2>5. b <= len
    BY <1>2 DEF b
  <2> QED
    BY <1>2, <2>1, <2>2, <2>4, <2>5 DEF BLOCK_OVERHEAD_FIXED
<1>3. CASE BLOCK_OVERHEAD_FIXED < len
  <2>1. m = Greatest(S)
    BY <1>1, <1>3 DEF Elements
  <2>2. S \in SUBSET Int /\ S # {} /\ 0 \in S
    OBVIOUS
  <2>3. \A n \in S : n <= len
    BY <1>1, <1>3
  <2>4. Greatest(S) \in S /\ \A n \in S : n <= Greatest(S)
    <3> HIDE DEF S
    <3> QED
      BY <2>2, <2>3, GreatestIn
  <2>5. \A n \in Nat : BytesAfter(t, n, a) <= len /\ n > 0 => n \in S
    BY <1>2
  <2>6. m \in Nat /\ m <= len /\ (m > 0 => BytesAfter(t, m, a) <= len)
    <3>1. m \in S
      BY <2>1, <2>4
    <3> HIDE DEF m
    <3> QED
      BY <1>1, <1>3, <3>1
  <2>7. \A n \in Nat : BytesAfter(t, n, a) <= len /\ n > 0 => n <= m
    BY <2>1, <2>4, <2>5
  <2> HIDE DEF m
  <2> QED
    BY <2>6, <2>7 DEF m
<1>4. CASE ~(BLOCK_OVERHEAD_FIXED < len)
  <2>1. m = 0
    BY <1>1, <1>4 DEF Elements
  <2> QED
    BY <1>2, <1>4, <2>1
<1> QED
  BY <1>3, <1>4

\* The boundary between heap and stack
LEMMA PartitionPlace ==
    ASSUME layout \in Layouts
    PROVE  ma_partition \in Int
<1> DEFINE s == sizeof(layout.datatype)
           v == layout.nominal_heap * s + MaxOverhead(s)
<1>1. s \in Nat \ {0} /\ layout.nominal_heap \in Nat /\ ma_segment \in Int
  BY AllocatorAssumption DEF sizeof, ma_segment
<1>2. layout.nominal_heap * s \in Nat
  BY <1>1, Times
<1>3. v \in Int
  BY <1>1, <1>2, AllocatorAssumption DEF MaxOverhead, BLOCK_OVERHEAD_FIXED
<1>4. ma_partition = ma_segment + Rounded(v, ALIGNMENT)
  BY DEF ma_partition, RegionLen
<1> HIDE DEF v
<1>5. Rounded(v, ALIGNMENT) \in Int
  BY <1>3, AllocatorAssumption, RoundedUp
<1> QED
  BY <1>1, <1>4, <1>5

\* What ma_max_heap_frag_nelem answers there is a free block for; and it is as
\* much as any free block before the partition has.
LEMMA FragmentFits ==
    ASSUME Inv, NEW t \in Type
    PROVE  /\ Fragment(t) \in Nat
           /\ Fragment(t) > 0 => BigEnough(t, Fragment(t)) # {}
           /\ \A f \in ma_hfree, n \in Nat :
                 End(f, nbytes) <= ma_partition /\ n > 0 /\ BytesAfter(t, n, f) <= nbytes[f]
                 => n <= Fragment(t)
<1> DEFINE room(f) == Smaller(nbytes[f], ma_partition - f)
           F == {g \in ma_hfree : g < ma_partition}
           S == {0} \cup {Elements(t, f, room(f)) : f \in F}
           m == Fragment(t)
<1>1. layout \in Layouts /\ ma_numalign \in Nat \ {0} /\ ma_hp \in Int /\ ma_segment \in Int
  BY Known
<1>2. ma_partition \in Int
  BY <1>1, PartitionPlace
<1>3. \A f \in ma_hfree : /\ f \in Int /\ nbytes[f] \in Int /\ ma_segment <= f
                          /\ f < End(f, nbytes) /\ End(f, nbytes) <= ma_hp
  BY Known DEF Heap, Tiles
<1>4. \A f \in ma_hfree : room(f) \in Int /\ room(f) <= nbytes[f]
  BY <1>2, <1>3 DEF Smaller
<1>5. ASSUME NEW f \in ma_hfree
      PROVE  /\ Elements(t, f, room(f)) \in Nat
             /\ Elements(t, f, room(f)) <= ma_hp - ma_segment
             /\ Elements(t, f, room(f)) > 0
                  => BytesAfter(t, Elements(t, f, room(f)), f) <= room(f)
             /\ \A n \in Nat : BytesAfter(t, n, f) <= room(f) /\ n > 0
                  => n <= Elements(t, f, room(f))
  <2>1. f \in Int /\ room(f) \in Int
    BY <1>3, <1>4
  <2>2. nbytes[f] <= ma_hp - ma_segment /\ 0 <= ma_hp - ma_segment /\ nbytes[f] \in Int
    BY <1>1, <1>3 DEF End
  <2>3. room(f) <= nbytes[f]
    BY <1>4
  <2> HIDE DEF room
  <2>4. /\ Elements(t, f, room(f)) \in Nat
        /\ Elements(t, f, room(f)) <= room(f) \/ Elements(t, f, room(f)) = 0
        /\ Elements(t, f, room(f)) > 0
              => BytesAfter(t, Elements(t, f, room(f)), f) <= room(f)
        /\ \A n \in Nat : BytesAfter(t, n, f) <= room(f) /\ n > 0
              => n <= Elements(t, f, room(f))
    BY <1>1, <2>1, ElementsFit
  <2> QED
    BY <1>1, <2>1, <2>2, <2>3, <2>4
<1>6. m = Greatest(S)
  BY DEF Fragment
<1>7. Greatest(S) \in S /\ \A n \in S : n <= Greatest(S)
  <2>1. S \in SUBSET Int /\ S # {}
    BY <1>5
  <2>2. \A n \in S : n <= ma_hp - ma_segment /\ ma_hp - ma_segment \in Int
    <3>1. 0 <= ma_hp - ma_segment
      <4>1. ma_segment \in Heap \cup {ma_hp}
        BY Known DEF Tiles
      <4>2. \A b \in Heap : b < ma_hp /\ b \in Int
        BY Apart, Known DEF Inv
      <4> QED
        BY <1>1, <4>1, <4>2
    <3> QED
      BY <1>1, <1>5, <3>1
  <2>3. ma_hp - ma_segment \in Int
    BY <1>1
  <2> HIDE DEF S
  <2> QED
    BY <2>1, <2>2, <2>3, GreatestIn
<1>8. m \in Nat
  BY <1>5, <1>6, <1>7
<1>9. ASSUME m > 0 PROVE BigEnough(t, m) # {}
  <2>1. PICK f \in F : m = Elements(t, f, room(f))
    <3>1. m \in S
      BY <1>6, <1>7
    <3> HIDE DEF m
    <3>2. m # 0
      BY <1>8, <1>9
    <3> HIDE DEF F
    <3> QED
      BY <3>1, <3>2
  <2>2. BytesAfter(t, m, f) <= room(f) /\ BytesAfter(t, m, f) \in Int
    BY <1>1, <1>3, <1>5, <1>8, <1>9, <2>1, RoomAfter
  <2>3. BytesAfter(t, m, f) <= nbytes[f]
    <3>1. room(f) \in Int /\ room(f) <= nbytes[f] /\ nbytes[f] \in Int
      BY <1>3, <1>4
    <3> HIDE DEF room, m
    <3> QED
      BY <2>2, <3>1
  <2> HIDE DEF m
  <2> QED
    BY <2>3 DEF BigEnough
<1>10. ASSUME NEW f \in ma_hfree, NEW n \in Nat, End(f, nbytes) <= ma_partition, n > 0,
              BytesAfter(t, n, f) <= nbytes[f]
       PROVE  n <= m
  <2>1. f \in F /\ room(f) = nbytes[f]
    BY <1>2, <1>3, <1>10 DEF End, Smaller
  <2>2. Elements(t, f, room(f)) \in S
    BY <2>1
  <2>3. n <= Elements(t, f, room(f)) /\ Elements(t, f, room(f)) \in Nat
    BY <1>5, <1>10, <2>1
  <2>4. Elements(t, f, room(f)) <= m
    BY <1>6, <1>7, <2>2
  <2> HIDE DEF room, m
  <2> QED
    BY <1>8, <2>3, <2>4
<1> QED
  BY <1>8, <1>9, <1>10

\* Without an alignment of client spaces, a block has no more overhead than
\* MA_init reckons with.
LEMMA OverheadBound ==
    ASSUME layout \in Layouts, ma_numalign = 1,
           NEW t \in Type, NEW n \in Nat, NEW a \in Int
    PROVE  LET most == Rounded(n * sizeof(t) + MaxOverhead(sizeof(t)), ALIGNMENT)
           IN  /\ BytesAfter(t, n, a) \in Nat /\ BytesAfter(t, n, a) <= most
               /\ BytesBefore(t, n, a) \in Nat /\ BytesBefore(t, n, a) <= most
               /\ most \in Int
<1> DEFINE s == sizeof(t)
           w == n * s + MaxOverhead(s)
           most == Rounded(w, ALIGNMENT)
<1>1. s \in Nat \ {0} /\ base(t) \in Nat /\ n * s \in Nat
  BY Sizes, Times
<1>2. DescLen \in Nat /\ GuardLen \in Nat \ {0} /\ ALIGNMENT \in Nat \ {0}
      /\ Word \in Nat \ {0}
  BY Sizes, AllocatorAssumption
<1>3. w = n * s + (DescLen + 2 * GuardLen + (s - 1) + (ALIGNMENT - 1))
  BY DEF MaxOverhead, BLOCK_OVERHEAD_FIXED
<1>4. w \in Int
  <2> HIDE DEF w, s
  <2> QED
    BY <1>1, <1>2, <1>3
<1>5. most \in Int /\ w <= most
  <2> HIDE DEF w
  <2> QED
    BY <1>2, <1>4, RoundedUp
<1>6. BytesAfter(t, n, a) \in Nat /\ BytesAfter(t, n, a) <= most
  <2> DEFINE y == base(t) - a - DescLen - GuardLen
             g == y % s
             c == a + DescLen + g + GuardLen
             v == ClientAfter(t, a) + n * s + GuardLen - a
  <2>1. g \in 0 .. s - 1
    <3>1. y \in Int
      BY <1>1, <1>2
    <3> HIDE DEF y
    <3> QED
      BY <1>1, <3>1, Remainder
  <2>2. ClientAfter(t, a) = c
    <3>1. c \in Int
      <4> HIDE DEF g
      <4> QED
        BY <1>1, <1>2, <2>1
    <3>2. ClientAfter(t, a) = Up(c, s)
      BY DEF ClientAfter
    <3> HIDE DEF c
    <3>3. (-c) % 1 = 0
      BY <3>1
    <3>4. c + 0 = c
      BY <3>1
    <3> QED
      BY <3>2, <3>3, <3>4 DEF Up
  <2>3. c = a + DescLen + g + GuardLen
    OBVIOUS
  <2>4. v = ClientAfter(t, a) + n * s + GuardLen - a
    OBVIOUS
  <2>5. BytesAfter(t, n, a) = Rounded(v, ALIGNMENT)
    BY DEF BytesAfter
  <2> HIDE DEF c, v, g, s, w
  <2>6. v \in Int /\ v <= w
    BY <1>1, <1>2, <1>3, <2>1, <2>2, <2>3, <2>4
  <2>7. Rounded(v, ALIGNMENT) <= Rounded(w, ALIGNMENT)
    BY <1>2, <1>4, <2>6, RoundedMonotone
  <2>8. BytesAfter(t, n, a) \in Nat
    BY <1>2, RoomAfter
  <2> QED
    BY <2>5, <2>7, <2>8
<1>7. BytesBefore(t, n, a) \in Nat /\ BytesBefore(t, n, a) <= most
  <2> DEFINE f == a - GuardLen - n * s
             y == (f - base(t)) % Word
             g == y % s
             c == ClientBefore(t, n, a)
             x == c - GuardLen - DescLen
             h == x % ALIGNMENT
  <2>1. f \in Int /\ f = a - GuardLen - n * s
    BY <1>1, <1>2
  <2>2. g \in 0 .. s - 1
    <3>1. f - base(t) \in Int
      BY <1>1, <2>1
    <3>2. y \in Int
      <4> HIDE DEF f
      <4> QED
        BY <1>2, <3>1, Remainder
    <3> HIDE DEF y
    <3> QED
      BY <1>1, <3>2, Remainder
  <2>3. c = f - g
    <3>1. c = Down(f - g, s)
      BY DEF ClientBefore
    <3>2. f - g \in Int
      <4> HIDE DEF f, g
      <4> QED
        BY <1>1, <2>1, <2>2
    <3> DEFINE k == f - g
    <3>3. c = Down(k, s) /\ k \in Int
      BY <3>1, <3>2
    <3> HIDE DEF k, c
    <3>4. k % 1 = 0 /\ k - 0 = k
      BY <3>3
    <3>5. c = k
      BY <3>3, <3>4 DEF Down
    <3> QED
      BY <3>5 DEF k
  <2> HIDE DEF f, g
  <2>4. c \in Int
    BY <1>1, <2>1, <2>2, <2>3
  <2>5. h \in 0 .. ALIGNMENT - 1
    <3>1. x \in Int
      BY <1>2, <2>4
    <3> HIDE DEF x
    <3> QED
      BY <1>2, <3>1, Remainder
  <2>6. BytesBefore(t, n, a) = a - c + GuardLen + h + DescLen
    BY DEF BytesBefore
  <2>7. BytesBefore(t, n, a) \in Nat
    BY RoomBefore
  <2> HIDE DEF c, h, s, w
  <2>8. BytesBefore(t, n, a) <= w
    BY <1>1, <1>2, <1>3, <2>1, <2>2, <2>3, <2>5, <2>6
  <2> HIDE DEF most
  <2> QED
    BY <1>4, <1>5, <2>7, <2>8
<1> QED
  BY <1>5, <1>6, <1>7

\* When nothing is used the gap is the whole segment.
LEMMA NothingUsed ==
    ASSUME Inv, Used = {}
    PROVE  ma_hp = ma_segment /\ ma_sp = ma_eos
<1>1. ma_hused = {} /\ ma_sused = {}
  BY DEF Used
<1>2. ma_hfree = {}
  BY <1>1 DEF Inv, MaInv, BlocksSound
<1>3. ma_segment \in {} \cup {ma_hp} /\ ma_sp \in {} \cup {ma_eos}
  BY <1>1, <1>2, Known DEF Heap, Tiles
<1> QED
  BY <1>3

\* What an inquiry promises is granted, no more than MA_inquire_heap_no_partition
\* says is granted unless a free block reaches beyond the partition, and a
\* process that has nothing can have what it asked MA_init for.
THEOREM InquiriesStayTrue == MaSpec => []InquiriesHold
<1>1. MaSpec => []Inv
  BY Initially, Inductive, PTL DEF MaSpec
<1>2. Inv => InquiriesHold
  <2> SUFFICES ASSUME Inv PROVE InquiriesHold
    OBVIOUS
  <2>1. /\ layout \in Layouts /\ ma_numalign \in Nat \ {0}
        /\ ma_hp \in Int /\ ma_sp \in Int /\ ma_hp <= ma_sp
    BY Known
  <2>2. ma_partition \in Int
    BY <2>1, PartitionPlace
  <2>3. ASSUME NEW t \in Type, NEW len \in Int, len <= ma_sp - ma_hp
        PROVE  /\ Larger(Gap(t, ma_hp, len), Fragment(t)) \in Nat
               /\ Larger(Gap(t, ma_hp, len), Fragment(t)) > 0
                    => HeapGrants(t, Larger(Gap(t, ma_hp, len), Fragment(t)))
               /\ Gap(t, ma_hp, len) <= Larger(Gap(t, ma_hp, len), Fragment(t))
               /\ Fragment(t) <= Larger(Gap(t, ma_hp, len), Fragment(t))
    <3> DEFINE g == Gap(t, ma_hp, len)
               k == Fragment(t)
    <3>1. g \in Nat /\ (g > 0 => BytesAfter(t, g, ma_hp) <= len)
      BY <2>1, ElementsFit DEF Gap
    <3>2. k \in Nat /\ (k > 0 => BigEnough(t, k) # {})
      BY FragmentFits
    <3>3. Larger(g, k) \in {g, k} /\ g <= Larger(g, k) /\ k <= Larger(g, k)
      <4> HIDE DEF g, k
      <4> QED
        BY <3>1, <3>2 DEF Larger
    <3>4. ASSUME g > 0 PROVE HeapGrants(t, g)
      <4>1. BytesAfter(t, g, ma_hp) \in Nat /\ BytesAfter(t, g, ma_hp) <= len
        <5> HIDE DEF g
        <5> QED
          BY <2>1, <3>1, <3>4, RoomAfter
      <4> HIDE DEF g
      <4>2. ma_hp + BytesAfter(t, g, ma_hp) <= ma_sp
        BY <2>1, <2>3, <4>1
      <4> QED
        BY <4>2 DEF HeapGrants
    <3>5. ASSUME k > 0 PROVE HeapGrants(t, k)
      BY <3>2, <3>5 DEF HeapGrants
    <3> HIDE DEF g, k
    <3>6. Larger(g, k) \in Nat /\ (Larger(g, k) > 0 => HeapGrants(t, Larger(g, k)))
      BY <3>1, <3>2, <3>3, <3>4, <3>5
    <3> QED
      BY <3>3, <3>6 DEF g, k
  <2>4. ASSUME NEW t \in Type
        PROVE  InquireHeapCheckStack(t) > 0 => HeapGrants(t, InquireHeapCheckStack(t))
    <3> DEFINE len == Smaller(ma_partition - ma_hp, ma_sp - ma_hp)
    <3>1. len \in Int /\ len <= ma_sp - ma_hp
      BY <2>1, <2>2 DEF Smaller
    <3>2. InquireHeapCheckStack(t) = Larger(Gap(t, ma_hp, len), Fragment(t))
      BY DEF InquireHeapCheckStack
    <3> HIDE DEF len
    <3> QED
      BY <2>3, <3>1, <3>2
  <2>5. ASSUME NEW t \in Type
        PROVE  /\ InquireHeapNoPartition(t) \in Nat
               /\ InquireHeapNoPartition(t) > 0 => HeapGrants(t, InquireHeapNoPartition(t))
               /\ Gap(t, ma_hp, ma_sp - ma_hp) <= InquireHeapNoPartition(t)
               /\ Fragment(t) <= InquireHeapNoPartition(t)
    <3> DEFINE len == ma_sp - ma_hp
    <3>1. len \in Int /\ len <= ma_sp - ma_hp
      BY <2>1
    <3>2. InquireHeapNoPartition(t) = Larger(Gap(t, ma_hp, len), Fragment(t))
      BY DEF InquireHeapNoPartition
    <3> HIDE DEF len
    <3>3. /\ Larger(Gap(t, ma_hp, len), Fragment(t)) \in Nat
          /\ Larger(Gap(t, ma_hp, len), Fragment(t)) > 0
               => HeapGrants(t, Larger(Gap(t, ma_hp, len), Fragment(t)))
          /\ Gap(t, ma_hp, len) <= Larger(Gap(t, ma_hp, len), Fragment(t))
          /\ Fragment(t) <= Larger(Gap(t, ma_hp, len), Fragment(t))
      BY <2>3, <3>1
    <3> QED
      BY <3>2, <3>3 DEF len
  <2>6. ASSUME NEW t \in Type, \A f \in ma_hfree : End(f, nbytes) <= ma_partition,
               HeapGrants(t, InquireHeapNoPartition(t) + 1)
        PROVE  FALSE
    <3> DEFINE n == InquireHeapNoPartition(t) + 1
               len == ma_sp - ma_hp
    <3>1. n \in Nat /\ n > 0 /\ InquireHeapNoPartition(t) < n
      BY <2>5
    <3>2. HeapGrants(t, n)
      BY <2>6
    <3>3. Fragment(t) < n /\ Gap(t, ma_hp, len) < n
      <4>1. Fragment(t) \in Nat
        BY FragmentFits
      <4>2. Gap(t, ma_hp, len) \in Nat
        BY <2>1, ElementsFit DEF Gap
      <4> QED
        BY <2>5, <3>1, <4>1, <4>2
    <3> HIDE DEF n
    <3>4. CASE BigEnough(t, n) # {}
      <4>1. PICK f \in ma_hfree : BytesAfter(t, n, f) <= nbytes[f]
        BY <3>4 DEF BigEnough
      <4>2. n <= Fragment(t) /\ Fragment(t) \in Nat
        BY <2>6, <3>1, <4>1, FragmentFits
      <4> QED
        BY <3>1, <3>3, <4>2
    <3>5. CASE ma_hp + BytesAfter(t, n, ma_hp) <= ma_sp
      <4>1. BytesAfter(t, n, ma_hp) \in Nat \ {0}
        BY <2>1, <3>1, RoomAfter
      <4>2. BytesAfter(t, n, ma_hp) <= len /\ len > 0 /\ len \in Int
        BY <2>1, <3>5, <4>1
      <4> HIDE DEF len
      <4>3. n <= Elements(t, ma_hp, len) /\ Elements(t, ma_hp, len) \in Nat
        BY <2>1, <3>1, <4>2, ElementsFit
      <4>4. Gap(t, ma_hp, len) = Elements(t, ma_hp, len)
        BY <4>2 DEF Gap
      <4> QED
        BY <3>1, <3>3, <4>3, <4>4
    <3> QED
      BY <3>2, <3>4, <3>5 DEF HeapGrants
  <2>7. ASSUME Used = {}, ma_numalign = 1
        PROVE  BytesAfter(layout.datatype, layout.nominal_heap, ma_hp)
                 + BytesBefore(layout.datatype, layout.nominal_stack, ma_sp)
                 <= ma_sp - ma_hp
    <3>1. /\ layout.datatype \in Type /\ layout.nominal_heap \in Nat
          /\ layout.nominal_stack \in Nat
      BY <2>1, AllocatorAssumption DEF Type
    <3>2. /\ BytesAfter(layout.datatype, layout.nominal_heap, ma_hp) \in Nat
          /\ BytesAfter(layout.datatype, layout.nominal_heap, ma_hp)
               <= RegionLen(layout.nominal_heap)
          /\ RegionLen(layout.nominal_heap) \in Int
      BY <2>1, <2>7, <3>1, OverheadBound DEF RegionLen
    <3>3. /\ BytesBefore(layout.datatype, layout.nominal_stack, ma_sp) \in Nat
          /\ BytesBefore(layout.datatype, layout.nominal_stack, ma_sp)
               <= RegionLen(layout.nominal_stack)
          /\ RegionLen(layout.nominal_stack) \in Int
      BY <2>1, <2>7, <3>1, OverheadBound DEF RegionLen
    <3>4. ma_sp = ma_hp + RegionLen(layout.nominal_heap) + RegionLen(layout.nominal_stack)
      BY <2>7, NothingUsed DEF ma_eos, ma_partition
    <3> QED
      BY <2>1, <3>2, <3>3, <3>4
  <2> QED
    BY <2>4, <2>5, <2>6, <2>7 DEF InquiriesHold
<1> QED
  BY <1>1, <1>2, PTL

=============================================================================
