------------------------------- MODULE NbHandles -------------------------------
(***************************************************************************)
(* The handles of GA's non-blocking calls, global/src/nbutil.c.  A call    *)
(* fills in a handle of the program with the index of a slot and a tag,    *)
(* and puts one list element, which holds the handle of one ARMCI request, *)
(* into the list of that slot for each remote block it touches.  There are *)
(* NUM_HDLS slots and NUM_HDLS elements: when either kind runs out, one in *)
(* use is completed and taken over, round robin.  A wait recognises by the *)
(* tag that its slot has been taken over.                                  *)
(*                                                                         *)
(* The caller is one thread; the network completes requests at any time.   *)
(* A list is modelled as the set of its elements: only the order in which  *)
(* they are waited for depends on the order of the list.                   *)
(***************************************************************************)
EXTENDS Integers, FiniteSets

CONSTANTS
    Handle,       \* the handle variables of the program
    NumHdls,      \* NUM_HDLS, nbutil.c:13
    TagSpan,      \* 2^24: the number of values of the field ga_nbtag
    MaxRequests,  \* the most ARMCI requests of one call
    Programs      \* the kinds of program: the most handles it leaves
                  \* unwaited, and whether it uses block-cyclic arrays

ASSUME NbAssumption ==
    /\ IsFiniteSet(Handle)
    /\ NumHdls \in Nat \ {0}
    /\ TagSpan \in Nat \ {0}
    /\ MaxRequests \in Nat
    /\ Programs \subseteq [open : Nat, cyclic : BOOLEAN]

Slot    == 0 .. NumHdls - 1
Element == 0 .. NumHdls - 1
Tag     == 0 .. TagSpan - 1

\* ihdl_index of a handle that has no slot yet
NoSlot == NumHdls + 1

VARIABLES
    program,  \* the kind of program that runs
    hdl,      \* the handles as the program holds them
    list,     \* ga_ihdl_array[].ahandle: the elements of each slot
    slotTag,  \* ga_ihdl_array[].ga_nbtag
    free,     \* ihdl_array_avail: slots marked as free
    unused,   \* list_ele_avail: elements marked as free
    oldest,   \* nextIHAelement and nextLEAelement (-1 acts as 0)
    lastTag,  \* ga_nb_tag, as far as a handle can hold it
    left,     \* requests the call in progress with a handle still has to make
    open,     \* handles whose last call was not waited for (history)
    pending   \* elements with a request that is not complete, and the
              \* handle it was made for

nbvars == <<program, hdl, list, slotTag, free, unused, oldest, lastTag, left, open,
            pending>>

First(S) == CHOOSE i \in S : \A j \in S : i <= j
Following(i) == (i + 1) % NumHdls

\* No call is in progress.
Idle == \A h \in Handle : left[h] = 0

\* A program has its handles in static storage.
NbInit ==
    /\ program \in Programs
    /\ hdl = [h \in Handle |-> [slot |-> 0, tag |-> 0]]
    /\ list = [s \in Slot |-> {}]
    /\ slotTag = [s \in Slot |-> 0]
    /\ free = Slot
    /\ unused = Element
    /\ oldest = [slot |-> 0, element |-> 0]
    /\ lastTag = 0
    /\ left = [h \in Handle |-> 0]
    /\ open = {}
    /\ pending = {}

-----------------------------------------------------------------------------
(* The calls of GA *)

\* The program starts a call of n requests with a handle it has waited for.
Start(h, n) ==
    /\ Idle
    /\ h \notin open
    /\ Cardinality(open) < program.open
    /\ open' = open \cup {h}
    /\ left' = [left EXCEPT ![h] = n]

\* An accumulate to a regular array, or with n = 0 a put or get: these move
\* their data by blocking requests.  The handle is initialised.
NbCall(h, n) ==
    /\ Start(h, n)
    /\ hdl' = [hdl EXCEPT ![h].slot = NoSlot]
    /\ UNCHANGED <<program, list, slotTag, free, unused, oldest, lastTag, pending>>

\* A call for a block-cyclic array: one request for each block, and no
\* initialisation of the handle.
NbCallCyclic(h, n) ==
    /\ program.cyclic /\ n > 0
    /\ Start(h, n)
    /\ UNCHANGED <<program, hdl, list, slotTag, free, unused, oldest, lastTag, pending>>

-----------------------------------------------------------------------------
(* get_armci_nbhandle, before each request of a call *)

Making(h) == left[h] > 0

\* Mutant: the slot does not get the tag.
KeepTagAlone(h, s) ==
    /\ lastTag' = (lastTag + 1) % TagSpan
    /\ hdl' = [hdl EXCEPT ![h] = [slot |-> s, tag |-> lastTag']]
    /\ UNCHANGED slotTag

\* get_next_tag, and the tag goes to the handle and from there to the slot.
KeepTag(h, s) ==
    /\ lastTag' = (lastTag + 1) % TagSpan
    /\ hdl' = [hdl EXCEPT ![h] = [slot |-> s, tag |-> lastTag']]
    /\ slotTag' = [slotTag EXCEPT ![s] = lastTag']

\* get_GAnbhdl_element: the first request of a call takes a free slot, ...
TakeSlot(h) ==
    /\ Making(h) /\ hdl[h].slot = NoSlot
    /\ free # {}
    /\ LET s == First(free)
       IN  /\ KeepTag(h, s)
           /\ free' = free \ {s}
    /\ UNCHANGED <<program, list, unused, oldest, left, open, pending>>

\* ... or completes the requests of the slot whose turn it is and takes it.
\* free_armci_handle_list marks it as free, and so it stays.
EvictSlot(h) ==
    /\ Making(h) /\ hdl[h].slot = NoSlot
    /\ free = {}
    /\ LET s == oldest.slot
       IN  /\ KeepTag(h, s)
           /\ free' = {s}
           /\ oldest' = [oldest EXCEPT !.slot = Following(s)]
           /\ unused' = unused \cup list[s]
           /\ pending' = {q \in pending : q[1] \notin list[s]}
           /\ list' = [list EXCEPT ![s] = {}]
    /\ UNCHANGED <<program, left, open>>

\* Mutant: an element that is taken over stays in the list it was in.
MakeRequestLinked(h, e) ==
    /\ list' = [list EXCEPT ![hdl[h].slot] = @ \cup {e}]
    /\ pending' = {q \in pending : q[1] # e} \cup {<<e, h>>}
    /\ left' = [left EXCEPT ![h] = @ - 1]

\* add_armcihdl_to_list, and the request is made.
MakeRequest(h, e) ==
    /\ list' = [s \in Slot |-> IF s = hdl[h].slot THEN list[s] \cup {e}
                               ELSE list[s] \ {e}]
    /\ pending' = {q \in pending : q[1] # e} \cup {<<e, h>>}
    /\ left' = [left EXCEPT ![h] = @ - 1]

\* get_armcihdl: the next request takes a free element, ...
TakeElement(h) ==
    /\ Making(h) /\ hdl[h].slot # NoSlot
    /\ unused # {}
    /\ LET e == First(unused)
       IN  /\ MakeRequest(h, e)
           /\ unused' = unused \ {e}
    /\ UNCHANGED <<program, hdl, slotTag, free, oldest, lastTag, open>>

\* ... or completes the request of the element whose turn it is: it leaves
\* the list it was in (clear_list_element) and joins that of the call.
EvictElement(h) ==
    /\ Making(h) /\ hdl[h].slot # NoSlot
    /\ unused = {}
    /\ MakeRequest(h, oldest.element)
    /\ oldest' = [oldest EXCEPT !.element = Following(@)]
    /\ UNCHANGED <<program, hdl, slotTag, free, unused, lastTag, open>>

-----------------------------------------------------------------------------
(* Completion *)

\* The slot of the handle still holds the requests of its call.
Valid(h) == hdl[h].slot \in Slot /\ slotTag[hdl[h].slot] = hdl[h].tag

\* Mutant: the slot is marked as free, its list is not completed.
WaitForgets(h) ==
    /\ Idle
    /\ open' = open \ {h}
    /\ IF Valid(h)
       THEN /\ free' = free \cup {hdl[h].slot}
            /\ slotTag' = [slotTag EXCEPT ![hdl[h].slot] = 0]
            /\ UNCHANGED <<program, unused, pending, list>>
       ELSE UNCHANGED <<free, unused, slotTag, pending, list>>
    /\ UNCHANGED <<program, hdl, oldest, lastTag, left>>

\* nga_wait_internal, with free_armci_handle_list.  The handle keeps its
\* contents, and may be waited for again.
Wait(h) ==
    /\ Idle
    /\ open' = open \ {h}
    /\ IF Valid(h)
       THEN LET s == hdl[h].slot
            IN  /\ free' = free \cup {s}
                /\ slotTag' = [slotTag EXCEPT ![s] = 0]
                /\ unused' = unused \cup list[s]
                /\ pending' = {q \in pending : q[1] \notin list[s]}
                /\ list' = [list EXCEPT ![s] = {}]
       ELSE UNCHANGED <<free, unused, slotTag, pending, list>>
    /\ UNCHANGED <<program, hdl, oldest, lastTag, left>>

\* The request of an element completes in the network.
Complete(e) ==
    /\ \E q \in pending : q[1] = e
    /\ pending' = {q \in pending : q[1] # e}
    /\ UNCHANGED <<program, hdl, list, slotTag, free, unused, oldest, lastTag, left,
                   open>>

\* The request of an element is complete: ARMCI_Test of it answers 0.
Tested(e) == \A q \in pending : q[1] # e

\* nga_test_internal answers 0, as ARMCI_Test does for "complete": for a call
\* without requests, for one whose slot was taken over, and for any other as
\* soon as one request of its list is complete.  It answers 1 as long as all
\* are under way, and for an empty list.
TestZero(h) ==
    Valid(h) => \E e \in list[hdl[h].slot] : Tested(e)

NbNext ==
    \/ \E h \in Handle, n \in 0 .. MaxRequests : NbCall(h, n)
    \/ \E h \in Handle, n \in 1 .. MaxRequests : NbCallCyclic(h, n)
    \/ \E h \in Handle : TakeSlot(h) \/ EvictSlot(h)
    \/ \E h \in Handle : TakeElement(h) \/ EvictElement(h)
    \/ \E h \in Handle : Wait(h)
    \/ \E e \in Element : Complete(e)

NbSpec == NbInit /\ [][NbNext]_nbvars

-----------------------------------------------------------------------------
(* Properties *)

NbTypeOK ==
    /\ program \in Programs
    /\ hdl \in [Handle -> [slot : Slot \cup {NoSlot}, tag : Tag]]
    /\ list \in [Slot -> SUBSET Element]
    /\ slotTag \in [Slot -> Tag]
    /\ free \subseteq Slot
    /\ unused \subseteq Element
    /\ oldest \in [slot : Slot, element : Element]
    /\ lastTag \in Tag
    /\ left \in [Handle -> 0 .. MaxRequests]
    /\ open \subseteq Handle
    /\ pending \subseteq Element \X Handle

\* A wait returns when every request of the call is complete: a request under
\* way belongs to a handle that was not waited for since (onesided.c:396, "wait
\* for a non-blocking call to complete").
EveryWaitCompletes == \A q \in pending : q[2] \in open

\* A program that leaves no more handles unwaited than there are slots, and
\* whose handles are initialised by every call.
Modest == program.open <= NumHdls /\ ~program.cyclic

\* For such a program waits complete, though elements are taken over and tags
\* repeat.
WaitCompletes == Modest => EveryWaitCompletes

\* The list of the slot has no more than one element, so that a test which
\* stops at the first complete one has seen them all.
Single(h) == Valid(h) => Cardinality(list[hdl[h].slot]) <= 1

\* In such a program a test that answers 0 (comex.h:656, "0-completed") is right
\* about a call with one request.
TestTruthful ==
    Modest /\ Idle =>
        \A h \in open : Single(h) /\ TestZero(h) => \A q \in pending : q[2] # h

\* An element that is marked as free is in no list, and every other element is
\* in exactly one: nothing leaks, and no request is completed twice.
ListsSound ==
    /\ unused = Element \ UNION {list[s] : s \in Slot}
    /\ \A s, t \in Slot : s # t => list[s] \cap list[t] = {}
=============================================================================
