-------------------------------- MODULE MemLock --------------------------------
(***************************************************************************)
(* ARMCI's lock of an area of memory, armci/src/locks/memlock.c, which     *)
(* makes accumulates atomic.  The table of one owner, in shared memory,    *)
(* has MAX_SLOTS slots for the areas that are locked.  A native lock is    *)
(* held to look at the table and to fill in a slot, but not to clear one.  *)
(*                                                                         *)
(* A process copies the table and inspects the copy; the copy is private,  *)
(* so a step of the model reads one slot and inspects it.  Addresses are   *)
(* numbers, and 0 is NULL.                                                 *)
(***************************************************************************)
EXTENDS Integers, ArmciProc

CONSTANTS
    Nobody,     \* no process
    Areas,      \* areas <<start, end>> that accumulates lock
    Line,       \* CALGN: bytes of a cache line
    MaxSlots,   \* MAX_SLOTS, include/memlock.h:7
    Stores      \* whether armci_put writes both words of a slot at once:
                \* the values that builds have

ASSUME MemLockAssumption ==
    /\ Nobody \notin Proc
    /\ Line \in Nat \ {0}
    /\ Areas \subseteq {a \in Nat \X Nat : Line <= a[1] /\ a[1] <= a[2]}
    /\ MaxSlots \in Nat \ {0}
    /\ Stores \subseteq BOOLEAN

Slots  == 0 .. MaxSlots - 1
NoSlot == -1
NULL   == 0

\* ALIGN_ADDRESS, and the last byte of its cache line
Align(x)   == (x \div Line) * Line
LineEnd(x) == Align(x) + Line - 1

VARIABLES
    whole,    \* this build writes a slot in one store
    table,    \* the slots, <<start, end>>
    native,   \* who holds the native lock
    at,       \* where each process is
    area,     \* the area it locks, in whole cache lines
    slot,     \* the slot it inspects
    avail     \* avail, and locked_slot when it has the area

memvars == <<whole, table, native, at, area, slot, avail>>

Start(e) == e[1]
End(e)   == e[2]

MemInit ==
    /\ whole \in Stores
    /\ table = [s \in Slots |-> <<NULL, NULL>>]
    /\ native = Nobody
    /\ at = [p \in Proc |-> "out"]
    /\ area = [p \in Proc |-> <<NULL, NULL>>]
    /\ slot = [p \in Proc |-> 0]
    /\ avail = [p \in Proc |-> NoSlot]

\* Mutant: the area is not extended to cache lines.
LockMemBytes(p, a) ==
    /\ at[p] = "out"
    /\ at' = [at EXCEPT ![p] = "native"]
    /\ area' = [area EXCEPT ![p] = a]
    /\ UNCHANGED <<whole, table, native, slot, avail>>

\* armci_lockmem is called.
LockMem(p, a) ==
    /\ at[p] = "out"
    /\ at' = [at EXCEPT ![p] = "native"]
    /\ area' = [area EXCEPT ![p] = <<Align(Start(a)), LineEnd(End(a))>>]
    /\ UNCHANGED <<whole, table, native, slot, avail>>

NativeLock(p) ==
    /\ at[p] = "native"
    /\ native = Nobody
    /\ native' = p
    /\ at' = [at EXCEPT ![p] = "inspect"]
    /\ slot' = [slot EXCEPT ![p] = 0]
    /\ avail' = [avail EXCEPT ![p] = NoSlot]
    /\ UNCHANGED <<whole, table, area>>

In(x, e) == Start(e) <= x /\ x <= End(e)

\* The test for an overlap, memlock.c:244
Conflict(a, e) == In(Start(a), e) \/ In(End(a), e)

Inspecting(p) == at[p] = "inspect" /\ slot[p] \in Slots

\* An empty slot is remembered, an area without conflict passed over.
NextSlot(p) ==
    /\ Inspecting(p)
    /\ \/ /\ Start(table[slot[p]]) = NULL
          /\ avail' = [avail EXCEPT ![p] = slot[p]]
       \/ /\ Start(table[slot[p]]) # NULL
          /\ ~Conflict(area[p], table[slot[p]])
          /\ UNCHANGED avail
    /\ slot' = [slot EXCEPT ![p] = @ + 1]
    /\ UNCHANGED <<whole, table, native, at, area>>

\* There is a conflict, or no empty slot: wait, and try again.
TryAgain(p) ==
    /\ \/ /\ Inspecting(p)
          /\ Start(table[slot[p]]) # NULL
          /\ Conflict(area[p], table[slot[p]])
       \/ at[p] = "inspect" /\ slot[p] = MaxSlots /\ avail[p] = NoSlot
    /\ native' = Nobody
    /\ at' = [at EXCEPT ![p] = "native"]
    /\ UNCHANGED <<whole, table, area, slot, avail>>

\* Mutant: the native lock is released before the slot is filled in.
EnterUnlocked(p) ==
    /\ at[p] \in {"inspect", "enter"}
    /\ slot[p] = MaxSlots /\ avail[p] # NoSlot
    /\ IF at[p] = "inspect"
       THEN /\ at' = [at EXCEPT ![p] = "enter"]
            /\ native' = Nobody
            /\ UNCHANGED table
       ELSE /\ at' = [at EXCEPT ![p] = "in"]
            /\ table' = [table EXCEPT ![avail[p]] = area[p]]
            /\ UNCHANGED native
    /\ UNCHANGED <<whole, area, slot, avail>>

\* The area is stored, FENCE_NODE, and the native lock released.
Enter(p) ==
    /\ at[p] = "inspect"
    /\ slot[p] = MaxSlots /\ avail[p] # NoSlot
    /\ table' = [table EXCEPT ![avail[p]] = area[p]]
    /\ native' = Nobody
    /\ at' = [at EXCEPT ![p] = "in"]
    /\ UNCHANGED <<whole, area, slot, avail>>

\* Mutant: the slot that was inspected last is cleared.
UnlockMemLast(p) ==
    /\ at[p] = "in"
    /\ table' = [table EXCEPT ![MaxSlots - 1] = <<NULL, NULL>>]
    /\ at' = [at EXCEPT ![p] = "out"]
    /\ UNCHANGED <<whole, native, area, slot, avail>>

\* armci_unlockmem clears the slot, in one store or word by word.
UnlockMem(p) ==
    /\ at[p] = "in"
    /\ IF whole
       THEN /\ table' = [table EXCEPT ![avail[p]] = <<NULL, NULL>>]
            /\ at' = [at EXCEPT ![p] = "out"]
       ELSE /\ table' = [table EXCEPT ![avail[p]] = <<NULL, End(@)>>]
            /\ at' = [at EXCEPT ![p] = "clear"]
    /\ UNCHANGED <<whole, native, area, slot, avail>>

ClearEnd(p) ==
    /\ at[p] = "clear"
    /\ table' = [table EXCEPT ![avail[p]] = <<Start(@), NULL>>]
    /\ at' = [at EXCEPT ![p] = "out"]
    /\ UNCHANGED <<whole, native, area, slot, avail>>

\* The steps of a process that do not start a call
MemStep(p) ==
    NativeLock(p) \/ NextSlot(p) \/ TryAgain(p) \/ Enter(p) \/ UnlockMem(p) \/ ClearEnd(p)

MemNext == \E p \in Proc : MemStep(p) \/ \E a \in Areas : LockMem(p, a)

MemSpec == MemInit /\ [][MemNext]_memvars

-----------------------------------------------------------------------------
(* Properties *)

AlignedAreas == {<<Align(Start(a)), LineEnd(End(a))>> : a \in Areas}

MemTypeOK ==
    /\ whole \in Stores
    /\ table \in [Slots -> Nat \X Nat]
    /\ native \in Proc \cup {Nobody}
    /\ at \in [Proc -> {"out", "native", "inspect", "in", "clear"}]
    /\ area \in [Proc -> AlignedAreas \cup {<<NULL, NULL>>}]
    /\ slot \in [Proc -> 0 .. MaxSlots]
    /\ avail \in [Proc -> Slots \cup {NoSlot}]

Overlap(a, b) == Start(a) <= End(b) /\ Start(b) <= End(a)

\* b reaches beyond a at both ends.
Within(a, b) == Start(b) < Start(a) /\ End(a) < End(b)

\* "acquire exclusive LOCK to MEMORY area" (memlock.c:132): areas that two
\* processes have locked do not overlap.
AreasExclusive ==
    \A p, q \in Proc : p # q /\ at[p] = "in" /\ at[q] = "in" => ~Overlap(area[p], area[q])

\* No area reaches beyond another at both ends: the test for a conflict looks
\* at the ends of the new area only.
NoneWithin == \A a, b \in AlignedAreas : ~Within(a, b)

\* Locked areas are exclusive when none reaches beyond another, and a slot is
\* cleared by one store.
Exclusion == NoneWithin /\ whole => AreasExclusive

\* However a slot is cleared, it serves one process at a time: what a process
\* clears is the entry that it made itself.
OneSlotEach ==
    \A p \in Proc : at[p] = "in" =>
        /\ Start(table[avail[p]]) = Start(area[p])
        /\ \A q \in Proc : at[q] = "in" /\ avail[q] = avail[p] => q = p
=============================================================================
