---------------------------- MODULE ArmciLockProofs ----------------------------
(***************************************************************************)
(* Proofs about ARMCI's locks.                                             *)
(*                                                                         *)
(* MemLock: for any processes, slots and areas of which none reaches       *)
(* beyond another at both ends, locked areas are exclusive.  The argument: *)
(* whoever inspects the table has the native lock, so that meanwhile slots *)
(* are cleared but none is filled in.  So a slot found empty is still      *)
(* empty when it is taken (SlotsTaken, ScanSound), and an area that was    *)
(* locked at the start of the inspection and still is has been inspected   *)
(* and does not conflict.                                                  *)
(*                                                                         *)
(* TicketMutex: for any processes and mutexes, in builds with and without  *)
(* SERVER_LOCK, a mutex is held by one process at a time.  The argument: a *)
(* ticket is in one place at a time (OnePlace).  Whoever has the mutex, is *)
(* about to get it or has just released it has the ticket whose turn it    *)
(* is, and the others have later ones (InTurn).  What is left over in the  *)
(* table of the blocked is of tickets that were served (Leftovers).        *)
(***************************************************************************)
EXTENDS MemLock, TicketMutex, TLAPS

-----------------------------------------------------------------------------
(* Locks of areas of memory *)

\* A process that inspects the table has the native lock.
NativeHeld == \A p \in Proc : at[p] = "inspect" => native = p

\* A process in a call has an area of the program.
AreaGiven == \A p \in Proc : at[p] # "out" => area[p] \in AlignedAreas

\* The slot of a process that has locked its area
SlotsTaken ==
    /\ \A p \in Proc : at[p] \in {"in", "clear"} => avail[p] \in Slots
    /\ \A p \in Proc : at[p] = "clear" => ~whole
    /\ \A p \in Proc : at[p] = "in" => Start(table[avail[p]]) = Start(area[p])
    /\ \A p \in Proc : at[p] = "in" /\ whole => table[avail[p]] = area[p]
    /\ \A p, q \in Proc : at[p] = "in" /\ at[q] = "in" /\ avail[p] = avail[q] => p = q

\* What an inspection has found still holds.
ScanSound ==
    \A p \in Proc : at[p] = "inspect" =>
        /\ avail[p] # NoSlot => Start(table[avail[p]]) = NULL
        /\ \A q \in Proc : whole /\ at[q] = "in" /\ avail[q] < slot[p] =>
                           ~Conflict(area[p], area[q])

MemInv == MemTypeOK /\ NativeHeld /\ AreaGiven /\ SlotsTaken /\ ScanSound /\ Exclusion

-----------------------------------------------------------------------------
(* Areas *)

LEMMA Addresses ==
    \A a \in AlignedAreas : a \in Nat \X Nat /\ Start(a) # NULL
<1> SUFFICES ASSUME NEW b \in Areas
             PROVE  /\ Align(b[1]) \in Nat /\ Align(b[1]) # 0
                    /\ LineEnd(b[2]) \in Nat
  BY DEF AlignedAreas, Start, End, NULL
<1>1. b[1] \in Nat /\ b[2] \in Nat /\ Line \in Nat \ {0} /\ Line <= b[1]
  BY MemLockAssumption
<1>2. b[1] \div Line \in Nat /\ b[1] \div Line # 0 /\ b[2] \div Line \in Nat
  BY <1>1, SMT
<1>3. \A x, y \in Nat : x * y \in Nat /\ (x # 0 /\ y # 0 => x * y # 0)
  BY SMT
<1>4. Align(b[1]) \in Nat /\ Align(b[1]) # 0 /\ Align(b[2]) \in Nat
  BY <1>1, <1>2, <1>3 DEF Align
<1> QED
  BY <1>1, <1>4 DEF LineEnd

\* The test for a conflict finds every overlap, but for an area that reaches
\* beyond the stored one at both ends.
LEMMA ConflictFindsOverlap ==
    ASSUME NEW a \in AlignedAreas, NEW b \in AlignedAreas, NoneWithin, ~Conflict(a, b)
    PROVE  ~Overlap(a, b) /\ ~Overlap(b, a)
<1>1. a \in Nat \X Nat /\ b \in Nat \X Nat
  BY Addresses
<1>2. ~Within(b, a)
  BY DEF NoneWithin
<1> QED
  BY <1>1, <1>2 DEF Conflict, In, Overlap, Within, Start, End

-----------------------------------------------------------------------------
(* The invariant *)

LEMMA MemInvInit == MemInit => MemInv
<1> SUFFICES ASSUME MemInit PROVE MemInv
  OBVIOUS
<1> USE MemLockAssumption
<1>1. MemTypeOK
  BY DEF MemInit, MemTypeOK, Slots, NoSlot, NULL
<1> QED
  BY <1>1 DEF MemInit, MemInv, NativeHeld, AreaGiven, SlotsTaken, ScanSound, Exclusion,
              AreasExclusive

LEMMA MemTypeNext == MemTypeOK /\ [MemNext]_memvars => MemTypeOK'
<1> SUFFICES ASSUME MemTypeOK, [MemNext]_memvars PROVE MemTypeOK'
  OBVIOUS
<1> USE MemLockAssumption DEF MemTypeOK
<1>1. ASSUME NEW p \in Proc, NEW a \in Areas, LockMem(p, a) PROVE MemTypeOK'
  BY <1>1 DEF LockMem, AlignedAreas
<1>2. ASSUME NEW p \in Proc, NativeLock(p) PROVE MemTypeOK'
  BY <1>2 DEF NativeLock, NoSlot
<1>3. ASSUME NEW p \in Proc, NextSlot(p) PROVE MemTypeOK'
  <2>1. slot[p] \in Slots /\ slot[p] + 1 \in 0 .. MaxSlots
    BY <1>3 DEF NextSlot, Inspecting, Slots
  <2>2. slot' \in [Proc -> 0 .. MaxSlots]
    BY <1>3, <2>1 DEF NextSlot
  <2>3. avail' \in [Proc -> Slots \cup {NoSlot}]
    BY <1>3, <2>1 DEF NextSlot
  <2> QED
    BY <1>3, <2>2, <2>3 DEF NextSlot
<1>4. ASSUME NEW p \in Proc, TryAgain(p) PROVE MemTypeOK'
  BY <1>4 DEF TryAgain
<1>5. ASSUME NEW p \in Proc, Enter(p), area[p] \in Nat \X Nat PROVE MemTypeOK'
  BY <1>5 DEF Enter
<1>6. ASSUME NEW p \in Proc, UnlockMem(p) PROVE MemTypeOK'
  BY <1>6 DEF UnlockMem, NULL, End
<1>7. ASSUME NEW p \in Proc, ClearEnd(p) PROVE MemTypeOK'
  <2>1. table' \in [Slots -> Nat \X Nat]
    BY <1>7 DEF ClearEnd, NULL, Start
  <2> QED
    BY <1>7, <2>1 DEF ClearEnd
<1>8. \A p \in Proc : area[p] \in Nat \X Nat
  BY Addresses DEF NULL
<1>9. CASE UNCHANGED memvars
  BY <1>9 DEF memvars
<1> QED
  BY <1>1, <1>2, <1>3, <1>4, <1>5, <1>6, <1>7, <1>8, <1>9 DEF MemNext, MemStep

\* The parts of the invariant beyond the types
MemRest == NativeHeld /\ AreaGiven /\ SlotsTaken /\ ScanSound /\ Exclusion

LEMMA LockMemKeeps ==
    ASSUME MemInv, NEW p \in Proc, NEW a \in Areas, LockMem(p, a)
    PROVE  MemRest'
<1> USE DEF MemInv, MemTypeOK, LockMem
<1>1. area'[p] \in AlignedAreas
  BY DEF AlignedAreas
<1>2. \A q \in Proc : q # p => at'[q] = at[q] /\ area'[q] = area[q]
  OBVIOUS
<1>3. at'[p] = "native"
  OBVIOUS
<1>4. NativeHeld' /\ AreaGiven'
  BY <1>1, <1>2, <1>3 DEF NativeHeld, AreaGiven
<1>5. SlotsTaken'
  BY <1>2, <1>3 DEF SlotsTaken
<1>6. ScanSound'
  BY <1>2, <1>3 DEF ScanSound
<1>7. Exclusion'
  BY <1>2, <1>3 DEF Exclusion, AreasExclusive
<1> QED
  BY <1>4, <1>5, <1>6, <1>7 DEF MemRest

LEMMA NativeLockKeeps ==
    ASSUME MemInv, NEW p \in Proc, NativeLock(p)
    PROVE  MemRest'
<1> USE DEF MemInv, MemTypeOK, NativeLock
<1>1. \A q \in Proc : q # p => at'[q] = at[q] /\ avail'[q] = avail[q] /\ slot'[q] = slot[q]
  OBVIOUS
<1>2. at'[p] = "inspect" /\ slot'[p] = 0 /\ avail'[p] = NoSlot
  OBVIOUS
<1>3. \A q \in Proc : at[q] # "inspect"
  BY MemLockAssumption DEF NativeHeld
<1>4. NativeHeld' /\ AreaGiven'
  BY <1>1, <1>2, <1>3 DEF NativeHeld, AreaGiven
<1>5. SlotsTaken'
  <2>1. \A q \in Proc : at'[q] \in {"in", "clear"} =>
           q # p /\ at[q] = at'[q] /\ avail'[q] = avail[q]
    BY <1>1, <1>2
  <2>2. UNCHANGED <<whole, table, area>>
    OBVIOUS
  <2> HIDE DEF NativeLock
  <2> QED
    BY <2>1, <2>2 DEF SlotsTaken
<1>6. \A q \in Proc : at'[q] = "in" => ~(avail'[q] < 0)
  BY <1>1, <1>2, MemLockAssumption DEF SlotsTaken, Slots
<1>7. ScanSound'
  BY <1>1, <1>2, <1>3, <1>6 DEF ScanSound
<1>8. Exclusion'
  BY <1>1, <1>2 DEF Exclusion, AreasExclusive
<1> QED
  BY <1>4, <1>5, <1>7, <1>8 DEF MemRest

LEMMA NextSlotKeeps ==
    ASSUME MemInv, NEW p \in Proc, NextSlot(p)
    PROVE  MemRest'
<1> USE DEF MemInv, MemTypeOK
<1>1. /\ UNCHANGED <<whole, table, native, at, area>>
      /\ at[p] = "inspect" /\ slot[p] \in Slots
      /\ slot' = [slot EXCEPT ![p] = @ + 1]
  BY DEF NextSlot, Inspecting
<1>2. \A q \in Proc : q # p => avail'[q] = avail[q] /\ slot'[q] = slot[q]
  BY DEF NextSlot
<1>3. NativeHeld' /\ AreaGiven'
  BY <1>1 DEF NativeHeld, AreaGiven
<1>4. SlotsTaken'
  <2>1. \A q \in Proc : at'[q] \in {"in", "clear"} =>
           at[q] = at'[q] /\ avail'[q] = avail[q]
    BY <1>1, <1>2
  <2> QED
    BY <1>1, <2>1 DEF SlotsTaken
<1>5. avail'[p] # NoSlot => Start(table[avail'[p]]) = NULL
  BY <1>1 DEF NextSlot, ScanSound
<1>6. ASSUME NEW q \in Proc, whole, at[q] = "in", avail[q] < slot[p] + 1
      PROVE  ~Conflict(area[p], area[q])
  <2>1. CASE avail[q] < slot[p]
    BY <1>1, <1>6, <2>1 DEF ScanSound
  <2>2. CASE avail[q] = slot[p]
    <3>1. table[slot[p]] = area[q]
      BY <1>6, <2>2 DEF SlotsTaken
    <3>2. area[q] \in AlignedAreas
      BY <1>6 DEF AreaGiven
    <3>3. Start(table[slot[p]]) # NULL
      BY <3>1, <3>2, Addresses
    <3> QED
      BY <3>1, <3>3 DEF NextSlot
  <2>3. avail[q] \in Slots
    BY <1>6 DEF SlotsTaken
  <2> QED
    BY <1>1, <1>6, <2>1, <2>2, <2>3, MemLockAssumption DEF Slots
<1>7. ScanSound'
  <2>1. \A q \in Proc : at[q] = "in" => q # p
    BY <1>1
  <2>2. slot'[p] = slot[p] + 1
    BY <1>1
  <2>3. \A q \in Proc : q # p => at[q] # "inspect"
    BY <1>1 DEF NativeHeld
  <2> QED
    BY <1>1, <1>2, <1>5, <1>6, <2>1, <2>2, <2>3 DEF ScanSound
<1>8. Exclusion'
  BY <1>1 DEF Exclusion, AreasExclusive
<1> QED
  BY <1>3, <1>4, <1>7, <1>8 DEF MemRest

LEMMA TryAgainKeeps ==
    ASSUME MemInv, NEW p \in Proc, TryAgain(p)
    PROVE  MemRest'
<1> USE DEF MemInv, MemTypeOK
<1>1. /\ UNCHANGED <<whole, table, area, slot, avail>>
      /\ at[p] = "inspect" /\ at' = [at EXCEPT ![p] = "native"]
  BY DEF TryAgain, Inspecting
<1>2. \A q \in Proc : q # p => at'[q] = at[q] /\ at'[q] # "inspect"
  BY <1>1 DEF NativeHeld
<1>3. at'[p] = "native"
  BY <1>1
<1>4. NativeHeld' /\ AreaGiven'
  BY <1>1, <1>2, <1>3 DEF NativeHeld, AreaGiven
<1>5. SlotsTaken'
  BY <1>1, <1>2, <1>3 DEF SlotsTaken
<1>6. ScanSound'
  BY <1>2, <1>3 DEF ScanSound
<1>7. Exclusion'
  BY <1>1, <1>2, <1>3 DEF Exclusion, AreasExclusive
<1> QED
  BY <1>4, <1>5, <1>6, <1>7 DEF MemRest

LEMMA EnterKeeps ==
    ASSUME MemInv, NEW p \in Proc, Enter(p)
    PROVE  MemRest'
<1> USE DEF MemInv, MemTypeOK
<1>1. /\ at[p] = "inspect" /\ slot[p] = MaxSlots /\ avail[p] # NoSlot
      /\ avail[p] \in Slots
      /\ UNCHANGED <<whole, area, slot, avail>>
      /\ at' = [at EXCEPT ![p] = "in"]
      /\ table' = [table EXCEPT ![avail[p]] = area[p]]
  BY DEF Enter
<1>2. \A q \in Proc : q # p => at'[q] = at[q] /\ at'[q] # "inspect"
  BY <1>1 DEF NativeHeld
<1>3. at'[p] = "in" /\ table'[avail[p]] = area[p] /\ area[p] \in AlignedAreas
  BY <1>1 DEF AreaGiven
<1>4. ASSUME NEW q \in Proc, q # p, at[q] = "in"
      PROVE  avail[q] # avail[p] /\ table'[avail[q]] = table[avail[q]]
  <2>1. area[q] \in AlignedAreas /\ avail[q] \in Slots
           /\ Start(table[avail[q]]) = Start(area[q])
    BY <1>4 DEF AreaGiven, SlotsTaken
  <2>2. Start(table[avail[p]]) = NULL
    BY <1>1 DEF ScanSound
  <2>3. avail[q] # avail[p]
    BY <2>1, <2>2, Addresses
  <2> QED
    BY <1>1, <2>1, <2>3
<1>5. NativeHeld' /\ AreaGiven'
  BY <1>1, <1>2, <1>3 DEF NativeHeld, AreaGiven
<1>6. SlotsTaken'
  BY <1>1, <1>2, <1>3, <1>4 DEF SlotsTaken
<1>7. ScanSound'
  BY <1>2, <1>3 DEF ScanSound
<1>8. Exclusion'
  <2>1. SUFFICES ASSUME NoneWithin, whole PROVE AreasExclusive'
    BY <1>1 DEF Exclusion
  <2>2. ASSUME NEW q \in Proc, q # p, at[q] = "in"
        PROVE  ~Overlap(area[p], area[q]) /\ ~Overlap(area[q], area[p])
    <3>1. avail[q] \in Slots /\ area[q] \in AlignedAreas
      BY <2>2 DEF SlotsTaken, AreaGiven
    <3>2. avail[q] < slot[p]
      BY <1>1, <3>1, MemLockAssumption DEF Slots
    <3>3. ~Conflict(area[p], area[q])
      BY <1>1, <2>1, <2>2, <3>2 DEF ScanSound
    <3> QED
      BY <1>3, <2>1, <3>1, <3>3, ConflictFindsOverlap
  <2>3. AreasExclusive
    BY <2>1 DEF Exclusion
  <2> QED
    BY <1>1, <1>2, <2>2, <2>3 DEF AreasExclusive
<1> QED
  BY <1>5, <1>6, <1>7, <1>8 DEF MemRest

LEMMA UnlockMemKeeps ==
    ASSUME MemInv, NEW p \in Proc, UnlockMem(p)
    PROVE  MemRest'
<1> USE DEF MemInv, MemTypeOK
<1>1. /\ at[p] = "in" /\ avail[p] \in Slots
      /\ UNCHANGED <<whole, native, area, slot, avail>>
      /\ Start(table'[avail[p]]) = NULL
      /\ \A s \in Slots : s # avail[p] => table'[s] = table[s]
  BY DEF UnlockMem, SlotsTaken, Start, End, NULL
<1>2. \A q \in Proc : q # p => at'[q] = at[q]
  BY DEF UnlockMem
<1>3. at'[p] \in {"out", "clear"} /\ (at'[p] = "clear" => ~whole)
  BY DEF UnlockMem
<1>4. \A q \in Proc : q # p /\ at[q] = "in" =>
          avail[q] # avail[p] /\ avail[q] \in Slots /\ table'[avail[q]] = table[avail[q]]
  BY <1>1 DEF SlotsTaken
<1>5. NativeHeld' /\ AreaGiven'
  BY <1>1, <1>2, <1>3 DEF NativeHeld, AreaGiven
<1>6. SlotsTaken'
  BY <1>1, <1>2, <1>3, <1>4 DEF SlotsTaken
<1>7. ScanSound'
  BY <1>1, <1>2, <1>3 DEF ScanSound
<1>8. Exclusion'
  BY <1>1, <1>2, <1>3 DEF Exclusion, AreasExclusive
<1> QED
  BY <1>5, <1>6, <1>7, <1>8 DEF MemRest

LEMMA ClearEndKeeps ==
    ASSUME MemInv, NEW p \in Proc, ClearEnd(p)
    PROVE  MemRest'
<1> USE DEF MemInv, MemTypeOK
<1>1. /\ at[p] = "clear" /\ ~whole
      /\ UNCHANGED <<whole, native, area, slot, avail>>
      /\ \A s \in Slots : Start(table'[s]) = Start(table[s])
  BY DEF ClearEnd, SlotsTaken, Start
<1>2. \A q \in Proc : q # p => at'[q] = at[q]
  BY DEF ClearEnd
<1>3. at'[p] = "out"
  BY DEF ClearEnd
<1>5. NativeHeld' /\ AreaGiven'
  BY <1>1, <1>2, <1>3 DEF NativeHeld, AreaGiven
<1>6. SlotsTaken'
  BY <1>1, <1>2, <1>3 DEF SlotsTaken
<1>7. ScanSound'
  BY <1>1, <1>2, <1>3 DEF ScanSound
<1>8. Exclusion'
  BY <1>1 DEF Exclusion
<1> QED
  BY <1>5, <1>6, <1>7, <1>8 DEF MemRest

LEMMA MemInvNext == MemInv /\ [MemNext]_memvars => MemInv'
<1> SUFFICES ASSUME MemInv, [MemNext]_memvars PROVE MemInv'
  OBVIOUS
<1>1. MemTypeOK'
  BY MemTypeNext DEF MemInv
<1>2. CASE UNCHANGED memvars
  BY <1>2 DEF memvars, MemInv, MemTypeOK, NativeHeld, AreaGiven, SlotsTaken, ScanSound,
              Exclusion, AreasExclusive
<1>3. CASE MemNext
  <2>1. MemRest'
    BY <1>3, LockMemKeeps, NativeLockKeeps, NextSlotKeeps, TryAgainKeeps, EnterKeeps,
       UnlockMemKeeps, ClearEndKeeps DEF MemNext, MemStep
  <2> QED
    BY <1>1, <2>1 DEF MemInv, MemRest
<1> QED
  BY <1>2, <1>3

LEMMA MemInvAlways == MemSpec => []MemInv
<1> QED
  BY MemInvInit, MemInvNext, PTL DEF MemSpec

\* The state of armci_lockmem and armci_unlockmem has its types.
THEOREM MemTypeCorrect == MemSpec => []MemTypeOK
<1>1. MemInv => MemTypeOK
  BY DEF MemInv
<1> QED
  BY <1>1, MemInvAlways, PTL

\* Accumulates whose areas overlap exclude each other, for any processes,
\* slots and areas of which none reaches beyond another at both ends.
THEOREM LockedAreasExclusive == MemSpec => []Exclusion
<1>1. MemInv => Exclusion
  BY DEF MemInv
<1> QED
  BY <1>1, MemInvAlways, PTL

\* A slot serves one process at a time, in every build.
THEOREM SlotsServeOne == MemSpec => []OneSlotEach
<1>1. MemInv => OneSlotEach
  BY DEF MemInv, SlotsTaken, OneSlotEach
<1> QED
  BY <1>1, MemInvAlways, PTL

-----------------------------------------------------------------------------
(* Ticket mutexes *)

Begun(p) == handler.stage \in {"compare", "mutex", "turn"} /\ handler.from = p

LockRequested(p) == \E q \in requests : q.op = "lock" /\ q.from = p

\* p waits and its ticket is in the table.
InTable(p) == phase[p] = "ask" /\ reply[p] = None /\ ~LockRequested(p) /\ ~Begun(p)

\* The places of a ticket; the last four are of tickets whose turn it is.
Place  == {"poll", "handler", "table", "reply", "held", "posted", "request"}
Active == {"reply", "held", "posted", "request"}

\* Ticket t of m, which p took, is at place k.
At(k, p, m, t) ==
    \/ k = "poll" /\ phase[p] = "poll" /\ mutex[p] = m /\ myturn[p] = t
    \/ k = "handler" /\ Begun(p) /\ handler.mutex = m /\ handler.ticket = t
    \/ k = "table" /\ InTable(p) /\ blocked[p] = <<m, t>>
    \/ k = "reply" /\ phase[p] = "ask" /\ mutex[p] = m /\ reply[p] = t
    \/ k = "held" /\ m \in held[p] /\ tickets[p][m] = t
    \/ k = "posted" /\ <<p, m, t + 1>> \in posted
    \/ k = "request" /\ Request("unlock", p, m, t) \in requests

OnePlace ==
    \A k, l \in Place, p, q \in Proc, m \in Mutex, t \in Nat :
        At(k, p, m, t) /\ At(l, q, m, t) => k = l /\ p = q

InTurn ==
    /\ \A m \in Mutex : turn[m] <= token[m]
    /\ \A k \in Place, p \in Proc, m \in Mutex, t \in Nat :
          At(k, p, m, t) =>
              turn[m] <= t /\ t < token[m] /\ (k \in Active => t = turn[m])

\* The owner has set the turn of m to t and looks for t.
Searching(m, t) ==
    /\ phase[Owner] \in {"search", "scan", "match", "tell"} /\ mutex[Owner] = m
    /\ t = tickets[Owner][m] + 1

\* The entry of p is that of a ticket which waits, or, if the owner never
\* searches, it may be half written.
Current(silent, p) ==
    InTable(p) \/ (silent /\ handler.stage = "turn" /\ handler.from = p)

\* Nobody looks for what is left in other entries.
Leftovers(silent) ==
    /\ \A p \in Proc, m \in Mutex, t \in Nat :
          blocked[p] = <<m, t>> /\ ~Current(silent, p) => t <= turn[m] /\ ~Searching(m, t)
    /\ \A m \in Mutex, t \in Nat : Searching(m, t) => 0 < t /\ t <= turn[m]

\* What the owner has seen of an entry still holds.
Looked ==
    \A p \in Proc : AtEntry(p) =>
        /\ phase[Owner] \in {"match", "tell"} => blocked[p][1] = mutex[Owner]
        /\ phase[Owner] = "tell" => InTable(p) /\ blocked[p][2] = NextTicket

\* Where a process may be in a call
Calls ==
    /\ \A p \in Proc : phase[p] # "out" => mutex[p] \in Mutex
    /\ \A p \in Proc : phase[p] \in {"search", "scan", "match", "tell"} => p = Owner
    /\ \A p \in Proc : phase[p] = "ask" => p # Owner
    /\ \A w \in posted : w[3] # 0

\* A reply, a request and the handler are of a process that waits, ...
Replied ==
    \A p \in Proc : reply[p] # None => phase[p] = "ask" /\ ~LockRequested(p) /\ ~Begun(p)

Requested ==
    \A q \in requests : q.op = "lock" =>
        /\ phase[q.from] = "ask" /\ mutex[q.from] = q.mutex /\ ~Begun(q.from)
        /\ \A r \in requests : r.op = "lock" /\ r.from = q.from => r = q

Handled ==
    \A p \in Proc : Begun(p) =>
        /\ phase[p] = "ask" /\ mutex[p] = handler.mutex
        /\ handler.stage = "turn" => blocked[p][1] = handler.mutex

\* ... and if there is none of these it is in the table.
Tabled == \A p \in Proc : InTable(p) => \E t \in Nat : blocked[p] = <<mutex[p], t>>

Asked == Calls /\ Replied /\ Requested /\ Handled /\ Tabled

Alive == handler.stage # "dead" /\ \A p \in Proc : phase[p] # "dead"

\* With TicketTypeOK, the invariant of the steps if the table starts clean
Rest(silent) == OnePlace /\ InTurn /\ Leftovers(silent) /\ Looked /\ Asked /\ Alive

\* What programs must keep to in builds with a handler
Premise(silent) == IF silent THEN OwnerSilent ELSE EntryKeepsMutex

-----------------------------------------------------------------------------
(* Types *)

LEMMA TicketTypeInit == TicketInit => TicketTypeOK
<1> SUFFICES ASSUME TicketInit PROVE TicketTypeOK
  OBVIOUS
<1>1. Owner \in Proc /\ Fill \subseteq Nat \X Nat
  BY TicketAssumption
<1> QED
  BY <1>1 DEF TicketInit, TicketTypeOK, Idle, None

LEMMA GrantedTypes ==
    ASSUME TicketTypeOK, NEW p \in Proc, NEW t \in Nat, Granted(p, t),
           mutex[p] \in Mutex
    PROVE  /\ tickets' \in [Proc -> [Mutex -> Nat]]
           /\ held' \in [Proc -> SUBSET Mutex]
           /\ phase' \in [Proc -> {"out", "poll", "ask", "search", "scan", "match", "tell",
                               "dead"}]
<1>1. [tickets[p] EXCEPT ![mutex[p]] = t] \in [Mutex -> Nat]
  BY DEF TicketTypeOK
<1>2. tickets' = [tickets EXCEPT ![p] = [tickets[p] EXCEPT ![mutex[p]] = t]]
  BY DEF Granted, TicketTypeOK
<1>3. tickets' \in [Proc -> [Mutex -> Nat]]
  BY <1>1, <1>2 DEF TicketTypeOK
<1> QED
  BY <1>3 DEF Granted, TicketTypeOK

-----------------------------------------------------------------------------
(* How tickets move from place to place *)

Kept ==
    \A k \in Place, p \in Proc, m \in Mutex, t \in Nat : At(k, p, m, t)' => At(k, p, m, t)

\* Ticket u of n, which r took, is new at i, ...
Added(i, r, n, u) ==
    \A k \in Place, p \in Proc, m \in Mutex, t \in Nat :
        At(k, p, m, t)' => At(k, p, m, t) \/ <<k, p, m, t>> = <<i, r, n, u>>

\* ... it is no longer at j, ...
Removed(j, r, n, u) ==
    \A k \in Place, p \in Proc, m \in Mutex, t \in Nat :
        At(k, p, m, t)' => At(k, p, m, t) /\ <<k, p, m, t>> # <<j, r, n, u>>

\* ... but at i, ...
Moved(j, i, r, n, u) ==
    \A k \in Place, p \in Proc, m \in Mutex, t \in Nat :
        At(k, p, m, t)' => \/ At(k, p, m, t) /\ <<k, p, m, t>> # <<j, r, n, u>>
                          \/ <<k, p, m, t>> = <<i, r, n, u>>

\* ... or it is no longer at j, and the next, of s, is sent.
Passed(j, r, s, n, u) ==
    \A k \in Place, p \in Proc, m \in Mutex, t \in Nat :
        At(k, p, m, t)' => \/ /\ At(k, p, m, t) /\ <<k, p, m, t>> # <<j, r, n, u>>
                             /\ <<k, p, m, t>> # <<"table", s, n, u + 1>>
                          \/ <<k, p, m, t>> = <<"reply", s, n, u + 1>>

LEMMA Stays ==
    ASSUME OnePlace, InTurn, UNCHANGED <<token, turn>>, Kept
    PROVE  OnePlace' /\ InTurn'
<1>1. OnePlace'
  BY DEF OnePlace, Kept
<1>2. InTurn'
  BY DEF InTurn, Kept
<1> QED
  BY <1>1, <1>2

LEMMA Moves ==
    ASSUME OnePlace, InTurn, UNCHANGED <<token, turn>>,
           NEW j \in Place, NEW i \in Place, NEW r \in Proc, NEW n \in Mutex, NEW u \in Nat,
           At(j, r, n, u),
           i \in Active => u = turn[n],
           Moved(j, i, r, n, u)
    PROVE  OnePlace' /\ InTurn'
<1>1. OnePlace'
  BY DEF OnePlace, Moved
<1>2. InTurn'
  BY DEF InTurn, Moved
<1> QED
  BY <1>1, <1>2

LEMMA Appears ==
    ASSUME TicketTypeOK, OnePlace, InTurn,
           NEW i \in Place, NEW r \in Proc, NEW n \in Mutex,
           i \notin Active,
           turn' = turn, token' = [token EXCEPT ![n] = @ + 1],
           Added(i, r, n, token[n])
    PROVE  OnePlace' /\ InTurn'
<1>1. token \in [Mutex -> Nat] /\ turn \in [Mutex -> Nat]
  BY DEF TicketTypeOK
<1>2. \A k \in Place, p \in Proc : ~At(k, p, n, token[n])
  BY <1>1 DEF InTurn
<1>3. OnePlace'
  BY <1>2 DEF OnePlace, Added
<1>4. \A m \in Mutex : token'[m] >= token[m] /\ token'[n] = token[n] + 1
  BY <1>1
<1>5. InTurn'
  BY <1>1, <1>4 DEF InTurn, Added
<1> QED
  BY <1>3, <1>5

\* The ticket whose turn it was is gone.
LEMMA Leaves ==
    ASSUME TicketTypeOK, OnePlace, InTurn,
           NEW j \in Place, NEW r \in Proc, NEW n \in Mutex, NEW u \in Nat,
           At(j, r, n, u), u = turn[n],
           token' = token, turn' = [turn EXCEPT ![n] = u + 1],
           Removed(j, r, n, u)
    PROVE  OnePlace' /\ InTurn'
<1>1. token \in [Mutex -> Nat] /\ turn \in [Mutex -> Nat]
  BY DEF TicketTypeOK
<1>2. OnePlace'
  BY DEF OnePlace, Removed
<1>3. \A k \in Place, p \in Proc, t \in Nat :
          At(k, p, n, t) /\ <<k, p, t>> # <<j, r, u>> => t # turn[n]
  BY DEF OnePlace
<1>4. \A m \in Mutex : turn'[m] = IF m = n THEN turn[n] + 1 ELSE turn[m]
  BY <1>1
<1>5. ASSUME NEW k \in Place, NEW p \in Proc, NEW m \in Mutex, NEW t \in Nat,
             At(k, p, m, t)'
      PROVE  turn'[m] <= t /\ t < token'[m] /\ (k \in Active => t = turn'[m])
  <2>1. At(k, p, m, t) /\ <<k, p, m, t>> # <<j, r, n, u>>
    BY <1>5 DEF Removed
  <2>2. turn[m] <= t /\ t < token[m] /\ (k \in Active => t = turn[m])
    BY <2>1 DEF InTurn
  <2>3. m = n => t # turn[n]
    BY <1>3, <2>1
  <2> QED
    BY <1>1, <1>4, <2>2, <2>3
<1>6. \A m \in Mutex : turn'[m] <= token'[m]
  BY <1>1, <1>4 DEF InTurn
<1> QED
  BY <1>2, <1>5, <1>6 DEF InTurn

\* It is gone, and the next in the table is sent its ticket.
LEMMA LeavesAndPasses ==
    ASSUME TicketTypeOK, OnePlace, InTurn,
           NEW j \in Active, NEW r \in Proc, NEW n \in Mutex, NEW u \in Nat,
           At(j, r, n, u), u = turn[n],
           NEW s \in Proc, At("table", s, n, u + 1),
           token' = token, turn' = [turn EXCEPT ![n] = u + 1],
           Passed(j, r, s, n, u)
    PROVE  OnePlace' /\ InTurn'
<1>1. token \in [Mutex -> Nat] /\ turn \in [Mutex -> Nat] /\ u + 1 \in Nat
  BY DEF TicketTypeOK
<1>2. "table" \in Place /\ "reply" \in Place /\ j \in Place
  BY DEF Place, Active
<1>3. OnePlace'
  BY <1>1, <1>2 DEF OnePlace, Passed
<1>4. \A k \in Place, p \in Proc, t \in Nat :
          At(k, p, n, t) /\ <<k, p, t>> # <<j, r, u>> => t # turn[n]
  BY <1>2 DEF OnePlace
<1>5. \A m \in Mutex : turn'[m] = IF m = n THEN turn[n] + 1 ELSE turn[m]
  BY <1>1
<1>6. ASSUME NEW k \in Place, NEW p \in Proc, NEW m \in Mutex, NEW t \in Nat,
             At(k, p, m, t)'
      PROVE  turn'[m] <= t /\ t < token'[m] /\ (k \in Active => t = turn'[m])
  <2>1. CASE At(k, p, m, t) /\ <<k, p, m, t>> # <<j, r, n, u>>
    <3>1. turn[m] <= t /\ t < token[m] /\ (k \in Active => t = turn[m])
      BY <2>1 DEF InTurn
    <3>2. m = n => t # turn[n]
      BY <1>4, <2>1
    <3> QED
      BY <1>1, <1>5, <3>1, <3>2
  <2>2. CASE <<k, p, m, t>> = <<"reply", s, n, u + 1>>
    <3>1. u + 1 < token[n]
      BY <1>1, <1>2 DEF InTurn
    <3> QED
      BY <1>1, <1>5, <2>2, <3>1
  <2> QED
    BY <1>6, <2>1, <2>2 DEF Passed
<1>7. \A m \in Mutex : turn'[m] <= token'[m]
  BY <1>1, <1>2, <1>5 DEF InTurn
<1> QED
  BY <1>3, <1>6, <1>7 DEF InTurn

-----------------------------------------------------------------------------
(* One lemma for each action *)

LEMMA Indices ==
    /\ Mutex \subseteq Nat /\ Owner \in Proc /\ Owner \in Near
    /\ Place = {"poll", "handler", "table"} \cup Active
    /\ None \notin Nat
BY TicketAssumption DEF Mutex, Place, Active, None

\* What the owner looks at does not change.
LEMMA LookedStays ==
    ASSUME Looked, UNCHANGED <<left, blocked>>,
           phase'[Owner] \in {"match", "tell"} =>
               /\ phase[Owner] = phase'[Owner] /\ mutex'[Owner] = mutex[Owner]
               /\ NextTicket' = NextTicket,
           \A p \in Proc : InTable(p) => InTable(p)'
    PROVE  Looked'
<1>1. \A p \in Proc : AtEntry(p)' <=> AtEntry(p)
  BY DEF AtEntry
<1> QED
  BY <1>1 DEF Looked

\* The owner looks at one entry at a time.
LEMMA OneEntry ==
    ASSUME NEW p \in Proc, NEW q \in Proc, AtEntry(p), AtEntry(q)
    PROVE  p = q
BY TicketAssumption DEF AtEntry

LEMMA TakeTicketKeeps ==
    ASSUME NEW silent, TicketTypeOK, Rest(silent), NEW p \in Proc, NEW m \in Mutex, TakeTicket(p, m)
    PROVE  TicketTypeOK' /\ Rest(silent)'
<1> USE DEF TicketTypeOK, Rest
<1>1. token[m] \in Nat /\ turn[m] \in Nat /\ m \in Nat
  BY Indices
<1>2. TicketTypeOK'
  BY <1>1 DEF TakeTicket
<1>3. /\ phase[p] = "out" /\ phase'[p] = "poll" /\ mutex'[p] = m /\ myturn'[p] = token[m]
      /\ \A q \in Proc : q # p => /\ phase'[q] = phase[q] /\ mutex'[q] = mutex[q]
                                  /\ myturn'[q] = myturn[q]
      /\ token' = [token EXCEPT ![m] = @ + 1]
      /\ UNCHANGED <<turn, tickets, held, posted, requests, reply, handler, blocked, left>>
  BY DEF TakeTicket
<1>4. \A q \in Proc : /\ InTable(q)' <=> InTable(q)
                      /\ Begun(q)' <=> Begun(q)
                      /\ LockRequested(q)' <=> LockRequested(q)
  BY <1>3 DEF InTable, Begun, LockRequested
<1>5. OnePlace' /\ InTurn'
  <2>1. Added("poll", p, m, token[m])
    BY <1>3, <1>4 DEF Added, At, Begun
  <2>2. "poll" \in Place /\ "poll" \notin Active
    BY DEF Place, Active
  <2>3. OnePlace /\ InTurn /\ turn' = turn
    BY <1>3
  <2> HIDE DEF TicketTypeOK, Rest
  <2> QED
    BY <1>3, <2>1, <2>2, <2>3, Appears
<1>6. Leftovers(silent)'
  <2>1. \A n \in Mutex, t \in Nat : Searching(n, t)' => Searching(n, t)
    BY <1>3, Indices DEF Searching
  <2> QED
    BY <1>3, <1>4, <2>1 DEF Leftovers, Current
<1>7. Asked'
  <2>1. Calls'
    BY <1>3 DEF Asked, Calls
  <2>2. Replied' /\ Handled'
    BY <1>3, <1>4 DEF Asked, Replied, Handled
  <2>4. \A q \in Proc : InTable(q)' => InTable(q) /\ q # p
    BY <1>3, <1>4 DEF InTable
  <2>5. Tabled'
    <3> SUFFICES ASSUME NEW q \in Proc, InTable(q)'
                 PROVE  \E t \in Nat : blocked'[q] = <<mutex'[q], t>>
      BY DEF Tabled
    <3>1. PICK t \in Nat : blocked[q] = <<mutex[q], t>>
      BY <2>4 DEF Asked, Tabled
    <3> QED
      BY <1>3, <2>4, <3>1
  <2>3. Requested'
    BY <1>3, <1>4 DEF Asked, Requested, Requests
  <2> QED
    BY <2>1, <2>2, <2>3, <2>5 DEF Asked
<1>8. Alive'
  BY <1>3 DEF Alive
<1>20. Looked'
  <2>1. phase'[Owner] \in {"match", "tell"} =>
            /\ phase[Owner] = phase'[Owner] /\ mutex'[Owner] = mutex[Owner]
            /\ NextTicket' = NextTicket
    BY <1>3, <1>4, Indices DEF NextTicket
  <2>2. \A q \in Proc : InTable(q) => InTable(q)'
    BY <1>3, <1>4
  <2>3. UNCHANGED <<left, blocked>> /\ Looked
    BY <1>3 DEF Rest
  <2> HIDE DEF TicketTypeOK, Rest
  <2> QED
    BY <2>1, <2>2, <2>3, LookedStays
<1> QED
  BY <1>2, <1>5, <1>6, <1>7, <1>8, <1>20 DEF Rest

LEMMA AskServerKeeps ==
    ASSUME NEW silent, TicketTypeOK, Rest(silent), NEW p \in Proc, NEW m \in Mutex, AskServer(p, m)
    PROVE  TicketTypeOK' /\ Rest(silent)'
<1> USE DEF TicketTypeOK, Rest
<1>1. TicketTypeOK'
  <2>1. Request("lock", p, m, 0) \in Requests
    BY DEF Request, Requests
  <2> QED
    BY <2>1, Indices DEF AskServer
<1>2. /\ phase[p] = "out" /\ phase'[p] = "ask" /\ mutex'[p] = m /\ p # Owner
      /\ \A q \in Proc : q # p => phase'[q] = phase[q] /\ mutex'[q] = mutex[q]
      /\ requests' = requests \cup {Request("lock", p, m, 0)}
      /\ UNCHANGED <<token, turn, tickets, myturn, held, posted, reply, handler, blocked, left>>
  BY Indices DEF AskServer
<1>3. /\ ~Begun(p) /\ ~LockRequested(p) /\ reply[p] = None
      /\ \A q \in requests : q.op = "lock" => q.from # p
  BY <1>2 DEF Asked, Handled, Requested, Replied, LockRequested
<1>4. \A q \in Proc : /\ Begun(q)' <=> Begun(q)
                      /\ LockRequested(q)' <=> LockRequested(q) \/ q = p
                      /\ InTable(q)' => InTable(q) /\ q # p
                      /\ InTable(q) => InTable(q)'
  <2>1. \A q \in Proc : Begun(q)' <=> Begun(q)
    BY <1>2 DEF Begun
  <2>2. \A q \in Proc : LockRequested(q)' <=> LockRequested(q) \/ q = p
    <3>1. Request("lock", p, m, 0).op = "lock" /\ Request("lock", p, m, 0).from = p
      BY DEF Request
    <3> QED
      BY <1>2, <3>1 DEF LockRequested
  <2> QED
    BY <1>2, <2>1, <2>2 DEF InTable
<1>5. OnePlace' /\ InTurn'
  <2>0. \A q \in Proc, n \in Mutex, t \in Nat :
            Request("unlock", q, n, t) \in requests' => Request("unlock", q, n, t) \in requests
    BY <1>2 DEF Request
  <2>1. Kept
    <3> SUFFICES ASSUME NEW k \in Place, NEW q \in Proc, NEW n \in Mutex, NEW t \in Nat,
                        At(k, q, n, t)'
                 PROVE  At(k, q, n, t)
      BY DEF Kept
    <3>1. CASE k = "request"
      BY <2>0, <3>1 DEF At
    <3>2. CASE k # "request"
      BY <1>2, <1>3, <1>4, <3>2, Indices DEF At, Begun
    <3> QED
      BY <3>1, <3>2
  <2>2. OnePlace /\ InTurn /\ UNCHANGED <<token, turn>>
    BY <1>2
  <2> HIDE DEF TicketTypeOK, Rest
  <2> QED
    BY <2>1, <2>2, Stays
<1>6. Leftovers(silent)'
  <2>1. \A n \in Mutex, t \in Nat : Searching(n, t)' => Searching(n, t)
    BY <1>2, Indices DEF Searching
  <2> QED
    BY <1>2, <1>4, <2>1 DEF Leftovers, Current
<1>7. Asked'
  <2>1. Calls'
    BY <1>2 DEF Asked, Calls
  <2>2. Replied' /\ Handled'
    BY <1>2, <1>3, <1>4 DEF Asked, Replied, Handled
  <2>3. Tabled'
    <3> SUFFICES ASSUME NEW q \in Proc, InTable(q)'
                 PROVE  \E t \in Nat : blocked'[q] = <<mutex'[q], t>>
      BY DEF Tabled
    <3>1. PICK t \in Nat : blocked[q] = <<mutex[q], t>>
      BY <1>4 DEF Asked, Tabled
    <3> QED
      BY <1>2, <1>4, <3>1
  <2>4. Requested'
    <3>1. \A q \in requests : q.from \in Proc
      BY DEF Requests
    <3> QED
      BY <1>2, <1>3, <1>4, <3>1 DEF Asked, Requested, Request
  <2> QED
    BY <2>1, <2>2, <2>3, <2>4 DEF Asked
<1>8. Alive'
  BY <1>2 DEF Alive
<1>20. Looked'
  <2>1. phase'[Owner] \in {"match", "tell"} =>
            /\ phase[Owner] = phase'[Owner] /\ mutex'[Owner] = mutex[Owner]
            /\ NextTicket' = NextTicket
    BY <1>2, <1>4, Indices DEF NextTicket
  <2>2. \A q \in Proc : InTable(q) => InTable(q)'
    BY <1>2, <1>4
  <2>3. UNCHANGED <<left, blocked>> /\ Looked
    BY <1>2 DEF Rest
  <2> HIDE DEF TicketTypeOK, Rest
  <2> QED
    BY <2>1, <2>2, <2>3, LookedStays
<1> QED
  BY <1>1, <1>5, <1>6, <1>7, <1>8, <1>20 DEF Rest

\* Granted, from a poll or from a reply
LEMMA GrantedKeeps ==
    ASSUME NEW silent, TicketTypeOK, Rest(silent),
           NEW p \in Proc, NEW t \in Nat, NEW j \in {"poll", "reply"},
           At(j, p, mutex[p], t), t = turn[mutex[p]], mutex[p] \in Mutex,
           Granted(p, t), reply' = [reply EXCEPT ![p] = None],
           UNCHANGED <<server, token, turn, mutex, myturn, posted, requests, handler,
                       blocked, left>>
    PROVE  TicketTypeOK' /\ Rest(silent)'
<1> USE DEF Rest
<1>1. TicketTypeOK'
  BY GrantedTypes DEF TicketTypeOK
<1>2. /\ phase'[p] = "out" /\ held'[p] = held[p] \cup {mutex[p]}
      /\ tickets'[p][mutex[p]] = t
      /\ \A m \in Mutex : m # mutex[p] => tickets'[p][m] = tickets[p][m]
      /\ \A q \in Proc : q # p => /\ phase'[q] = phase[q] /\ held'[q] = held[q]
                                  /\ tickets'[q] = tickets[q]
      /\ \A q \in Proc : q # p => reply'[q] = reply[q]
  BY DEF Granted, TicketTypeOK
<1>3. ~Begun(p) /\ ~LockRequested(p) /\ ~InTable(p) /\ reply'[p] = None
  <2>1. CASE phase[p] = "poll"
    <3>1. reply[p] = None
      BY <2>1 DEF Asked, Replied
    <3>2. \A q \in requests : q.op = "lock" => q.from # p
      BY <2>1 DEF Asked, Requested
    <3> QED
      BY <2>1, <3>1, <3>2 DEF Asked, Handled, InTable, LockRequested, TicketTypeOK
  <2>2. CASE reply[p] = t
    BY <2>2, Indices DEF Asked, Replied, InTable, TicketTypeOK
  <2> QED
    BY <2>1, <2>2 DEF At
<1>4. \A q \in Proc : /\ Begun(q)' <=> Begun(q)
                      /\ LockRequested(q)' <=> LockRequested(q)
                      /\ InTable(q)' <=> InTable(q)
                      /\ InTable(q) => q # p
  BY <1>2, <1>3 DEF Begun, LockRequested, InTable
<1>5. OnePlace' /\ InTurn'
  <2>1. Moved(j, "held", p, mutex[p], t)
    BY <1>2, <1>4, Indices DEF Moved, At, Begun
  <2>2. OnePlace /\ InTurn /\ UNCHANGED <<token, turn>>
    OBVIOUS
  <2>3. "held" \in Place /\ j \in Place
    BY DEF Place
  <2> HIDE DEF Rest
  <2> QED
    BY <2>1, <2>2, <2>3, Moves
<1>6. Leftovers(silent)'
  <2>1. \A n \in Mutex, u \in Nat : Searching(n, u)' => Searching(n, u)
    BY <1>2, Indices DEF Searching
  <2> QED
    BY <1>4, <2>1 DEF Leftovers, Current
<1>7. Asked'
  <2>1. Calls'
    BY <1>2 DEF Asked, Calls
  <2>2. Replied' /\ Handled'
    BY <1>2, <1>3, <1>4 DEF Asked, Replied, Handled
  <2>3. Tabled'
    BY <1>4 DEF Asked, Tabled
  <2>4. Requested'
    <3>1. \A q \in requests : q.from \in Proc /\ (q.op = "lock" => q.from # p)
      BY <1>3 DEF Requests, LockRequested, TicketTypeOK
    <3> QED
      BY <1>2, <1>4, <3>1 DEF Asked, Requested
  <2> QED
    BY <2>1, <2>2, <2>3, <2>4 DEF Asked
<1>8. Alive'
  BY <1>2 DEF Alive
<1>20. Looked'
  <2>1. phase'[Owner] \in {"match", "tell"} =>
            /\ phase[Owner] = phase'[Owner] /\ mutex'[Owner] = mutex[Owner]
            /\ NextTicket' = NextTicket
    BY <1>2, <1>4, Indices DEF NextTicket
  <2>2. \A q \in Proc : InTable(q) => InTable(q)'
    BY <1>2, <1>4
  <2>3. UNCHANGED <<left, blocked>> /\ Looked
    BY <1>2 DEF Rest
  <2> HIDE DEF TicketTypeOK, Rest
  <2> QED
    BY <2>1, <2>2, <2>3, LookedStays
<1> QED
  BY <1>1, <1>5, <1>6, <1>7, <1>8, <1>20 DEF Rest

LEMMA PollKeeps ==
    ASSUME NEW silent, TicketTypeOK, Rest(silent), NEW p \in Proc, Poll(p)
    PROVE  TicketTypeOK' /\ Rest(silent)'
<1>1. /\ phase[p] = "poll" /\ mutex[p] \in Mutex /\ myturn[p] \in Nat
      /\ turn[mutex[p]] >= myturn[p]
  BY DEF Poll, TicketTypeOK, Rest, Asked, Calls
<1>2. At("poll", p, mutex[p], myturn[p]) /\ "poll" \in Place
  BY <1>1 DEF At, Place
<1>0. reply' = [reply EXCEPT ![p] = None]
  BY <1>1 DEF Poll, Rest, Asked, Replied, TicketTypeOK
<1>3. turn[mutex[p]] = myturn[p]
  <2>1. turn[mutex[p]] <= myturn[p] /\ turn[mutex[p]] \in Nat
    BY <1>1, <1>2 DEF Rest, InTurn, TicketTypeOK
  <2> QED
    BY <1>1, <2>1
<1>4. /\ Granted(p, myturn[p])
      /\ UNCHANGED <<server, token, turn, mutex, myturn, posted, requests, reply, handler,
                     blocked, left>>
  BY <1>3 DEF Poll
<1> QED
  BY <1>0, <1>1, <1>2, <1>3, <1>4, GrantedKeeps

LEMMA AnsweredKeeps ==
    ASSUME NEW silent, TicketTypeOK, Rest(silent), NEW p \in Proc, Answered(p)
    PROVE  TicketTypeOK' /\ Rest(silent)'
<1>1. /\ phase[p] = "ask" /\ mutex[p] \in Mutex /\ reply[p] \in Nat /\ reply[p] # None
  BY DEF Answered, TicketTypeOK, Rest, Asked, Calls
<1>2. At("reply", p, mutex[p], reply[p]) /\ "reply" \in Place /\ "reply" \in Active
  BY <1>1 DEF At, Place, Active
<1>3. turn[mutex[p]] = reply[p]
  BY <1>1, <1>2 DEF Rest, InTurn
<1>4. /\ Granted(p, reply[p])
      /\ reply' = [reply EXCEPT ![p] = None]
      /\ UNCHANGED <<server, token, turn, mutex, myturn, posted, requests, handler, blocked, left>>
  BY DEF Answered
<1> QED
  BY <1>1, <1>2, <1>3, <1>4, GrantedKeeps

LEMMA GenericUnlockKeeps ==
    ASSUME NEW silent, TicketTypeOK, Rest(silent),
           NEW p \in Proc, NEW m \in Mutex, GenericUnlock(p, m)
    PROVE  TicketTypeOK' /\ Rest(silent)'
<1> USE DEF TicketTypeOK, Rest
<1> DEFINE u == tickets[p][m]
<1>1. /\ phase[p] = "out" /\ m \in held[p] /\ u \in Nat
      /\ held' = [held EXCEPT ![p] = @ \ {m}]
      /\ tickets' = [tickets EXCEPT ![p] = [@ EXCEPT ![m] = u + 1]]
      /\ tickets'[p][m] = u + 1
      /\ posted' = posted \cup {<<p, m, u + 1>>}
      /\ UNCHANGED <<server, token, turn, phase, mutex, myturn, requests, reply, handler,
                     blocked, left>>
  BY DEF GenericUnlock, Release
<1>2. tickets' \in [Proc -> [Mutex -> Nat]]
  <2>1. [tickets[p] EXCEPT ![m] = u + 1] \in [Mutex -> Nat]
    BY <1>1
  <2> QED
    BY <1>1, <2>1
<1>3. TicketTypeOK'
  BY <1>1, <1>2
<1>4. \A q \in Proc : /\ Begun(q)' <=> Begun(q)
                      /\ LockRequested(q)' <=> LockRequested(q)
                      /\ InTable(q)' <=> InTable(q)
  BY <1>1 DEF Begun, LockRequested, InTable
<1>5. OnePlace' /\ InTurn'
  <2>1. At("held", p, m, u)
    BY <1>1 DEF At
  <2>2. \A q \in Proc, n \in Mutex, t \in Nat :
            At("held", q, n, t)' => At("held", q, n, t) /\ <<q, n>> # <<p, m>>
    BY <1>1 DEF At
  <2>3. \A q \in Proc, n \in Mutex, t \in Nat :
            At("posted", q, n, t)' => At("posted", q, n, t) \/ <<q, n, t>> = <<p, m, u>>
    <3> HIDE DEF u
    <3> QED
      BY <1>1 DEF At
  <2>4. \A k \in Place \ {"held", "posted"}, q \in Proc, n \in Mutex, t \in Nat :
            At(k, q, n, t)' => At(k, q, n, t)
    BY <1>1, <1>4 DEF At, Begun
  <2>5. Moved("held", "posted", p, m, u)
    BY <2>2, <2>3, <2>4 DEF Moved
  <2>6. "held" \in Place /\ "posted" \in Place /\ "held" \in Active
    BY DEF Place, Active
  <2>7. u = turn[m]
    BY <1>1, <2>1, <2>6 DEF InTurn
  <2>8. OnePlace /\ InTurn /\ UNCHANGED <<token, turn>>
    BY <1>1
  <2> HIDE DEF TicketTypeOK, Rest, u
  <2> QED
    BY <1>1, <2>1, <2>5, <2>6, <2>7, <2>8, Moves
<1>6. Leftovers(silent)'
  <2>1. \A n \in Mutex, t \in Nat : Searching(n, t)' => Searching(n, t)
    BY <1>1, Indices DEF Searching
  <2> QED
    BY <1>1, <1>4, <2>1 DEF Leftovers, Current
<1>7. Asked'
  <2>1. Calls'
    BY <1>1, <1>4 DEF Asked, Calls
  <2>2. Replied' /\ Handled' /\ Tabled'
    BY <1>1, <1>4 DEF Asked, Replied, Handled, Tabled
  <2>3. Requested'
    <3>1. \A q \in requests : q.from \in Proc
      BY DEF Requests
    <3> QED
      BY <1>1, <1>4, <3>1 DEF Asked, Requested
  <2> QED
    BY <2>1, <2>2, <2>3 DEF Asked
<1>8. Alive'
  BY <1>1 DEF Alive
<1>20. Looked'
  <2>1. phase'[Owner] \in {"match", "tell"} =>
            /\ phase[Owner] = phase'[Owner] /\ mutex'[Owner] = mutex[Owner]
            /\ NextTicket' = NextTicket
    BY <1>1, <1>4, Indices DEF NextTicket
  <2>2. \A q \in Proc : InTable(q) => InTable(q)'
    BY <1>1, <1>4
  <2>3. UNCHANGED <<left, blocked>> /\ Looked
    BY <1>1 DEF Rest
  <2> HIDE DEF TicketTypeOK, Rest
  <2> QED
    BY <2>1, <2>2, <2>3, LookedStays
<1> QED
  BY <1>3, <1>5, <1>6, <1>7, <1>8, <1>20 DEF Rest

LEMMA RemUnlockKeeps ==
    ASSUME NEW silent, TicketTypeOK, Rest(silent), NEW p \in Proc, NEW m \in Mutex, RemUnlock(p, m)
    PROVE  TicketTypeOK' /\ Rest(silent)'
<1> USE DEF TicketTypeOK, Rest
<1> DEFINE u == tickets[p][m]
<1> DEFINE new == Request("unlock", p, m, u)
<1>1. /\ phase[p] = "out" /\ m \in held[p] /\ u \in Nat
      /\ held' = [held EXCEPT ![p] = @ \ {m}]
      /\ requests' = requests \cup {new}
      /\ UNCHANGED <<server, token, turn, tickets, phase, mutex, myturn, posted, reply,
                     handler, blocked, left>>
  BY DEF RemUnlock, Release
<1>2. new \in Requests /\ new.op = "unlock"
  BY <1>1 DEF Request, Requests
<1>3. TicketTypeOK'
  BY <1>1, <1>2
<1>4. \A q \in Proc : /\ Begun(q)' <=> Begun(q)
                      /\ LockRequested(q)' <=> LockRequested(q)
                      /\ InTable(q)' <=> InTable(q)
  <2> HIDE DEF new
  <2>1. \A q \in Proc : LockRequested(q)' <=> LockRequested(q)
    BY <1>1, <1>2 DEF LockRequested
  <2>2. \A q \in Proc : Begun(q)' <=> Begun(q)
    BY <1>1 DEF Begun
  <2> QED
    BY <1>1, <2>1, <2>2 DEF InTable
<1>5. OnePlace' /\ InTurn'
  <2>1. At("held", p, m, u)
    BY <1>1 DEF At
  <2>2. \A q \in Proc, n \in Mutex, t \in Nat :
            At("held", q, n, t)' => At("held", q, n, t) /\ <<q, n>> # <<p, m>>
    BY <1>1 DEF At
  <2>3. \A q \in Proc, n \in Mutex, t \in Nat :
            At("request", q, n, t)' => At("request", q, n, t) \/ <<q, n, t>> = <<p, m, u>>
    BY <1>1 DEF At, Request
  <2>4. \A k \in Place \ {"held", "request"}, q \in Proc, n \in Mutex, t \in Nat :
            At(k, q, n, t)' => At(k, q, n, t)
    BY <1>1, <1>4 DEF At, Begun
  <2>5. Moved("held", "request", p, m, u)
    BY <2>2, <2>3, <2>4 DEF Moved
  <2>6. "held" \in Place /\ "request" \in Place /\ "held" \in Active
    BY DEF Place, Active
  <2>7. u = turn[m]
    BY <1>1, <2>1, <2>6 DEF InTurn
  <2>8. OnePlace /\ InTurn /\ UNCHANGED <<token, turn>>
    BY <1>1
  <2> HIDE DEF TicketTypeOK, Rest, u
  <2> QED
    BY <1>1, <2>1, <2>5, <2>6, <2>7, <2>8, Moves
<1>6. Leftovers(silent)'
  <2>1. \A n \in Mutex, t \in Nat : Searching(n, t)' => Searching(n, t)
    BY <1>1, Indices DEF Searching
  <2> QED
    BY <1>1, <1>4, <2>1 DEF Leftovers, Current
<1>7. Asked'
  <2> HIDE DEF new
  <2>1. Calls' /\ Replied' /\ Handled' /\ Tabled'
    BY <1>1, <1>4 DEF Asked, Calls, Replied, Handled, Tabled
  <2>2. Requested'
    <3>1. \A q \in requests : q.from \in Proc
      BY DEF Requests
    <3> QED
      BY <1>1, <1>2, <1>4, <3>1 DEF Asked, Requested
  <2> QED
    BY <2>1, <2>2 DEF Asked
<1>8. Alive'
  BY <1>1 DEF Alive
<1>20. Looked'
  <2>1. phase'[Owner] \in {"match", "tell"} =>
            /\ phase[Owner] = phase'[Owner] /\ mutex'[Owner] = mutex[Owner]
            /\ NextTicket' = NextTicket
    BY <1>1, <1>4, Indices DEF NextTicket
  <2>2. \A q \in Proc : InTable(q) => InTable(q)'
    BY <1>1, <1>4
  <2>3. UNCHANGED <<left, blocked>> /\ Looked
    BY <1>1 DEF Rest
  <2> HIDE DEF TicketTypeOK, Rest
  <2> QED
    BY <2>1, <2>2, <2>3, LookedStays
<1> QED
  BY <1>3, <1>5, <1>6, <1>7, <1>8, <1>20 DEF Rest

LEMMA TurnArrivesKeeps ==
    ASSUME NEW silent, TicketTypeOK, Rest(silent), NEW w \in posted, TurnArrives(w)
    PROVE  TicketTypeOK' /\ Rest(silent)'
<1> USE DEF TicketTypeOK, Rest
<1>1. PICK p \in Proc, m \in Mutex, u \in Nat : w = <<p, m, u + 1>>
  <2>1. w \in Proc \X Mutex \X Nat /\ w[3] # 0
    BY DEF Asked, Calls
  <2>2. w = <<w[1], w[2], (w[3] - 1) + 1>> /\ w[3] - 1 \in Nat
    BY <2>1
  <2> QED
    BY <2>1, <2>2
<1>2. /\ posted' = posted \ {<<p, m, u + 1>>}
      /\ turn' = [turn EXCEPT ![m] = u + 1]
      /\ UNCHANGED <<server, token, tickets, phase, mutex, myturn, held, requests, reply,
                     handler, blocked, left>>
  BY <1>1 DEF TurnArrives
<1>3. TicketTypeOK'
  BY <1>2
<1>4. At("posted", p, m, u) /\ "posted" \in Place /\ "posted" \in Active
  BY <1>1 DEF At, Place, Active
<1>5. u = turn[m]
  BY <1>4 DEF InTurn
<1>6. \A q \in Proc : /\ Begun(q)' <=> Begun(q)
                      /\ LockRequested(q)' <=> LockRequested(q)
                      /\ InTable(q)' <=> InTable(q)
  BY <1>2 DEF Begun, LockRequested, InTable
<1>7. OnePlace' /\ InTurn'
  <2>1. \A q \in Proc, n \in Mutex, t \in Nat :
            At("posted", q, n, t)' => At("posted", q, n, t) /\ <<q, n, t>> # <<p, m, u>>
    BY <1>2 DEF At
  <2>2. \A k \in Place \ {"posted"}, q \in Proc, n \in Mutex, t \in Nat :
            At(k, q, n, t)' => At(k, q, n, t)
    BY <1>2, <1>6 DEF At, Begun
  <2>3. Removed("posted", p, m, u)
    BY <2>1, <2>2 DEF Removed
  <2>4. OnePlace /\ InTurn /\ token' = token
    BY <1>2
  <2> HIDE DEF TicketTypeOK, Rest
  <2> QED
    BY <1>2, <1>4, <1>5, <2>3, <2>4, Leaves
<1>8. Leftovers(silent)'
  <2>1. \A n \in Mutex : turn[n] <= turn'[n]
    BY <1>2, <1>5
  <2>2. \A n \in Mutex, t \in Nat : Searching(n, t)' <=> Searching(n, t)
    BY <1>2 DEF Searching
  <2> HIDE DEF Searching
  <2> QED
    BY <1>2, <1>3, <1>6, <2>1, <2>2 DEF Leftovers, Current
<1>9. Asked'
  <2>1. Calls'
    BY <1>2, <1>6 DEF Asked, Calls
  <2>2. Replied' /\ Handled' /\ Tabled'
    BY <1>2, <1>6 DEF Asked, Replied, Handled, Tabled
  <2>3. Requested'
    <3>1. \A q \in requests : q.from \in Proc
      BY DEF Requests
    <3> QED
      BY <1>2, <1>6, <3>1 DEF Asked, Requested
  <2> QED
    BY <2>1, <2>2, <2>3 DEF Asked
<1>10. Alive'
  BY <1>2 DEF Alive
<1>20. Looked'
  <2>1. phase'[Owner] \in {"match", "tell"} =>
            /\ phase[Owner] = phase'[Owner] /\ mutex'[Owner] = mutex[Owner]
            /\ NextTicket' = NextTicket
    BY <1>2, <1>6, Indices DEF NextTicket
  <2>2. \A q \in Proc : InTable(q) => InTable(q)'
    BY <1>2, <1>6
  <2>3. UNCHANGED <<left, blocked>> /\ Looked
    BY <1>2 DEF Rest
  <2> HIDE DEF TicketTypeOK, Rest
  <2> QED
    BY <2>1, <2>2, <2>3, LookedStays
<1> QED
  BY <1>3, <1>7, <1>8, <1>9, <1>10, <1>20 DEF Rest

LEMMA OwnerUnlockKeeps ==
    ASSUME NEW silent, TicketTypeOK, Rest(silent), NEW m \in Mutex, OwnerUnlock(m)
    PROVE  TicketTypeOK' /\ Rest(silent)'
<1> USE DEF TicketTypeOK, Rest
<1> DEFINE u == tickets[Owner][m]
<1>1. /\ phase[Owner] = "out" /\ m \in held[Owner] /\ u \in Nat /\ Owner \in Proc
      /\ held' = [held EXCEPT ![Owner] = @ \ {m}]
      /\ turn' = [turn EXCEPT ![m] = u + 1]
      /\ phase' = [phase EXCEPT ![Owner] = "search"]
      /\ mutex' = [mutex EXCEPT ![Owner] = m]
      /\ UNCHANGED <<server, token, tickets, myturn, posted, requests, reply, handler,
                     blocked, left>>
  BY Indices DEF OwnerUnlock, Release
<1>2. TicketTypeOK'
  BY <1>1, Indices
<1>3. /\ ~Begun(Owner) /\ ~LockRequested(Owner) /\ reply[Owner] = None
      /\ \A q \in requests : q.op = "lock" => q.from # Owner
  BY <1>1 DEF Asked, Handled, Requested, Replied, LockRequested
<1>4. \A q \in Proc : /\ Begun(q)' <=> Begun(q)
                      /\ LockRequested(q)' <=> LockRequested(q)
                      /\ InTable(q)' <=> InTable(q)
                      /\ InTable(q) => q # Owner
  BY <1>1 DEF Begun, LockRequested, InTable
<1>5. At("held", Owner, m, u) /\ "held" \in Place /\ "held" \in Active
  BY <1>1 DEF At, Place, Active
<1>6. u = turn[m]
  BY <1>1, <1>5 DEF InTurn
<1>7. OnePlace' /\ InTurn'
  <2>1. \A q \in Proc, n \in Mutex, t \in Nat :
            At("held", q, n, t)' => At("held", q, n, t) /\ <<q, n>> # <<Owner, m>>
    BY <1>1 DEF At
  <2>2. \A k \in Place \ {"held"}, q \in Proc, n \in Mutex, t \in Nat :
            At(k, q, n, t)' => At(k, q, n, t)
    BY <1>1, <1>4 DEF At, Begun
  <2>3. Removed("held", Owner, m, u)
    BY <2>1, <2>2 DEF Removed
  <2>4. OnePlace /\ InTurn /\ token' = token
    BY <1>1
  <2> HIDE DEF TicketTypeOK, Rest, u
  <2> QED
    BY <1>1, <1>5, <1>6, <2>3, <2>4, Leaves
<1>8. Leftovers(silent)'
  <2>1. \A n \in Mutex : turn[n] <= turn'[n] /\ turn'[m] = u + 1 /\ u + 1 > turn[m]
    BY <1>1, <1>6
  <2>2. \A n \in Mutex, t \in Nat : Searching(n, t)' <=> n = m /\ t = u + 1
    BY <1>1 DEF Searching
  <2>3. ASSUME NEW p \in Proc, NEW n \in Mutex, NEW t \in Nat, blocked[p] = <<n, t>>,
               ~Current(silent, p)
        PROVE  t <= turn[n]
    BY <2>3 DEF Leftovers
  <2> HIDE DEF Searching, u
  <2> QED
    BY <1>1, <1>2, <1>4, <2>1, <2>2, <2>3 DEF Leftovers, Current
<1>9. Asked'
  <2>1. Calls'
    BY <1>1, <1>3, <1>4, Indices DEF Asked, Calls
  <2>2. Replied' /\ Handled' /\ Tabled'
    BY <1>1, <1>3, <1>4, Indices DEF Asked, Replied, Handled, Tabled
  <2>3. Requested'
    <3>1. \A q \in requests : q.from \in Proc
      BY DEF Requests
    <3> QED
      BY <1>1, <1>3, <1>4, Indices, <3>1 DEF Asked, Requested
  <2> QED
    BY <2>1, <2>2, <2>3 DEF Asked
<1>10. Alive'
  BY <1>1 DEF Alive
<1>20. Looked'
  <2>1. phase'[Owner] \in {"match", "tell"} =>
            /\ phase[Owner] = phase'[Owner] /\ mutex'[Owner] = mutex[Owner]
            /\ NextTicket' = NextTicket
    BY <1>1, <1>4, Indices DEF NextTicket
  <2>2. \A q \in Proc : InTable(q) => InTable(q)'
    BY <1>1, <1>4
  <2>3. UNCHANGED <<left, blocked>> /\ Looked
    BY <1>1 DEF Rest
  <2> HIDE DEF TicketTypeOK, Rest
  <2> QED
    BY <2>1, <2>2, <2>3, LookedStays
<1> QED
  BY <1>2, <1>7, <1>8, <1>9, <1>10, <1>20 DEF Rest

\* The process s is sent its ticket u, and leaves the table.
LEMMA PassFrame ==
    ASSUME NEW silent, TicketTypeOK, Rest(silent), NEW s \in Proc, InTable(s), NEW u \in Nat,
           reply' = [reply EXCEPT ![s] = u],
           \A q \in Proc : phase'[q] = "ask" <=> phase[q] = "ask",
           \A q \in requests' : q \in requests,
           \A q \in requests : q.op = "lock" => q \in requests',
           UNCHANGED <<handler, blocked>>
    PROVE  \A q \in Proc : /\ Begun(q)' <=> Begun(q)
                           /\ LockRequested(q)' <=> LockRequested(q)
                           /\ InTable(q)' <=> InTable(q) /\ q # s
<1>1. \A q \in Proc : Begun(q)' <=> Begun(q)
  BY DEF Begun
<1>2. \A q \in Proc : LockRequested(q)' <=> LockRequested(q)
  BY DEF LockRequested
<1>3. reply'[s] # None /\ \A q \in Proc : q # s => reply'[q] = reply[q]
  BY Indices DEF TicketTypeOK
<1>4. \A q \in Proc : q = s => ~InTable(q)'
  BY <1>3 DEF InTable
<1>5. \A q \in Proc : q # s => (InTable(q)' <=> InTable(q))
  BY <1>1, <1>2, <1>3 DEF InTable
<1> QED
  BY <1>1, <1>2, <1>4, <1>5

\* The owner goes on with its search and tells nobody.
LEMMA SearchOn ==
    ASSUME NEW silent, TicketTypeOK, Rest(silent), phase[Owner] # "ask", phase'[Owner] # "ask",
           phase[Owner] # "poll", phase'[Owner] \in {"out", "scan", "match", "tell"},
           phase[Owner] \in {"search", "scan", "match", "tell"},
           phase' = [phase EXCEPT ![Owner] = phase'[Owner]],
           left' \subseteq Proc, Looked',
           UNCHANGED <<server, token, turn, tickets, mutex, myturn, held, posted, requests,
                       reply, handler, blocked>>
    PROVE  TicketTypeOK' /\ Rest(silent)'
<1> USE DEF TicketTypeOK, Rest
<1>1. TicketTypeOK'
  OBVIOUS
<1>2. /\ \A q \in Proc : phase'[q] = "ask" <=> phase[q] = "ask"
      /\ \A q \in Proc : phase'[q] = "poll" <=> phase[q] = "poll"
  BY Indices
<1>3. \A q \in Proc : /\ Begun(q)' <=> Begun(q)
                      /\ LockRequested(q)' <=> LockRequested(q)
                      /\ InTable(q)' <=> InTable(q)
  BY <1>2 DEF Begun, LockRequested, InTable
<1>4. OnePlace' /\ InTurn'
  <2>1. Kept
    BY <1>2, <1>3 DEF Kept, At, Begun
  <2>2. OnePlace /\ InTurn
    OBVIOUS
  <2> HIDE DEF TicketTypeOK, Rest
  <2> QED
    BY <2>1, <2>2, Stays
<1>5. Leftovers(silent)'
  <2>1. \A n \in Mutex, t \in Nat : Searching(n, t)' => Searching(n, t)
    BY DEF Searching
  <2>2. \A q \in Proc : Current(silent, q)' <=> Current(silent, q)
    BY <1>3 DEF Current
  <2> QED
    BY <2>1, <2>2 DEF Leftovers
<1>6. Asked'
  <2>1. Calls'
    BY Indices DEF Asked, Calls
  <2>2. Replied' /\ Handled' /\ Tabled'
    BY <1>2, <1>3 DEF Asked, Replied, Handled, Tabled
  <2>3. Requested'
    <3>1. \A q \in requests : q.from \in Proc
      BY DEF Requests
    <3> QED
      BY <1>2, <1>3, <3>1 DEF Asked, Requested
  <2> QED
    BY <2>1, <2>2, <2>3 DEF Asked
<1>7. Alive'
  BY DEF Alive
<1> QED
  BY <1>1, <1>4, <1>5, <1>6, <1>7 DEF Rest

\* The search ends, or goes on to the next entry.
LEMMA BeginScanKeeps ==
    ASSUME NEW silent, TicketTypeOK, Rest(silent), MutexFree \/ BeginScan
    PROVE  TicketTypeOK' /\ Rest(silent)'
<1>1. /\ phase[Owner] = "search" /\ phase'[Owner] \in {"out", "scan"}
      /\ phase' = [phase EXCEPT ![Owner] = phase'[Owner]]
      /\ left' \subseteq Proc
      /\ UNCHANGED <<server, token, turn, tickets, mutex, myturn, held, posted, requests,
                     reply, handler, blocked>>
  BY Indices DEF MutexFree, BeginScan, TicketTypeOK
<1>2. Looked'
  BY <1>1 DEF Looked
<1> QED
  BY <1>1, <1>2, SearchOn

LEMMA LookAtMutexKeeps ==
    ASSUME NEW silent, TicketTypeOK, Rest(silent), NEW p \in left, LookAtMutex(p)
    PROVE  TicketTypeOK' /\ Rest(silent)'
<1>1. /\ phase[Owner] = "scan" /\ AtEntry(p) /\ p \in Proc
      /\ phase'[Owner] \in {"out", "scan", "match"}
      /\ phase' = [phase EXCEPT ![Owner] = phase'[Owner]]
      /\ left' \subseteq Proc
      /\ phase'[Owner] = "match" => blocked[p][1] = mutex[Owner] /\ left' = left
      /\ UNCHANGED <<server, token, turn, tickets, mutex, myturn, held, posted, requests,
                     reply, handler, blocked>>
  BY Indices DEF LookAtMutex, NextEntry, TicketTypeOK
<1>2. Looked'
  <2> SUFFICES ASSUME NEW q \in Proc, AtEntry(q)', phase'[Owner] = "match"
               PROVE  blocked[q][1] = mutex[Owner]
    BY <1>1 DEF Looked
  <2>1. AtEntry(q)
    BY <1>1 DEF AtEntry
  <2> QED
    BY <1>1, <2>1, OneEntry
<1> QED
  BY <1>1, <1>2, SearchOn

LEMMA LookAtTicketKeeps ==
    ASSUME NEW silent, TicketTypeOK, Rest(silent), Premise(silent), NEW p \in left,
           LookAtTicket(p)
    PROVE  TicketTypeOK' /\ Rest(silent)'
<1>1. /\ phase[Owner] = "match" /\ AtEntry(p) /\ p \in Proc
      /\ phase'[Owner] \in {"out", "scan", "tell"}
      /\ phase' = [phase EXCEPT ![Owner] = phase'[Owner]]
      /\ left' \subseteq Proc
      /\ phase'[Owner] = "tell" => blocked[p][2] = NextTicket /\ left' = left
      /\ UNCHANGED <<server, token, turn, tickets, mutex, myturn, held, posted, requests,
                     reply, handler, blocked>>
  BY Indices DEF LookAtTicket, NextEntry, TicketTypeOK
<1>2. ~silent
  BY <1>1 DEF Premise, OwnerSilent, InSearch
<1>3. Looked'
  <2> SUFFICES ASSUME NEW q \in Proc, AtEntry(q)', phase'[Owner] = "tell"
               PROVE  /\ blocked[q][1] = mutex[Owner] /\ blocked[q][2] = NextTicket
                      /\ InTable(q)'
    BY <1>1 DEF Looked, NextTicket
  <2>1. q = p
    <3>1. AtEntry(q)
      BY <1>1 DEF AtEntry
    <3> QED
      BY <1>1, <3>1, OneEntry
  <2>2. blocked[p][1] = mutex[Owner] /\ blocked[p][2] = NextTicket
    BY <1>1 DEF Rest, Looked
  <2>3. mutex[Owner] \in Mutex /\ NextTicket \in Nat
    BY <1>1, Indices DEF NextTicket, TicketTypeOK, Rest, Asked, Calls
  <2>4. blocked[p] = <<mutex[Owner], NextTicket>>
    BY <1>1, <2>2 DEF TicketTypeOK
  <2>5. Searching(mutex[Owner], NextTicket)
    BY <1>1 DEF Searching, NextTicket
  <2>6. InTable(p)
    BY <1>1, <1>2, <2>3, <2>4, <2>5 DEF Rest, Leftovers, Current
  <2>7. InTable(p)'
    <3>1. p # Owner
      BY <1>1, <2>6 DEF InTable
    <3> QED
      BY <1>1, <2>6, <3>1 DEF InTable, LockRequested, Begun, TicketTypeOK
  <2> QED
    BY <2>1, <2>2, <2>7
<1> QED
  BY <1>1, <1>3, SearchOn

LEMMA TellBlockedKeeps ==
    ASSUME NEW silent, TicketTypeOK, Rest(silent), NEW s \in left, TellBlocked(s)
    PROVE  TicketTypeOK' /\ Rest(silent)'
<1> USE DEF TicketTypeOK, Rest
<1> DEFINE m == mutex[Owner]
<1> DEFINE u == NextTicket
<1>1. /\ phase[Owner] = "tell" /\ m \in Mutex /\ u \in Nat /\ Owner \in Proc
      /\ AtEntry(s) /\ s \in Proc
      /\ phase' = [phase EXCEPT ![Owner] = "out"]
      /\ phase'[Owner] = "out" /\ left' = {}
      /\ reply' = [reply EXCEPT ![s] = u] \/ UNCHANGED reply
      /\ UNCHANGED <<server, token, turn, tickets, mutex, myturn, held, posted, requests,
                     handler, blocked>>
  BY Indices DEF TellBlocked, NextTicket, Asked, Calls
<1>2. Searching(m, u) /\ u <= turn[m]
  BY <1>1 DEF Searching, Leftovers, NextTicket
<1>3. InTable(s) /\ blocked[s] = <<m, u>>
  BY <1>1 DEF Looked
<1>4. \A n \in Mutex, t \in Nat : ~Searching(n, t)'
  BY <1>1 DEF Searching
<1>5. \A q \in Proc : phase'[q] = "ask" <=> phase[q] = "ask"
  BY <1>1
<1>6. Looked'
  BY <1>1 DEF Looked
<1> HIDE DEF m, u
<1>7. CASE UNCHANGED reply
  <2>1. left' \subseteq Proc
    BY <1>1
  <2> HIDE DEF TicketTypeOK, Rest
  <2> QED
    BY <1>1, <1>6, <1>7, <2>1, SearchOn
<1>8. CASE reply' = [reply EXCEPT ![s] = u]
  <2>1. TicketTypeOK'
    BY <1>1, <1>8
  <2>2. Calls' /\ Alive'
    BY <1>1 DEF Asked, Calls, Alive
  <2>4. \A q \in Proc : /\ Begun(q)' <=> Begun(q)
                        /\ LockRequested(q)' <=> LockRequested(q)
                        /\ InTable(q)' <=> InTable(q) /\ q # s
    <3>1. UNCHANGED <<requests, handler, blocked>> /\ u \in Nat
      BY <1>1
    <3>2. /\ \A q \in requests' : q \in requests
          /\ \A q \in requests : q.op = "lock" => q \in requests'
      BY <3>1
    <3> HIDE DEF TicketTypeOK, Rest
    <3> QED
      BY <1>1, <1>3, <1>5, <1>8, <3>1, <3>2, PassFrame
  <2>5. At("table", s, m, u) /\ "table" \in Place /\ "reply" \in Place
    BY <1>3 DEF At, Place
  <2>6. u = turn[m]
    <3>1. turn[m] \in Nat /\ u \in Nat /\ InTurn
      BY <1>1
    <3>2. turn[m] <= u
      BY <1>1, <2>5, <3>1 DEF InTurn
    <3> HIDE DEF TicketTypeOK, Rest
    <3> QED
      BY <1>2, <3>1, <3>2
  <2>7. mutex[s] = m /\ phase[s] = "ask"
    BY <1>1, <1>3 DEF Asked, Tabled, InTable
  <2>8. OnePlace' /\ InTurn'
    <3>1. \A q \in Proc, n \in Mutex, t \in Nat :
              At("reply", q, n, t)' => At("reply", q, n, t) \/ <<q, n, t>> = <<s, m, u>>
      BY <1>1, <1>5, <1>8, <2>7 DEF At
    <3>2. \A q \in Proc, n \in Mutex, t \in Nat :
              At("table", q, n, t)' => At("table", q, n, t) /\ q # s
      BY <1>1, <2>4 DEF At
    <3>3. \A k \in Place \ {"reply", "table"}, q \in Proc, n \in Mutex, t \in Nat :
              At(k, q, n, t)' => At(k, q, n, t)
      BY <1>1, <2>4 DEF At, Begun
    <3>4. Moved("table", "reply", s, m, u)
      BY <3>1, <3>2, <3>3 DEF Moved
    <3>5. OnePlace /\ InTurn /\ UNCHANGED <<token, turn>>
      BY <1>1
    <3> HIDE DEF TicketTypeOK, Rest
    <3> QED
      BY <1>1, <2>5, <2>6, <3>4, <3>5, Moves
  <2>9. Leftovers(silent)'
    <3>1. ASSUME NEW p \in Proc, NEW n \in Mutex, NEW t \in Nat, blocked[p] = <<n, t>>,
                 ~Current(silent, p)'
          PROVE  t <= turn[n]
      <4>1. CASE p = s
        BY <1>2, <1>3, <3>1, <4>1
      <4>2. CASE p # s
        BY <1>1, <2>4, <3>1, <4>2 DEF Leftovers, Current
      <4> QED
        BY <4>1, <4>2
    <3> QED
      BY <1>1, <1>4, <3>1 DEF Leftovers
  <2>10. Asked'
    <3>1. Replied'
      BY <1>1, <1>3, <1>5, <1>8, <2>4, <2>7 DEF Asked, Replied, InTable
    <3>2. Handled' /\ Tabled'
      BY <1>1, <1>5, <2>4 DEF Asked, Handled, Tabled
    <3>3. Requested'
      <4>1. \A q \in requests : q.from \in Proc
        BY DEF Requests
      <4> QED
        BY <1>1, <1>5, <2>4, <4>1 DEF Asked, Requested
    <3> QED
      BY <2>2, <3>1, <3>2, <3>3 DEF Asked
  <2> QED
    BY <1>6, <2>1, <2>2, <2>8, <2>9, <2>10 DEF Rest
<1> QED
  BY <1>1, <1>7, <1>8

LEMMA OwnerSearchKeeps ==
    ASSUME NEW silent, TicketTypeOK, Rest(silent), Premise(silent), OwnerSearch
    PROVE  TicketTypeOK' /\ Rest(silent)'
BY BeginScanKeeps, LookAtMutexKeeps, LookAtTicketKeeps, TellBlockedKeeps DEF OwnerSearch

LEMMA HandleLockKeeps ==
    ASSUME NEW silent, TicketTypeOK, Rest(silent), NEW q \in requests, HandleLock(q)
    PROVE  TicketTypeOK' /\ Rest(silent)'
<1> USE DEF TicketTypeOK, Rest
<1> DEFINE p == q.from
<1> DEFINE m == q.mutex
<1> DEFINE u == token[m]
<1>1. /\ handler = Idle /\ q.op = "lock" /\ p \in Proc /\ m \in Mutex /\ u \in Nat /\ m \in Nat
      /\ requests' = requests \ {q}
      /\ handler' = [stage |-> "compare", from |-> p, mutex |-> m, ticket |-> u]
      /\ token' = [token EXCEPT ![m] = @ + 1]
      /\ UNCHANGED <<server, turn, tickets, phase, mutex, myturn, held, posted, reply,
                     blocked, left>>
  BY Indices DEF HandleLock, Requests
<1>2. TicketTypeOK'
  BY <1>1
<1>3. /\ phase[p] = "ask" /\ mutex[p] = m /\ LockRequested(p) /\ reply[p] = None
      /\ \A r \in requests : r.op = "lock" /\ r.from = p => r = q
  <2>1. phase[p] = "ask" /\ mutex[p] = m /\ LockRequested(p)
    BY <1>1 DEF Asked, Requested, LockRequested
  <2>2. \A r \in requests : r.op = "lock" /\ r.from = p => r = q
    BY <1>1 DEF Asked, Requested
  <2>3. reply[p] = None
    BY <1>1, <2>1 DEF Asked, Replied
  <2> QED
    BY <2>1, <2>2, <2>3
<1> HIDE DEF p, m, u
<1>4. \A r \in Proc : /\ ~Begun(r) /\ (Begun(r)' <=> r = p)
                      /\ LockRequested(r)' <=> LockRequested(r) /\ r # p
                      /\ InTable(r)' <=> InTable(r)
                      /\ InTable(r) => r # p
  <2>1. \A r \in Proc : ~Begun(r)
    BY <1>1 DEF Begun, Idle
  <2>2. \A r \in Proc : Begun(r)' <=> r = p
    BY <1>1 DEF Begun
  <2>3. \A r \in Proc : LockRequested(r)' <=> LockRequested(r) /\ r # p
    BY <1>1, <1>3 DEF LockRequested, p
  <2>4. \A r \in Proc : InTable(r)' <=> InTable(r)
    BY <1>1, <1>3, <2>1, <2>2, <2>3 DEF InTable
  <2> QED
    BY <1>3, <2>1, <2>2, <2>3, <2>4 DEF InTable
<1>5. OnePlace' /\ InTurn'
  <2>1. \A r \in Proc, n \in Mutex, t \in Nat :
            At("handler", r, n, t)' => <<r, n, t>> = <<p, m, u>>
    BY <1>1, <1>4 DEF At
  <2>2. \A k \in Place \ {"handler"}, r \in Proc, n \in Mutex, t \in Nat :
            At(k, r, n, t)' => At(k, r, n, t)
    BY <1>1, <1>4 DEF At
  <2>3. Added("handler", p, m, u)
    BY <2>1, <2>2 DEF Added
  <2>4. "handler" \in Place /\ "handler" \notin Active
    BY DEF Place, Active
  <2>5. OnePlace /\ InTurn /\ turn' = turn /\ u = token[m]
    BY <1>1 DEF u
  <2> HIDE DEF TicketTypeOK, Rest
  <2> QED
    BY <1>1, <2>3, <2>4, <2>5, Appears
<1>6. Leftovers(silent)'
  <2>1. \A n \in Mutex, t \in Nat : Searching(n, t)' <=> Searching(n, t)
    BY <1>1 DEF Searching
  <2> QED
    BY <1>1, <1>4, <2>1 DEF Leftovers, Current, Idle
<1>7. Asked'
  <2>1. Calls' /\ Tabled'
    BY <1>1, <1>4 DEF Asked, Calls, Tabled
  <2>2. Replied' /\ Handled'
    BY <1>1, <1>3, <1>4 DEF Asked, Replied, Handled
  <2>3. Requested'
    <3>1. \A r \in requests : r.from \in Proc
      BY DEF Requests
    <3> QED
      BY <1>1, <1>3, <1>4, <3>1 DEF Asked, Requested
  <2> QED
    BY <2>1, <2>2, <2>3 DEF Asked
<1>8. Alive'
  BY <1>1 DEF Alive
<1>20. Looked'
  <2>1. phase'[Owner] \in {"match", "tell"} =>
            /\ phase[Owner] = phase'[Owner] /\ mutex'[Owner] = mutex[Owner]
            /\ NextTicket' = NextTicket
    BY <1>1, <1>4, Indices DEF NextTicket
  <2>2. \A r \in Proc : InTable(r) => InTable(r)'
    BY <1>1, <1>4
  <2>3. UNCHANGED <<left, blocked>> /\ Looked
    BY <1>1 DEF Rest
  <2> HIDE DEF TicketTypeOK, Rest
  <2> QED
    BY <2>1, <2>2, <2>3, LookedStays
<1> QED
  BY <1>2, <1>5, <1>6, <1>7, <1>8, <1>20 DEF Rest

LEMMA CompareTurnKeeps ==
    ASSUME NEW silent, TicketTypeOK, Rest(silent), CompareTurn
    PROVE  TicketTypeOK' /\ Rest(silent)'
<1> USE DEF TicketTypeOK, Rest
<1> DEFINE p == handler.from
<1> DEFINE m == handler.mutex
<1> DEFINE u == handler.ticket
<1>1. /\ handler.stage = "compare" /\ p \in Proc /\ m \in Nat /\ u \in Nat /\ Begun(p)
      /\ UNCHANGED <<server, token, turn, tickets, phase, mutex, myturn, held, posted,
                     requests, blocked, left>>
  BY DEF CompareTurn, Begun
<1>2. /\ phase[p] = "ask" /\ mutex[p] = m /\ ~LockRequested(p) /\ reply[p] = None
      /\ m \in Mutex
      /\ \A q \in requests : q.op = "lock" => q.from # p
  <2>1. phase[p] = "ask" /\ mutex[p] = m /\ m \in Mutex
    BY <1>1 DEF Asked, Handled, Calls
  <2>2. \A q \in requests : q.op = "lock" => q.from # p
    BY <1>1 DEF Asked, Requested
  <2>3. reply[p] = None
    BY <1>1 DEF Asked, Replied
  <2> QED
    BY <2>1, <2>2, <2>3 DEF LockRequested
<1>3. At("handler", p, m, u) /\ "handler" \in Place /\ "reply" \in Place
  BY <1>1 DEF At, Place
<1>4. turn[m] <= u /\ turn[m] \in Nat
  BY <1>1, <1>2, <1>3 DEF InTurn
<1>5. \A n \in Mutex, t \in Nat : Searching(n, t)' <=> Searching(n, t)
  BY <1>1 DEF Searching
<1>6. CASE turn[m] = u
  <2>1. reply' = [reply EXCEPT ![p] = u] /\ handler' = Idle
    BY <1>6 DEF CompareTurn
  <2>2. TicketTypeOK'
    BY <1>1, <2>1, Indices DEF Idle
  <2> HIDE DEF p, m, u
  <2>3. \A q \in Proc : /\ ~Begun(q)' /\ (Begun(q) => q = p)
                        /\ LockRequested(q)' <=> LockRequested(q)
                        /\ InTable(q)' <=> InTable(q)
                        /\ InTable(q) => q # p
    <3>1. \A q \in Proc : ~Begun(q)' /\ (Begun(q) => q = p)
      BY <2>1 DEF Begun, Idle, p
    <3>2. \A q \in Proc : LockRequested(q)' <=> LockRequested(q)
      BY <1>1 DEF LockRequested
    <3>3. \A q \in Proc : q # p => reply'[q] = reply[q]
      BY <2>1
    <3>4. reply'[p] # None
      BY <1>1, <2>1, Indices
    <3>5. \A q \in Proc : q # p => (InTable(q)' <=> InTable(q))
      BY <1>1, <3>1, <3>2, <3>3 DEF InTable
    <3>6. \A q \in Proc : q = p => ~InTable(q) /\ ~InTable(q)'
      BY <1>1, <3>4 DEF InTable
    <3> QED
      BY <3>1, <3>2, <3>5, <3>6
  <2>4. OnePlace' /\ InTurn'
    <3>1. \A q \in Proc, n \in Mutex, t \in Nat :
              At("reply", q, n, t)' => At("reply", q, n, t) \/ <<q, n, t>> = <<p, m, u>>
      BY <1>1, <1>2, <2>1 DEF At
    <3>2. \A q \in Proc, n \in Mutex, t \in Nat : ~At("handler", q, n, t)'
      BY <2>3 DEF At
    <3>3. \A k \in Place \ {"reply", "handler"}, q \in Proc, n \in Mutex, t \in Nat :
              At(k, q, n, t)' => At(k, q, n, t)
      BY <1>1, <2>3 DEF At
    <3>4. Moved("handler", "reply", p, m, u)
      BY <3>1, <3>2, <3>3 DEF Moved
    <3>5. OnePlace /\ InTurn /\ UNCHANGED <<token, turn>>
      BY <1>1
    <3> HIDE DEF TicketTypeOK, Rest
    <3> QED
      BY <1>1, <1>2, <1>3, <1>6, <3>4, <3>5, Moves
  <2>5. Leftovers(silent)'
    BY <1>1, <1>5, <2>3 DEF Leftovers, Current
  <2>6. Asked'
    <3>1. Calls' /\ Tabled'
      BY <1>1, <2>3 DEF Asked, Calls, Tabled
    <3>2. Replied' /\ Handled'
      BY <1>1, <1>2, <2>1, <2>3 DEF Asked, Replied, Handled
    <3>3. Requested'
      <4>1. \A q \in requests : q.from \in Proc
        BY DEF Requests
      <4> QED
        BY <1>1, <2>3, <4>1 DEF Asked, Requested
    <3> QED
      BY <3>1, <3>2, <3>3 DEF Asked
  <2>7. Alive'
    BY <1>1, <2>1 DEF Alive, Idle
  <2>20. Looked'
    <3>1. phase'[Owner] \in {"match", "tell"} =>
              /\ phase[Owner] = phase'[Owner] /\ mutex'[Owner] = mutex[Owner]
              /\ NextTicket' = NextTicket
      BY <1>1, <2>3, Indices DEF NextTicket
    <3>2. \A q \in Proc : InTable(q) => InTable(q)'
      BY <1>1, <2>3
    <3>3. UNCHANGED <<left, blocked>> /\ Looked
      BY <1>1 DEF Rest
    <3> HIDE DEF TicketTypeOK, Rest
    <3> QED
      BY <3>1, <3>2, <3>3, LookedStays
  <2> QED
    BY <2>2, <2>4, <2>5, <2>6, <2>7, <2>20 DEF Rest
<1>7. CASE turn[m] # u
  <2>1. handler' = [handler EXCEPT !.stage = "mutex"] /\ UNCHANGED reply
    <3>1. ~(turn[m] > u)
      BY <1>1, <1>4
    <3> QED
      BY <1>7, <3>1 DEF CompareTurn
  <2>2. TicketTypeOK' /\ handler'.stage = "mutex" /\ handler'.from = p /\ handler'.mutex = m
                      /\ handler'.ticket = u
    BY <1>1, <2>1
  <2>3. \A q \in Proc : /\ Begun(q)' <=> Begun(q)
                        /\ LockRequested(q)' <=> LockRequested(q)
                        /\ InTable(q)' <=> InTable(q)
    <3>1. \A q \in Proc : Begun(q)' <=> Begun(q)
      BY <1>1, <2>2 DEF Begun
    <3>2. \A q \in Proc : LockRequested(q)' <=> LockRequested(q)
      BY <1>1 DEF LockRequested
    <3> QED
      BY <1>1, <2>1, <3>1, <3>2 DEF InTable
  <2>4. OnePlace' /\ InTurn'
    <3>1. Kept
      BY <1>1, <2>1, <2>2, <2>3 DEF Kept, At
    <3>2. OnePlace /\ InTurn /\ UNCHANGED <<token, turn>>
      BY <1>1
    <3> HIDE DEF TicketTypeOK, Rest
    <3> QED
      BY <3>1, <3>2, Stays
  <2>5. Leftovers(silent)'
    BY <1>1, <1>5, <2>3 DEF Leftovers, Current
  <2>6. Asked'
    <3>1. Calls' /\ Tabled'
      BY <1>1, <2>3 DEF Asked, Calls, Tabled
    <3>2. Replied' /\ Handled'
      BY <1>1, <2>1, <2>2, <2>3 DEF Asked, Replied, Handled
    <3>3. Requested'
      <4>1. \A q \in requests : q.from \in Proc
        BY DEF Requests
      <4> QED
        BY <1>1, <2>3, <4>1 DEF Asked, Requested
    <3> QED
      BY <3>1, <3>2, <3>3 DEF Asked
  <2>7. Alive'
    BY <1>1, <2>2 DEF Alive
  <2>20. Looked'
    <3>1. phase'[Owner] \in {"match", "tell"} =>
              /\ phase[Owner] = phase'[Owner] /\ mutex'[Owner] = mutex[Owner]
              /\ NextTicket' = NextTicket
      BY <1>1, <2>3, Indices DEF NextTicket
    <3>2. \A q \in Proc : InTable(q) => InTable(q)'
      BY <1>1, <2>3
    <3>3. UNCHANGED <<left, blocked>> /\ Looked
      BY <1>1 DEF Rest
    <3> HIDE DEF TicketTypeOK, Rest
    <3> QED
      BY <3>1, <3>2, <3>3, LookedStays
  <2> QED
    BY <2>2, <2>4, <2>5, <2>6, <2>7, <2>20 DEF Rest
<1> QED
  BY <1>6, <1>7

LEMMA StoreMutexKeeps ==
    ASSUME NEW silent, TicketTypeOK, Rest(silent), Premise(silent), StoreMutex
    PROVE  TicketTypeOK' /\ Rest(silent)'
<1> USE DEF TicketTypeOK, Rest
<1> DEFINE p == handler.from
<1> DEFINE m == handler.mutex
<1> DEFINE u == handler.ticket
<1>1. /\ handler.stage = "mutex" /\ p \in Proc /\ m \in Nat /\ u \in Nat /\ Begun(p)
      /\ blocked' = [blocked EXCEPT ![p] = <<m, blocked[p][2]>>]
      /\ handler' = [handler EXCEPT !.stage = "turn"]
      /\ UNCHANGED <<server, token, turn, tickets, phase, mutex, myturn, held, posted,
                     requests, reply, left>>
  BY DEF StoreMutex, Begun
<1>2. /\ TicketTypeOK' /\ handler'.stage = "turn" /\ handler'.from = p /\ handler'.mutex = m
      /\ handler'.ticket = u
  BY <1>1
<1>3. phase[p] = "ask" /\ mutex[p] = m /\ m \in Mutex
  BY <1>1 DEF Asked, Handled, Calls
<1>4. \A n \in Mutex, t \in Nat : Searching(n, t)' <=> Searching(n, t)
  BY <1>1 DEF Searching
<1>5. \A q \in Proc : /\ Begun(q)' <=> Begun(q)
                      /\ LockRequested(q)' <=> LockRequested(q)
                      /\ InTable(q)' <=> InTable(q)
                      /\ InTable(q) => q # p
  <2>1. \A q \in Proc : Begun(q)' <=> Begun(q)
    BY <1>1, <1>2 DEF Begun
  <2>2. \A q \in Proc : LockRequested(q)' <=> LockRequested(q)
    BY <1>1 DEF LockRequested
  <2> QED
    BY <1>1, <2>1, <2>2 DEF InTable
<1>6. /\ blocked'[p] = <<m, blocked[p][2]>> /\ blocked'[p][1] = m
      /\ \A q \in Proc : q # p => blocked'[q] = blocked[q]
  BY <1>1
<1>7. OnePlace' /\ InTurn'
  <2>1. Kept
    <3> HIDE DEF p, m, u
    <3> QED
      BY <1>1, <1>2, <1>5, <1>6 DEF Kept, At
  <2>2. OnePlace /\ InTurn /\ UNCHANGED <<token, turn>>
    BY <1>1
  <2> HIDE DEF TicketTypeOK, Rest
  <2> QED
    BY <2>1, <2>2, Stays
<1>8. Leftovers(silent)'
  <2>1. CASE silent
    <3>1. \A q \in Proc : Current(silent, q)' <=> Current(silent, q) \/ q = p
      BY <1>1, <1>2, <1>5, <2>1 DEF Current
    <3>2. \A q \in Proc : ~Current(silent, q)' => blocked'[q] = blocked[q] /\ ~Current(silent, q)
      BY <1>6, <3>1
    <3> HIDE DEF p, m, u
    <3> QED
      BY <1>1, <1>4, <3>2 DEF Leftovers
  <2>2. CASE ~silent
    <3>1. blocked' = blocked
      BY <1>1, <2>2 DEF Premise, EntryKeepsMutex
    <3>2. \A q \in Proc : Current(silent, q)' <=> Current(silent, q)
      BY <1>5, <2>2 DEF Current
    <3> QED
      BY <1>1, <1>4, <3>1, <3>2 DEF Leftovers
  <2> QED
    BY <2>1, <2>2
<1>9. Looked'
  <2>1. \A q \in Proc : AtEntry(q)' <=> AtEntry(q)
    BY <1>1 DEF AtEntry
  <2>2. NextTicket' = NextTicket
    BY <1>1 DEF NextTicket
  <2>3. CASE silent
    <3>1. phase'[Owner] \notin {"match", "tell"}
      BY <1>1, <2>3 DEF Premise, OwnerSilent, InSearch
    <3> QED
      BY <3>1 DEF Looked
  <2>4. CASE ~silent
    <3>1. blocked' = blocked
      BY <1>1, <2>4 DEF Premise, EntryKeepsMutex
    <3> QED
      BY <1>1, <1>5, <2>1, <2>2, <3>1 DEF Looked
  <2> QED
    BY <2>3, <2>4
<1>10. Asked'
  <2>1. Calls'
    BY <1>1 DEF Asked, Calls
  <2>2. Replied'
    BY <1>1, <1>5 DEF Asked, Replied
  <2>3. Handled'
    <3>1. \A q \in Proc : Begun(q)' => q = p
      BY <1>1, <1>2 DEF Begun
    <3> HIDE DEF p, m, u
    <3> QED
      BY <1>1, <1>2, <1>3, <1>6, <3>1 DEF Handled
  <2>4. Tabled'
    <3> SUFFICES ASSUME NEW q \in Proc, InTable(q)'
                 PROVE  \E t \in Nat : blocked'[q] = <<mutex'[q], t>>
      BY DEF Tabled
    <3>1. PICK t \in Nat : blocked[q] = <<mutex[q], t>>
      BY <1>5 DEF Asked, Tabled
    <3> QED
      BY <1>1, <1>5, <1>6, <3>1
  <2>5. Requested'
    <3>1. \A q \in requests : q.from \in Proc
      BY DEF Requests
    <3> QED
      BY <1>1, <1>5, <3>1 DEF Asked, Requested
  <2> QED
    BY <2>1, <2>2, <2>3, <2>4, <2>5 DEF Asked
<1>11. Alive'
  BY <1>1, <1>2 DEF Alive
<1> QED
  BY <1>2, <1>7, <1>8, <1>9, <1>10, <1>11 DEF Rest

LEMMA StoreTicketKeeps ==
    ASSUME NEW silent, TicketTypeOK, Rest(silent), StoreTicket
    PROVE  TicketTypeOK' /\ Rest(silent)'
<1> USE DEF TicketTypeOK, Rest
<1> DEFINE p == handler.from
<1> DEFINE m == handler.mutex
<1> DEFINE u == handler.ticket
<1>1. /\ handler.stage = "turn" /\ p \in Proc /\ m \in Nat /\ u \in Nat /\ Begun(p)
      /\ blocked' = [blocked EXCEPT ![p] = <<blocked[p][1], u>>]
      /\ handler' = [handler EXCEPT !.stage = "tag"]
      /\ UNCHANGED <<server, token, turn, tickets, phase, mutex, myturn, held, posted,
                     requests, reply, left>>
  BY DEF StoreTicket, Begun
<1>2. /\ phase[p] = "ask" /\ mutex[p] = m /\ m \in Mutex /\ blocked[p][1] = m
      /\ \A q \in requests : q.op = "lock" => q.from # p
  BY <1>1 DEF Asked, Handled, Calls, Requested
<1>3. TicketTypeOK' /\ handler'.stage = "tag"
  BY <1>1
<1>4. At("handler", p, m, u) /\ "handler" \in Place /\ "table" \in Place /\ "table" \notin Active
  BY <1>1 DEF At, Place, Active
<1>5. \A n \in Mutex, t \in Nat : Searching(n, t)' <=> Searching(n, t)
  BY <1>1 DEF Searching
<1>6. \A q \in Proc : /\ ~Begun(q)' /\ (Begun(q) => q = p)
                      /\ LockRequested(q)' <=> LockRequested(q)
                      /\ InTable(q) => q # p
                      /\ InTable(q)' <=> InTable(q) \/ q = p
  <2>1. \A q \in Proc : ~Begun(q)' /\ (Begun(q) => q = p)
    BY <1>1, <1>3 DEF Begun
  <2>2. \A q \in Proc : LockRequested(q)' <=> LockRequested(q)
    BY <1>1 DEF LockRequested
  <2>3. \A q \in Proc : q # p => (InTable(q)' <=> InTable(q))
    BY <1>1, <2>1, <2>2 DEF InTable
  <2>4. ~InTable(p)
    BY <1>1 DEF InTable
  <2>5. \A q \in Proc : q = p => InTable(q)'
    <3>1. reply[p] = None /\ ~LockRequested(p)
      BY <1>1, <1>2 DEF Asked, Replied, LockRequested
    <3> HIDE DEF p
    <3> QED
      BY <1>1, <1>2, <2>1, <2>2, <3>1 DEF InTable
  <2> QED
    BY <2>1, <2>2, <2>3, <2>4, <2>5
<1> HIDE DEF p, m, u
<1>7. blocked'[p] = <<m, u>> /\ \A q \in Proc : q # p => blocked'[q] = blocked[q]
  BY <1>1, <1>2
<1>8. OnePlace' /\ InTurn'
  <2>1. \A q \in Proc, n \in Mutex, t \in Nat :
            At("table", q, n, t)' => At("table", q, n, t) \/ <<q, n, t>> = <<p, m, u>>
    BY <1>6, <1>7 DEF At
  <2>2. \A q \in Proc, n \in Mutex, t \in Nat : ~At("handler", q, n, t)'
    BY <1>6 DEF At
  <2>3. \A k \in Place \ {"table", "handler"}, q \in Proc, n \in Mutex, t \in Nat :
            At(k, q, n, t)' => At(k, q, n, t)
    BY <1>1, <1>6 DEF At
  <2>4. Moved("handler", "table", p, m, u)
    BY <2>1, <2>2, <2>3 DEF Moved
  <2>5. OnePlace /\ InTurn /\ UNCHANGED <<token, turn>>
    BY <1>1
  <2> HIDE DEF TicketTypeOK, Rest
  <2> QED
    BY <1>1, <1>2, <1>4, <2>4, <2>5, Moves
<1>9. Leftovers(silent)'
  <2>1. ASSUME NEW q \in Proc, NEW n \in Mutex, NEW t \in Nat, blocked'[q] = <<n, t>>,
               ~Current(silent, q)'
        PROVE  t <= turn[n] /\ ~Searching(n, t)
    <3>1. q # p /\ ~InTable(q)
      BY <1>6, <2>1 DEF Current
    <3>2. blocked[q] = <<n, t>> /\ ~Current(silent, q)
      BY <1>6, <1>7, <2>1, <3>1 DEF Current, p
    <3> QED
      BY <3>2 DEF Leftovers
  <2> QED
    BY <1>1, <1>5, <2>1 DEF Leftovers
<1>10. Asked'
  <2>1. Calls'
    BY <1>1 DEF Asked, Calls
  <2>2. Replied' /\ Handled'
    BY <1>1, <1>6 DEF Asked, Replied, Handled
  <2>3. Tabled'
    <3> SUFFICES ASSUME NEW q \in Proc, InTable(q)'
                 PROVE  \E t \in Nat : blocked'[q] = <<mutex'[q], t>>
      BY DEF Tabled
    <3>1. CASE q = p
      BY <1>1, <1>2, <1>7, <3>1
    <3>2. CASE q # p
      <4>1. PICK t \in Nat : blocked[q] = <<mutex[q], t>>
        BY <1>6, <3>2 DEF Asked, Tabled
      <4> QED
        BY <1>1, <1>7, <3>2, <4>1
    <3> QED
      BY <3>1, <3>2
  <2>4. Requested'
    <3>1. \A q \in requests : q.from \in Proc
      BY DEF Requests
    <3> QED
      BY <1>1, <1>6, <3>1 DEF Asked, Requested
  <2> QED
    BY <2>1, <2>2, <2>3, <2>4 DEF Asked
<1>11. Alive'
  BY <1>1, <1>3 DEF Alive
<1>12. Looked'
  <2>1. \A q \in Proc : AtEntry(q)' <=> AtEntry(q)
    BY <1>1 DEF AtEntry
  <2>2. NextTicket' = NextTicket /\ phase' = phase /\ mutex' = mutex
    BY <1>1 DEF NextTicket
  <2>3. \A q \in Proc : blocked'[q][1] = blocked[q][1]
    <3>1. blocked'[p][1] = blocked[p][1]
      BY <1>2, <1>7
    <3> QED
      BY <1>7, <3>1
  <2>4. \A q \in Proc : InTable(q) => InTable(q)' /\ blocked'[q] = blocked[q]
    BY <1>6, <1>7
  <2>5. Looked
    OBVIOUS
  <2> HIDE DEF TicketTypeOK, Rest
  <2> QED
    BY <2>1, <2>2, <2>3, <2>4, <2>5 DEF Looked
<1> QED
  BY <1>3, <1>8, <1>9, <1>10, <1>11, <1>12 DEF Rest

LEMMA StoreTagKeeps ==
    ASSUME NEW silent, TicketTypeOK, Rest(silent), StoreTag
    PROVE  TicketTypeOK' /\ Rest(silent)'
<1> USE DEF TicketTypeOK, Rest
<1>1. /\ handler.stage = "tag" /\ handler' = Idle
      /\ UNCHANGED <<server, token, turn, tickets, phase, mutex, myturn, held, posted,
                     requests, reply, blocked, left>>
  BY DEF StoreTag
<1>2. TicketTypeOK'
  BY <1>1, Indices DEF Idle
<1>3. \A q \in Proc : /\ Begun(q)' <=> Begun(q)
                      /\ LockRequested(q)' <=> LockRequested(q)
                      /\ InTable(q)' <=> InTable(q)
                      /\ ~Begun(q)
  <2>1. \A q \in Proc : (Begun(q)' <=> Begun(q)) /\ ~Begun(q)
    BY <1>1 DEF Begun, Idle
  <2>2. \A q \in Proc : LockRequested(q)' <=> LockRequested(q)
    BY <1>1 DEF LockRequested
  <2> QED
    BY <1>1, <2>1, <2>2 DEF InTable
<1>4. OnePlace' /\ InTurn'
  <2>1. Kept
    BY <1>1, <1>3 DEF Kept, At
  <2>2. OnePlace /\ InTurn /\ UNCHANGED <<token, turn>>
    BY <1>1
  <2> HIDE DEF TicketTypeOK, Rest
  <2> QED
    BY <2>1, <2>2, Stays
<1>5. Leftovers(silent)'
  <2>1. \A n \in Mutex, t \in Nat : Searching(n, t)' <=> Searching(n, t)
    BY <1>1 DEF Searching
  <2>2. \A q \in Proc : Current(silent, q)' <=> Current(silent, q)
    BY <1>1, <1>3 DEF Current, Idle
  <2> QED
    BY <1>1, <2>1, <2>2 DEF Leftovers
<1>6. Asked'
  <2>1. Calls' /\ Replied' /\ Handled' /\ Tabled'
    BY <1>1, <1>3 DEF Asked, Calls, Replied, Handled, Tabled
  <2>2. Requested'
    <3>1. \A q \in requests : q.from \in Proc
      BY DEF Requests
    <3> QED
      BY <1>1, <1>3, <3>1 DEF Asked, Requested
  <2> QED
    BY <2>1, <2>2 DEF Asked
<1>7. Alive'
  BY <1>1 DEF Alive, Idle
<1>20. Looked'
  <2>1. phase'[Owner] \in {"match", "tell"} =>
            /\ phase[Owner] = phase'[Owner] /\ mutex'[Owner] = mutex[Owner]
            /\ NextTicket' = NextTicket
    BY <1>1, <1>3, Indices DEF NextTicket
  <2>2. \A q \in Proc : InTable(q) => InTable(q)'
    BY <1>1, <1>3
  <2>3. UNCHANGED <<left, blocked>> /\ Looked
    BY <1>1 DEF Rest
  <2> HIDE DEF TicketTypeOK, Rest
  <2> QED
    BY <2>1, <2>2, <2>3, LookedStays
<1> QED
  BY <1>2, <1>4, <1>5, <1>6, <1>7, <1>20 DEF Rest

LEMMA HandleUnlockKeeps ==
    ASSUME NEW silent, TicketTypeOK, Rest(silent), NEW q \in requests, HandleUnlock(q)
    PROVE  TicketTypeOK' /\ Rest(silent)'
<1> USE DEF TicketTypeOK, Rest
<1> DEFINE p == q.from
<1> DEFINE m == q.mutex
<1> DEFINE u == q.ticket
<1>1. /\ handler.stage = "idle" /\ q.op = "unlock"
      /\ p \in Proc /\ m \in Mutex /\ u \in Nat /\ u + 1 \in Nat
      /\ q = Request("unlock", p, m, u)
      /\ requests' = requests \ {q}
      /\ turn' = [turn EXCEPT ![m] = u + 1]
      /\ Pass(m, u + 1)
      /\ UNCHANGED <<server, token, tickets, phase, mutex, myturn, held, posted, handler,
                     blocked, left>>
  BY DEF HandleUnlock, Requests, Request, Idle
<1> HIDE DEF p, m, u
<1>2. At("request", p, m, u) /\ "request" \in Place /\ "request" \in Active
  BY <1>1 DEF At, Place, Active
<1>3. u = turn[m]
  BY <1>1, <1>2 DEF InTurn
<1>4. \A n \in Mutex, t \in Nat : Searching(n, t)' <=> Searching(n, t)
  BY <1>1 DEF Searching
<1>5. \A n \in Mutex : turn[n] <= turn'[n] /\ turn'[m] = u + 1
  BY <1>1, <1>3
<1>6. \A r \in requests : r.op = "lock" => r \in requests'
  BY <1>1
<1>7. Calls' /\ Alive'
  BY <1>1 DEF Asked, Calls, Alive
<1>8. \A r \in Proc, n \in Mutex, t \in Nat :
          At("request", r, n, t)' => At("request", r, n, t) /\ <<r, n, t>> # <<p, m, u>>
  BY <1>1 DEF At
<1>9. CASE UNCHANGED reply
  <2>1. TicketTypeOK'
    BY <1>1, <1>9
  <2>2. \A r \in Proc : /\ Begun(r)' <=> Begun(r)
                        /\ LockRequested(r)' <=> LockRequested(r)
                        /\ InTable(r)' <=> InTable(r)
    <3>1. \A r \in Proc : Begun(r)' <=> Begun(r)
      BY <1>1 DEF Begun
    <3>2. \A r \in Proc : LockRequested(r)' <=> LockRequested(r)
      BY <1>1, <1>6 DEF LockRequested
    <3> QED
      BY <1>1, <1>9, <3>1, <3>2 DEF InTable
  <2>3. OnePlace' /\ InTurn'
    <3>1. \A k \in Place \ {"request"}, r \in Proc, n \in Mutex, t \in Nat :
              At(k, r, n, t)' => At(k, r, n, t)
      BY <1>1, <1>9, <2>2 DEF At, Begun
    <3>2. Removed("request", p, m, u)
      BY <1>8, <3>1 DEF Removed
    <3>3. OnePlace /\ InTurn /\ token' = token
      BY <1>1
    <3> HIDE DEF TicketTypeOK, Rest
    <3> QED
      BY <1>1, <1>2, <1>3, <3>2, <3>3, Leaves
  <2>4. Leftovers(silent)'
    <3> HIDE DEF Searching
    <3> QED
      BY <1>1, <1>4, <1>5, <2>1, <2>2 DEF Leftovers, Current
  <2>5. Asked'
    <3>1. Replied' /\ Handled' /\ Tabled'
      BY <1>1, <1>9, <2>2 DEF Asked, Replied, Handled, Tabled
    <3>2. Requested'
      <4>1. \A r \in requests : r.from \in Proc
        BY DEF Requests
      <4> QED
        BY <1>1, <2>2, <4>1 DEF Asked, Requested
    <3> QED
      BY <1>7, <3>1, <3>2 DEF Asked
  <2>20. Looked'
    <3>1. phase'[Owner] \in {"match", "tell"} =>
              /\ phase[Owner] = phase'[Owner] /\ mutex'[Owner] = mutex[Owner]
              /\ NextTicket' = NextTicket
      BY <1>1, <2>2, Indices DEF NextTicket
    <3>2. \A r \in Proc : InTable(r) => InTable(r)'
      BY <1>1, <2>2
    <3>3. UNCHANGED <<left, blocked>> /\ Looked
      BY <1>1 DEF Rest
    <3> HIDE DEF TicketTypeOK, Rest
    <3> QED
      BY <3>1, <3>2, <3>3, LookedStays
  <2> QED
    BY <1>7, <2>1, <2>3, <2>4, <2>5, <2>20 DEF Rest
<1>10. CASE \E s \in Waiting(m, u + 1) : reply' = [reply EXCEPT ![s] = u + 1]
  <2>1. PICK s \in Proc : blocked[s] = <<m, u + 1>> /\ reply' = [reply EXCEPT ![s] = u + 1]
    BY <1>10 DEF Waiting
  <2>2. InTable(s)
    <3>1. ~(u + 1 <= turn[m])
      BY <1>1, <1>3
    <3> QED
      BY <1>1, <2>1, <3>1 DEF Leftovers, Current
  <2>3. TicketTypeOK'
    BY <1>1, <2>1
  <2>4. \A r \in Proc : /\ Begun(r)' <=> Begun(r)
                        /\ LockRequested(r)' <=> LockRequested(r)
                        /\ InTable(r)' <=> InTable(r) /\ r # s
    <3>1. /\ UNCHANGED <<handler, blocked>>
          /\ \A r \in requests' : r \in requests
          /\ \A r \in Proc : phase'[r] = "ask" <=> phase[r] = "ask"
      BY <1>1
    <3> HIDE DEF TicketTypeOK, Rest
    <3> QED
      BY <1>1, <1>6, <2>1, <2>2, <3>1, PassFrame
  <2>5. At("table", s, m, u + 1)
    BY <2>1, <2>2 DEF At
  <2>6. mutex[s] = m /\ phase[s] = "ask"
    BY <2>1, <2>2 DEF Asked, Tabled, InTable
  <2>7. OnePlace' /\ InTurn'
    <3>1. \A r \in Proc, n \in Mutex, t \in Nat :
              At("reply", r, n, t)' => At("reply", r, n, t) \/ <<r, n, t>> = <<s, m, u + 1>>
      BY <1>1, <2>1, <2>6 DEF At
    <3>2. \A r \in Proc, n \in Mutex, t \in Nat :
              At("table", r, n, t)' => At("table", r, n, t) /\ r # s
      BY <1>1, <2>4 DEF At
    <3>3. \A k \in Place \ {"reply", "table", "request"}, r \in Proc, n \in Mutex, t \in Nat :
              At(k, r, n, t)' => At(k, r, n, t)
      BY <1>1, <2>4 DEF At, Begun
    <3>4. Passed("request", p, s, m, u)
      BY <1>8, <3>1, <3>2, <3>3 DEF Passed
    <3>5. OnePlace /\ InTurn /\ token' = token
      BY <1>1
    <3> HIDE DEF TicketTypeOK, Rest
    <3> QED
      BY <1>1, <1>2, <1>3, <2>5, <3>4, <3>5, LeavesAndPasses
  <2>8. Leftovers(silent)'
    <3>1. ASSUME NEW r \in Proc, NEW n \in Mutex, NEW t \in Nat, blocked[r] = <<n, t>>,
                 ~Current(silent, r)'
          PROVE  t <= turn'[n] /\ ~Searching(n, t)
      <4>1. CASE r = s
        <5>1. n = m /\ t = u + 1 /\ ~(t <= turn[m])
          BY <1>1, <1>3, <2>1, <3>1, <4>1
        <5>2. ~Searching(n, t)
          BY <5>1 DEF Leftovers, Current
        <5> QED
          BY <1>1, <1>5, <5>1, <5>2
      <4>2. CASE r # s
        <5>1. t <= turn[n] /\ ~Searching(n, t)
          BY <1>1, <2>4, <3>1, <4>2 DEF Leftovers, Current
        <5> QED
          BY <1>5, <2>3, <5>1
      <4> QED
        BY <4>1, <4>2
    <3>2. \A n \in Mutex, t \in Nat : Searching(n, t) => 0 < t /\ t <= turn'[n]
      BY <1>5, <2>3 DEF Leftovers, Current
    <3> HIDE DEF Searching
    <3> QED
      BY <1>1, <1>4, <3>1, <3>2 DEF Leftovers, Current
  <2>9. Asked'
    <3>1. Replied'
      BY <1>1, <2>1, <2>2, <2>4, <2>6 DEF Asked, Replied, InTable
    <3>2. Handled' /\ Tabled'
      BY <1>1, <2>4 DEF Asked, Handled, Tabled
    <3>3. Requested'
      <4>1. \A r \in requests : r.from \in Proc
        BY DEF Requests
      <4> QED
        BY <1>1, <2>4, <4>1 DEF Asked, Requested
    <3> QED
      BY <1>7, <3>1, <3>2, <3>3 DEF Asked
  <2>10. Looked'
    <3>1. \A r \in Proc : AtEntry(r)' <=> AtEntry(r)
      BY <1>1 DEF AtEntry
    <3>2. NextTicket' = NextTicket /\ UNCHANGED <<phase, mutex, blocked>> /\ Looked
      BY <1>1 DEF NextTicket
    <3>3. ~Searching(m, u + 1)
      BY <1>1, <1>3 DEF Leftovers
    <3>4. ASSUME AtEntry(s), phase[Owner] = "tell"
          PROVE  FALSE
      <4>1. m = mutex[Owner] /\ u + 1 = NextTicket
        BY <2>1, <3>2, <3>4 DEF Looked
      <4> QED
        BY <3>3, <3>4, <4>1 DEF Searching, NextTicket
    <3> HIDE DEF TicketTypeOK, Rest
    <3> QED
      BY <2>4, <3>1, <3>2, <3>4 DEF Looked
  <2> QED
    BY <1>7, <2>3, <2>7, <2>8, <2>9, <2>10 DEF Rest
<1> QED
  BY <1>1, <1>9, <1>10 DEF Pass

-----------------------------------------------------------------------------
(* The invariant *)

LEMMA StepsKeep ==
    ASSUME NEW silent, TicketTypeOK, Rest(silent), Premise(silent),
           [TicketNext]_ticketvars
    PROVE  TicketTypeOK' /\ Rest(silent)'
<1>1. CASE \E p \in Proc, m \in Mutex : Lock(p, m)
  BY <1>1, TakeTicketKeeps, AskServerKeeps DEF Lock
<1>2. CASE \E p \in Proc, m \in Mutex : Unlock(p, m)
  BY <1>2, GenericUnlockKeeps, RemUnlockKeeps, OwnerUnlockKeeps DEF Unlock
<1>3. CASE \E p \in Proc : TicketStep(p)
  BY <1>3, PollKeeps, AnsweredKeeps, OwnerSearchKeeps DEF TicketStep
<1>4. CASE \E w \in posted : TurnArrives(w)
  BY <1>4, TurnArrivesKeeps
<1>5. CASE HandlerStep
  BY <1>5, CompareTurnKeeps, StoreMutexKeeps, StoreTicketKeeps, StoreTagKeeps,
     HandleLockKeeps, HandleUnlockKeeps DEF HandlerStep
<1>6. CASE UNCHANGED ticketvars
  <2>1. TicketTypeOK'
    BY <1>6 DEF TicketTypeOK, ticketvars
  <2>2. \A p \in Proc : /\ Begun(p)' <=> Begun(p)
                        /\ LockRequested(p)' <=> LockRequested(p)
                        /\ InTable(p)' <=> InTable(p)
    BY <1>6 DEF ticketvars, Begun, LockRequested, InTable
  <2>3. Kept
    BY <1>6, <2>2 DEF Kept, At, ticketvars, Begun
  <2>4. OnePlace /\ InTurn /\ Asked /\ Leftovers(silent) /\ Looked /\ Alive
    BY DEF Rest
  <2>5. OnePlace' /\ InTurn'
    BY <1>6, <2>3, <2>4, Stays DEF ticketvars
  <2>6. \A m \in Mutex, t \in Nat : Searching(m, t)' <=> Searching(m, t)
    BY <1>6 DEF Searching, ticketvars
  <2>7. Leftovers(silent)' /\ Alive'
    BY <1>6, <2>2, <2>4, <2>6 DEF Leftovers, Current, Alive, ticketvars
  <2>8. Calls' /\ Replied' /\ Handled' /\ Tabled'
    BY <1>6, <2>2, <2>4 DEF Asked, Calls, Replied, Handled, Tabled, ticketvars
  <2>9. Requested'
    <3>1. \A q \in requests : q.from \in Proc
      BY DEF TicketTypeOK, Requests
    <3> QED
      BY <1>6, <2>2, <2>4, <3>1 DEF Asked, Requested, ticketvars
  <2>10. Looked'
    BY <1>6, <2>2, <2>4, LookedStays DEF ticketvars, NextTicket
  <2> QED
    BY <2>1, <2>5, <2>7, <2>8, <2>9, <2>10 DEF Rest, Asked
<1> QED
  BY <1>1, <1>2, <1>3, <1>4, <1>5, <1>6 DEF TicketNext

LEMMA RestInit ==
    ASSUME NEW silent, TicketInit, CleanFill
    PROVE  Rest(silent)
<1>1. /\ turn = [m \in Mutex |-> 0] /\ token = [m \in Mutex |-> 0]
      /\ phase = [p \in Proc |-> "out"] /\ held = [p \in Proc |-> {}]
      /\ posted = {} /\ requests = {} /\ handler = Idle
      /\ reply = [p \in Proc |-> None]
      /\ blocked \in [Proc -> Fill] /\ left = {}
  BY DEF TicketInit
<1>2. \A p \in Proc : ~InTable(p) /\ ~Begun(p)
  BY <1>1 DEF InTable, Begun, Idle
<1>3. \A k \in Place, p \in Proc, m \in Mutex, t \in Nat : ~At(k, p, m, t)
  BY <1>1, <1>2 DEF At
<1>4. OnePlace
  BY <1>3 DEF OnePlace
<1>5. InTurn
  BY <1>1, <1>3 DEF InTurn
<1>6. \A m \in Mutex, t \in Nat : ~Searching(m, t)
  BY <1>1, Indices DEF Searching
<1>7. Leftovers(silent)
  <2>1. \A p \in Proc, m \in Mutex, t \in Nat : blocked[p] = <<m, t>> => t = 0
    BY <1>1 DEF CleanFill
  <2> QED
    BY <1>1, <1>6, <2>1 DEF Leftovers, Current
<1>8. Asked
  BY <1>1, <1>2 DEF Asked, Calls, Replied, Requested, Handled, Tabled
<1>9. Alive
  BY <1>1 DEF Alive, Idle
<1>10. Looked
  BY <1>1 DEF Looked, AtEntry
<1> QED
  BY <1>4, <1>5, <1>7, <1>8, <1>9, <1>10 DEF Rest

\* Where CleanFill holds, TicketTypeOK and the rest hold in every state of a
\* behaviour that keeps to either premise; CleanFill is about a constant.
LEMMA TicketInvariant ==
    ASSUME CleanFill
    PROVE  TicketSpec /\ ([]EntryKeepsMutex \/ []OwnerSilent)
               => [](TicketTypeOK /\ (Rest(FALSE) \/ Rest(TRUE)))
<1>1. TicketInit => TicketTypeOK /\ Rest(FALSE) /\ Rest(TRUE)
  BY TicketTypeInit, RestInit
<1>2. TicketTypeOK /\ Rest(FALSE) /\ EntryKeepsMutex /\ [TicketNext]_ticketvars
         => TicketTypeOK' /\ Rest(FALSE)'
  BY StepsKeep DEF Premise
<1>3. TicketTypeOK /\ Rest(TRUE) /\ OwnerSilent /\ [TicketNext]_ticketvars
         => TicketTypeOK' /\ Rest(TRUE)'
  BY StepsKeep DEF Premise
<1> QED
  BY <1>1, <1>2, <1>3, PTL DEF TicketSpec

LEMMA HeldOnce ==
    ASSUME NEW silent, TicketTypeOK, Rest(silent)
    PROVE  \A p, q \in Proc : p # q => held[p] \cap held[q] = {}
<1> SUFFICES ASSUME NEW p \in Proc, NEW q \in Proc, p # q,
                    NEW m \in held[p], m \in held[q]
             PROVE  FALSE
  OBVIOUS
<1>1. m \in Mutex /\ tickets[p][m] \in Nat /\ tickets[q][m] \in Nat
  BY DEF TicketTypeOK
<1>2. At("held", p, m, tickets[p][m]) /\ At("held", q, m, tickets[q][m])
  BY DEF At
<1>3. "held" \in Place /\ "held" \in Active
  BY DEF Place, Active
<1>4. tickets[p][m] = turn[m] /\ tickets[q][m] = turn[m]
  BY <1>1, <1>2, <1>3 DEF Rest, InTurn
<1> QED
  BY <1>1, <1>2, <1>3, <1>4 DEF Rest, OnePlace

\* Whatever the number of processes and mutexes, in each build and whatever
\* the order in which requests and turns arrive, PARMCI_Lock grants a mutex
\* to one process at a time, as long as an entry of the handler's table keeps
\* its mutex or the owner does not search the table, ...
THEOREM MutexesExclusive ==
    TicketSpec /\ ([]EntryKeepsMutex \/ []OwnerSilent) => []MutexExclusive
<1>1. TicketTypeOK /\ (Rest(FALSE) \/ Rest(TRUE)) => MutexExclusive
  BY HeldOnce DEF MutexExclusive
<1>2. CASE CleanFill
  BY <1>1, <1>2, TicketInvariant, PTL
<1>3. CASE ~CleanFill
  <2>1. MutexExclusive
    BY <1>3 DEF MutexExclusive
  <2> QED
    BY <2>1, PTL
<1> QED
  BY <1>2, <1>3

\* ... and the check of the tickets never fails.
THEOREM TicketsInOrder ==
    TicketSpec /\ ([]EntryKeepsMutex \/ []OwnerSilent) => []NoTicketProblem
<1>1. TicketTypeOK /\ (Rest(FALSE) \/ Rest(TRUE)) => NoTicketProblem
  BY DEF NoTicketProblem, Rest, Alive
<1>2. CASE CleanFill
  BY <1>1, <1>2, TicketInvariant, PTL
<1>3. CASE ~CleanFill
  <2>1. NoTicketProblem
    BY <1>3 DEF NoTicketProblem
  <2> QED
    BY <2>1, PTL
<1> QED
  BY <1>2, <1>3

=============================================================================
