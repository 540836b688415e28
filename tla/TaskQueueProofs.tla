---------------------------- MODULE TaskQueueProofs ----------------------------
(***************************************************************************)
(* The theorems about the task collection, for any number of processes,    *)
(* any size of the queues and any tasks: a thief writes back what the      *)
(* queue still is, the end is not seen before all is done, no slot that    *)
(* is in use is overwritten, and every task is executed once.              *)
(*                                                                         *)
(* The second needs an account of a wave of votes.  Those who have voted   *)
(* in it are a set V closed under children.  All of V are idle, or there   *)
(* is a doubt: a "no" on its way up, or somebody who has not voted and     *)
(* cannot vote "yes" any more.  A process becomes active by a steal only,  *)
(* its victim was active, so not in V or V was in doubt, and it is marked  *)
(* before the thief has its tasks.                                         *)
(*                                                                         *)
(* The third is arithmetic of rings, given that a slot is freed late       *)
(* (SlotsFreedLate), which two processes ensure: vtail2 is the tail, less  *)
(* the steal that is under way.  The last follows the places of the tasks  *)
(* from the third, and refines TaskPool.                                   *)
(***************************************************************************)
EXTENDS TaskQueue, TLAPS, FiniteSetTheorems, WellFoundedInduction, SequenceTheorems

\* A nonempty set of processes has a least element.
LEMMA Least ==
    ASSUME NEW N \in Nat, NEW S \in SUBSET (0 .. N), S # {}
    PROVE  \E n \in S : \A k \in S : n <= k
<1> DEFINE T == {0 .. k : k \in S}
           R == StrictSubsetOrdering(0 .. N)
<1>1. IsFiniteSet(0 .. N)
  BY FS_Interval
<1>2. IsWellFoundedOn(R, SUBSET (0 .. N))
  BY <1>1, FS_StrictSubsetOrderingWellFounded, FS_FiniteSubsetsOfFinite
<1>3. \A k \in S : 0 .. k \in SUBSET (0 .. N)
  OBVIOUS
<1>4. T \subseteq SUBSET (0 .. N)
  BY <1>3
<1>5. T # {}
  OBVIOUS
<1> HIDE DEF T, R
<1>6. PICK x \in T : \A y \in T : <<y, x>> \notin R
  BY <1>2, <1>4, <1>5, WFMin
<1>7. PICK n \in S : x = 0 .. n
  BY <1>6 DEF T
<1>8. ASSUME NEW k \in S, ~(n <= k)
      PROVE  FALSE
  <2>1. 0 .. k \in T
    BY DEF T
  <2>2. <<0 .. k, x>> \notin R
    BY <2>1, <1>6
  <2>3. 0 .. k \subseteq x /\ 0 .. k # x
    BY <1>7, <1>8
  <2>4. 0 .. k \in SUBSET (0 .. N) /\ x \in SUBSET (0 .. N)
    BY <2>1, <1>4, <1>6
  <2> QED
    BY <2>2, <2>3, <2>4 DEF R, StrictSubsetOrdering
<1> QED
  BY <1>8

-----------------------------------------------------------------------------
(* The invariant *)

\* What the types of the state are
State == [dirty : {0, 1}, split : Int, tail : Slot, size_shared : Nat]

DetectorTypes ==
    /\ nproc \in Nat \ {0}
    /\ dirUp \in [Proc -> BOOLEAN] /\ myvote \in [Proc -> {0, 1}]
    /\ pdecision \in [Proc -> {0, 1}]
    /\ votes \in [Proc -> {None, 0, 1}] /\ decisions \in [Proc -> {None, 0, 1}]

QueueTypes ==
    /\ job \in Jobs
    /\ ps \in [Proc -> State]
    /\ size_local \in [Proc -> Nat] /\ want \in [Proc -> Nat]
    /\ token \in [Proc -> BOOLEAN] /\ victim \in [Proc -> Proc]
    /\ pc = [p \in Proc |-> pc[p]]
    /\ todo = [p \in Proc |-> todo[p]]
    /\ sq = [p \in Proc |-> sq[p]]
    /\ \A p \in Proc : sq[p].ps \in State

\* What a process has to do where it is
Place(p) ==
    /\ pc[p] \in {"vote", "clean", "lock", "look", "put", "unlock", "copy"} =>
         size_local[p] = 0 /\ ps[p].size_shared = 0 /\ todo[p] = <<>>
    /\ pc[p] = "acquire" => size_local[p] = 0 /\ want[p] > 0
    /\ pc[p] \in {"acquire", "get", "barrier"} => todo[p] = <<>>
    /\ pc[p] = "add" => todo[p] # <<>>
    /\ pc[p] = "share" => size_local[p] > 0
    /\ pc[p] \in {"put", "copy"} => sq[p].ps.size_shared > 0

Places == \A p \in Proc : Place(p)

\* A process amid a steal has the token of its victim.
Steals(p) == pc[p] \in {"look", "put", "unlock"}

Tokens ==
    /\ \A p \in Proc : Steals(p) => ~token[victim[p]]
    /\ \A p, r \in Proc : Steals(p) /\ Steals(r) /\ p # r => victim[p] # victim[r]

\* What it has read is what the queue still is.
Agree(a, b) == a.split = b.split /\ a.tail = b.tail /\ a.size_shared = b.size_shared
Kept == \A p \in Proc : pc[p] = "put" => Agree(sq[p].ps, ps[victim[p]])

\* A process waits for a decision only if its children do.
Waiting ==
    /\ \A p \in Proc : dirUp[p] => decisions[p] = None
    /\ \A p \in Proc : ~dirUp[p] =>
         \A c \in Children(p) : ~dirUp[c] /\ decisions[c] = None

\* V has voted in the wave that goes up; the votes that were not taken are of V.
Wave(V) ==
    /\ \A p \in V : p # 0 /\ ~dirUp[p] /\ decisions[p] = None /\ Children(p) \subseteq V
    /\ \A p \in V : IF votes[p] = None THEN Parent(p) \in V ELSE dirUp[Parent(p)]
    /\ \A p \in Proc : votes[p] # None => p \in V

\* The mark of p is still to be read.
Marked(p) == ps[p].dirty = 1 /\ pc[p] # "clean"

Doubt(V) ==
    \/ \E p \in Proc : votes[p] = 0
    \/ \E p \in Proc \ V : myvote[p] = 0 \/ Marked(p)

Undecided == \A p \in Proc : pdecision[p] = 0 /\ decisions[p] # 1

Waves ==
    /\ Undecided /\ Waiting
    /\ \E V \in SUBSET Proc : Wave(V) /\ ((\A p \in V : Idle(p)) \/ Doubt(V))

AllIdle == \A p \in Proc : Idle(p)

Types    == DetectorTypes /\ QueueTypes
StealInv == Types /\ Places /\ Tokens /\ Kept
TaskInv  == StealInv /\ (AllIdle \/ Waves)

-----------------------------------------------------------------------------
(* The initial states *)

LEMMA InitSteals == Init => StealInv
<1> SUFFICES ASSUME Init PROVE StealInv
  OBVIOUS
<1>1. nproc \in Nat \ {0} /\ job \in Jobs /\ max_ntsks \in Nat \ {0}
  BY TaskAssumption DEF Init, max_ntsks
<1>2. 0 \in Slot
  BY <1>1 DEF Slot
<1>3. Unread.ps \in State
  BY <1>2 DEF Unread, State
<1>4. DetectorTypes
  BY <1>1 DEF DetectorTypes, Init, DetectorInit, None
<1>5. todo = [p \in Proc |-> todo[p]]
  BY <1>1, TaskAssumption DEF Init, Proc
<1>6. QueueTypes
  <2>1. ps \in [Proc -> State] /\ \A p \in Proc : sq[p].ps \in State
    BY <1>3 DEF Init
  <2>2. size_local \in [Proc -> Nat] /\ want \in [Proc -> Nat]
    BY DEF Init
  <2>3. token \in [Proc -> BOOLEAN] /\ victim \in [Proc -> Proc]
    BY DEF Init
  <2>4. pc = [p \in Proc |-> pc[p]]
    BY DEF Init
  <2>5. sq = [p \in Proc |-> sq[p]]
    BY DEF Init
  <2> QED
    BY <1>1, <1>5, <2>1, <2>2, <2>3, <2>4, <2>5 DEF QueueTypes
<1>7. Places
  BY <1>1 DEF Places, Place, Init
<1>8. Tokens /\ Kept
  BY <1>1 DEF Tokens, Kept, Steals, Init
<1> QED
  BY <1>4, <1>6, <1>7, <1>8 DEF StealInv, Types

LEMMA InitWaves == Init => Waves
<1> SUFFICES ASSUME Init PROVE Waves
  OBVIOUS
<1>1. nproc \in Nat \ {0}
  BY TaskAssumption DEF Init
<1>2. Undecided /\ Waiting
  BY <1>1 DEF Undecided, Waiting, Init, DetectorInit, None
<1>3. Wave({})
  BY <1>1 DEF Wave, Init, DetectorInit
<1> QED
  BY <1>2, <1>3 DEF Waves

-----------------------------------------------------------------------------
(* Types *)

LEMMA Constants == Next => nproc' = nproc /\ job' = job
  BY DEF Next, Step, LockedStep, Transfer, AddTask, UpdateVtail1, ShareNothing, GetLocal,
         GetShared, GetNothing, Vote, Clean, TryLock, Look, PutState, Unlock, Copy, Share,
         GetSharing, Acquire, DecisionArrives, ShiftArrives, Barrier, Over, vars

LEMMA Sizes ==
    TaskAssumption /\ QueueTypes =>
      max_ntsks \in Nat \ {0} /\ \A i \in Int : i % max_ntsks \in Slot
<1> SUFFICES ASSUME TaskAssumption, QueueTypes
             PROVE  max_ntsks \in Nat \ {0} /\ \A i \in Int : i % max_ntsks \in Slot
  OBVIOUS
<1>1. max_ntsks \in Nat \ {0}
  BY TaskAssumption DEF QueueTypes, max_ntsks
<1>2. \A i \in Int, m \in Nat \ {0} : i % m \in 0 .. m - 1
  OBVIOUS
<1> QED
  BY <1>1, <1>2 DEF Slot

\* A thief steals at least one task, and no more than there are.
LEMMA Steal ==
    ASSUME QueueTypes, NEW p \in Proc, sq[p].ps.size_shared > 0
    PROVE  NSteal(p) \in 1 .. sq[p].ps.size_shared /\ NewTail(p) \in Slot
<1> DEFINE s == sq[p].ps
<1>1. s \in State
  BY DEF QueueTypes
<1>2. s.tail \in Slot /\ s.size_shared \in Nat
  BY <1>1 DEF State
<1>3. max_ntsks \in Nat \ {0} /\ \A i \in Int : i % max_ntsks \in Slot
  BY Sizes, TaskAssumption
<1>4. (s.size_shared + 1) \div 2 \in 1 .. s.size_shared
  BY <1>2
<1>5. max_ntsks - s.tail \in Nat \ {0}
  BY <1>2, <1>3 DEF Slot
<1>6. NSteal(p) \in 1 .. s.size_shared
  BY <1>2, <1>4, <1>5 DEF NSteal, Lesser
<1>7. s.tail + NSteal(p) \in Int
  BY <1>2, <1>3, <1>6 DEF Slot
<1>8. NewTail(p) \in Slot
  BY <1>3, <1>7 DEF NewTail
<1> QED
  BY <1>6, <1>8

\* p votes "yes".
Clear(p) == ps[p].dirty = 0

LEMMA DetectorTypesStep == DetectorTypes /\ Next => DetectorTypes'
<1> SUFFICES ASSUME DetectorTypes, Next PROVE DetectorTypes'
  OBVIOUS
<1> USE DEF Proc, None
<1>1. nproc' = nproc
  BY Constants
<1>2. ASSUME UNCHANGED detector PROVE DetectorTypes'
  BY <1>1, <1>2 DEF DetectorTypes, detector
<1>3. ASSUME NEW p \in Proc, Progress(p, Clear(p)) PROVE DetectorTypes'
  <2>1. Decision(p, Clear(p)) \in {0, 1} /\ Voted(p, Clear(p)) \in {0, 1}
    BY DEF Decision, Voted, DetectorTypes
  <2>2. CASE ProgressEnded(p, Clear(p))
    BY <1>1, <2>1, <2>2 DEF ProgressEnded, DetectorTypes
  <2>3. CASE ProgressUp(p, Clear(p))
    BY <1>1, <2>1, <2>3 DEF ProgressUp, DetectorTypes
  <2>4. CASE ProgressRoot(p, Clear(p))
    BY <1>1, <2>1, <2>4 DEF ProgressRoot, DetectorTypes
  <2>5. CASE ProgressDown(p, Clear(p))
    BY <1>1, <2>1, <2>5 DEF ProgressDown, DetectorTypes
  <2>6. CASE ProgressWaits(p, Clear(p))
    BY <1>1, <2>1, <2>6 DEF ProgressWaits, DetectorTypes
  <2> QED
    BY <1>3, <2>2, <2>3, <2>4, <2>5, <2>6 DEF Progress
<1>4. ASSUME NEW p \in Proc, DecisionArrives(p) PROVE DetectorTypes'
  BY <1>1, <1>4 DEF DecisionArrives, DetectorTypes
<1>5. ASSUME NEW p \in Proc, Step(p) \/ LockedStep(p) PROVE UNCHANGED detector \/ Vote(p)
  BY <1>5 DEF Step, LockedStep, AddTask, UpdateVtail1, ShareNothing, GetLocal, GetShared,
         GetNothing, Clean, TryLock, Look, PutState, Unlock, Copy, Share, GetSharing, Acquire
<1>6. ASSUME Barrier \/ Over PROVE UNCHANGED detector
  BY <1>6 DEF Barrier, Over, vars
<1>7. ASSUME NEW p \in Proc, NEW v \in Proc, ShiftArrives(p, v) PROVE UNCHANGED detector
  BY <1>7 DEF ShiftArrives
<1> QED
  BY <1>2, <1>3, <1>4, <1>5, <1>6, <1>7 DEF Next, Transfer, Vote, Clear

\* The owner moves the border between the two parts of its queue.
LEMMA Border ==
    ASSUME NEW s \in State, NEW a \in Int, NEW b \in Nat
    PROVE  LET new == [s EXCEPT !.split = a, !.size_shared = b]
           IN  new \in State /\ new.size_shared = b /\ new.dirty = s.dirty
  BY DEF State

LEMMA QueueTypesStep == StealInv /\ Next => QueueTypes'
<1> SUFFICES ASSUME StealInv, Next PROVE QueueTypes'
  OBVIOUS
<1>1. nproc' = nproc /\ job' = job /\ Proc' = Proc /\ State' = State
  BY Constants DEF Proc, State, Slot, max_ntsks
<1>2. max_ntsks \in Nat \ {0} /\ \A i \in Int : i % max_ntsks \in Slot
  BY Sizes, TaskAssumption DEF StealInv, Types
<1> DEFINE Control == /\ pc' = [p \in Proc |-> pc'[p]]
                      /\ victim' \in [Proc -> Proc]
           Data    == /\ ps' \in [Proc -> State]
                      /\ size_local' \in [Proc -> Nat] /\ want' \in [Proc -> Nat]
                      /\ token' \in [Proc -> BOOLEAN]
                      /\ todo' = [p \in Proc |-> todo'[p]]
           Read    == /\ sq' = [p \in Proc |-> sq'[p]]
                      /\ \A p \in Proc : sq'[p].ps \in State
<1>3. ASSUME Control, Data, Read PROVE QueueTypes'
  BY <1>1, <1>3 DEF QueueTypes, StealInv, Types
<1>4. /\ ps \in [Proc -> State] /\ size_local \in [Proc -> Nat]
      /\ want \in [Proc -> Nat] /\ token \in [Proc -> BOOLEAN]
      /\ victim \in [Proc -> Proc] /\ pc = [p \in Proc |-> pc[p]]
      /\ todo = [p \in Proc |-> todo[p]] /\ sq = [p \in Proc |-> sq[p]]
      /\ \A p \in Proc : sq[p].ps \in State
  BY DEF StealInv, Types, QueueTypes
<1>5. \A p \in Proc : Place(p)
  BY DEF StealInv, Places
<1>a. ASSUME NEW p \in Proc, Step(p) \/ LockedStep(p) PROVE Control
  <2>1. ASSUME Seek(p) PROVE Control
    BY <1>4, <2>1 DEF Seek, Goto
  <2>2. ASSUME Added(p) PROVE Control
    BY <1>4, <2>2 DEF Added, Goto
  <2>3. ASSUME UNCHANGED victim, NEW l, Goto(p, l) PROVE Control
    BY <1>4, <2>3 DEF Goto
  <2>4. CASE AddTask(p) \/ GetShared(p) \/ GetNothing(p) \/ Vote(p) \/ Look(p)
             \/ PutState(p) \/ Copy(p) \/ Acquire(p)
    BY <2>3, <2>4 DEF AddTask, GetShared, GetNothing, Vote, Look, PutState, Copy, Acquire, thief
  <2>5. CASE UpdateVtail1(p)
    BY <1>4, <2>5 DEF UpdateVtail1, thief
  <2>6. CASE ShareNothing(p) \/ Share(p)
    BY <2>2, <2>6 DEF ShareNothing, Share
  <2>7. CASE GetLocal(p) \/ GetSharing(p)
    BY <2>3, <2>7 DEF GetLocal, GetSharing, Take, thief
  <2>8. CASE Clean(p) \/ TryLock(p) \/ Unlock(p)
    BY <2>1, <2>3, <2>8 DEF Clean, TryLock, Unlock
  <2> QED
    BY <1>a, <2>4, <2>5, <2>6, <2>7, <2>8 DEF Step, LockedStep
<1>b. ASSUME NEW p \in Proc, Step(p) \/ LockedStep(p) PROVE Data
  <2>0. ASSUME NEW x, todo' = [todo EXCEPT ![p] = x] PROVE todo' = [r \in Proc |-> todo'[r]]
    BY <1>4, <2>0
  <2>1. Donation(p) \in Nat /\ Donation(p) <= size_local[p]
        /\ (Donation(p) > 0 => Donation(p) < size_local[p])
    BY <1>4 DEF Donation
  <2>2. ASSUME Donate(p) PROVE ps' \in [Proc -> State]
    <3> DEFINE a == (ps[p].split + Donation(p)) % max_ntsks
               b == ps[p].size_shared + Donation(p)
    <3>1. ps[p].split + Donation(p) \in Int /\ b \in Nat
      BY <1>4, <2>1 DEF State
    <3>2. a \in Int
      BY <3>1, <1>2 DEF Slot
    <3> DEFINE new == [ps[p] EXCEPT !.split = a, !.size_shared = b]
    <3>3. ps' = [ps EXCEPT ![p] = new]
      BY <2>2 DEF Donate
    <3> HIDE DEF a, b
    <3>4. new \in State
      BY <1>4, <3>1, <3>2, Border
    <3> QED
      BY <1>4, <3>3, <3>4
  <2>3. CASE Share(p)
    BY <1>4, <2>1, <2>2, <2>3 DEF Share
  <2>4. CASE GetSharing(p)
    <3>1. todo' = [r \in Proc |-> todo'[r]]
      BY <2>0, <2>4 DEF GetSharing, Take
    <3>2. size_local' = [size_local EXCEPT ![p] = @ - Donation(p) - 1]
          /\ Donation(p) > 0 /\ Donate(p) /\ UNCHANGED <<token, want>>
      BY <2>4 DEF GetSharing, thief
    <3>3. size_local[p] - Donation(p) - 1 \in Nat
      BY <1>4, <2>1, <3>2
    <3> QED
      BY <1>4, <2>2, <3>1, <3>2, <3>3
  <2>5. CASE GetLocal(p)
    <3>1. todo' = [r \in Proc |-> todo'[r]]
      BY <2>0, <2>5 DEF GetLocal, Take
    <3>2. size_local' = [size_local EXCEPT ![p] = @ - 1] /\ size_local[p] > 0
          /\ UNCHANGED <<ps, token, want>>
      BY <2>5 DEF GetLocal, shared, thief
    <3> QED
      BY <1>4, <3>1, <3>2
  <2>6. CASE Acquire(p)
    <3> DEFINE n == Lesser(want[p], ps[p].size_shared)
    <3>1. n \in Nat /\ n <= ps[p].size_shared /\ ps[p].split \in Int /\ ps[p].size_shared \in Nat
      BY <1>4 DEF Lesser, State
    <3> DEFINE a == (ps[p].split - n) % max_ntsks
               b == ps[p].size_shared - n
    <3>2. ps[p].split - n \in Int /\ b \in Nat
      BY <3>1
    <3>3. a \in Int
      BY <3>2, <1>2 DEF Slot
    <3> DEFINE new == [ps[p] EXCEPT !.split = a, !.size_shared = b]
    <3>4. ps' = [ps EXCEPT ![p] = new]
          /\ size_local' = [size_local EXCEPT ![p] = @ + n]
          /\ want' = [want EXCEPT ![p] = 0] /\ UNCHANGED <<token, todo>>
      BY <2>6 DEF Acquire
    <3> HIDE DEF n, a, b
    <3>5. new \in State
      BY <1>4, <3>2, <3>3, Border
    <3> HIDE DEF new
    <3> QED
      BY <1>4, <3>1, <3>4, <3>5
  <2>7. CASE PutState(p)
    <3>1. pc[p] = "put" /\ sq[p].ps.size_shared > 0 /\ sq[p].ps \in State
      BY <1>4, <1>5, <2>7 DEF PutState, Place
    <3>2. NSteal(p) \in 1 .. sq[p].ps.size_shared /\ NewTail(p) \in Slot
      BY <3>1, Steal DEF StealInv, Types
    <3>3. sq[p].ps.size_shared - NSteal(p) \in Nat
      BY <3>1, <3>2 DEF State
    <3>4. ps' \in [Proc -> State]
      BY <1>4, <2>7, <3>1, <3>2, <3>3 DEF PutState, State
    <3> QED
      BY <1>4, <2>7, <3>4 DEF PutState, owner, thief
  <2>8. CASE AddTask(p)
    <3>1. todo' = [r \in Proc |-> todo'[r]]
      BY <2>0, <2>8 DEF AddTask
    <3> QED
      BY <1>4, <2>8, <3>1 DEF AddTask, shared, thief
  <2>9. CASE Clean(p)
    <3>1. ps' \in [Proc -> State]
      BY <1>4, <2>9 DEF Clean, State
    <3> QED
      BY <1>4, <2>9, <3>1 DEF Clean, owner
  <2>10. CASE Copy(p)
    BY <1>4, <2>10 DEF Copy, owner, shared
  <2>11. CASE GetShared(p)
    <3>1. (ps[p].size_shared + 1) \div 2 \in Nat
      BY <1>4 DEF State
    <3> QED
      BY <1>4, <2>11, <3>1 DEF GetShared, owner, shared
  <2>12. CASE TryLock(p) \/ Unlock(p)
    BY <1>4, <2>12 DEF TryLock, Unlock, owner
  <2>13. CASE UpdateVtail1(p) \/ ShareNothing(p) \/ GetNothing(p) \/ Vote(p) \/ Look(p)
    BY <1>4, <2>13 DEF UpdateVtail1, ShareNothing, GetNothing, Vote, Look, owner, shared, thief
  <2> QED
    BY <1>b, <2>3, <2>4, <2>5, <2>6, <2>7, <2>8, <2>9, <2>10, <2>11, <2>12, <2>13
       DEF Step, LockedStep
<1>c. ASSUME NEW p \in Proc, Step(p) \/ LockedStep(p) PROVE Read
  <2>1. CASE Look(p)
    BY <1>4, <2>1 DEF Look
  <2>2. CASE Copy(p) \/ Unlock(p)
    <3>1. Unread.ps \in State
      BY <1>2 DEF Unread, State, Slot
    <3> QED
      BY <1>4, <2>2, <3>1 DEF Copy, Unlock
  <2>3. CASE ~(Look(p) \/ Copy(p) \/ Unlock(p))
    <3>1. UNCHANGED sq
      BY <1>c, <2>3 DEF Step, LockedStep, AddTask, UpdateVtail1, ShareNothing, GetLocal,
         GetShared, GetNothing, Vote, Clean, TryLock, PutState, Share, GetSharing, Acquire, thief
    <3> QED
      BY <1>4, <3>1
  <2> QED
    BY <2>1, <2>2, <2>3
<1>d. ASSUME Barrier PROVE Control /\ Data /\ Read
  BY <1>4, <1>d DEF Barrier, owner, shared, thief
<1>e. ASSUME UNCHANGED <<ps, size_local, want, token, todo, pc, victim, sq>>
      PROVE  Control /\ Data /\ Read
  BY <1>4, <1>e
<1>f. ASSUME NEW p \in Proc, Transfer(p)
      PROVE  UNCHANGED <<ps, size_local, want, token, todo, pc, victim, sq>>
  BY <1>f DEF Transfer, DecisionArrives, ShiftArrives, owner, shared, thief
<1>g. ASSUME Over PROVE UNCHANGED <<ps, size_local, want, token, todo, pc, victim, sq>>
  BY <1>g DEF Over, vars, owner, shared, thief
<1> HIDE DEF Control, Data, Read
<1> QED
  BY <1>3, <1>a, <1>b, <1>c, <1>d, <1>e, <1>f, <1>g DEF Next

-----------------------------------------------------------------------------
(* Places *)

\* A process changes nothing of another but the state of its victim's queue.
Untouched(r) ==
    /\ pc'[r] = pc[r] /\ size_local'[r] = size_local[r] /\ want'[r] = want[r]
    /\ todo'[r] = todo[r] /\ sq'[r] = sq[r] /\ victim'[r] = victim[r]

LEMMA Frame ==
    ASSUME QueueTypes, NEW p \in Proc, Step(p) \/ LockedStep(p), NEW r \in Proc \ {p}
    PROVE  Untouched(r) /\ (~PutState(p) => ps'[r] = ps[r])
<1> USE DEF Untouched, Goto
<1>1. /\ ps \in [Proc -> State] /\ size_local \in [Proc -> Nat]
      /\ want \in [Proc -> Nat]
      /\ victim \in [Proc -> Proc] /\ pc = [x \in Proc |-> pc[x]]
      /\ todo = [x \in Proc |-> todo[x]] /\ sq = [x \in Proc |-> sq[x]]
  BY DEF QueueTypes
<1>2. CASE AddTask(p)
  BY <1>1, <1>2 DEF AddTask, shared, thief
<1>3. CASE UpdateVtail1(p) \/ GetNothing(p) \/ Vote(p)
  BY <1>1, <1>3 DEF UpdateVtail1, GetNothing, Vote, shared, owner, thief
<1>4. CASE ShareNothing(p)
  BY <1>1, <1>4 DEF ShareNothing, Added, shared, owner
<1>5. CASE Share(p)
  BY <1>1, <1>5 DEF Share, Added, Donate
<1>6. CASE GetLocal(p)
  BY <1>1, <1>6 DEF GetLocal, Take, shared, thief
<1>7. CASE GetSharing(p)
  BY <1>1, <1>7 DEF GetSharing, Take, Donate, thief
<1>8. CASE GetShared(p)
  BY <1>1, <1>8 DEF GetShared, shared, owner
<1>9. CASE Acquire(p)
  BY <1>1, <1>9 DEF Acquire
<1>10. CASE Clean(p)
  BY <1>1, <1>10 DEF Clean, Seek, owner
<1>11. CASE TryLock(p)
  BY <1>1, <1>11 DEF TryLock, Seek, owner
<1>12. CASE Look(p)
  BY <1>1, <1>12 DEF Look, owner, shared
<1>13. CASE PutState(p)
  BY <1>1, <1>13 DEF PutState, owner, thief
<1>14. CASE Unlock(p)
  BY <1>1, <1>14 DEF Unlock, Seek, owner
<1>15. CASE Copy(p)
  BY <1>1, <1>15 DEF Copy, owner, shared
<1> QED
  BY <1>2, <1>3, <1>4, <1>5, <1>6, <1>7, <1>8, <1>9, <1>10, <1>11, <1>12, <1>13, <1>14,
     <1>15 DEF Step, LockedStep

\* The queue that a thief writes back to is not empty, so that its owner is not
\* seeking.
LEMMA VictimBusy ==
    ASSUME StealInv, NEW p \in Proc, PutState(p)
    PROVE  /\ ps[victim[p]].size_shared > 0 /\ victim[p] # p
           /\ pc[victim[p]] \notin {"vote", "clean", "lock", "look", "put", "unlock", "copy"}
<1>1. pc[p] = "put" /\ victim[p] \in Proc
  BY DEF PutState, StealInv, Types, QueueTypes
<1>2. Place(p) /\ Place(victim[p]) /\ Agree(sq[p].ps, ps[victim[p]])
  BY <1>1 DEF StealInv, Places, Kept
<1>3. ps[victim[p]].size_shared > 0
  BY <1>1, <1>2 DEF Place, Agree
<1> QED
  BY <1>1, <1>2, <1>3 DEF Place

LEMMA PlacesStep == StealInv /\ Next => Places'
<1> SUFFICES ASSUME StealInv, Next PROVE Places'
  OBVIOUS
<1>1. Proc' = Proc
  BY Constants DEF Proc
<1>2. \A p \in Proc : Place(p)
  BY DEF StealInv, Places
<1>3. ASSUME NEW r \in Proc, Untouched(r), ps'[r] = ps[r] PROVE Place(r)'
  BY <1>2, <1>3 DEF Place, Untouched
<1>4. ASSUME NEW p \in Proc, Step(p) \/ LockedStep(p), NEW r \in Proc \ {p} PROVE Place(r)'
  <2>1. Untouched(r) /\ (~PutState(p) => ps'[r] = ps[r])
    BY <1>4, Frame DEF StealInv, Types
  <2>2. CASE ps'[r] = ps[r]
    BY <1>3, <2>1, <2>2
  <2>3. CASE PutState(p) /\ r = victim[p]
    <3>1. pc[r] \notin {"vote", "clean", "lock", "look", "put", "unlock", "copy"}
      BY <2>3, VictimBusy
    <3> QED
      BY <1>2, <2>1, <3>1 DEF Place, Untouched
  <2>4. CASE PutState(p) /\ r # victim[p]
    BY <1>3, <2>1, <2>4 DEF PutState, StealInv, Types, QueueTypes
  <2> QED
    BY <2>1, <2>2, <2>3, <2>4
<1>5. /\ ps \in [Proc -> State] /\ size_local \in [Proc -> Nat]
      /\ want \in [Proc -> Nat] /\ token \in [Proc -> BOOLEAN]
      /\ victim \in [Proc -> Proc] /\ pc = [p \in Proc |-> pc[p]]
      /\ todo = [p \in Proc |-> todo[p]] /\ sq = [p \in Proc |-> sq[p]]
      /\ \A p \in Proc : sq[p].ps \in State
  BY DEF StealInv, Types, QueueTypes
<1>6. ASSUME NEW p \in Proc, Step(p) \/ LockedStep(p) PROVE Place(p)'
  <2> USE DEF Goto
  <2>1. Place(p) /\ ps[p].size_shared \in Nat /\ size_local[p] \in Nat /\ want[p] \in Nat
    BY <1>2, <1>5 DEF State
  <2>2. CASE AddTask(p)
    <3>1. pc'[p] = "share" /\ size_local'[p] > 0
      BY <1>5, <2>1, <2>2 DEF AddTask
    <3> QED
      BY <3>1 DEF Place
  <2>3. CASE UpdateVtail1(p)
    <3>1. pc'[p] = "add" /\ todo'[p] # <<>>
      BY <2>1, <2>3 DEF UpdateVtail1, Place
    <3> QED
      BY <3>1 DEF Place
  <2>4. CASE ShareNothing(p) \/ Share(p)
    <3>1. todo' = todo /\ pc'[p] \in {"add", "barrier", "over", "get"}
          /\ (todo[p] # <<>> <=> pc'[p] = "add" \/ (pc'[p] = "over" /\ todo[p] # <<>>))
      BY <1>5, <2>4 DEF ShareNothing, Share, Added
    <3> QED
      BY <3>1 DEF Place
  <2>5. CASE GetLocal(p) \/ GetSharing(p)
    <3>1. Take(p)
      BY <2>5 DEF GetLocal, GetSharing
    <3>2. \/ pc'[p] = "get" /\ todo'[p] = <<>>
          \/ pc'[p] = "add" /\ todo'[p] # <<>>
      BY <1>5, <3>1 DEF Take
    <3> QED
      BY <3>2 DEF Place
  <2>6. CASE GetShared(p)
    <3>1. pc[p] = "get" /\ pc'[p] = "acquire" /\ size_local'[p] = 0 /\ todo'[p] = todo[p]
      BY <1>5, <2>6 DEF GetShared, owner
    <3>2. want'[p] = (ps[p].size_shared + 1) \div 2 /\ ps[p].size_shared > 0
      BY <1>5, <2>6 DEF GetShared
    <3>3. want'[p] > 0
      BY <2>1, <3>2
    <3> QED
      BY <2>1, <3>1, <3>3 DEF Place
  <2>7. CASE Acquire(p)
    <3> DEFINE n == Lesser(want[p], ps[p].size_shared)
    <3>1. pc[p] = "acquire" /\ pc'[p] = (IF n > 0 THEN "get" ELSE "vote")
          /\ size_local'[p] = size_local[p] + n /\ todo'[p] = todo[p]
      BY <1>5, <2>7 DEF Acquire
    <3>2. want[p] > 0 /\ size_local[p] = 0 /\ todo[p] = <<>>
      BY <2>1, <3>1 DEF Place
    <3>3. n \in Nat /\ (n = 0 => ps[p].size_shared = 0)
      BY <2>1, <3>2 DEF Lesser
    <3>4. ps'[p].size_shared = ps[p].size_shared - n
      <4> DEFINE a == (ps[p].split - n) % max_ntsks
                 b == ps[p].size_shared - n
                 new == [ps[p] EXCEPT !.split = a, !.size_shared = b]
      <4>1. ps' = [ps EXCEPT ![p] = new]
        BY <2>7 DEF Acquire
      <4> HIDE DEF a, b
      <4>2. new.size_shared = b
        BY <1>5 DEF State
      <4> HIDE DEF new
      <4>3. ps'[p] = new
        BY <1>5, <4>1
      <4> QED
        BY <4>2, <4>3 DEF b
    <3> HIDE DEF n
    <3>5. CASE n = 0
      BY <2>1, <3>1, <3>2, <3>3, <3>4, <3>5 DEF Place
    <3>6. CASE n > 0
      BY <2>1, <3>1, <3>2, <3>6 DEF Place
    <3> QED
      BY <3>3, <3>5, <3>6
  <2>8. CASE GetNothing(p) \/ Vote(p)
    <3>1. pc[p] \in {"get", "vote"} /\ pc'[p] \in {"vote", "clean"} /\ size_local[p] = 0
          /\ ps[p].size_shared = 0 /\ UNCHANGED <<size_local, ps, todo>>
      BY <1>5, <2>1, <2>8 DEF GetNothing, Vote, Place, owner, shared
    <3> QED
      BY <2>1, <3>1 DEF Place
  <2>9. CASE Clean(p)
    <3>1. pc[p] = "clean" /\ pc'[p] \in {"over", "vote", "lock"}
          /\ UNCHANGED <<size_local, todo>> /\ ps'[p].size_shared = ps[p].size_shared
      BY <1>5, <2>9 DEF Clean, Seek, owner, State
    <3> QED
      BY <2>1, <3>1 DEF Place
  <2>10. CASE TryLock(p)
    <3>1. pc[p] = "lock" /\ pc'[p] \in {"over", "vote", "look"}
          /\ UNCHANGED <<size_local, todo, ps>>
      BY <1>5, <2>10 DEF TryLock, Seek, owner
    <3> QED
      BY <2>1, <3>1 DEF Place
  <2>11. CASE Look(p)
    <3>1. pc[p] = "look" /\ UNCHANGED <<size_local, todo, ps>>
      BY <2>11 DEF Look, owner, shared
    <3>2. sq'[p].ps = ps[victim[p]]
      BY <1>5, <2>11 DEF Look
    <3>3. pc'[p] = IF ps[victim[p]].size_shared = 0 THEN "unlock" ELSE "put"
      BY <1>5, <2>11 DEF Look
    <3>4. ps[victim[p]].size_shared \in Nat
      BY <1>5 DEF State
    <3> QED
      BY <2>1, <3>1, <3>2, <3>3, <3>4 DEF Place
  <2>12. CASE PutState(p)
    <3>1. pc[p] = "put" /\ pc'[p] = "unlock" /\ UNCHANGED <<size_local, todo>>
      BY <1>5, <2>12 DEF PutState, owner
    <3>2. ps'[p] = ps[p]
      BY <1>5, <2>12, VictimBusy DEF PutState
    <3> QED
      BY <2>1, <3>1, <3>2 DEF Place
  <2>13. CASE Unlock(p)
    <3>1. pc[p] = "unlock" /\ pc'[p] \in {"over", "vote", "copy"}
          /\ UNCHANGED <<size_local, todo, ps>>
      BY <1>5, <2>13 DEF Unlock, Seek, owner
    <3>2. pc'[p] = "copy" => sq[p].ps.size_shared # 0 /\ sq' = sq
      BY <1>5, <2>13 DEF Unlock, Seek
    <3>3. sq[p].ps.size_shared \in Nat
      BY <1>5 DEF State
    <3> QED
      BY <2>1, <3>1, <3>2, <3>3 DEF Place
  <2>14. CASE Copy(p)
    <3>1. pc[p] = "copy" /\ pc'[p] = "add"
      BY <1>5, <2>14 DEF Copy
    <3>2. NSteal(p) \in Nat \ {0}
      <4>1. sq[p].ps.size_shared > 0 /\ sq[p].ps.size_shared \in Nat
        BY <1>5, <2>1, <3>1 DEF Place, State
      <4>2. NSteal(p) \in 1 .. sq[p].ps.size_shared
        BY <4>1, Steal DEF StealInv, Types
      <4> QED
        BY <4>1, <4>2
    <3> DEFINE new == [i \in 1 .. NSteal(p) |-> q[victim[p]][sq[p].ps.tail + i - 1]]
    <3>3. todo'[p] = new
      BY <1>5, <2>14 DEF Copy
    <3>4. DOMAIN new = 1 .. NSteal(p) /\ 1 \in 1 .. NSteal(p)
      BY <3>2
    <3> HIDE DEF new
    <3>5. new # <<>>
      <4>1. DOMAIN <<>> = {}
        OBVIOUS
      <4>2. 1 \notin DOMAIN <<>>
        BY <4>1
      <4> QED
        BY <3>4, <4>2
    <3> QED
      BY <3>1, <3>3, <3>5 DEF Place
  <2> QED
    BY <1>6, <2>2, <2>3, <2>4, <2>5, <2>6, <2>7, <2>8, <2>9, <2>10, <2>11, <2>12, <2>13,
       <2>14 DEF Step, LockedStep
<1>7. ASSUME Barrier, NEW p \in Proc PROVE Place(p)'
  <2>1. pc[p] = "barrier" /\ pc'[p] = "get" /\ todo' = todo
    BY <1>7 DEF Barrier
  <2> QED
    BY <1>2, <2>1 DEF Place
<1>8. ASSUME NEW r \in Proc, Transfer(r) \/ Over, NEW p \in Proc PROVE Place(p)'
  <2>1. UNCHANGED <<pc, size_local, want, todo, sq, victim, ps>>
    BY <1>8 DEF Transfer, DecisionArrives, ShiftArrives, Over, vars, owner, shared, thief
  <2> QED
    BY <1>3, <2>1 DEF Untouched
<1>9. \A p \in Proc : Place(p)'
  <2>1. 0 \in Proc
    BY DEF Proc, StealInv, Types, DetectorTypes
  <2>2. \A p \in Proc, r \in Proc : Step(r) \/ LockedStep(r) => Place(p)'
    BY <1>4, <1>6
  <2> QED
    BY <2>1, <2>2, <1>7, <1>8 DEF Next
<1> QED
  BY <1>1, <1>9 DEF Places

-----------------------------------------------------------------------------
(* The token, and the state that is written back *)

LEMMA TokensStep == StealInv /\ Next => Tokens'
<1> SUFFICES ASSUME StealInv, Next PROVE Tokens'
  OBVIOUS
<1> USE DEF Steals
<1>1. Proc' = Proc
  BY Constants DEF Proc
<1>2. Tokens /\ QueueTypes
  BY DEF StealInv, Types
<1>3. token \in [Proc -> BOOLEAN] /\ victim \in [Proc -> Proc] /\ pc = [p \in Proc |-> pc[p]]
  BY <1>2 DEF QueueTypes
<1>4. ASSUME NEW p \in Proc, Step(p) \/ LockedStep(p) PROVE Tokens'
  <2>1. \A r \in Proc \ {p} : pc'[r] = pc[r] /\ victim'[r] = victim[r]
    BY <1>2, <1>4, Frame DEF Untouched
  <2>2. CASE TryLock(p)
    <3>1. CASE token[victim[p]]
      <4>1. token' = [token EXCEPT ![victim[p]] = FALSE] /\ victim' = victim
        BY <2>2, <3>1 DEF TryLock
      <4>2. \A r \in Proc \ {p} : Steals(r) => victim[r] # victim[p]
        BY <1>2, <3>1 DEF Tokens
      <4> QED
        BY <1>1, <1>2, <1>3, <2>1, <4>1, <4>2 DEF Tokens
    <3>2. CASE ~token[victim[p]]
      <4>1. token' = token /\ pc'[p] \in {"over", "vote"}
        BY <1>3, <2>2, <3>2 DEF TryLock, Seek, Goto
      <4> QED
        BY <1>1, <1>2, <1>3, <2>1, <4>1 DEF Tokens
    <3> QED
      BY <3>1, <3>2
  <2>3. CASE Unlock(p)
    <3>1. token' = [token EXCEPT ![victim[p]] = TRUE] /\ pc[p] = "unlock"
      BY <2>3 DEF Unlock
    <3>2. pc'[p] \in {"over", "vote", "copy"}
      BY <1>3, <2>3 DEF Unlock, Seek, Goto
    <3>3. \A r \in Proc \ {p} : Steals(r) => victim[r] # victim[p]
      BY <1>2, <3>1 DEF Tokens
    <3> QED
      BY <1>1, <1>2, <1>3, <2>1, <3>1, <3>2, <3>3 DEF Tokens
  <2>4. CASE Look(p) \/ PutState(p)
    <3>1. pc[p] \in {"look", "put"} /\ UNCHANGED <<token, victim>>
      BY <2>4 DEF Look, PutState, shared, thief
    <3> QED
      BY <1>1, <1>2, <1>3, <2>1, <3>1 DEF Tokens
  <2>5. CASE ~(TryLock(p) \/ Unlock(p) \/ Look(p) \/ PutState(p))
    <3>1. token' = token
      BY <1>4, <2>5 DEF Step, LockedStep, AddTask, UpdateVtail1, ShareNothing, GetLocal,
         GetShared, GetNothing, Vote, Clean, Copy, Share, GetSharing, Acquire, shared
    <3>2. pc'[p] \notin {"look", "put", "unlock"}
      <4>1. CASE AddTask(p) \/ GetShared(p) \/ GetNothing(p) \/ Vote(p) \/ Copy(p)
        BY <1>3, <4>1 DEF AddTask, GetShared, GetNothing, Vote, Copy, Goto
      <4>2. CASE UpdateVtail1(p)
        BY <4>2 DEF UpdateVtail1
      <4>3. CASE ShareNothing(p) \/ Share(p)
        BY <1>3, <4>3 DEF ShareNothing, Share, Added, Goto
      <4>4. CASE GetLocal(p) \/ GetSharing(p) \/ Acquire(p)
        BY <1>3, <4>4 DEF GetLocal, GetSharing, Take, Acquire, Goto
      <4>5. CASE Clean(p)
        BY <1>3, <4>5 DEF Clean, Seek, Goto
      <4> QED
        BY <1>4, <2>5, <4>1, <4>2, <4>3, <4>4, <4>5 DEF Step, LockedStep
    <3> QED
      BY <1>1, <1>2, <1>3, <2>1, <3>1, <3>2 DEF Tokens
  <2> QED
    BY <2>2, <2>3, <2>4, <2>5
<1>5. ASSUME NEW p \in Proc, Transfer(p) \/ Over PROVE Tokens'
  <2>1. UNCHANGED <<pc, token, victim>>
    BY <1>5 DEF Transfer, DecisionArrives, ShiftArrives, Over, vars, shared, thief
  <2> QED
    BY <1>1, <1>2, <2>1 DEF Tokens
<1>6. ASSUME Barrier PROVE Tokens'
  <2>1. \A p \in Proc : pc'[p] = "get"
    BY <1>6 DEF Barrier
  <2> QED
    BY <1>1, <2>1 DEF Tokens
<1> QED
  <2>1. 0 \in Proc
    BY DEF Proc, StealInv, Types, DetectorTypes
  <2> QED
    BY <1>4, <1>5, <1>6, <2>1 DEF Next

LEMMA KeptStep == StealInv /\ Next => Kept'
<1> SUFFICES ASSUME StealInv, Next PROVE Kept'
  OBVIOUS
<1>1. Proc' = Proc
  BY Constants DEF Proc
<1>2. Tokens /\ QueueTypes /\ Kept
  BY DEF StealInv, Types
<1>3. /\ victim \in [Proc -> Proc] /\ pc = [p \in Proc |-> pc[p]]
      /\ sq = [p \in Proc |-> sq[p]] /\ ps \in [Proc -> State]
  BY <1>2 DEF QueueTypes
<1>4. ASSUME NEW p \in Proc, Step(p) \/ LockedStep(p), pc'[p] = "put"
      PROVE  Agree(sq'[p].ps, ps'[victim'[p]])
  <2>1. CASE Look(p)
    BY <1>3, <2>1 DEF Look, shared, Agree
  <2>2. CASE ~Look(p)
    <3>1. pc'[p] # "put"
      <4>1. CASE AddTask(p) \/ GetShared(p) \/ GetNothing(p) \/ Vote(p) \/ Copy(p) \/ PutState(p)
        BY <1>3, <4>1 DEF AddTask, GetShared, GetNothing, Vote, Copy, PutState, Goto
      <4>2. CASE UpdateVtail1(p)
        BY <4>2 DEF UpdateVtail1
      <4>3. CASE ShareNothing(p) \/ Share(p)
        BY <1>3, <4>3 DEF ShareNothing, Share, Added, Goto
      <4>4. CASE GetLocal(p) \/ GetSharing(p) \/ Acquire(p)
        BY <1>3, <4>4 DEF GetLocal, GetSharing, Take, Acquire, Goto
      <4>5. CASE Clean(p) \/ TryLock(p) \/ Unlock(p)
        BY <1>3, <4>5 DEF Clean, TryLock, Unlock, Seek, Goto
      <4> QED
        BY <1>4, <2>2, <4>1, <4>2, <4>3, <4>4, <4>5 DEF Step, LockedStep
    <3> QED
      BY <1>4, <3>1
  <2> QED
    BY <2>1, <2>2
<1>5. ASSUME NEW p \in Proc, Step(p) \/ LockedStep(p), NEW r \in Proc \ {p}, pc'[r] = "put"
      PROVE  Agree(sq'[r].ps, ps'[victim'[r]])
  <2>1. Untouched(r)
    BY <1>2, <1>5, Frame
  <2>2. pc[r] = "put" /\ sq'[r] = sq[r] /\ victim'[r] = victim[r]
    BY <1>5, <2>1 DEF Untouched
  <2>3. ~token[victim[r]] /\ Agree(sq[r].ps, ps[victim[r]])
    BY <1>2, <2>2 DEF Tokens, Steals, Kept
  <2>4. CASE LockedStep(p)
    <3>1. token[p] /\ \A x \in Proc \ {p} : ps'[x] = ps[x]
      BY <1>3, <2>4 DEF LockedStep, Share, GetSharing, Acquire, Donate
    <3>2. ps'[victim[r]] = ps[victim[r]]
      BY <1>3, <2>3, <3>1
    <3> QED
      BY <2>2, <2>3, <3>2
  <2>5. CASE PutState(p)
    <3>1. victim[r] # victim[p]
      BY <1>2, <2>2, <2>5 DEF Tokens, Steals, PutState
    <3>2. ps'[victim[r]] = ps[victim[r]]
      BY <1>3, <2>5, <3>1 DEF PutState
    <3> QED
      BY <2>2, <2>3, <3>2
  <2>6. CASE Clean(p)
    <3>1. Agree(ps[victim[r]], ps'[victim[r]])
      BY <1>3, <2>6 DEF Clean, Agree, State
    <3> QED
      BY <2>2, <2>3, <3>1 DEF Agree
  <2>7. CASE Step(p) /\ ~(PutState(p) \/ Clean(p))
    <3>1. ps' = ps
      BY <2>7 DEF Step, AddTask, UpdateVtail1, ShareNothing, GetLocal, GetShared, GetNothing,
         Vote, TryLock, Look, Unlock, Copy, shared
    <3> QED
      BY <2>2, <2>3, <3>1
  <2> QED
    BY <1>5, <2>4, <2>5, <2>6, <2>7
<1>6. ASSUME NEW p \in Proc, Transfer(p) \/ Over PROVE Kept'
  <2>1. UNCHANGED <<pc, sq, ps, victim>>
    BY <1>6 DEF Transfer, DecisionArrives, ShiftArrives, Over, vars, shared, thief
  <2> QED
    BY <1>1, <1>2, <2>1 DEF Kept
<1>7. ASSUME Barrier PROVE Kept'
  <2>1. \A p \in Proc : pc'[p] = "get"
    BY <1>7 DEF Barrier
  <2> QED
    BY <1>1, <2>1 DEF Kept
<1>8. ASSUME NEW p \in Proc, Step(p) \/ LockedStep(p) PROVE Kept'
  BY <1>1, <1>4, <1>5, <1>8 DEF Kept
<1> QED
  <2>1. 0 \in Proc
    BY DEF Proc, StealInv, Types, DetectorTypes
  <2> QED
    BY <1>6, <1>7, <1>8, <2>1 DEF Next

-----------------------------------------------------------------------------
(* Idle processes, and marked ones *)

\* Only a theft makes a process active.
LEMMA IdleKept ==
    ASSUME StealInv, NEW p \in Proc, Step(p) \/ LockedStep(p), ~PutState(p),
           NEW x \in Proc, Idle(x)
    PROVE  Idle(x)'
<1>1. QueueTypes /\ \A r \in Proc : Place(r)
  BY DEF StealInv, Types, Places
<1>2. /\ ps \in [Proc -> State] /\ size_local \in [Proc -> Nat]
      /\ want \in [Proc -> Nat] /\ token \in [Proc -> BOOLEAN]
      /\ victim \in [Proc -> Proc] /\ pc = [r \in Proc |-> pc[r]]
      /\ todo = [r \in Proc |-> todo[r]] /\ sq = [r \in Proc |-> sq[r]]
      /\ \A r \in Proc : sq[r].ps \in State
  BY <1>1 DEF QueueTypes
<1>3. CASE x # p
  <2>1. Untouched(x) /\ ps'[x] = ps[x]
    BY <1>1, <1>3, Frame
  <2> QED
    BY <2>1 DEF Untouched, Idle, Looting
<1>4. CASE x = p
  <2> USE DEF Goto
  <2>1. size_local[p] = 0 /\ ps[p].size_shared = 0 /\ todo[p] = <<>> /\ ~Looting(p)
        /\ Donation(p) = 0 /\ pc[p] # "add" /\ pc[p] # "share" /\ pc[p] # "copy"
    BY <1>1, <1>2, <1>4 DEF Idle, Place, Looting, Donation
  <2>2. CASE ShareNothing(p) \/ AddTask(p) \/ Share(p) \/ GetLocal(p) \/ GetSharing(p)
             \/ GetShared(p) \/ Copy(p) \/ UpdateVtail1(p)
    BY <2>1, <2>2 DEF ShareNothing, AddTask, Share, GetLocal, GetSharing, GetShared, Copy,
         UpdateVtail1
  <2>3. CASE GetNothing(p) \/ Vote(p)
    <3>1. pc'[p] \in {"vote", "clean"} /\ UNCHANGED <<size_local, ps, todo>>
      BY <1>2, <2>3 DEF GetNothing, Vote, owner, shared
    <3> QED
      BY <1>4, <2>1, <3>1 DEF Idle, Looting
  <2>4. CASE Acquire(p)
    <3>1. Lesser(want[p], ps[p].size_shared) = 0
      BY <1>2, <2>1 DEF Lesser
    <3>2. pc'[p] = "vote" /\ size_local'[p] = 0 /\ todo' = todo
      BY <1>2, <2>1, <2>4, <3>1 DEF Acquire
    <3>3. pc[p] = "acquire" /\ Place(p)'
      BY <1>4, <2>4, PlacesStep, Constants DEF Acquire, Next, LockedStep, Places, Proc
    <3> QED
      BY <1>4, <2>1, <3>2, <3>3 DEF Idle, Looting, Place
  <2>5. CASE Clean(p)
    <3>1. pc'[p] \in {"over", "vote", "lock"} /\ UNCHANGED <<size_local, todo>>
          /\ ps'[p].size_shared = ps[p].size_shared
      BY <1>2, <2>5 DEF Clean, Seek, owner, State
    <3> QED
      BY <1>4, <2>1, <3>1 DEF Idle, Looting
  <2>6. CASE TryLock(p)
    <3>1. pc'[p] \in {"over", "vote", "look"} /\ UNCHANGED <<size_local, todo, ps>>
      BY <1>2, <2>6 DEF TryLock, Seek, owner
    <3> QED
      BY <1>4, <2>1, <3>1 DEF Idle, Looting
  <2>7. CASE Look(p)
    <3>1. UNCHANGED <<size_local, todo, ps>> /\ sq'[p].ps = ps[victim[p]]
          /\ pc'[p] = IF ps[victim[p]].size_shared = 0 THEN "unlock" ELSE "put"
      BY <1>2, <2>7 DEF Look, owner, shared
    <3> QED
      BY <1>4, <2>1, <3>1 DEF Idle, Looting
  <2>8. CASE Unlock(p)
    <3>1. pc[p] = "unlock" /\ sq[p].ps.size_shared = 0
      BY <1>2, <2>1, <2>8 DEF Unlock, Looting, State
    <3>2. pc'[p] \in {"over", "vote"} /\ UNCHANGED <<size_local, todo, ps>>
      BY <1>2, <2>8, <3>1 DEF Unlock, Seek, owner
    <3> QED
      BY <1>4, <2>1, <3>2 DEF Idle, Looting
  <2> QED
    BY <2>2, <2>3, <2>4, <2>5, <2>6, <2>7, <2>8 DEF Step, LockedStep
<1> QED
  BY <1>3, <1>4

\* The mark of a victim stays until the victim votes.
LEMMA MarkKept ==
    ASSUME StealInv, NEW p \in Proc, Step(p) \/ LockedStep(p), ~Vote(p),
           NEW x \in Proc, Marked(x)
    PROVE  Marked(x)'
<1>1. QueueTypes
  BY DEF StealInv, Types
<1>2. ps \in [Proc -> State] /\ victim \in [Proc -> Proc] /\ pc = [r \in Proc |-> pc[r]]
  BY <1>1 DEF QueueTypes
<1>3. ps[x].dirty = 1 /\ pc[x] # "clean"
  BY DEF Marked
<1>4. ps'[x].dirty = 1
  <2>1. CASE PutState(p)
    BY <1>2, <1>3, <2>1 DEF PutState, State
  <2>2. CASE Clean(p)
    BY <1>2, <1>3, <2>2 DEF Clean, State
  <2>3. CASE LockedStep(p)
    <3>1. \E a, b : ps' = [ps EXCEPT ![p] = [ps[p] EXCEPT !.split = a, !.size_shared = b]]
      BY <2>3 DEF LockedStep, Share, GetSharing, Donate, Acquire
    <3>2. PICK a, b : ps' = [ps EXCEPT ![p] = [ps[p] EXCEPT !.split = a, !.size_shared = b]]
      BY <3>1
    <3> QED
      BY <1>2, <1>3, <3>2 DEF State
  <2>4. CASE Step(p) /\ ~(PutState(p) \/ Clean(p))
    <3>1. ps' = ps
      BY <2>4 DEF Step, AddTask, UpdateVtail1, ShareNothing, GetLocal, GetShared, GetNothing,
         Vote, TryLock, Look, Unlock, Copy, shared
    <3> QED
      BY <1>3, <3>1
  <2> QED
    BY <2>1, <2>2, <2>3, <2>4
<1>5. pc'[x] # "clean"
  <2>1. CASE x # p
    BY <1>1, <1>3, <2>1, Frame DEF Untouched
  <2>2. CASE x = p
    <3>1. CASE AddTask(p) \/ GetShared(p) \/ GetNothing(p) \/ Look(p) \/ Copy(p) \/ PutState(p)
      BY <1>2, <2>2, <3>1 DEF AddTask, GetShared, GetNothing, Look, Copy, PutState, Goto
    <3>2. CASE UpdateVtail1(p)
      BY <1>3, <3>2 DEF UpdateVtail1
    <3>3. CASE ShareNothing(p) \/ Share(p)
      BY <1>2, <2>2, <3>3 DEF ShareNothing, Share, Added, Goto
    <3>4. CASE GetLocal(p) \/ GetSharing(p) \/ Acquire(p)
      BY <1>2, <2>2, <3>4 DEF GetLocal, GetSharing, Take, Acquire, Goto
    <3>5. CASE Clean(p) \/ TryLock(p) \/ Unlock(p)
      BY <1>2, <2>2, <3>5 DEF Clean, TryLock, Unlock, Seek, Goto
    <3> QED
      BY <3>1, <3>2, <3>3, <3>4, <3>5 DEF Step, LockedStep
  <2> QED
    BY <2>1, <2>2
<1> QED
  BY <1>4, <1>5 DEF Marked

-----------------------------------------------------------------------------
(* The tree *)

LEMMA Tree ==
    ASSUME nproc \in Nat \ {0}, NEW c \in Proc, c # 0
    PROVE  Parent(c) \in Proc /\ Parent(c) < c
           /\ \A p \in Proc : c \in Children(p) <=> Parent(c) = p
<1>1. c \in Nat /\ c > 0 /\ c < nproc
  BY DEF Proc
<1>2. Parent(c) = (c - 1) \div 2
  BY DEF Parent
<1>3. (c - 1) \div 2 \in Nat /\ (c - 1) \div 2 < c
  BY <1>1
<1>4. ASSUME NEW p \in Proc PROVE c \in Children(p) <=> (c - 1) \div 2 = p
  <2>1. p \in Nat
    BY DEF Proc
  <2>2. c \in Children(p) <=> c = 2 * p + 1 \/ c = 2 * p + 2
    BY <1>1 DEF Children
  <2> QED
    BY <1>1, <2>1, <2>2
<1> QED
  BY <1>1, <1>2, <1>3, <1>4 DEF Proc

LEMMA Descendants ==
    ASSUME nproc \in Nat \ {0}, NEW p \in Proc
    PROVE  Children(p) \subseteq Proc /\ 0 \notin Children(p) /\ p \notin Children(p)
  BY DEF Proc, Children

-----------------------------------------------------------------------------
(* The steps of the detector *)

\* The first four assumptions of the lemmas that follow
Below(V) == DetectorTypes /\ Undecided /\ Waiting /\ Wave(V)

LEMMA WaveUp ==
    ASSUME NEW V \in SUBSET Proc, Below(V), NEW p \in Proc, ProgressUp(p, Clear(p)),
           nproc' = nproc
    PROVE  /\ p \notin V /\ Children(p) \subseteq V
           /\ Undecided' /\ Waiting' /\ Wave(V \cup {p})'
<1>1. DetectorTypes /\ nproc \in Nat \ {0} /\ Proc' = Proc
  BY DEF Below, DetectorTypes, Proc
<1>2. Undecided /\ Waiting /\ Wave(V)
  BY DEF Below
<1>3. dirUp[p] /\ p # 0 /\ \A c \in Children(p) : votes[c] # None
  BY DEF ProgressUp, VotesIn
<1>4. p \notin V
  BY <1>2, <1>3 DEF Wave
<1>5. Children(p) \subseteq V
  BY <1>1, <1>2, <1>3, Descendants DEF Wave
<1>6. /\ votes' = [c \in Proc |-> IF c = p THEN Decision(p, Clear(p))
                                  ELSE IF c \in Children(p) THEN None ELSE votes[c]]
      /\ dirUp' = [dirUp EXCEPT ![p] = FALSE]
      /\ pdecision' = pdecision /\ decisions' = decisions
  BY DEF ProgressUp
<1>7. Undecided'
  BY <1>1, <1>2, <1>6 DEF Undecided
<1>8. \A x \in Proc : dirUp'[x] <=> dirUp[x] /\ x # p
  BY <1>1, <1>6 DEF DetectorTypes
<1>9. \A x \in Proc : Children(x)' = Children(x) /\ Children(x) \subseteq Proc
  BY <1>1, Descendants DEF Children
<1>10. Waiting'
  <2>1. \A x \in Proc : dirUp'[x] => decisions'[x] = None
    BY <1>2, <1>6, <1>8 DEF Waiting
  <2>2. ASSUME NEW x \in Proc, ~dirUp'[x], NEW c \in Children(x)
        PROVE  ~dirUp'[c] /\ decisions'[c] = None
    <3>1. c \in Proc
      BY <1>9
    <3>2. CASE x = p
      <4>1. c \in V
        BY <3>2, <1>5
      <4> QED
        BY <1>2, <1>6, <1>8, <3>1, <4>1 DEF Wave
    <3>3. CASE x # p
      BY <1>2, <1>6, <1>8, <2>2, <3>1, <3>3 DEF Waiting
    <3> QED
      BY <3>2, <3>3
  <2> QED
    BY <1>1, <1>9, <2>1, <2>2 DEF Waiting
<1>11. Wave(V \cup {p})'
  <2> DEFINE W == V \cup {p}
  <2>1. ASSUME NEW x \in W
        PROVE  x # 0 /\ ~dirUp'[x] /\ decisions'[x] = None /\ Children(x)' \subseteq W
    <3>1. CASE x = p
      BY <1>2, <1>3, <1>5, <1>6, <1>8, <1>9, <3>1 DEF Waiting
    <3>2. CASE x \in V
      BY <1>2, <1>6, <1>8, <1>9, <3>2 DEF Wave
    <3> QED
      BY <3>1, <3>2
  <2>2. ASSUME NEW x \in W
        PROVE  IF votes'[x] = None THEN Parent(x) \in W ELSE dirUp'[Parent(x)]
    <3>1. x \in Proc /\ x # 0 /\ Parent(x) \in Proc /\ Parent(x) < x
          /\ \A y \in Proc : x \in Children(y) <=> Parent(x) = y
      BY <1>1, <2>1, Tree
    <3>2. CASE x = p
      <4>1. dirUp[Parent(p)]
        BY <1>2, <1>3, <3>1, <3>2 DEF Waiting
      <4>2. Parent(p) # p
        BY <3>1, <3>2 DEF Proc
      <4>3. votes'[p] # None
        BY <1>6 DEF Decision, None
      <4> QED
        BY <1>8, <3>1, <3>2, <4>1, <4>2, <4>3
    <3>3. CASE x \in Children(p)
      <4>1. votes'[x] = None
        BY <1>1, <1>6, <3>1, <3>3, Descendants
      <4> QED
        BY <3>1, <3>3, <4>1
    <3>4. CASE x # p /\ x \notin Children(p)
      <4>1. votes'[x] = votes[x] /\ x \in V /\ Parent(x) # p
        BY <1>6, <3>1, <3>4
      <4> QED
        BY <1>2, <1>8, <3>1, <4>1 DEF Wave
    <3> QED
      BY <3>2, <3>3, <3>4
  <2>3. \A x \in Proc : votes'[x] # None => x \in W
    BY <1>2, <1>6 DEF Wave
  <2> HIDE DEF W
  <2>4. Wave(W)'
    BY <1>1, <2>1, <2>2, <2>3 DEF Wave, Parent
  <2> QED
    BY <2>4 DEF W
<1> QED
  BY <1>4, <1>5, <1>7, <1>10, <1>11

\* When the root has the votes of its children everybody else has voted.
LEMMA WaveFull ==
    ASSUME NEW V \in SUBSET Proc, Below(V), dirUp[0], VotesIn(0)
    PROVE  V = Proc \ {0} /\ \A x \in Proc : votes[x] # None <=> x \in Children(0)
<1>1. nproc \in Nat \ {0} /\ Wave(V)
  BY DEF Below, DetectorTypes
<1>2. 0 \notin V /\ 0 \in Proc
  BY <1>1 DEF Wave, Proc
<1> DEFINE S == Proc \ (V \cup {0})
<1>3. ASSUME S # {} PROVE FALSE
  <2>1. S \in SUBSET (0 .. nproc) /\ nproc \in Nat
    BY <1>1 DEF Proc
  <2> HIDE DEF S
  <2>2. PICK n \in S : \A k \in S : n <= k
    BY <1>3, <2>1, Least
  <2>3. n \in Proc /\ n # 0 /\ n \notin V
    BY <2>2 DEF S
  <2>4. Parent(n) \in Proc /\ Parent(n) < n /\ n \in Children(Parent(n))
    BY <1>1, <2>3, Tree
  <2>5. Parent(n) \notin S
    BY <2>2, <2>3, <2>4 DEF Proc
  <2>6. CASE Parent(n) = 0
    BY <1>1, <2>3, <2>4, <2>6 DEF VotesIn, Wave
  <2>7. CASE Parent(n) \in V
    BY <1>1, <2>3, <2>4, <2>7 DEF Wave
  <2> QED
    BY <2>4, <2>5, <2>6, <2>7 DEF S
<1>4. V = Proc \ {0}
  BY <1>2, <1>3
<1>5. ASSUME NEW x \in Proc, votes[x] # None PROVE x \in Children(0)
  <2>1. x \in V /\ x # 0 /\ dirUp[Parent(x)]
    BY <1>1, <1>5 DEF Wave
  <2>2. Parent(x) \in Proc /\ Parent(x) \notin V
    BY <1>1, <2>1, Tree DEF Wave
  <2>3. Parent(x) = 0
    BY <1>4, <2>2
  <2> QED
    BY <1>1, <1>2, <2>1, <2>3, Tree
<1> QED
  BY <1>4, <1>5 DEF VotesIn

\* The root ends the wave, and the next begins; or the end is known.
LEMMA WaveEnd ==
    ASSUME NEW V \in SUBSET Proc, Below(V), ProgressRoot(0, Clear(0)), nproc' = nproc
    PROVE  /\ Decision(0, Clear(0)) = 0 => Undecided' /\ Waiting' /\ Wave({})'
           /\ Decision(0, Clear(0)) = 1 =>
                Clear(0) /\ myvote[0] = 1 /\ \A x \in Proc : votes[x] # 0
<1>1. DetectorTypes /\ nproc \in Nat \ {0} /\ Proc' = Proc /\ 0 \in Proc
  BY DEF Below, DetectorTypes, Proc
<1>2. Undecided /\ Waiting /\ Wave(V)
  BY DEF Below
<1>3. dirUp[0] /\ VotesIn(0)
  BY DEF ProgressRoot
<1>4. V = Proc \ {0} /\ \A x \in Proc : votes[x] # None <=> x \in Children(0)
  BY <1>3, WaveFull
<1>5. ASSUME Decision(0, Clear(0)) = 0 PROVE Undecided' /\ Waiting' /\ Wave({})'
  <2>1. /\ pdecision' = [pdecision EXCEPT ![0] = 0]
        /\ decisions' = [c \in Proc |-> IF c \in Children(0) THEN 0 ELSE decisions[c]]
        /\ votes' = [c \in Proc |-> IF c \in Children(0) THEN None ELSE votes[c]]
        /\ dirUp' = dirUp
    BY <1>5 DEF ProgressRoot
  <2>2. Undecided'
    BY <1>1, <1>2, <2>1 DEF Undecided, DetectorTypes
  <2>3. ASSUME NEW x \in Proc, dirUp[x] PROVE decisions'[x] = None
    <3>1. x \notin V
      BY <1>2, <2>3 DEF Wave
    <3>2. x = 0
      BY <1>4, <3>1
    <3>3. 0 \notin Children(0)
      BY <1>1, Descendants
    <3> QED
      BY <1>2, <2>1, <2>3, <3>2, <3>3 DEF Waiting
  <2>4. ASSUME NEW x \in Proc, ~dirUp[x], NEW c \in Children(x)
        PROVE  ~dirUp[c] /\ decisions'[c] = None
    <3>1. c \in Proc /\ c # 0
      BY <1>1, Descendants DEF Children, Proc
    <3>2. c \notin Children(0)
      BY <1>1, <1>3, <2>4, <3>1, Tree
    <3> QED
      BY <1>2, <2>1, <2>4, <3>1, <3>2 DEF Waiting
  <2>5. Waiting'
    BY <1>1, <2>1, <2>3, <2>4 DEF Waiting, Children
  <2>6. \A x \in Proc : votes'[x] = None
    BY <1>4, <2>1
  <2>7. Wave({})'
    BY <1>1, <2>6 DEF Wave
  <2> QED
    BY <2>2, <2>5, <2>7
<1>6. ASSUME Decision(0, Clear(0)) = 1
      PROVE  Clear(0) /\ myvote[0] = 1 /\ \A x \in Proc : votes[x] # 0
  <2>1. Voted(0, Clear(0)) = 1 /\ \A c \in Children(0) : votes[c] = 1
    BY <1>6 DEF Decision
  <2>2. Clear(0) /\ myvote[0] = 1
    BY <2>1 DEF Voted
  <2>3. \A x \in Proc : votes[x] # 0
    BY <1>4, <2>1 DEF None
  <2> QED
    BY <2>2, <2>3
<1> QED
  BY <1>5, <1>6

\* A decision goes down a level, where nobody has voted yet.
LEMMA WaveDown ==
    ASSUME NEW V \in SUBSET Proc, Below(V), NEW p \in Proc, ProgressDown(p, Clear(p)),
           nproc' = nproc
    PROVE  Undecided' /\ Waiting' /\ Wave(V)'
<1>1. DetectorTypes /\ nproc \in Nat \ {0} /\ Proc' = Proc
  BY DEF Below, DetectorTypes, Proc
<1>2. Undecided /\ Waiting /\ Wave(V)
  BY DEF Below
<1>3. ~dirUp[p] /\ decisions[p] # None
  BY DEF ProgressDown
<1>4. decisions[p] = 0 /\ pdecision[p] = 0
  BY <1>1, <1>2, <1>3 DEF Undecided, DetectorTypes
<1>5. /\ pdecision' = pdecision
      /\ decisions' = [c \in Proc |-> IF c = p THEN None
                                      ELSE IF c \in Children(p) THEN 0 ELSE decisions[c]]
      /\ dirUp' = [dirUp EXCEPT ![p] = TRUE]
      /\ votes' = votes
  BY <1>1, <1>4 DEF ProgressDown, DetectorTypes
<1>6. \A x \in Proc : dirUp'[x] <=> dirUp[x] \/ x = p
  BY <1>1, <1>5 DEF DetectorTypes
<1>7. Undecided'
  BY <1>1, <1>2, <1>5 DEF Undecided, None
<1>8. p \notin V
  BY <1>2, <1>3 DEF Wave
<1>9. ASSUME NEW c \in Children(p) PROVE c \in Proc /\ ~dirUp[c] /\ c \notin V
  <2>1. c \in Proc /\ c # 0
    BY <1>1, Descendants
  <2>2. Parent(c) = p
    BY <1>1, <2>1, <1>9, Tree
  <2> QED
    BY <1>2, <1>3, <1>8, <2>1, <2>2 DEF Wave, Waiting
<1>10. Waiting'
  <2>1. ASSUME NEW x \in Proc, dirUp'[x] PROVE decisions'[x] = None
    <3>1. x = p \/ dirUp[x]
      BY <1>6, <2>1
    <3> QED
      BY <1>2, <1>5, <1>9, <3>1 DEF Waiting
  <2>2. ASSUME NEW x \in Proc, ~dirUp'[x], NEW c \in Children(x)
        PROVE  ~dirUp'[c] /\ decisions'[c] = None
    <3>1. c \in Proc /\ c # 0 /\ ~dirUp[x] /\ x # p
      BY <1>1, <1>6, <2>2, Descendants
    <3>2. ~dirUp[c] /\ decisions[c] = None
      BY <1>2, <2>2, <3>1 DEF Waiting
    <3>3. c # p
      BY <1>3, <3>2
    <3>4. c \notin Children(p)
      BY <1>1, <2>2, <3>1, Tree
    <3> QED
      BY <1>5, <1>6, <3>1, <3>2, <3>3, <3>4
  <2> QED
    BY <1>1, <2>1, <2>2 DEF Waiting, Children
<1>11. Wave(V)'
  <2>1. \A x \in V : x \notin Children(p) /\ x # p
    BY <1>8, <1>9
  <2>2. \A x \in V : x # 0 /\ ~dirUp'[x] /\ decisions'[x] = None /\ Children(x) \subseteq V
    BY <1>2, <1>5, <1>6, <2>1 DEF Wave
  <2>3. \A x \in V : Parent(x) \in Proc
    BY <1>1, <2>2, Tree
  <2>4. \A x \in V : IF votes'[x] = None THEN Parent(x) \in V ELSE dirUp'[Parent(x)]
    BY <1>2, <1>5, <1>6, <2>3 DEF Wave
  <2>5. \A x \in Proc : votes'[x] # None => x \in V
    BY <1>2, <1>5 DEF Wave
  <2> QED
    BY <1>1, <2>2, <2>4, <2>5 DEF Wave, Parent, Children
<1> QED
  BY <1>7, <1>10, <1>11

\* A vote: the wave goes on, or all are idle.
LEMMA VoteStep ==
    ASSUME StealInv, Waves, Next, NEW p \in Proc, Vote(p)
    PROVE  Waves' \/ AllIdle
<1>1. nproc' = nproc /\ Proc' = Proc
  BY Constants DEF Proc
<1>2. DetectorTypes /\ QueueTypes /\ nproc \in Nat \ {0}
  BY DEF StealInv, Types, DetectorTypes
<1>3. PICK V \in SUBSET Proc : Wave(V) /\ ((\A x \in V : Idle(x)) \/ Doubt(V))
  BY DEF Waves
<1>4. Undecided /\ Waiting /\ Below(V)
  BY <1>2, <1>3 DEF Waves, Below
<1>5. Progress(p, Clear(p)) /\ pc[p] = "vote"
  BY DEF Vote, Clear
<1>6. Idle(p) /\ \A x \in Proc : Idle(x) => Idle(x)'
  <2>1. Idle(p)
    BY <1>5 DEF Idle, Looting, StealInv, Places, Place
  <2>2. ~PutState(p)
    BY <1>5 DEF PutState
  <2> QED
    BY <2>1, <2>2, IdleKept DEF Step
<1>7. \A x \in Proc \ {p} : Marked(x) => Marked(x)'
  <2>1. \A x \in Proc \ {p} : pc'[x] = pc[x]
    BY <1>2, Frame DEF Untouched, Step
  <2>2. ps' = ps
    BY DEF Vote, shared
  <2> QED
    BY <2>1, <2>2 DEF Marked
<1>8. Marked(p) => ~Clear(p)
  BY DEF Marked, Clear
<1>9. ASSUME Undecided', Waiting', Wave(V)', votes' = votes,
             myvote' = [myvote EXCEPT ![p] = Voted(p, Clear(p))]
      PROVE  Waves'
  <2>1. CASE \A x \in V : Idle(x)
    BY <1>1, <1>6, <1>9, <2>1 DEF Waves
  <2>2. CASE Doubt(V)
    <3>1. Doubt(V)'
      BY <1>1, <1>2, <1>7, <1>8, <1>9, <2>2 DEF Doubt, Voted, DetectorTypes
    <3> QED
      BY <1>1, <1>9, <3>1 DEF Waves
  <2> QED
    BY <1>3, <2>1, <2>2
<1>10. CASE ProgressEnded(p, Clear(p))
  BY <1>4, <1>10 DEF ProgressEnded, Undecided
<1>11. CASE ProgressWaits(p, Clear(p))
  <2>1. UNCHANGED <<dirUp, pdecision, votes, decisions>>
    BY <1>11 DEF ProgressWaits
  <2>2. Undecided' /\ Waiting' /\ Wave(V)'
    BY <1>1, <1>3, <1>4, <2>1 DEF Undecided, Waiting, Wave, Children, Parent
  <2> QED
    BY <1>9, <1>11, <2>1, <2>2 DEF ProgressWaits
<1>12. CASE ProgressDown(p, Clear(p))
  BY <1>1, <1>4, <1>9, <1>12, WaveDown DEF ProgressDown
<1>13. CASE ProgressUp(p, Clear(p))
  <2> DEFINE W == V \cup {p}
  <2>1. p \notin V /\ Children(p) \subseteq V /\ Undecided' /\ Waiting' /\ Wave(W)'
    BY <1>1, <1>4, <1>13, WaveUp
  <2>2. CASE \A x \in V : Idle(x)
    BY <1>1, <1>6, <2>1, <2>2 DEF Waves
  <2>3. CASE Doubt(V)
    <3>1. /\ votes' = [c \in Proc |-> IF c = p THEN Decision(p, Clear(p))
                                      ELSE IF c \in Children(p) THEN None ELSE votes[c]]
          /\ myvote' = [myvote EXCEPT ![p] = 1]
      BY <1>13 DEF ProgressUp
    <3>2. ASSUME Decision(p, Clear(p)) = 0 PROVE Doubt(W)'
      BY <1>1, <3>1, <3>2 DEF Doubt
    <3>3. ASSUME NEW x \in Proc, votes[x] = 0 PROVE Doubt(W)'
      <4>1. CASE x \in Children(p)
        BY <3>2, <3>3, <4>1 DEF Decision
      <4>2. CASE x \notin Children(p)
        <5>1. x # p
          BY <1>3, <2>1, <3>3 DEF Wave, None
        <5>2. votes'[x] = 0
          BY <3>1, <3>3, <4>2, <5>1
        <5> QED
          BY <1>1, <5>2 DEF Doubt
      <4> QED
        BY <4>1, <4>2
    <3>4. ASSUME NEW x \in Proc \ V, myvote[x] = 0 \/ Marked(x) PROVE Doubt(W)'
      <4>1. CASE x = p
        BY <1>8, <3>2, <3>4, <4>1 DEF Decision, Voted
      <4>2. CASE x # p
        <5>1. x \in Proc \ W /\ myvote'[x] = myvote[x] /\ (Marked(x) => Marked(x)')
          BY <1>2, <1>7, <3>1, <4>2 DEF DetectorTypes
        <5> QED
          BY <1>1, <3>4, <5>1 DEF Doubt
      <4> QED
        BY <4>1, <4>2
    <3>5. Doubt(W)'
      BY <2>3, <3>3, <3>4 DEF Doubt
    <3> QED
      BY <1>1, <2>1, <3>5 DEF Waves
  <2> QED
    BY <1>3, <2>2, <2>3
<1>14. CASE ProgressRoot(p, Clear(p))
  <2>1. p = 0 /\ dirUp[0] /\ VotesIn(0)
    BY <1>14 DEF ProgressRoot
  <2>2. Decision(0, Clear(0)) \in {0, 1}
    BY DEF Decision
  <2>3. CASE Decision(0, Clear(0)) = 0
    BY <1>1, <1>4, <1>14, <2>1, <2>3, WaveEnd DEF Waves
  <2>4. CASE Decision(0, Clear(0)) = 1
    <3>1. Clear(0) /\ myvote[0] = 1 /\ \A x \in Proc : votes[x] # 0
      BY <1>1, <1>4, <1>14, <2>1, <2>4, WaveEnd
    <3>2. V = Proc \ {0}
      BY <1>4, <2>1, WaveFull
    <3>3. ~Doubt(V)
      BY <1>8, <2>1, <3>1, <3>2 DEF Doubt
    <3>4. AllIdle
      BY <1>3, <1>6, <2>1, <3>2, <3>3 DEF AllIdle
    <3> QED
      BY <3>4
  <2> QED
    BY <2>2, <2>3, <2>4
<1> QED
  BY <1>5, <1>10, <1>11, <1>12, <1>13, <1>14 DEF Progress

\* Any other step of a process
LEMMA OtherStep ==
    ASSUME StealInv, Waves, Next, NEW p \in Proc, Step(p) \/ LockedStep(p), ~Vote(p)
    PROVE  Waves'
<1>1. nproc' = nproc /\ Proc' = Proc
  BY Constants DEF Proc
<1>2. PICK V \in SUBSET Proc : Wave(V) /\ ((\A x \in V : Idle(x)) \/ Doubt(V))
  BY DEF Waves
<1>3. UNCHANGED detector
  BY DEF Step, LockedStep, AddTask, UpdateVtail1, ShareNothing, GetLocal, GetShared,
     GetNothing, Clean, TryLock, Look, PutState, Unlock, Copy, Share, GetSharing, Acquire
<1>4. Undecided' /\ Waiting' /\ Wave(V)'
  BY <1>1, <1>2, <1>3 DEF Waves, Undecided, Waiting, Wave, Children, Parent, detector
<1>5. CASE Doubt(V)
  <2>1. \A x \in Proc : Marked(x) => Marked(x)'
    BY MarkKept
  <2>2. Doubt(V)'
    BY <1>1, <1>3, <1>5, <2>1 DEF Doubt, detector
  <2> QED
    BY <1>1, <1>4, <2>2 DEF Waves
<1>6. CASE (\A x \in V : Idle(x)) /\ ~PutState(p)
  <2>1. \A x \in V : Idle(x)'
    BY <1>6, IdleKept
  <2> QED
    BY <1>1, <1>4, <2>1 DEF Waves
<1>7. CASE (\A x \in V : Idle(x)) /\ PutState(p)
  <2> DEFINE v == victim[p]
  <2>1. /\ v \in Proc /\ ps \in [Proc -> State] /\ pc = [x \in Proc |-> pc[x]]
    BY DEF StealInv, Types, QueueTypes
  <2>2. ps[v].size_shared > 0 /\ v # p /\ pc[v] # "clean"
    BY <1>7, VictimBusy
  <2>3. v \notin V
    BY <1>7, <2>1, <2>2 DEF Idle, State
  <2>4. ps'[v].dirty = 1 /\ pc'[v] = pc[v]
    BY <1>7, <2>1, <2>2 DEF PutState, Goto
  <2>5. Marked(v)'
    <3>1. PICK y \in Proc : y = v
      BY <2>1
    <3>2. ps'[y].dirty = 1 /\ pc'[y] # "clean"
      BY <2>2, <2>4, <3>1
    <3>3. Marked(y)'
      BY <3>2 DEF Marked
    <3> QED
      BY <1>7, <3>1, <3>3 DEF PutState, thief
  <2>6. victim' = victim
    BY <1>7 DEF PutState, thief
  <2>7. Doubt(V)'
    BY <1>1, <2>1, <2>3, <2>5, <2>6 DEF Doubt
  <2> QED
    BY <1>1, <1>4, <2>7 DEF Waves
<1> QED
  BY <1>2, <1>5, <1>6, <1>7

LEMMA WavesStep == StealInv /\ Waves /\ Next => Waves' \/ AllIdle'
<1> SUFFICES ASSUME StealInv, Waves, Next PROVE Waves' \/ AllIdle'
  OBVIOUS
<1>1. nproc' = nproc /\ Proc' = Proc
  BY Constants DEF Proc
<1>2. PICK V \in SUBSET Proc : Wave(V) /\ ((\A x \in V : Idle(x)) \/ Doubt(V))
  BY DEF Waves
<1>3. ASSUME NEW p \in Proc, Step(p) \/ LockedStep(p) PROVE Waves' \/ AllIdle'
  <2>1. CASE Vote(p)
    <3>1. Waves' \/ AllIdle
      BY <2>1, VoteStep
    <3>2. ~PutState(p)
      BY <2>1 DEF Vote, PutState
    <3>3. AllIdle => AllIdle'
      BY <1>1, <1>3, <3>2, IdleKept DEF AllIdle
    <3> QED
      BY <3>1, <3>3
  <2>2. CASE ~Vote(p)
    BY <1>3, <2>2, OtherStep
  <2> QED
    BY <2>1, <2>2
<1>4. ASSUME UNCHANGED <<detector, ps, size_local, todo, sq>>,
             \A x \in Proc : Looting(x)' => Looting(x),
             \A x \in Proc : pc'[x] = "clean" => pc[x] = "clean"
      PROVE  Waves'
  <2>1. Undecided' /\ Waiting' /\ Wave(V)'
    BY <1>1, <1>2, <1>4 DEF Waves, Undecided, Waiting, Wave, Children, Parent, detector
  <2>2. CASE \A x \in V : Idle(x)
    <3>1. \A x \in V : Idle(x)'
      BY <1>4, <2>2 DEF Idle
    <3> QED
      BY <1>1, <2>1, <3>1 DEF Waves
  <2>3. CASE Doubt(V)
    <3>1. \A x \in Proc : Marked(x) => Marked(x)'
      BY <1>4 DEF Marked
    <3>2. Doubt(V)'
      BY <1>1, <1>4, <2>3, <3>1 DEF Doubt, detector
    <3> QED
      BY <1>1, <2>1, <3>2 DEF Waves
  <2> QED
    BY <1>2, <2>2, <2>3
<1>5. CASE Barrier
  <2>1. UNCHANGED <<detector, ps, size_local, todo, sq>> /\ \A p \in Proc : pc'[p] = "get"
    BY <1>5 DEF Barrier, shared, owner, thief
  <2> QED
    BY <1>4, <2>1 DEF Looting
<1>6. ASSUME NEW p \in Proc, Transfer(p) PROVE Waves'
  <2>1. ~DecisionArrives(p)
    BY DEF Waves, Undecided, DecisionArrives
  <2>2. UNCHANGED <<detector, ps, size_local, todo, sq, pc>>
    BY <1>6, <2>1 DEF Transfer, ShiftArrives, owner, thief
  <2> QED
    BY <1>4, <2>2 DEF Looting
<1>7. CASE Over
  <2>1. UNCHANGED <<detector, ps, size_local, todo, sq, pc>>
    BY <1>7 DEF Over, vars, owner, shared, thief
  <2> QED
    BY <1>4, <2>1 DEF Looting
<1> QED
  BY <1>3, <1>5, <1>6, <1>7 DEF Next

\* When all are idle nothing can be stolen any more.
LEMMA IdleStep == StealInv /\ AllIdle /\ Next => AllIdle'
<1> SUFFICES ASSUME StealInv, AllIdle, Next PROVE AllIdle'
  OBVIOUS
<1>1. Proc' = Proc
  BY Constants DEF Proc
<1>2. ASSUME NEW p \in Proc, Step(p) \/ LockedStep(p) PROVE AllIdle'
  <2>1. ASSUME PutState(p) PROVE FALSE
    <3>1. victim[p] \in Proc /\ ps[victim[p]].size_shared > 0
      BY <2>1, VictimBusy DEF StealInv, Types, QueueTypes
    <3> QED
      BY <3>1 DEF AllIdle, Idle
  <2> QED
    BY <1>1, <1>2, <2>1, IdleKept DEF AllIdle
<1>3. CASE Barrier
  <2>1. UNCHANGED <<ps, size_local, todo, sq>> /\ \A p \in Proc : pc'[p] = "get"
    BY <1>3 DEF Barrier, shared, owner, thief
  <2> QED
    BY <1>1, <2>1 DEF AllIdle, Idle, Looting
<1>4. ASSUME NEW p \in Proc, Transfer(p) \/ Over PROVE AllIdle'
  <2>1. UNCHANGED <<ps, size_local, todo, sq, pc>>
    BY <1>4 DEF Transfer, DecisionArrives, ShiftArrives, Over, vars, owner, shared, thief
  <2> QED
    BY <1>1, <2>1 DEF AllIdle, Idle, Looting
<1> QED
  <2>1. 0 \in Proc
    BY DEF Proc, StealInv, Types, DetectorTypes
  <2> QED
    BY <1>2, <1>3, <1>4, <2>1 DEF Next

-----------------------------------------------------------------------------
(* The theorems *)

LEMMA StealStep == StealInv /\ [Next]_vars => StealInv'
<1> SUFFICES ASSUME StealInv, [Next]_vars PROVE StealInv'
  OBVIOUS
<1>1. CASE Next
  BY <1>1, DetectorTypesStep, QueueTypesStep, PlacesStep, TokensStep, KeptStep
     DEF StealInv, Types
<1>2. CASE UNCHANGED vars
  BY <1>2 DEF vars, detector, owner, shared, thief, StealInv, Types, DetectorTypes, QueueTypes,
     Places, Place, Tokens, Kept, Steals, Agree, Proc, State, Slot, max_ntsks
<1> QED
  BY <1>1, <1>2

LEMMA TaskStep == TaskInv /\ [Next]_vars => TaskInv'
<1> SUFFICES ASSUME TaskInv, [Next]_vars PROVE TaskInv'
  OBVIOUS
<1>1. StealInv'
  BY StealStep DEF TaskInv
<1>2. CASE Next
  BY <1>1, <1>2, WavesStep, IdleStep DEF TaskInv
<1>3. CASE UNCHANGED vars
  <2>1. AllIdle => AllIdle'
    BY <1>3 DEF vars, owner, shared, thief, AllIdle, Idle, Looting, Proc
  <2>2. ASSUME Waves PROVE Waves'
    <3>1. PICK V \in SUBSET Proc : Wave(V) /\ ((\A x \in V : Idle(x)) \/ Doubt(V))
      BY <2>2 DEF Waves
    <3>2. Undecided' /\ Waiting' /\ Wave(V)' /\ Proc' = Proc
      BY <1>3, <2>2, <3>1 DEF Waves, Undecided, Waiting, Wave, Children, Parent, detector,
           vars, Proc
    <3>3. (\A x \in V : Idle(x)) \/ Doubt(V) => (\A x \in V : Idle(x)') \/ Doubt(V)'
      BY <1>3, <3>2 DEF Idle, Looting, Doubt, Marked, detector, vars, owner, shared, thief
    <3> QED
      BY <3>1, <3>2, <3>3 DEF Waves
  <2> QED
    BY <1>1, <2>1, <2>2 DEF TaskInv
<1> QED
  BY <1>2, <1>3

\* What a thief writes back to the queue of its victim, the borders and the
\* count of the shared tasks, is what the queue still is, and nobody else is
\* about to write: lock, the get, the put and unlock of steal against
\* releaseToShared and acquireFromShared of the owner.
THEOREM StatesKept == Spec => []StateKept
<1>1. Init => StealInv
  BY InitSteals
<1>2. StealInv /\ [Next]_vars => StealInv'
  BY StealStep
<1>3. ASSUME StealInv PROVE StateKept
  <2> SUFFICES ASSUME NEW p \in Proc, pc[p] = "put"
               PROVE  /\ [sq[p].ps EXCEPT !.dirty = 0] = [ps[victim[p]] EXCEPT !.dirty = 0]
                      /\ \A r \in Proc \ {p} : pc[r] \in {"look", "put", "unlock"} =>
                                               victim[r] # victim[p]
    BY DEF StateKept
  <2>1. sq[p].ps \in State /\ ps[victim[p]] \in State
    BY <1>3 DEF StealInv, Types, QueueTypes
  <2>2. Agree(sq[p].ps, ps[victim[p]])
    BY <1>3 DEF StealInv, Kept
  <2>3. [sq[p].ps EXCEPT !.dirty = 0] = [ps[victim[p]] EXCEPT !.dirty = 0]
    BY <2>1, <2>2 DEF State, Agree
  <2> QED
    BY <1>3, <2>3 DEF StealInv, Tokens, Steals
<1> QED
  BY <1>1, <1>2, <1>3, PTL DEF Spec

\* A process that knows of the end knows the truth: no process has a task, nor
\* is one amid a steal.  It is about the votes that TerminationDetector carries
\* while process() steals, and about the mark that a thief leaves.
THEOREM EndDetected == Spec => []DetectedWhenDone
<1>1. Init => TaskInv
  BY InitSteals, InitWaves DEF TaskInv
<1>2. TaskInv /\ [Next]_vars => TaskInv'
  BY TaskStep
<1>3. ASSUME TaskInv PROVE DetectedWhenDone
  BY <1>3 DEF TaskInv, Waves, Undecided, AllIdle, DetectedWhenDone, hasTerminated
<1> QED
  BY <1>1, <1>2, <1>3, PTL DEF Spec

-----------------------------------------------------------------------------
(* Arithmetic of a ring of m slots *)

LEMMA AddRound ==
    ASSUME NEW m \in Nat \ {0}, NEW a \in 0 .. m - 1, NEW n \in 0 .. m
    PROVE  (a + n) % m = IF a + n < m THEN a + n ELSE a + n - m
<1>1. \A x \in 0 .. m - 1 : x % m = x
  OBVIOUS
<1>2. CASE a + n < m
  BY <1>1, <1>2
<1>3. CASE ~(a + n < m)
  <2> DEFINE x == a + n - m
  <2>1. x \in 0 .. m - 1 /\ a + n = 1 * m + x
    BY <1>3
  <2>2. (1 * m + x) % m = x
    BY <2>1
  <2> QED
    BY <1>3, <2>1, <2>2
<1> QED
  BY <1>2, <1>3

LEMMA SubtractRound ==
    ASSUME NEW m \in Nat \ {0}, NEW a \in 0 .. m - 1, NEW n \in 0 .. m
    PROVE  (a - n) % m = IF n <= a THEN a - n ELSE a - n + m
<1>1. \A x \in 0 .. m - 1 : x % m = x
  OBVIOUS
<1>2. CASE n <= a
  BY <1>1, <1>2
<1>3. CASE ~(n <= a)
  <2> DEFINE x == a - n + m
  <2>1. x \in 0 .. m - 1 /\ a - n = (-1) * m + x
    BY <1>3
  <2>2. ((-1) * m + x) % m = x
    BY <2>1
  <2> QED
    BY <1>3, <2>1, <2>2
<1> QED
  BY <1>2, <1>3

\* How far s is ahead of b, and what is n ahead of a
Away(m, b, s)  == IF b <= s THEN s - b ELSE s - b + m
Ahead(m, a, n) == IF a + n < m THEN a + n ELSE a + n - m

\* A queue whose free slots begin behind v: from v to the tail t are slots that
\* were stolen, then a shared tasks up to the border x and b local ones up to
\* the head h.  It has something local when there is no free slot.
Ring(m, v, t, x, h, a, b) ==
    /\ m \in Nat /\ m > 1
    /\ v \in 0 .. m - 1 /\ t \in 0 .. m - 1 /\ a \in Nat /\ b \in Nat
    /\ x = Ahead(m, t, a) /\ h = Ahead(m, x, b)
    /\ Away(m, v, t) + a + b <= m
    /\ Away(m, v, t) + a + b = m => b > 0

\* A task is added if the head has not come round.
LEMMA RingAdd ==
    ASSUME NEW m, NEW v, NEW t, NEW x, NEW h, NEW a, NEW b, Ring(m, v, t, x, h, a, b),
           b < m, h = v => x = h
    PROVE  /\ Ring(m, v, t, x, (h + 1) % m, a, b + 1)
           /\ h \in 0 .. m - 1 /\ Away(m, v, h) = Away(m, v, t) + a + b
           /\ Away(m, v, h) < m
<1>1. m \in Nat \ {0} /\ h \in 0 .. m - 1 /\ x \in 0 .. m - 1 /\ 1 \in 0 .. m
  BY DEF Ring, Ahead, Away
<1>2. (h + 1) % m = IF h + 1 < m THEN h + 1 ELSE h + 1 - m
  BY <1>1, AddRound
<1>3. Away(m, v, t) + a + b < m
  BY DEF Ring, Ahead, Away
<1> QED
  BY <1>1, <1>2, <1>3 DEF Ring, Ahead, Away

LEMMA RingHead ==
    ASSUME NEW m, NEW v, NEW t, NEW x, NEW h, NEW a, NEW b, Ring(m, v, t, x, h, a, b),
           b < m, h = v => x = h
    PROVE  h \in 0 .. m - 1 /\ Away(m, t, h) = a + b
BY DEF Ring, Ahead, Away

\* All stolen slots are freed.
LEMMA RingFree ==
    ASSUME NEW m, NEW v, NEW t, NEW x, NEW h, NEW a, NEW b, Ring(m, v, t, x, h, a, b)
    PROVE  Ring(m, t, t, x, h, a, b)
BY DEF Ring, Ahead, Away

\* d tasks become shared, of more than d.
LEMMA RingShare ==
    ASSUME NEW m, NEW v, NEW t, NEW x, NEW h, NEW a, NEW b, Ring(m, v, t, x, h, a, b),
           NEW d \in Nat, d < b
    PROVE  Ring(m, v, t, (x + d) % m, h, a + d, b - d)
<1>1. m \in Nat \ {0} /\ x \in 0 .. m - 1 /\ d \in 0 .. m
  BY DEF Ring, Ahead, Away
<1>2. (x + d) % m = IF x + d < m THEN x + d ELSE x + d - m
  BY <1>1, AddRound
<1> QED
  BY <1>1, <1>2 DEF Ring, Ahead, Away

\* The last task is taken.
LEMMA RingTake ==
    ASSUME NEW m, NEW v, NEW t, NEW x, NEW h, NEW a, NEW b, Ring(m, v, t, x, h, a, b), b > 0
    PROVE  /\ Ring(m, v, t, x, (h - 1) % m, a, b - 1)
           /\ (h - 1) % m \in 0 .. m - 1
           /\ Away(m, t, (h - 1) % m) = a + b - 1
           /\ b - 1 < m
<1>1. m \in Nat \ {0} /\ h \in 0 .. m - 1 /\ x \in 0 .. m - 1 /\ 1 \in 0 .. m
  BY DEF Ring, Ahead, Away
<1>2. (h - 1) % m = IF 1 <= h THEN h - 1 ELSE h - 1 + m
  BY <1>1, SubtractRound
<1> QED
  BY <1>1, <1>2 DEF Ring, Ahead, Away

\* n shared tasks become local.
LEMMA RingAcquire ==
    ASSUME NEW m, NEW v, NEW t, NEW x, NEW h, NEW a, NEW b, Ring(m, v, t, x, h, a, b),
           NEW n \in Nat, n <= a
    PROVE  Ring(m, v, t, (x - n) % m, h, a - n, b + n)
<1>1. m \in Nat \ {0} /\ x \in 0 .. m - 1 /\ n \in 0 .. m
  BY DEF Ring, Ahead, Away
<1>2. (x - n) % m = IF n <= x THEN x - n ELSE x - n + m
  BY <1>1, SubtractRound
<1> QED
  BY <1>1, <1>2 DEF Ring, Ahead, Away

\* n shared tasks are stolen, which lie in one piece.
LEMMA RingSteal ==
    ASSUME NEW m, NEW v, NEW t, NEW x, NEW h, NEW a, NEW b, Ring(m, v, t, x, h, a, b),
           NEW n \in Nat, n <= a, n <= m - t
    PROVE  /\ Ring(m, v, (t + n) % m, x, h, a - n, b)
           /\ Away(m, v, (t + n) % m) = Away(m, v, t) + n
           /\ \A i \in 0 .. n - 1 : /\ t + i \in 0 .. m - 1
                                     /\ Away(m, v, t + i) = Away(m, v, t) + i
<1>1. m \in Nat \ {0} /\ t \in 0 .. m - 1 /\ n \in 0 .. m
  BY DEF Ring
<1>2. (t + n) % m = IF t + n < m THEN t + n ELSE t + n - m
  BY <1>1, AddRound
<1>3. Away(m, v, t) + n < m
  BY DEF Ring, Ahead, Away
<1> QED
  BY <1>1, <1>2, <1>3 DEF Ring, Ahead, Away

\* The slots of the queue lie between the tail and the head.
LEMMA RingSlots ==
    ASSUME NEW m, NEW v, NEW t, NEW x, NEW h, NEW a, NEW b, Ring(m, v, t, x, h, a, b),
           NEW k, k = a + b
    PROVE  /\ {(t + i) % m : i \in 0 .. k - 1} = {s \in 0 .. m - 1 : Away(m, t, s) < k}
           /\ \A s \in 0 .. m - 1 : Away(m, t, s) < k =>
                 Away(m, v, s) = Away(m, v, t) + Away(m, t, s)
<1>1. m \in Nat \ {0} /\ t \in 0 .. m - 1 /\ k \in 0 .. m
  BY DEF Ring, Away
<1>2. ASSUME NEW i \in 0 .. k - 1
      PROVE  (t + i) % m \in 0 .. m - 1 /\ Away(m, t, (t + i) % m) = i
  <2>1. i \in 0 .. m
    BY <1>1
  <2>2. (t + i) % m = IF t + i < m THEN t + i ELSE t + i - m
    BY <1>1, <2>1, AddRound
  <2> QED
    BY <1>1, <2>2 DEF Away
<1>3. ASSUME NEW s \in 0 .. m - 1, Away(m, t, s) < k
      PROVE  \E i \in 0 .. k - 1 : s = (t + i) % m
  <2> DEFINE i == Away(m, t, s)
  <2>1. i \in 0 .. k - 1 /\ i \in 0 .. m
    BY <1>1, <1>3 DEF Away
  <2>2. (t + i) % m = IF t + i < m THEN t + i ELSE t + i - m
    <3> HIDE DEF i
    <3> QED
      BY <1>1, <2>1, AddRound
  <2>3. s = (t + i) % m
    BY <1>1, <2>1, <2>2 DEF Away
  <2> QED
    BY <2>1, <2>3
<1>4. {(t + i) % m : i \in 0 .. k - 1} = {s \in 0 .. m - 1 : Away(m, t, s) < k}
  <2> DEFINE A == {(t + i) % m : i \in 0 .. k - 1}
             B == {s \in 0 .. m - 1 : Away(m, t, s) < k}
  <2>1. ASSUME NEW s \in A PROVE s \in B
    <3>1. PICK i \in 0 .. k - 1 : s = (t + i) % m
      OBVIOUS
    <3>2. s \in 0 .. m - 1 /\ Away(m, t, s) = i
      BY <1>2, <3>1
    <3>3. i < k
      BY <1>1
    <3> QED
      BY <3>2, <3>3
  <2>2. ASSUME NEW s \in B PROVE s \in A
    BY <1>3
  <2> QED
    BY <2>1, <2>2
<1>5. \A s \in 0 .. m - 1 : Away(m, t, s) < k =>
         Away(m, v, s) = Away(m, v, t) + Away(m, t, s)
  BY DEF Ring, Away
<1> QED
  BY <1>4, <1>5

\* Slots are told apart by how far they are ahead of another.
LEMMA AwayInjective ==
    ASSUME NEW m \in Nat, NEW t \in 0 .. m - 1
    PROVE  /\ \A s, z \in 0 .. m - 1 : Away(m, t, s) = Away(m, t, z) => s = z
           /\ \A s \in 0 .. m - 1 : Away(m, t, s) \in 0 .. m - 1
BY DEF Away

\* The slots from tail to head
LEMMA RingSpan ==
    ASSUME NEW m, NEW v, NEW t, NEW x, NEW h, NEW a, NEW b, Ring(m, v, t, x, h, a, b)
    PROVE  {(t + i) % m : i \in 0 .. a + b - 1} = {s \in 0 .. m - 1 : Away(m, t, s) < a + b}
<1> DEFINE k == a + b
<1>1. a + b - 1 = k - 1
  BY DEF Ring
<1>2. k = a + b
  OBVIOUS
<1> HIDE DEF k
<1>3. {(t + i) % m : i \in 0 .. k - 1} = {s \in 0 .. m - 1 : Away(m, t, s) < k}
  BY <1>2, RingSlots
<1> QED
  BY <1>1, <1>2, <1>3

\* What is stolen are the first slots from the tail.
LEMMA StealSpan ==
    ASSUME NEW m, NEW v, NEW t, NEW x, NEW h, NEW a, NEW b, Ring(m, v, t, x, h, a, b),
           NEW n \in Nat, n <= a, n <= m - t, NEW s \in 0 .. m - 1
    PROVE  Away(m, t, s) < a + b <=>
             \/ Away(m, (t + n) % m, s) < (a - n) + b
             \/ \E i \in 0 .. n - 1 : s = t + i
<1>1. m \in Nat \ {0} /\ t \in 0 .. m - 1 /\ n \in 0 .. m /\ a \in Nat /\ b \in Nat /\ a + b <= m
  BY DEF Ring, Away
<1>2. (t + n) % m = IF t + n < m THEN t + n ELSE t + n - m
  BY <1>1, AddRound
<1>3. (\E i \in 0 .. n - 1 : s = t + i) <=> t <= s /\ s < t + n
  <2>1. ASSUME t <= s, s < t + n PROVE \E i \in 0 .. n - 1 : s = t + i
    <3>1. s - t \in 0 .. n - 1 /\ s = t + (s - t)
      BY <1>1, <2>1
    <3> QED
      BY <3>1
  <2> QED
    BY <1>1, <2>1
<1>4. Away(m, t, s) < n <=> t <= s /\ s < t + n
  BY <1>1 DEF Away
<1>5. Away(m, t, s) < a + b <=> Away(m, (t + n) % m, s) < (a - n) + b \/ Away(m, t, s) < n
  BY <1>1, <1>2 DEF Away
<1> QED
  BY <1>3, <1>4, <1>5

-----------------------------------------------------------------------------
(* The slots *)

\* Every queue has more than one slot.
Roomy == \A j \in Jobs : j.max > 1

SlotTypes ==
    /\ head = [p \in Proc |-> head[p]] /\ vtail1 = [p \in Proc |-> vtail1[p]]
    /\ q = [p \in Proc |-> [s \in Slot |-> q[p][s]]]

\* A queue is a ring, and where a task is about to be added something is not
\* local: half of the local tasks were shared when there were two.
Rings ==
    \A p \in Proc :
        /\ Ring(max_ntsks, vtail1[p], ps[p].tail, ps[p].split, head[p],
                ps[p].size_shared, size_local[p])
        /\ pc[p] = "add" => size_local[p] < max_ntsks

\* Slot s of v was stolen and is not free yet.
Behind(v, s) ==
    s \in Slot /\ Away(max_ntsks, vtail1[v], s) < Away(max_ntsks, vtail1[v], ps[v].tail)

\* What is being copied is behind the tail, and by one thief only.
Loots ==
    \A r, v \in Proc : Looting(r) /\ victim[r] = v =>
        /\ \A s \in Loot(r) : Behind(v, s)
        /\ \A o \in Proc \ {r} : Looting(o) /\ victim[o] = v =>
              Loot(o) \cap Loot(r) = {}

SlotsInv == StealInv /\ SlotTypes /\ Rings /\ Loots

LEMMA InitSlots == Roomy /\ Init => SlotTypes /\ Rings /\ Loots
<1> SUFFICES ASSUME Roomy, Init PROVE SlotTypes /\ Rings /\ Loots
  OBVIOUS
<1>1. max_ntsks \in Nat /\ max_ntsks > 1
  BY TaskAssumption DEF Roomy, Init, max_ntsks
<1>2. SlotTypes
  BY DEF SlotTypes, Init
<1>3. Rings
  <2> SUFFICES ASSUME NEW p \in Proc
               PROVE  /\ Ring(max_ntsks, vtail1[p], ps[p].tail, ps[p].split, head[p],
                              ps[p].size_shared, size_local[p])
                      /\ pc[p] = "add" => size_local[p] < max_ntsks
    BY DEF Rings
  <2>1. /\ vtail1[p] = 0 /\ ps[p].tail = 0 /\ ps[p].split = 0 /\ head[p] = 0
        /\ ps[p].size_shared = 0 /\ size_local[p] = 0
    BY DEF Init, Unread
  <2>2. Ring(max_ntsks, 0, 0, 0, 0, 0, 0)
    BY <1>1 DEF Ring, Ahead, Away
  <2> QED
    BY <1>1, <2>1, <2>2
<1>4. Loots
  BY DEF Loots, Looting, Init
<1> QED
  BY <1>2, <1>3, <1>4

\* The head and the free slots of a queue are its owner's.
LEMMA SlotFrame ==
    ASSUME QueueTypes, SlotTypes, NEW p \in Proc, Step(p) \/ LockedStep(p)
    PROVE  /\ SlotTypes'
           /\ \A r \in Proc \ {p} : head'[r] = head[r] /\ vtail1'[r] = vtail1[r]
           /\ ~UpdateVtail1(p) => vtail1' = vtail1
           /\ ~AddTask(p) => q' = q
<1>1. Proc' = Proc /\ Slot' = Slot
  BY Constants DEF Next, Proc, Slot, max_ntsks
<1> USE DEF SlotTypes
<1>2. CASE AddTask(p)
  BY <1>1, <1>2 DEF AddTask
<1>3. CASE UpdateVtail1(p)
  BY <1>1, <1>3 DEF UpdateVtail1
<1>4. CASE GetLocal(p) \/ GetSharing(p)
  BY <1>1, <1>4 DEF GetLocal, GetSharing, Take, AddTask, UpdateVtail1
<1>5. ASSUME UNCHANGED <<head, vtail1, q>> PROVE SlotTypes'
  BY <1>1, <1>5
<1>6. CASE ~(AddTask(p) \/ UpdateVtail1(p) \/ GetLocal(p) \/ GetSharing(p))
  <2>1. UNCHANGED <<head, vtail1, q>>
    BY <1>6 DEF Step, LockedStep, ShareNothing, GetShared, GetNothing, Vote, Clean, TryLock, Look,
           PutState, Unlock, Copy, Share, Acquire, owner
  <2> QED
    BY <1>5, <2>1
<1> QED
  BY <1>2, <1>3, <1>4, <1>6

\* The steps of its owner keep a queue a ring.
LEMMA OwnRing ==
    ASSUME StealInv, SlotTypes, Rings, NEW p \in Proc, Step(p) \/ LockedStep(p)
    PROVE  /\ Ring(max_ntsks, vtail1'[p], ps'[p].tail, ps'[p].split, head'[p],
                   ps'[p].size_shared, size_local'[p])
           /\ pc'[p] = "add" => size_local'[p] < max_ntsks
<1> DEFINE m == max_ntsks
           v == vtail1[p]
           t == ps[p].tail
           x == ps[p].split
           h == head[p]
           a == ps[p].size_shared
           b == size_local[p]
           d == Donation(p)
<1>1. Ring(m, v, t, x, h, a, b) /\ (pc[p] = "add" => b < m)
  BY DEF Rings
<1>2. /\ ps \in [Proc -> State] /\ size_local \in [Proc -> Nat] /\ want \in [Proc -> Nat]
      /\ pc = [r \in Proc |-> pc[r]] /\ victim \in [Proc -> Proc]
      /\ head = [r \in Proc |-> head[r]] /\ vtail1 = [r \in Proc |-> vtail1[r]]
      /\ Place(p)
  BY DEF StealInv, Types, QueueTypes, Places, SlotTypes
<1>3. m \in Nat /\ m > 1 /\ a \in Nat /\ b \in Nat /\ ps[p] \in State
  BY <1>1, <1>2 DEF Ring
<1>4. d \in Nat /\ (d > 0 => d < b /\ a = 0) /\ (d = 0 => a > 0 \/ b < 2)
  BY <1>3 DEF Donation
<1>5. ASSUME UNCHANGED <<head, vtail1, size_local>>, ps'[p] = ps[p],
             pc'[p] = "add" => size_local[p] < m
      PROVE  /\ Ring(max_ntsks, vtail1'[p], ps'[p].tail, ps'[p].split, head'[p],
                     ps'[p].size_shared, size_local'[p])
             /\ pc'[p] = "add" => size_local'[p] < max_ntsks
  BY <1>1, <1>5
<1>6. CASE AddTask(p)
  <2>1. /\ vtail1' = vtail1 /\ ps' = ps /\ head'[p] = (h + 1) % m /\ size_local'[p] = b + 1
        /\ pc'[p] = "share" /\ b < m /\ (h = v => x = h)
    BY <1>1, <1>2, <1>6 DEF AddTask, Goto, shared, SpaceAvailable
  <2> HIDE DEF m, v, t, x, h, a, b
  <2>2. Ring(m, v, t, x, (h + 1) % m, a, b + 1)
    BY <1>1, <2>1, RingAdd
  <2> QED
    BY <2>1, <2>2 DEF m, v, t, x, h, a, b
<1>7. CASE UpdateVtail1(p)
  <2>1. /\ vtail1'[p] = t /\ ps' = ps /\ head' = head /\ size_local' = size_local /\ pc' = pc
    BY <1>2, <1>7 DEF UpdateVtail1, shared
  <2> HIDE DEF m, v, t, x, h, a, b
  <2>2. Ring(m, t, t, x, h, a, b)
    BY <1>1, RingFree
  <2> QED
    BY <1>1, <2>1, <2>2 DEF m, v, t, x, h, a, b
<1>8. CASE ShareNothing(p)
  <2>1. b < m
    BY <1>1, <1>3, <1>4, <1>8 DEF ShareNothing, Ring, Away
  <2> QED
    BY <1>5, <1>8, <2>1 DEF ShareNothing, owner, shared
<1>9. CASE Share(p)
  <2>1. /\ vtail1' = vtail1 /\ head' = head /\ size_local'[p] = b - d /\ d > 0
        /\ ps'[p] = [ps[p] EXCEPT !.split = (x + d) % m, !.size_shared = a + d]
    BY <1>2, <1>9 DEF Share, Donate
  <2>2. ps'[p].tail = t /\ ps'[p].split = (x + d) % m /\ ps'[p].size_shared = a + d
    BY <1>3, <2>1 DEF State
  <2> HIDE DEF m, v, t, x, h, a, b, d
  <2>3. Ring(m, v, t, (x + d) % m, h, a + d, b - d)
    BY <1>1, <1>4, <2>1, RingShare
  <2>4. b - d < m
    BY <1>1, <1>3, <1>4, <2>1 DEF Ring, Away
  <2> QED
    BY <2>1, <2>2, <2>3, <2>4 DEF m, v, t, x, h, a, b
<1>10. CASE GetLocal(p)
  <2>1. /\ vtail1' = vtail1 /\ ps' = ps /\ head'[p] = (h - 1) % m /\ size_local'[p] = b - 1
        /\ b > 0
    BY <1>2, <1>10 DEF GetLocal, Take, shared
  <2> HIDE DEF m, v, t, x, h, a, b, d
  <2>2. Ring(m, v, t, x, (h - 1) % m, a, b - 1) /\ b - 1 < m
    BY <1>1, <2>1, RingTake
  <2> QED
    BY <2>1, <2>2 DEF m, v, t, x, h, a, b
<1>11. CASE GetSharing(p)
  <2>1. /\ vtail1' = vtail1 /\ head'[p] = (h - 1) % m /\ size_local'[p] = b - d - 1 /\ d > 0
        /\ ps'[p] = [ps[p] EXCEPT !.split = (x + d) % m, !.size_shared = a + d]
    BY <1>2, <1>11 DEF GetSharing, Take, Donate
  <2>2. ps'[p].tail = t /\ ps'[p].split = (x + d) % m /\ ps'[p].size_shared = a + d
    BY <1>3, <2>1 DEF State
  <2> HIDE DEF m, v, t, x, h, a, b, d
  <2>3. Ring(m, v, t, (x + d) % m, h, a + d, b - d)
    BY <1>1, <1>4, <2>1, RingShare
  <2>4. b - d > 0
    BY <1>3, <1>4, <2>1
  <2>5. Ring(m, v, t, (x + d) % m, (h - 1) % m, a + d, (b - d) - 1) /\ (b - d) - 1 < m
    BY <2>3, <2>4, RingTake
  <2>6. b - d - 1 = (b - d) - 1
    BY <1>3, <1>4
  <2> QED
    BY <2>1, <2>2, <2>5, <2>6 DEF m, v, t, x, h, a, b
<1>12. CASE Acquire(p)
  <2> DEFINE n == Lesser(want[p], a)
  <2>1. /\ vtail1' = vtail1 /\ head' = head /\ size_local'[p] = b + n /\ pc'[p] # "add"
        /\ ps'[p] = [ps[p] EXCEPT !.split = (x - n) % m, !.size_shared = a - n]
    BY <1>2, <1>12 DEF Acquire, Goto
  <2>2. ps'[p].tail = t /\ ps'[p].split = (x - n) % m /\ ps'[p].size_shared = a - n
    BY <1>3, <2>1 DEF State
  <2>3. n \in Nat /\ n <= a
    BY <1>2, <1>3 DEF Lesser
  <2> HIDE DEF m, v, t, x, h, a, b, d, n
  <2>4. Ring(m, v, t, (x - n) % m, h, a - n, b + n)
    BY <1>1, <2>3, RingAcquire
  <2> QED
    BY <2>1, <2>2, <2>4 DEF m, v, t, x, h, a, b
<1>13. CASE GetShared(p) \/ GetNothing(p) \/ Vote(p) \/ TryLock(p) \/ Look(p) \/ Unlock(p)
  <2>1. pc'[p] # "add"
    BY <1>2, <1>13 DEF GetShared, GetNothing, Vote, TryLock, Look, Unlock, Seek, Goto
  <2> QED
    BY <1>5, <1>13, <2>1 DEF GetShared, GetNothing, Vote, TryLock, Look, Unlock, owner, shared
<1>14. CASE Clean(p)
  <2>1. /\ vtail1' = vtail1 /\ head' = head /\ size_local' = size_local /\ pc'[p] # "add"
        /\ ps'[p] = [ps[p] EXCEPT !.dirty = 0]
    BY <1>2, <1>14 DEF Clean, Seek, Goto, owner
  <2>2. ps'[p].tail = t /\ ps'[p].split = x /\ ps'[p].size_shared = a
    BY <1>3, <2>1 DEF State
  <2> QED
    BY <1>1, <2>1, <2>2
<1>15. CASE PutState(p)
  <2>1. victim[p] # p
    BY <1>15, VictimBusy
  <2>2. UNCHANGED <<head, vtail1, size_local>> /\ ps'[p] = ps[p] /\ pc'[p] # "add"
    BY <1>2, <1>15, <2>1 DEF PutState, owner, Goto
  <2> QED
    BY <1>5, <2>2
<1>16. CASE Copy(p)
  <2>1. b = 0
    BY <1>2, <1>16 DEF Copy, Place
  <2>2. UNCHANGED <<head, vtail1, size_local>> /\ ps'[p] = ps[p]
    BY <1>16 DEF Copy, owner, shared
  <2> QED
    BY <1>3, <1>5, <2>1, <2>2
<1> QED
  BY <1>6, <1>7, <1>8, <1>9, <1>10, <1>11, <1>12, <1>13, <1>14, <1>15, <1>16
     DEF Step, LockedStep

\* A thief takes slots at the tail of its victim; they are behind it now, and no
\* others come there.
LEMMA Theft ==
    ASSUME StealInv, SlotTypes, Rings, NEW p \in Proc, PutState(p)
    PROVE  LET v == victim[p]
           IN  /\ v \in Proc /\ v # p /\ vtail1' = vtail1 /\ head' = head
               /\ size_local' = size_local /\ pc' = [pc EXCEPT ![p] = "unlock"]
               /\ \A r \in Proc \ {v} : ps'[r] = ps[r]
               /\ Ring(max_ntsks, vtail1[v], ps'[v].tail, ps'[v].split, head[v],
                       ps'[v].size_shared, size_local[v])
               /\ ps'[v].size_shared + NSteal(p) = ps[v].size_shared
               /\ Away(max_ntsks, vtail1[v], ps'[v].tail)
                    = Away(max_ntsks, vtail1[v], ps[v].tail) + NSteal(p)
               /\ NSteal(p) \in Nat \ {0}
               /\ Loot(p) = {ps[v].tail + i : i \in 0 .. NSteal(p) - 1}
               /\ \A i \in 0 .. NSteal(p) - 1 :
                    /\ ps[v].tail + i \in Slot
                    /\ Away(max_ntsks, vtail1[v], ps[v].tail + i)
                         = Away(max_ntsks, vtail1[v], ps[v].tail) + i
<1> DEFINE u == victim[p]
           m == max_ntsks
           n == NSteal(p)
           t == ps[u].tail
           a == ps[u].size_shared
<1>1. /\ ps \in [Proc -> State] /\ victim \in [Proc -> Proc] /\ pc = [r \in Proc |-> pc[r]]
      /\ sq[p].ps \in State
  BY DEF StealInv, Types, QueueTypes
<1>2. pc[p] = "put" /\ u \in Proc /\ u # p
  BY <1>1, VictimBusy DEF PutState
<1>3. /\ sq[p].ps.split = ps[u].split /\ sq[p].ps.tail = t /\ sq[p].ps.size_shared = a
      /\ sq[p].ps.size_shared > 0
  BY <1>2 DEF StealInv, Kept, Agree, Places, Place
<1>4. n \in 1 .. a
  BY <1>3, Steal DEF StealInv, Types
<1>5. n <= m - t
  <2>1. m \in Nat \ {0} /\ t \in Slot /\ a \in Nat
    BY <1>1, Sizes, TaskAssumption DEF StealInv, Types, State
  <2>2. m - t \in Int /\ (a + 1) \div 2 \in Int
    BY <2>1 DEF Slot
  <2>3. n = Lesser((a + 1) \div 2, m - t)
    BY <1>3 DEF NSteal
  <2> HIDE DEF n, m, t, a
  <2> QED
    BY <2>2, <2>3 DEF Lesser
<1>6. /\ vtail1' = vtail1 /\ head' = head /\ size_local' = size_local
      /\ pc' = [pc EXCEPT ![p] = "unlock"]
      /\ ps' = [ps EXCEPT ![u] = [dirty |-> 1, split |-> ps[u].split,
                                  tail |-> (t + n) % m, size_shared |-> a - n]]
  BY <1>3 DEF PutState, owner, Goto, NewTail
<1>7. /\ ps'[u].tail = (t + n) % m /\ ps'[u].split = ps[u].split /\ ps'[u].size_shared = a - n
      /\ \A r \in Proc \ {u} : ps'[r] = ps[r]
  BY <1>1, <1>2, <1>6
<1>8. Ring(m, vtail1[u], t, ps[u].split, head[u], a, size_local[u])
  BY <1>2 DEF Rings
<1>9. a \in Nat /\ n \in Nat /\ n <= a /\ a - n + n = a
  BY <1>4, <1>8 DEF Ring
<1>10. Loot(p) = {t + i : i \in 0 .. n - 1}
  BY <1>3 DEF Loot
<1> HIDE DEF n, m, t, a, u
<1>11. /\ Ring(m, vtail1[u], (t + n) % m, ps[u].split, head[u], a - n, size_local[u])
       /\ Away(m, vtail1[u], (t + n) % m) = Away(m, vtail1[u], t) + n
       /\ \A i \in 0 .. n - 1 : /\ t + i \in 0 .. m - 1
                                 /\ Away(m, vtail1[u], t + i) = Away(m, vtail1[u], t) + i
  BY <1>5, <1>8, <1>9, RingSteal
<1>12. Slot = 0 .. m - 1
  BY DEF Slot, m
<1> QED
  BY <1>2, <1>4, <1>6, <1>7, <1>9, <1>10, <1>11, <1>12 DEF n, m, t, a, u

LEMMA RingsStep ==
    ASSUME StealInv, SlotTypes, Rings, NEW p \in Proc, Step(p) \/ LockedStep(p)
    PROVE  Rings'
<1>1. Proc' = Proc /\ max_ntsks' = max_ntsks
  BY Constants DEF Next, Proc, max_ntsks
<1>2. ASSUME NEW r \in Proc
      PROVE  /\ Ring(max_ntsks, vtail1'[r], ps'[r].tail, ps'[r].split, head'[r],
                     ps'[r].size_shared, size_local'[r])
             /\ pc'[r] = "add" => size_local'[r] < max_ntsks
  <2>1. CASE r = p
    BY <2>1, OwnRing
  <2>2. CASE r # p
    <3>1. Untouched(r) /\ (~PutState(p) => ps'[r] = ps[r])
      BY <2>2, Frame DEF StealInv, Types
    <3>2. head'[r] = head[r] /\ vtail1'[r] = vtail1[r] /\ size_local'[r] = size_local[r]
          /\ pc'[r] = pc[r]
      BY <2>2, <3>1, SlotFrame DEF StealInv, Types, Untouched
    <3>3. CASE ps'[r] = ps[r]
      BY <3>2, <3>3 DEF Rings
    <3>4. CASE PutState(p) /\ r = victim[p]
      BY <3>2, <3>4, Theft DEF Rings
    <3>5. CASE PutState(p) /\ r # victim[p]
      BY <3>3, <3>5, Theft
    <3> QED
      BY <3>1, <3>3, <3>4, <3>5
  <2> QED
    BY <2>1, <2>2
<1> QED
  BY <1>1, <1>2 DEF Rings

\* A process that is to copy tasks has just stolen them, or has stolen them before.
LEMMA StillLooting ==
    ASSUME QueueTypes, Places, NEW p \in Proc, Step(p) \/ LockedStep(p), Looting(p)'
    PROVE  PutState(p) \/ (Unlock(p) /\ Looting(p) /\ victim'[p] = victim[p] /\ sq'[p] = sq[p])
<1>1. /\ pc = [r \in Proc |-> pc[r]] /\ sq = [r \in Proc |-> sq[r]]
      /\ \A r \in Proc : sq[r].ps \in State
  BY DEF QueueTypes
<1>2. pc'[p] \in {"unlock", "copy"} /\ sq'[p].ps.size_shared > 0
  BY DEF Looting
<1> USE DEF Goto
<1>3. CASE AddTask(p) \/ GetShared(p) \/ GetNothing(p) \/ Vote(p) \/ Copy(p)
  BY <1>1, <1>2, <1>3 DEF AddTask, GetShared, GetNothing, Vote, Copy
<1>4. CASE UpdateVtail1(p)
  BY <1>2, <1>4 DEF UpdateVtail1
<1>5. CASE ShareNothing(p) \/ Share(p)
  BY <1>1, <1>2, <1>5 DEF ShareNothing, Share, Added
<1>6. CASE GetLocal(p) \/ GetSharing(p) \/ Acquire(p)
  BY <1>1, <1>2, <1>6 DEF GetLocal, GetSharing, Take, Acquire
<1>7. CASE Clean(p) \/ TryLock(p)
  BY <1>1, <1>2, <1>7 DEF Clean, TryLock, Seek
<1>8. CASE Look(p)
  <2>1. sq'[p].ps = ps[victim[p]] /\ pc'[p] = IF ps[victim[p]].size_shared = 0 THEN "unlock" ELSE "put"
    BY <1>1, <1>8 DEF Look
  <2> QED
    BY <1>2, <2>1
<1>9. CASE Unlock(p)
  <2>1. sq[p].ps.size_shared \in Nat
    BY <1>1 DEF State
  <2>2. CASE sq[p].ps.size_shared = 0
    BY <1>1, <1>2, <1>9, <2>2 DEF Unlock, Seek
  <2>3. CASE sq[p].ps.size_shared # 0
    BY <1>9, <2>1, <2>3 DEF Unlock, Looting
  <2> QED
    BY <2>2, <2>3
<1> QED
  BY <1>3, <1>4, <1>5, <1>6, <1>7, <1>8, <1>9 DEF Step, LockedStep

\* Only a thief moves the tail of a queue.
LEMMA OwnTail ==
    ASSUME StealInv, NEW p \in Proc, Step(p) \/ LockedStep(p), NEW v \in Proc, v = p \/ ~PutState(p)
    PROVE  ps'[v].tail = ps[v].tail
<1>1. CASE v # p
  BY <1>1, Frame DEF StealInv, Types
<1>2. CASE v = p
  <2>1. ps \in [Proc -> State] /\ ps[p] \in State
    BY DEF StealInv, Types, QueueTypes
  <2>2. CASE Share(p) \/ GetSharing(p)
    <3>1. ps'[p] = [ps[p] EXCEPT !.split = (ps[p].split + Donation(p)) % max_ntsks,
                      !.size_shared = ps[p].size_shared + Donation(p)]
      BY <2>1, <2>2 DEF Share, GetSharing, Donate
    <3> QED
      BY <1>2, <2>1, <3>1 DEF State
  <2>3. CASE Acquire(p)
    <3>1. ps'[p] = [ps[p] EXCEPT
                      !.split = (ps[p].split - Lesser(want[p], ps[p].size_shared)) % max_ntsks,
                      !.size_shared = ps[p].size_shared - Lesser(want[p], ps[p].size_shared)]
      BY <2>1, <2>3 DEF Acquire
    <3> QED
      BY <1>2, <2>1, <3>1 DEF State
  <2>4. CASE Clean(p)
    <3>1. ps'[p] = [ps[p] EXCEPT !.dirty = 0]
      BY <2>1, <2>4 DEF Clean
    <3> QED
      BY <1>2, <2>1, <3>1 DEF State
  <2>5. CASE PutState(p)
    <3>1. victim[p] # p
      BY <2>5, VictimBusy
    <3> QED
      BY <1>2, <2>1, <2>5, <3>1 DEF PutState
  <2>6. CASE Step(p) /\ ~Clean(p) /\ ~PutState(p)
    BY <2>6 DEF Step, AddTask, UpdateVtail1, ShareNothing, GetLocal, GetShared,
       GetNothing, Vote, TryLock, Look, Unlock, Copy, shared
  <2> QED
    BY <2>2, <2>3, <2>4, <2>5, <2>6 DEF LockedStep
<1> QED
  BY <1>1, <1>2

\* What is behind the tail of a queue stays there while somebody has it to copy.
LEMMA BehindStays ==
    ASSUME StealInv, SlotTypes, Rings, SlotsFreedLate, NEW p \in Proc, Step(p) \/ LockedStep(p),
           NEW r \in Proc, Looting(r), NEW v \in Proc, victim[r] = v, NEW s, Behind(v, s)
    PROVE  Behind(v, s)'
<1>1. max_ntsks' = max_ntsks /\ Slot' = Slot
  BY Constants DEF Next, Slot, max_ntsks
<1>2. s \in Slot /\ Away(max_ntsks, vtail1[v], s) < Away(max_ntsks, vtail1[v], ps[v].tail)
  BY DEF Behind
<1>3. Ring(max_ntsks, vtail1[v], ps[v].tail, ps[v].split, head[v], ps[v].size_shared,
           size_local[v])
  BY DEF Rings
<1>4. vtail1'[v] = vtail1[v]
  <2>1. CASE UpdateVtail1(p)
    <3>1. v # p
      BY <2>1 DEF UpdateVtail1, SlotsFreedLate
    <3> QED
      BY <3>1, SlotFrame DEF StealInv, Types
  <2>2. CASE ~UpdateVtail1(p)
    BY <2>2, SlotFrame DEF StealInv, Types
  <2> QED
    BY <2>1, <2>2
<1>5. Away(max_ntsks, vtail1[v], s) < Away(max_ntsks, vtail1[v], ps'[v].tail)
  <2>1. CASE PutState(p) /\ v = victim[p]
    <3>1. /\ Away(max_ntsks, vtail1[v], ps'[v].tail)
               = Away(max_ntsks, vtail1[v], ps[v].tail) + NSteal(p)
          /\ NSteal(p) \in Nat
      BY <2>1, Theft
    <3>2. Away(max_ntsks, vtail1[v], s) \in Int /\ Away(max_ntsks, vtail1[v], ps[v].tail) \in Int
      BY <1>2, <1>3 DEF Ring, Away, Slot
    <3> QED
      BY <1>2, <3>1, <3>2
  <2>2. CASE PutState(p) /\ v # victim[p]
    BY <1>2, <2>2, Theft
  <2>3. CASE ~PutState(p)
    <3>1. ps'[v].tail = ps[v].tail
      BY <2>3, OwnTail
    <3> QED
      BY <1>2, <3>1
  <2> QED
    BY <2>1, <2>2, <2>3
<1>6. Behind(v, s)' <=> s \in Slot' /\ Away(max_ntsks', vtail1'[v], s) < Away(max_ntsks', vtail1'[v], ps'[v].tail)
  BY DEF Behind
<1> QED
  BY <1>1, <1>2, <1>4, <1>5, <1>6

\* A steal that is under way ends with the accumulate that Copy sends.
LEMMA Accumulates ==
    ASSUME QueueTypes, NEW p \in Proc, Step(p) \/ LockedStep(p)
    PROVE  /\ ~PutState(p) => vtail2' = vtail2
           /\ ~Copy(p) => shift' = shift
           /\ Looting(p) /\ ~Copy(p) => Unlock(p) /\ Looting(p)' /\ sq'[p] = sq[p]
<1>1. pc = [r \in Proc |-> pc[r]] /\ \A r \in Proc : sq[r].ps \in State
  BY DEF QueueTypes
<1>2. ASSUME ~PutState(p) PROVE vtail2' = vtail2
  BY <1>2 DEF Step, LockedStep, AddTask, UpdateVtail1, ShareNothing, GetLocal, GetShared,
     GetNothing, Vote, Clean, TryLock, Look, Unlock, Copy, Share, GetSharing, Acquire, shared
<1>3. ASSUME ~Copy(p) PROVE shift' = shift
  BY <1>3 DEF Step, LockedStep, AddTask, UpdateVtail1, ShareNothing, GetLocal, GetShared,
     GetNothing, Vote, Clean, TryLock, Look, Unlock, PutState, Share, GetSharing, Acquire
<1>4. ASSUME Looting(p), ~Copy(p) PROVE Unlock(p) /\ Looting(p)' /\ sq'[p] = sq[p]
  <2>1. pc[p] \in {"unlock", "copy"} /\ sq[p].ps.size_shared > 0
    BY <1>4 DEF Looting
  <2>2. Unlock(p)
    BY <1>4, <2>1 DEF Step, LockedStep, AddTask, UpdateVtail1, ShareNothing, GetLocal, GetShared,
       GetNothing, Vote, Clean, TryLock, Look, PutState, Share, GetSharing, Acquire
  <2>3. pc' = [pc EXCEPT ![p] = "copy"] /\ sq' = sq
    BY <2>1, <2>2 DEF Unlock, Goto
  <2> QED
    BY <1>1, <2>1, <2>2, <2>3 DEF Looting
<1> QED
  BY <1>2, <1>3, <1>4

\* Only PutState gives a process something to copy, and only Copy ends that.
LEMMA LootsMove ==
    ASSUME QueueTypes, Places, NEW p \in Proc, Step(p) \/ LockedStep(p), NEW r \in Proc
    PROVE  /\ Looting(r)' => /\ victim'[r] = victim[r] /\ Loot(r)' = Loot(r)
                             /\ Looting(r) \/ (r = p /\ PutState(p))
           /\ Looting(r) /\ ~(r = p /\ Copy(p)) => Looting(r)'
<1>1. max_ntsks' = max_ntsks
  BY Constants DEF Next, max_ntsks
<1>2. ASSUME Looting(r)'
      PROVE  /\ victim'[r] = victim[r] /\ sq'[r] = sq[r]
             /\ Looting(r) \/ (r = p /\ PutState(p))
  <2>1. CASE r = p
    <3>1. CASE PutState(p)
      BY <2>1, <3>1 DEF PutState, thief
    <3>2. CASE ~PutState(p)
      BY <1>2, <2>1, <3>2, StillLooting
    <3> QED
      BY <3>1, <3>2
  <2>2. CASE r # p
    <3>1. Untouched(r)
      BY <2>2, Frame
    <3> QED
      BY <1>2, <3>1 DEF Untouched, Looting
  <2> QED
    BY <2>1, <2>2
<1>3. ASSUME Looting(r)' PROVE Loot(r)' = Loot(r)
  BY <1>1, <1>2, <1>3 DEF Loot, NSteal
<1>4. ASSUME Looting(r), ~(r = p /\ Copy(p)) PROVE Looting(r)'
  <2>1. CASE r = p
    BY <1>4, <2>1, Accumulates
  <2>2. CASE r # p
    <3>1. Untouched(r)
      BY <2>2, Frame
    <3> QED
      BY <1>4, <3>1 DEF Untouched, Looting
  <2> QED
    BY <2>1, <2>2
<1> QED
  BY <1>2, <1>3, <1>4

LEMMA LootsStep ==
    ASSUME StealInv, SlotTypes, Rings, Loots, SlotsFreedLate, NEW p \in Proc,
           Step(p) \/ LockedStep(p)
    PROVE  Loots'
<1>1. Proc' = Proc /\ max_ntsks' = max_ntsks /\ Slot' = Slot
  BY Constants DEF Next, Proc, Slot, max_ntsks
<1>2. ASSUME NEW r \in Proc, Looting(r)'
      PROVE  victim'[r] = victim[r] /\ (Looting(r) \/ (r = p /\ PutState(p)))
  BY <1>2, LootsMove DEF StealInv, Types
<1>3. ASSUME NEW r \in Proc, Looting(r)' PROVE Loot(r)' = Loot(r)
  BY <1>3, LootsMove DEF StealInv, Types
<1>4. ASSUME NEW r \in Proc, Looting(r)', NEW v \in Proc, victim'[r] = v, NEW s \in Loot(r)
      PROVE  Behind(v, s)'
  <2>1. victim[r] = v
    BY <1>2, <1>4
  <2>2. CASE Looting(r)
    <3>1. Behind(v, s)
      BY <1>4, <2>1, <2>2 DEF Loots
    <3> QED
      BY <2>1, <2>2, <3>1, BehindStays
  <2>3. CASE r = p /\ PutState(p)
    <3>1. /\ vtail1' = vtail1
          /\ Away(max_ntsks, vtail1[v], ps'[v].tail)
               = Away(max_ntsks, vtail1[v], ps[v].tail) + NSteal(p)
          /\ Loot(p) = {ps[v].tail + i : i \in 0 .. NSteal(p) - 1}
          /\ NSteal(p) \in Nat \ {0}
          /\ \A i \in 0 .. NSteal(p) - 1 :
               /\ ps[v].tail + i \in Slot
               /\ Away(max_ntsks, vtail1[v], ps[v].tail + i)
                    = Away(max_ntsks, vtail1[v], ps[v].tail) + i
      BY <2>1, <2>3, Theft
    <3>2. PICK i \in 0 .. NSteal(p) - 1 : s = ps[v].tail + i
      BY <1>4, <2>3, <3>1
    <3>3. Away(max_ntsks, vtail1[v], ps[v].tail) \in Int
      BY DEF Rings, Ring, Away
    <3>4. s \in Slot /\ Away(max_ntsks, vtail1[v], s) < Away(max_ntsks, vtail1[v], ps'[v].tail)
      BY <3>1, <3>2, <3>3
    <3> QED
      BY <1>1, <3>1, <3>4 DEF Behind
  <2> QED
    BY <1>2, <1>4, <2>2, <2>3
<1>5. ASSUME PutState(p), NEW o \in Proc, Looting(o), victim[o] = victim[p]
      PROVE  Loot(o) \cap Loot(p) = {}
  <2> SUFFICES ASSUME NEW s \in Loot(o), s \in Loot(p) PROVE FALSE
    OBVIOUS
  <2>1. PICK v \in Proc : v = victim[p]
    BY <1>5, Theft
  <2>2. s \in Slot /\ Away(max_ntsks, vtail1[v], s) < Away(max_ntsks, vtail1[v], ps[v].tail)
    BY <1>5, <2>1 DEF Loots, Behind
  <2>3. /\ Loot(p) = {ps[v].tail + i : i \in 0 .. NSteal(p) - 1}
        /\ NSteal(p) \in Nat \ {0}
        /\ \A i \in 0 .. NSteal(p) - 1 :
             Away(max_ntsks, vtail1[v], ps[v].tail + i)
                  = Away(max_ntsks, vtail1[v], ps[v].tail) + i
    BY <1>5, <2>1, Theft
  <2>4. PICK i \in 0 .. NSteal(p) - 1 : s = ps[v].tail + i
    BY <2>3
  <2>5. Away(max_ntsks, vtail1[v], ps[v].tail) \in Int
    BY DEF Rings, Ring, Away
  <2> QED
    BY <2>2, <2>3, <2>4, <2>5
<1>6. ASSUME NEW r \in Proc, Looting(r)', NEW o \in Proc \ {r}, Looting(o)',
             victim'[o] = victim'[r]
      PROVE  Loot(o) \cap Loot(r) = {}
  <2>1. /\ victim[o] = victim[r] /\ victim[r] \in Proc
        /\ Looting(r) \/ (r = p /\ PutState(p))
        /\ Looting(o) \/ (o = p /\ PutState(p))
    BY <1>2, <1>6 DEF StealInv, Types, QueueTypes
  <2>2. CASE Looting(r) /\ Looting(o)
    BY <2>1, <2>2 DEF Loots
  <2>3. CASE r = p /\ PutState(p) /\ Looting(o)
    BY <1>5, <2>1, <2>3
  <2>4. CASE o = p /\ PutState(p) /\ Looting(r)
    <3>1. Loot(r) \cap Loot(p) = {}
      BY <1>5, <2>1, <2>4
    <3> QED
      BY <2>4, <3>1
  <2> QED
    BY <2>1, <2>2, <2>3, <2>4
<1> QED
  BY <1>1, <1>3, <1>4, <1>6 DEF Loots

\* The slots of the queues are kept in order by every step of the program, as
\* long as no slot is freed early.
LEMMA SlotsStep == SlotsInv /\ SlotsFreedLate /\ [Next]_vars => SlotsInv'
<1> SUFFICES ASSUME SlotsInv, SlotsFreedLate, [Next]_vars PROVE SlotsInv'
  OBVIOUS
<1>1. StealInv /\ SlotTypes /\ Rings /\ Loots /\ StealInv'
  BY StealStep DEF SlotsInv
<1>2. ASSUME NEW p \in Proc, Step(p) \/ LockedStep(p) PROVE SlotsInv'
  BY <1>1, <1>2, SlotFrame, RingsStep, LootsStep DEF SlotsInv, StealInv, Types
<1>3. ASSUME UNCHANGED <<nproc, job, q, owner, ps, thief>>,
             pc' = pc \/ \A p \in Proc : pc[p] = "barrier" /\ pc'[p] = "get"
      PROVE  SlotsInv'
  <2>1. Proc' = Proc /\ max_ntsks' = max_ntsks /\ Slot' = Slot
    BY <1>3 DEF Proc, Slot, max_ntsks
  <2>2. SlotTypes'
    BY <1>1, <1>3, <2>1 DEF SlotTypes, owner
  <2>3. Rings'
    BY <1>1, <1>3, <2>1 DEF Rings, owner
  <2>4. \A r \in Proc : Looting(r)' => Looting(r)
    BY <1>3 DEF Looting, thief
  <2>5. \A r \in Proc : Loot(r)' = Loot(r) /\ victim'[r] = victim[r]
    BY <1>3, <2>1 DEF Loot, NSteal, thief
  <2>6. ASSUME NEW v, NEW s, Behind(v, s) PROVE Behind(v, s)'
    BY <1>3, <2>1, <2>6 DEF Behind, owner
  <2>7. Loots'
    BY <1>1, <2>1, <2>4, <2>5, <2>6 DEF Loots
  <2> QED
    BY <1>1, <2>2, <2>3, <2>7 DEF SlotsInv
<1>4. CASE Barrier \/ Over \/ UNCHANGED vars
  BY <1>3, <1>4 DEF Barrier, Over, vars, shared
<1>5. ASSUME NEW p \in Proc, Transfer(p) PROVE SlotsInv'
  BY <1>3, <1>5 DEF Transfer, ShiftArrives, shared
<1> QED
  BY <1>2, <1>4, <1>5 DEF Next

LEMMA SlotsKept == SlotsInv /\ SlotsFreedLate => SlotsSound
<1> SUFFICES ASSUME SlotsInv, SlotsFreedLate PROVE SlotsSound
  OBVIOUS
<1>1. ASSUME NEW p \in Proc
      PROVE  /\ ps[p].size_shared + size_local[p] \in 0 .. max_ntsks
             /\ ps[p].split = (ps[p].tail + ps[p].size_shared) % max_ntsks
             /\ head[p] = (ps[p].split + size_local[p]) % max_ntsks
             /\ \A r \in Proc : Looting(r) /\ victim[r] = p =>
                  /\ Loot(r) \cap Queued(p) = {}
                  /\ \A o \in Proc \ {r} : Looting(o) /\ victim[o] = p =>
                                           Loot(o) \cap Loot(r) = {}
                  /\ pc[p] = "add" /\ SpaceAvailable(p) => head[p] \notin Loot(r)
             /\ pc[p] = "add" /\ SpaceAvailable(p) => head[p] \notin Queued(p)
  <2> DEFINE m == max_ntsks
             v == vtail1[p]
             t == ps[p].tail
             x == ps[p].split
             h == head[p]
             a == ps[p].size_shared
             b == size_local[p]
             k == a + b
  <2>1. Ring(m, v, t, x, h, a, b) /\ (pc[p] = "add" => b < m) /\ Slot = 0 .. m - 1
    BY DEF SlotsInv, Rings, Slot
  <2>2. Queued(p) = {(t + i) % m : i \in 0 .. a + b - 1}
    BY DEF Queued
  <2>3. \A r \in Proc : \A s \in Loot(r) : Looting(r) /\ victim[r] = p =>
           s \in Slot /\ Away(m, v, s) < Away(m, v, t)
    BY DEF SlotsInv, Loots, Behind
  <2>4. SpaceAvailable(p) <=> (h = v => x = h)
    BY DEF SpaceAvailable
  <2> HIDE DEF m, v, t, x, h, a, b
  <2>5. m \in Nat \ {0} /\ a \in Nat /\ b \in Nat /\ k \in 0 .. m /\ a \in 0 .. m /\ b \in 0 .. m
    BY <2>1 DEF Ring, Away
  <2>6. x = (t + a) % m /\ h = (x + b) % m
    <3>1. t \in 0 .. m - 1 /\ x \in 0 .. m - 1 /\ x = Ahead(m, t, a) /\ h = Ahead(m, x, b)
      BY <2>1 DEF Ring, Ahead, Away
    <3>2. (t + a) % m = IF t + a < m THEN t + a ELSE t + a - m
      BY <2>5, <3>1, AddRound
    <3>3. (x + b) % m = IF x + b < m THEN x + b ELSE x + b - m
      BY <2>5, <3>1, AddRound
    <3> QED
      BY <3>1, <3>2, <3>3 DEF Ahead
  <2>7. Queued(p) = {s \in Slot : Away(m, t, s) < k}
        /\ \A s \in Slot : Away(m, t, s) < k => Away(m, v, s) = Away(m, v, t) + Away(m, t, s)
    <3>1. a + b - 1 = k - 1
      BY <2>5
    <3>2. k = a + b
      OBVIOUS
    <3> HIDE DEF k
    <3>3. {(t + i) % m : i \in 0 .. k - 1} = {s \in 0 .. m - 1 : Away(m, t, s) < k}
          /\ \A s \in 0 .. m - 1 : Away(m, t, s) < k =>
                Away(m, v, s) = Away(m, v, t) + Away(m, t, s)
      BY <2>1, <3>2, RingSlots
    <3> QED
      BY <2>1, <2>2, <3>1, <3>3
  <2>8. \A s \in Slot : Away(m, v, s) \in Nat /\ Away(m, t, s) \in Nat
    BY <2>1 DEF Ring, Away
  <2>9. Away(m, v, t) \in Nat
    BY <2>1 DEF Ring, Away
  <2>10. \A r \in Proc : Looting(r) /\ victim[r] = p => Loot(r) \cap Queued(p) = {}
    BY <2>3, <2>7, <2>8, <2>9
  <2>11. ASSUME pc[p] = "add", SpaceAvailable(p)
         PROVE  h \in Slot /\ Away(m, v, h) = Away(m, v, t) + k
    <3>1. b < m /\ (h = v => x = h)
      BY <2>1, <2>4, <2>11
    <3>2. /\ Ring(m, v, t, x, (h + 1) % m, a, b + 1)
          /\ h \in 0 .. m - 1 /\ Away(m, v, h) = Away(m, v, t) + a + b
          /\ Away(m, v, h) < m
      <4> HIDE DEF k
      <4> QED
        BY <2>1, <3>1, RingAdd
    <3> QED
      BY <2>1, <2>5, <2>9, <3>2
  <2>12. ASSUME pc[p] = "add", SpaceAvailable(p)
         PROVE  /\ h \notin Queued(p)
                /\ \A r \in Proc : Looting(r) /\ victim[r] = p => h \notin Loot(r)
    <3>1. h \in Slot /\ Away(m, v, h) = Away(m, v, t) + k /\ k \in Nat
      BY <2>5, <2>11, <2>12
    <3> HIDE DEF k
    <3> QED
      BY <2>3, <2>7, <2>8, <2>9, <3>1
  <2>13. \A r, o \in Proc : Looting(r) /\ victim[r] = p /\ o # r /\ Looting(o) /\ victim[o] = p =>
             Loot(o) \cap Loot(r) = {}
    BY DEF SlotsInv, Loots
  <2>14. k = ps[p].size_shared + size_local[p]
    BY DEF a, b
  <2> HIDE DEF k
  <2> QED
    BY <2>5, <2>6, <2>10, <2>12, <2>13, <2>14 DEF m, t, x, h, a, b
<1> QED
  BY <1>1 DEF SlotsSound

\* The slots of the task queues are in order for good if no slot is freed early:
\* SlotsFreedLate is all that a use of the task collection has to see to.
THEOREM SlotsStaySound ==
    ASSUME Roomy
    PROVE  Spec /\ []SlotsFreedLate => []SlotsSound
<1>1. Init => SlotsInv
  BY InitSteals, InitSlots DEF SlotsInv
<1>2. SlotsInv /\ SlotsFreedLate /\ [Next]_vars => SlotsInv'
  BY SlotsStep
<1>3. SlotsInv /\ SlotsFreedLate => SlotsSound
  BY SlotsKept
<1> QED
  BY <1>1, <1>2, <1>3, PTL DEF Spec

-----------------------------------------------------------------------------
(* Two processes: one thief for a queue *)

Pairs == \A j \in Jobs : j.nproc <= 2 /\ j.max > 1

\* How far the steal that r has under way moved the tail of its victim
Moved(r) == IF Looting(r) THEN NewTail(r) - sq[r].ps.tail ELSE 0

\* vtail2 is the tail, less the steals that are not complete.
Counted ==
    /\ nproc <= 2
    /\ vtail2 \in [Proc -> Int] /\ shift \in [Proc -> [Proc -> Int]]
    /\ \A r \in Proc :
        /\ sq[r].ps.size_shared <= max_ntsks /\ shift[r][r] = 0
        /\ pc[r] \in {"lock", "look", "put", "unlock", "copy"} => victim[r] # r
    /\ \A r, v \in Proc : r # v =>
        /\ ps[v].tail = vtail2[v] + shift[r][v] + Moved(r)
        /\ pc[r] \in {"look", "put", "unlock", "copy"} => shift[r][v] = 0
        /\ pc[r] = "put" => sq[r].vtail2 = vtail2[v]

LEMMA InitCounted == Pairs /\ Init => Counted
<1> SUFFICES ASSUME Pairs, Init PROVE Counted
  OBVIOUS
<1>1. nproc <= 2 /\ max_ntsks \in Nat
  BY TaskAssumption DEF Pairs, Init, max_ntsks
<1>2. vtail2 \in [Proc -> Int] /\ shift \in [Proc -> [Proc -> Int]]
  BY DEF Init
<1>3. \A r \in Proc : /\ sq[r].ps.size_shared = 0 /\ pc[r] \in {"barrier", "add"}
                      /\ ps[r].tail = 0 /\ vtail2[r] = 0
                      /\ \A v \in Proc : shift[r][v] = 0
  BY DEF Init, Unread
<1>4. \A r \in Proc : Moved(r) = 0
  BY <1>3 DEF Moved, Looting
<1> QED
  BY <1>1, <1>2, <1>3, <1>4 DEF Counted

\* The steps of a steal follow each other.
LEMMA StealSteps ==
    ASSUME QueueTypes, NEW p \in Proc, Step(p) \/ LockedStep(p),
           pc'[p] \in {"lock", "look", "put", "unlock", "copy"}
    PROVE  \/ Clean(p) /\ pc'[p] = "lock" /\ victim[p] # p /\ victim' = victim
           \/ TryLock(p) /\ pc'[p] = "look" /\ victim' = victim
           \/ Look(p) /\ pc'[p] \in {"put", "unlock"}
           \/ PutState(p) /\ pc'[p] = "unlock"
           \/ Unlock(p) /\ pc'[p] = "copy" /\ victim' = victim /\ sq' = sq
<1>1. pc = [r \in Proc |-> pc[r]]
  BY DEF QueueTypes
<1> USE DEF Goto
<1>2. CASE AddTask(p) \/ GetShared(p) \/ GetNothing(p) \/ Vote(p) \/ Copy(p)
  BY <1>1, <1>2 DEF AddTask, GetShared, GetNothing, Vote, Copy
<1>3. CASE UpdateVtail1(p)
  BY <1>3 DEF UpdateVtail1
<1>4. CASE ShareNothing(p) \/ Share(p)
  BY <1>1, <1>4 DEF ShareNothing, Share, Added
<1>5. CASE GetLocal(p) \/ GetSharing(p) \/ Acquire(p)
  BY <1>1, <1>5 DEF GetLocal, GetSharing, Take, Acquire
<1>6. CASE Clean(p)
  BY <1>1, <1>6 DEF Clean, Seek
<1>7. CASE TryLock(p)
  BY <1>1, <1>7 DEF TryLock, Seek
<1>8. CASE Look(p)
  BY <1>1, <1>8 DEF Look
<1>9. CASE PutState(p)
  BY <1>1, <1>9 DEF PutState
<1>10. CASE Unlock(p)
  BY <1>1, <1>10 DEF Unlock, Seek
<1> QED
  BY <1>2, <1>3, <1>4, <1>5, <1>6, <1>7, <1>8, <1>9, <1>10 DEF Step, LockedStep

LEMMA CountedStep ==
    ASSUME SlotsInv, Counted, NEW p \in Proc, Step(p) \/ LockedStep(p)
    PROVE  Counted'
<1> DEFINE Busy(l) == l \in {"look", "put", "unlock", "copy"}
           Seeks(l) == l \in {"lock", "look", "put", "unlock", "copy"}
<1>1. /\ nproc' = nproc /\ Proc' = Proc /\ max_ntsks' = max_ntsks /\ Slot' = Slot
      /\ \A r, v, o \in Proc : r # v /\ o # v => o = r
  <2>1. nproc' = nproc /\ job' = job
    BY Constants DEF Next
  <2>2. nproc \in 1 .. 2
    BY DEF Counted, SlotsInv, StealInv, Types, DetectorTypes
  <2> QED
    BY <2>1, <2>2 DEF Proc, max_ntsks, Slot
<1>2. /\ StealInv /\ QueueTypes /\ Rings
      /\ pc = [r \in Proc |-> pc[r]] /\ sq = [r \in Proc |-> sq[r]]
      /\ victim \in [Proc -> Proc] /\ ps \in [Proc -> State]
      /\ \A r \in Proc : sq[r].ps \in State
  BY DEF SlotsInv, StealInv, Types, QueueTypes
<1>3. /\ vtail2 \in [Proc -> Int] /\ shift \in [Proc -> [Proc -> Int]] /\ nproc <= 2
  BY DEF Counted
<1>4. \A r \in Proc \ {p} : /\ Untouched(r) /\ Moved(r)' = Moved(r)
  <2>1. \A r \in Proc \ {p} : Untouched(r)
    BY <1>2, Frame
  <2> QED
    BY <1>1, <2>1 DEF Untouched, Moved, Looting, NewTail, NSteal
<1>5. ASSUME sq'[p] = sq[p], Looting(p), Looting(p)' PROVE Moved(p)' = Moved(p)
  BY <1>1, <1>5 DEF Moved, NewTail, NSteal
<1>6. \A r \in Proc : sq'[r].ps.size_shared <= max_ntsks
  <2>1. \A r \in Proc \ {p} : sq'[r].ps.size_shared <= max_ntsks
    BY <1>4 DEF Counted, Untouched
  <2>2. max_ntsks \in Nat
    BY <1>2, Sizes, TaskAssumption
  <2>3. CASE Look(p)
    <3>1. PICK v \in Proc : v = victim[p]
      BY <1>2
    <3>2. sq'[p].ps = ps[v]
      BY <1>2, <2>3, <3>1 DEF Look
    <3>3. ps[v].size_shared <= max_ntsks
      BY <1>2 DEF Rings, Ring, Away
    <3> QED
      BY <2>1, <3>2, <3>3
  <2>4. CASE Unlock(p) \/ Copy(p)
    <3>1. sq'[p] = sq[p] \/ sq'[p] = Unread
      BY <1>2, <2>4 DEF Unlock, Copy
    <3>2. Unread.ps.size_shared = 0
      BY DEF Unread
    <3> QED
      BY <2>1, <2>2, <3>1, <3>2 DEF Counted
  <2>5. CASE ~Look(p) /\ ~Unlock(p) /\ ~Copy(p)
    <3>1. sq' = sq
      BY <2>5 DEF Step, LockedStep, AddTask, UpdateVtail1, ShareNothing, GetLocal, GetShared,
         GetNothing, Vote, Clean, TryLock, PutState, Share, GetSharing, Acquire, thief
    <3> QED
      BY <3>1 DEF Counted
  <2> QED
    BY <2>3, <2>4, <2>5
<1>7. Seeks(pc'[p]) => victim'[p] # p
  <2> SUFFICES ASSUME Seeks(pc'[p]) PROVE victim'[p] # p
    OBVIOUS
  <2>1. CASE Clean(p) /\ victim[p] # p /\ victim' = victim
    BY <2>1
  <2>2. CASE Look(p) \/ PutState(p)
    BY <2>2 DEF Counted, Look, PutState, thief
  <2>3. CASE (TryLock(p) \/ Unlock(p)) /\ victim' = victim
    BY <2>3 DEF Counted, TryLock, Unlock
  <2> QED
    BY <1>2, <2>1, <2>2, <2>3, StealSteps
<1>8. /\ vtail2' \in [Proc -> Int] /\ shift' \in [Proc -> [Proc -> Int]]
      /\ \A r \in Proc : shift'[r][r] = 0
      /\ \A r \in Proc \ {p} : shift'[r] = shift[r]
  <2>1. CASE Copy(p)
    <3>1. victim[p] \in Proc /\ victim[p] # p /\ NewTail(p) - sq[p].ps.tail \in Int
      <4>1. pc[p] = "copy" /\ sq[p].ps.size_shared > 0
        BY <1>2, <2>1 DEF Copy, StealInv, Places, Place
      <4>2. NewTail(p) \in Slot /\ sq[p].ps.tail \in Slot
        BY <1>2, <4>1, Steal DEF State
      <4> QED
        BY <1>2, <4>1, <4>2 DEF Counted, Slot
    <3>2. /\ vtail2' = vtail2
          /\ shift' = [shift EXCEPT ![p][victim[p]] = NewTail(p) - sq[p].ps.tail]
      BY <2>1 DEF Copy, shared
    <3> QED
      BY <1>3, <3>1, <3>2 DEF Counted
  <2>2. CASE PutState(p)
    <3>1. PICK v \in Proc : v = victim[p] /\ v # p
      BY <1>2, <2>2, VictimBusy
    <3>2. sq[p].vtail2 = vtail2[v]
      BY <2>2, <3>1 DEF Counted, PutState
    <3>3. vtail2' = [vtail2 EXCEPT ![v] = vtail2[v]] /\ shift' = shift
      BY <2>2, <3>1, <3>2 DEF PutState
    <3> QED
      BY <1>3, <3>3 DEF Counted
  <2>3. CASE ~Copy(p) /\ ~PutState(p)
    BY <1>2, <1>3, <2>3, Accumulates DEF Counted
  <2> QED
    BY <2>1, <2>2, <2>3
<1>9. ASSUME NEW r \in Proc, NEW v \in Proc, r # v
      PROVE  /\ ps'[v].tail = vtail2'[v] + shift'[r][v] + Moved(r)'
             /\ Busy(pc'[r]) => shift'[r][v] = 0
             /\ pc'[r] = "put" => sq'[r].vtail2 = vtail2'[v]
  <2>1. /\ ps[v].tail = vtail2[v] + shift[r][v] + Moved(r)
        /\ Busy(pc[r]) => shift[r][v] = 0
        /\ pc[r] = "put" => sq[r].vtail2 = vtail2[v]
    BY <1>9 DEF Counted
  <2>2. vtail2[v] \in Int /\ shift[r][v] \in Int
    BY <1>3
  <2>3. CASE v = p
    <3>1. Untouched(r) /\ Moved(r)' = Moved(r) /\ shift'[r] = shift[r]
      BY <1>4, <1>8, <1>9, <2>3
    <3>2. ps'[v].tail = ps[v].tail
      BY <1>2, <2>3, OwnTail
    <3>3. vtail2'[v] = vtail2[v]
      <4>1. CASE PutState(p)
        BY <1>2, <1>3, <2>3, <4>1, VictimBusy DEF PutState
      <4> QED
        BY <1>2, <4>1, Accumulates
    <3> QED
      BY <2>1, <3>1, <3>2, <3>3 DEF Untouched
  <2>4. CASE r = p
    <3>0. \A o \in Proc : o # p => o = v
      BY <1>1, <1>9, <2>4
    <3>1. CASE PutState(p)
      <4>1. /\ pc[p] = "put" /\ victim[p] = v /\ victim[p] # p
            /\ pc' = [pc EXCEPT ![p] = "unlock"] /\ sq' = sq /\ shift' = shift
            /\ vtail2' = [vtail2 EXCEPT ![v] = sq[p].vtail2]
            /\ ps' = [ps EXCEPT ![v] =
                        [dirty |-> 1, split |-> sq[p].ps.split, tail |-> NewTail(p),
                         size_shared |-> sq[p].ps.size_shared - NSteal(p)]]
        BY <1>2, <3>0, <3>1, VictimBusy DEF PutState, thief, Goto
      <4>2. sq[p].ps.size_shared > 0 /\ sq[p].ps.tail = ps[v].tail
        BY <1>2, <4>1 DEF StealInv, Places, Place, Kept, Agree
      <4>3. Looting(p)' /\ ~Looting(p) /\ pc'[p] = "unlock"
        BY <1>2, <4>1, <4>2 DEF Looting
      <4>4. Moved(p) = 0 /\ Moved(p)' = NewTail(p) - ps[v].tail
        BY <1>1, <4>1, <4>2, <4>3 DEF Moved, NewTail, NSteal
      <4>5. ps'[v].tail = NewTail(p) /\ vtail2'[v] = vtail2[v]
        BY <1>2, <1>3, <2>1, <2>4, <4>1
      <4>6. NewTail(p) \in Int /\ ps[v].tail \in Int
        BY <1>2, <4>2, Steal DEF State, Slot
      <4> QED
        BY <2>1, <2>2, <2>4, <4>1, <4>3, <4>4, <4>5, <4>6
    <3>2. CASE Copy(p)
      <4>1. /\ pc[p] = "copy" /\ victim[p] = v /\ vtail2' = vtail2
            /\ pc' = [pc EXCEPT ![p] = "add"]
            /\ shift' = [shift EXCEPT ![p][v] = NewTail(p) - sq[p].ps.tail]
        BY <1>2, <3>0, <3>2 DEF Copy, Counted, Goto, shared
      <4>2. pc'[p] = "add" /\ ~Looting(p)'
        BY <1>2, <4>1 DEF Looting
      <4>3. Looting(p)
        BY <1>2, <4>1 DEF Looting, StealInv, Places, Place
      <4>4. Moved(p)' = 0 /\ Moved(p) = NewTail(p) - sq[p].ps.tail
        BY <4>2, <4>3 DEF Moved
      <4>5. shift'[p][v] = NewTail(p) - sq[p].ps.tail /\ shift[p][v] = 0
        BY <1>3, <2>1, <2>4, <4>1
      <4>6. ps'[v].tail = ps[v].tail
        BY <3>2, <1>2, OwnTail DEF Copy, PutState
      <4>7. NewTail(p) - sq[p].ps.tail \in Int
        <5>1. NewTail(p) \in Slot /\ sq[p].ps.tail \in Slot
          BY <1>2, <4>3, Steal DEF State, Looting
        <5> QED
          BY <5>1 DEF Slot
      <4> QED
        BY <2>1, <2>2, <2>4, <4>1, <4>2, <4>4, <4>5, <4>6, <4>7
    <3>3. CASE ~PutState(p) /\ ~Copy(p)
      <4>1. vtail2' = vtail2 /\ shift' = shift /\ ps'[v].tail = ps[v].tail
        BY <1>2, <3>3, Accumulates, OwnTail
      <4>2. Moved(p)' = Moved(p)
        <5>1. CASE Looting(p)
          BY <1>2, <1>5, <3>3, <5>1, Accumulates
        <5>2. CASE ~Looting(p)
          <6>1. ~Looting(p)'
            BY <1>2, <3>3, <5>2, StillLooting DEF StealInv
          <6> QED
            BY <5>2, <6>1 DEF Moved
        <5> QED
          BY <5>1, <5>2
      <4>3. Busy(pc'[p]) => shift[p][v] = 0
        <5> SUFFICES ASSUME Busy(pc'[p]) PROVE shift[p][v] = 0
          OBVIOUS
        <5>1. CASE TryLock(p)
          <6>1. victim[p] = v
            BY <1>2, <3>0, <5>1 DEF TryLock, Counted
          <6> QED
            BY <5>1, <6>1 DEF TryLock
        <5>2. CASE Look(p) \/ Unlock(p)
          BY <2>1, <2>4, <5>2 DEF Look, Unlock
        <5> QED
          BY <1>2, <3>3, <5>1, <5>2, StealSteps
      <4>4. pc'[p] = "put" => sq'[p].vtail2 = vtail2[v]
        <5> SUFFICES ASSUME pc'[p] = "put" PROVE sq'[p].vtail2 = vtail2[v]
          OBVIOUS
        <5>1. Look(p)
          BY <1>2, <3>3, StealSteps
        <5>2. victim[p] = v
          BY <1>2, <3>0, <5>1 DEF Look, Counted
        <5> QED
          BY <1>2, <5>1, <5>2 DEF Look
      <4> QED
        BY <2>1, <2>4, <4>1, <4>2, <4>3, <4>4
    <3> QED
      BY <3>1, <3>2, <3>3
  <2> QED
    BY <1>1, <1>9, <2>3, <2>4
<1>10. \A r \in Proc : Seeks(pc'[r]) => victim'[r] # r
  BY <1>4, <1>7 DEF Counted, Untouched
<1> QED
  BY <1>1, <1>3, <1>6, <1>8, <1>9, <1>10 DEF Counted

\* Where vtail2 is the tail no steal is under way: each moves the tail, as a
\* queue of more than one slot never loses all its slots to one thief.
LEMMA CountedFreedLate == StealInv /\ Counted /\ Roomy => SlotsFreedLate
<1> SUFFICES ASSUME StealInv, Counted, Roomy,
                    NEW p \in Proc, vtail2[p] = ps[p].tail,
                    NEW r \in Proc, Looting(r), victim[r] = p
             PROVE  FALSE
  BY DEF SlotsFreedLate
<1> DEFINE s == sq[r].ps
           m == max_ntsks
           n == NSteal(r)
<1>1. pc[r] \in {"unlock", "copy"} /\ s.size_shared > 0 /\ s \in State
  BY DEF Looting, StealInv, Types, QueueTypes
<1>2. r # p /\ shift[r][p] = 0 /\ ps[p].tail = vtail2[p] + shift[r][p] + Moved(r)
  <2>1. r # p
    BY <1>1 DEF Counted
  <2>2. pc[r] = "unlock" \/ pc[r] = "copy"
    BY <1>1
  <2> QED
    BY <2>1, <2>2 DEF Counted
<1>3. NewTail(r) = s.tail
  <2>1. vtail2[p] \in Int /\ ps[p].tail \in Int /\ NewTail(r) \in Int /\ s.tail \in Int
    BY <1>1, Steal DEF Counted, StealInv, Types, State, Slot
  <2>2. Moved(r) = NewTail(r) - s.tail
    BY DEF Moved
  <2>3. vtail2[p] = vtail2[p] + 0 + Moved(r)
    BY <1>2
  <2> DEFINE a == NewTail(r)
             b == s.tail
             c == vtail2[p]
             e == Moved(r)
  <2>4. a \in Int /\ b \in Int /\ c \in Int /\ e = a - b /\ c = c + 0 + e
    BY <2>1, <2>2, <2>3
  <2> HIDE DEF a, b, c, e
  <2>5. a = b
    BY <2>4
  <2> QED
    BY <2>5 DEF a, b
<1>4. /\ m \in Nat /\ m > 1 /\ s.tail \in 0 .. m - 1 /\ s.size_shared \in 1 .. m
  <2>1. m \in Nat /\ m > 1
    BY TaskAssumption DEF Roomy, StealInv, Types, QueueTypes, max_ntsks
  <2>2. s.tail \in 0 .. m - 1 /\ s.size_shared \in Nat
    BY <1>1 DEF State, Slot
  <2>3. s.size_shared <= m
    BY DEF Counted
  <2> HIDE DEF s, m
  <2> QED
    BY <1>1, <2>1, <2>2, <2>3
<1>5. n \in 1 .. m /\ n <= m - s.tail /\ n < m
  BY <1>4 DEF NSteal, Lesser
<1>6. (s.tail + n) % m = IF s.tail + n < m THEN s.tail + n ELSE s.tail + n - m
  <2> HIDE DEF m, n, s
  <2>1. m \in Nat \ {0} /\ n \in 0 .. m
    BY <1>4, <1>5
  <2> QED
    BY <1>4, <2>1, AddRound
<1>7. NewTail(r) = (s.tail + n) % m
  BY DEF NewTail
<1> HIDE DEF m, n, s
<1> QED
  BY <1>3, <1>4, <1>5, <1>6, <1>7

\* Between two processes no slot of a task queue is freed early: the slots are
\* sound whatever the tasks, however often the ring of slots comes round.  It is
\* about vtail2, which a thief writes back and which its accumulates increment,
\* and updateVtail1; more thieves, or a single slot, break it.
THEOREM PairSlotsSound ==
    ASSUME Pairs
    PROVE  Spec => []SlotsSound
<1> DEFINE Inv == SlotsInv /\ Counted
<1>1. Roomy
  BY DEF Pairs, Roomy
<1>2. Init => Inv
  BY <1>1, InitSteals, InitSlots, InitCounted DEF SlotsInv
<1>3. Inv => SlotsFreedLate
  BY <1>1, CountedFreedLate DEF SlotsInv
<1>4. Inv /\ [Next]_vars => Inv'
  <2> SUFFICES ASSUME Inv, [Next]_vars PROVE Inv'
    OBVIOUS
  <2>1. SlotsInv'
    BY <1>3, SlotsStep
  <2>2. ASSUME NEW p \in Proc, Step(p) \/ LockedStep(p) PROVE Counted'
    BY <2>2, CountedStep
  <2>3. ASSUME UNCHANGED <<nproc, job, ps, thief>>,
               pc' = pc \/ \A r \in Proc : pc[r] = "barrier" /\ pc'[r] = "get"
        PROVE  /\ Proc' = Proc /\ max_ntsks' = max_ntsks
               /\ \A r \in Proc : Moved(r)' = Moved(r)
    BY <2>3 DEF Proc, max_ntsks, Moved, Looting, NewTail, NSteal, thief
  <2>4. CASE Barrier \/ Over \/ UNCHANGED vars
    <3>1. UNCHANGED <<nproc, job, ps, thief, vtail2, shift>>
      BY <2>4 DEF Barrier, Over, vars, shared
    <3>2. pc' = pc \/ \A r \in Proc : pc[r] = "barrier" /\ pc'[r] = "get"
      BY <2>4 DEF Barrier, Over, vars
    <3>3. /\ Proc' = Proc /\ max_ntsks' = max_ntsks
          /\ \A r \in Proc : Moved(r)' = Moved(r)
      BY <2>3, <3>1, <3>2
    <3>4. sq' = sq /\ victim' = victim
      BY <3>1 DEF thief
    <3>5. \A r \in Proc : \/ pc'[r] = pc[r]
                          \/ pc'[r] \notin {"lock", "look", "put", "unlock", "copy"}
      BY <3>2
    <3>6. /\ nproc' <= 2
          /\ vtail2' \in [Proc -> Int] /\ shift' \in [Proc -> [Proc -> Int]]
      BY <3>1 DEF Counted
    <3>7. \A r \in Proc :
             /\ sq'[r].ps.size_shared <= max_ntsks /\ shift'[r][r] = 0
             /\ pc'[r] \in {"lock", "look", "put", "unlock", "copy"} => victim'[r] # r
      BY <3>1, <3>3, <3>4, <3>5 DEF Counted
    <3>8. ASSUME NEW r \in Proc, NEW v \in Proc, r # v
          PROVE  /\ ps'[v].tail = vtail2'[v] + shift'[r][v] + Moved(r)'
                 /\ pc'[r] \in {"look", "put", "unlock", "copy"} => shift'[r][v] = 0
                 /\ pc'[r] = "put" => sq'[r].vtail2 = vtail2'[v]
      <4>1. /\ ps'[v].tail = ps[v].tail /\ vtail2'[v] = vtail2[v] /\ shift'[r][v] = shift[r][v]
            /\ Moved(r)' = Moved(r) /\ sq'[r] = sq[r]
        BY <3>1, <3>3, <3>4
      <4> QED
        BY <3>5, <3>8, <4>1 DEF Counted
    <3> QED
      BY <2>1, <3>3, <3>6, <3>7, <3>8 DEF Counted
  <2>5. ASSUME NEW p \in Proc, DecisionArrives(p) /\ UNCHANGED <<nproc, job, q, owner, shared,
                                                  shift, pc, thief, todo, begun>>
        PROVE  Counted'
    BY <2>3, <2>5 DEF Counted, thief, shared
  <2>6. ASSUME NEW p \in Proc, NEW v \in Proc, ShiftArrives(p, v) PROVE Counted'
    <3>1. /\ UNCHANGED <<nproc, job, ps, thief, pc>> /\ shift[p][v] # 0
          /\ vtail2' = [vtail2 EXCEPT ![v] = @ + shift[p][v]]
          /\ shift' = [shift EXCEPT ![p][v] = 0]
      BY <2>6 DEF ShiftArrives
    <3>2. /\ Proc' = Proc /\ max_ntsks' = max_ntsks /\ p # v
          /\ \A r \in Proc : Moved(r)' = Moved(r)
      BY <2>3, <3>1 DEF Counted
    <3>3. vtail2 \in [Proc -> Int] /\ shift \in [Proc -> [Proc -> Int]]
      BY DEF Counted
    <3>4. vtail2' \in [Proc -> Int] /\ shift' \in [Proc -> [Proc -> Int]]
          /\ \A r \in Proc : shift'[r][r] = 0
      BY <3>1, <3>3 DEF Counted
    <3>5. \A r \in Proc : r # v => r = p
      <4>1. nproc \in 1 .. 2
        BY DEF Counted, SlotsInv, StealInv, Types, DetectorTypes
      <4> QED
        BY <3>2, <4>1 DEF Proc
    <3>6. ASSUME NEW r \in Proc, NEW o \in Proc, r # o
          PROVE  /\ ps[o].tail = vtail2'[o] + shift'[r][o] + Moved(r)
                 /\ pc[r] \in {"look", "put", "unlock", "copy"} => shift'[r][o] = 0
                 /\ pc[r] = "put" => sq[r].vtail2 = vtail2'[o]
      <4>1. /\ ps[o].tail = vtail2[o] + shift[r][o] + Moved(r)
            /\ pc[r] \in {"look", "put", "unlock", "copy"} => shift[r][o] = 0
            /\ pc[r] = "put" => sq[r].vtail2 = vtail2[o]
        BY <3>6 DEF Counted
      <4>2. vtail2[o] \in Int /\ shift[r][o] \in Int
        BY <3>3
      <4>3. CASE o = v
        <5>1. r = p
          BY <3>5, <3>6, <4>3
        <5>2. vtail2'[o] = vtail2[o] + shift[r][o] /\ shift'[r][o] = 0
          BY <3>1, <3>3, <4>3, <5>1
        <5>3. vtail2[o] + shift[r][o] + Moved(r) = vtail2'[o] + 0 + Moved(r)
          BY <4>2, <5>2
        <5>4. pc[r] # "put"
          BY <3>1, <4>1, <4>3, <5>1
        <5> QED
          BY <4>1, <5>2, <5>3, <5>4
      <4>4. CASE o # v
        BY <3>1, <3>3, <4>1, <4>4
      <4> QED
        BY <4>3, <4>4
    <3> QED
      BY <3>1, <3>2, <3>4, <3>6 DEF Counted, thief
  <2> QED
    BY <2>1, <2>2, <2>4, <2>5, <2>6 DEF Next, Transfer
<1>5. Inv => SlotsSound
  BY <1>3, SlotsKept
<1> QED
  BY <1>2, <1>4, <1>5, PTL DEF Spec

-----------------------------------------------------------------------------
(* Places of tasks: H[v] are the slots of v that hold a task, Q[v] the slots, *)
(* and L[v] is a list of tasks that v is about to add.                       *)

\* No task is in two places.
Once(P, H, Q, L) ==
    /\ \A v, w \in P : \A s \in H[v], z \in H[w] : Q[v][s] = Q[w][z] => v = w /\ s = z
    /\ \A v, w \in P : \A i \in DOMAIN L[v], k \in DOMAIN L[w] :
          L[v][i] = L[w][k] => v = w /\ i = k
    /\ \A v, w \in P : \A s \in H[v], i \in DOMAIN L[w] : Q[v][s] # L[w][i]

\* The task x is in some place.
Found(P, H, Q, L, x) ==
    \/ \E v \in P : \E s \in H[v] : Q[v][s] = x
    \/ \E v \in P : \E i \in DOMAIN L[v] : L[v][i] = x

\* The first task of a list goes to a slot that held none.
AddMoves(P, H, Q, L, HH, QQ, LL, p, h) ==
    /\ h \notin H[p] /\ L[p] \in Seq(Task) /\ L[p] # <<>>
    /\ HH[p] = H[p] \cup {h} /\ \A v \in P \ {p} : HH[v] = H[v]
    /\ QQ[p][h] = Head(L[p]) /\ \A v \in P : \A s \in H[v] : QQ[v][s] = Q[v][s]
    /\ LL[p] = Tail(L[p]) /\ \A v \in P \ {p} : LL[v] = L[v]

LEMMA AddPlaces ==
    ASSUME NEW P, NEW H, NEW Q, NEW L, NEW HH, NEW QQ, NEW LL, NEW p \in P, NEW h,
           Once(P, H, Q, L), AddMoves(P, H, Q, L, HH, QQ, LL, p, h)
    PROVE  /\ Once(P, HH, QQ, LL)
           /\ \A x : Found(P, HH, QQ, LL, x) <=> Found(P, H, Q, L, x)
<1>0. /\ h \notin H[p] /\ L[p] \in Seq(Task) /\ L[p] # <<>>
      /\ HH[p] = H[p] \cup {h} /\ \A v \in P \ {p} : HH[v] = H[v]
      /\ QQ[p][h] = Head(L[p]) /\ \A v \in P : \A s \in H[v] : QQ[v][s] = Q[v][s]
      /\ LL[p] = Tail(L[p]) /\ \A v \in P \ {p} : LL[v] = L[v]
  BY DEF AddMoves
<1> USE <1>0
<1>1. /\ 1 \in DOMAIN L[p] /\ Head(L[p]) = L[p][1]
      /\ \A i \in DOMAIN LL[p] : i + 1 \in DOMAIN L[p] /\ LL[p][i] = L[p][i + 1]
                                 /\ i \in Nat /\ i + 1 # 1
      /\ \A i \in DOMAIN L[p] : i # 1 => i - 1 \in DOMAIN LL[p] /\ LL[p][i - 1] = L[p][i]
  OBVIOUS
<1>2. ASSUME NEW v \in P, NEW s \in HH[v]
      PROVE  \/ s \in H[v] /\ QQ[v][s] = Q[v][s] /\ ~(v = p /\ s = h)
             \/ v = p /\ s = h /\ QQ[v][s] = L[p][1]
  BY <1>1
<1>3. ASSUME NEW v \in P, NEW i \in DOMAIN LL[v]
      PROVE  \/ v # p /\ i \in DOMAIN L[v] /\ LL[v][i] = L[v][i]
             \/ v = p /\ i + 1 \in DOMAIN L[p] /\ LL[v][i] = L[p][i + 1] /\ i \in Nat
  BY <1>1
<1>4. ASSUME NEW v \in P, NEW w \in P, NEW s \in HH[v], NEW z \in HH[w], QQ[v][s] = QQ[w][z]
      PROVE  v = w /\ s = z
  BY <1>1, <1>2, <1>4 DEF Once
<1>5. ASSUME NEW v \in P, NEW w \in P, NEW i \in DOMAIN LL[v], NEW k \in DOMAIN LL[w],
             LL[v][i] = LL[w][k]
      PROVE  v = w /\ i = k
  <2>1. CASE v = p /\ w = p
    <3>1. i + 1 = k + 1 /\ i \in Nat /\ k \in Nat
      BY <1>3, <1>5, <2>1 DEF Once
    <3> QED
      BY <2>1, <3>1
  <2>2. CASE ~(v = p /\ w = p)
    BY <1>3, <1>5, <2>2 DEF Once
  <2> QED
    BY <2>1, <2>2
<1>6. ASSUME NEW v \in P, NEW w \in P, NEW s \in HH[v], NEW i \in DOMAIN LL[w]
      PROVE  QQ[v][s] # LL[w][i]
  <2>1. CASE s \in H[v] /\ QQ[v][s] = Q[v][s]
    BY <1>3, <2>1 DEF Once
  <2>2. CASE QQ[v][s] = L[p][1]
    <3>1. CASE w = p
      <4>1. i + 1 \in DOMAIN L[p] /\ LL[w][i] = L[p][i + 1] /\ i + 1 # 1 /\ 1 \in DOMAIN L[p]
        BY <1>1, <3>1
      <4>2. L[p][i + 1] # L[p][1]
        BY <4>1 DEF Once
      <4> QED
        BY <2>2, <4>1, <4>2
    <3>2. CASE w # p
      BY <1>1, <1>3, <2>2, <3>2 DEF Once
    <3> QED
      BY <3>1, <3>2
  <2> QED
    BY <1>2, <2>1, <2>2
<1>7. ASSUME NEW x, Found(P, HH, QQ, LL, x) PROVE Found(P, H, Q, L, x)
  <2>1. CASE \E v \in P : \E s \in HH[v] : QQ[v][s] = x
    BY <1>1, <1>2, <2>1 DEF Found
  <2>2. CASE \E v \in P : \E i \in DOMAIN LL[v] : LL[v][i] = x
    BY <1>3, <2>2 DEF Found
  <2> QED
    BY <1>7, <2>1, <2>2 DEF Found
<1>8. ASSUME NEW x, Found(P, H, Q, L, x) PROVE Found(P, HH, QQ, LL, x)
  <2>1. CASE \E v \in P : \E s \in H[v] : Q[v][s] = x
    BY <2>1 DEF Found
  <2>2. CASE \E v \in P : \E i \in DOMAIN L[v] : L[v][i] = x
    <3>0. PICK v \in P : \E i \in DOMAIN L[v] : L[v][i] = x
      BY <2>2
    <3>1. PICK i \in DOMAIN L[v] : L[v][i] = x
      BY <3>0
    <3>2. CASE v # p
      BY <3>1, <3>2 DEF Found
    <3>3. CASE v = p /\ i = 1
      BY <1>1, <3>1, <3>3 DEF Found
    <3>4. CASE v = p /\ i # 1
      BY <1>1, <3>1, <3>4 DEF Found
    <3> QED
      BY <3>2, <3>3, <3>4
  <2> QED
    BY <1>8, <2>1, <2>2 DEF Found
<1> QED
  BY <1>4, <1>5, <1>6, <1>7, <1>8 DEF Once

\* A task leaves its slot, and a list of tasks comes that were in no place.
TakeMoves(P, H, Q, L, HH, LL, p, h) ==
    /\ h \in H[p] /\ L[p] = <<>>
    /\ HH[p] = H[p] \ {h} /\ \A v \in P \ {p} : HH[v] = H[v]
    /\ \A v \in P \ {p} : LL[v] = L[v]
    /\ \A i, k \in DOMAIN LL[p] : LL[p][i] = LL[p][k] => i = k
    /\ \A i \in DOMAIN LL[p] : ~Found(P, H, Q, L, LL[p][i])

LEMMA TakePlaces ==
    ASSUME NEW P, NEW H, NEW Q, NEW L, NEW HH, NEW LL, NEW p \in P, NEW h,
           Once(P, H, Q, L), TakeMoves(P, H, Q, L, HH, LL, p, h)
    PROVE  /\ Once(P, HH, Q, LL)
           /\ \A x : Found(P, HH, Q, LL, x) <=>
                       \/ Found(P, H, Q, L, x) /\ x # Q[p][h]
                       \/ \E i \in DOMAIN LL[p] : LL[p][i] = x
<1>0. /\ h \in H[p] /\ L[p] = <<>>
      /\ HH[p] = H[p] \ {h} /\ \A v \in P \ {p} : HH[v] = H[v]
      /\ \A v \in P \ {p} : LL[v] = L[v]
      /\ \A i, k \in DOMAIN LL[p] : LL[p][i] = LL[p][k] => i = k
      /\ \A i \in DOMAIN LL[p] : ~Found(P, H, Q, L, LL[p][i])
  BY DEF TakeMoves
<1> USE <1>0
<1>1. \A v \in P : \A s : s \in HH[v] <=> s \in H[v] /\ ~(v = p /\ s = h)
  OBVIOUS
<1>2. DOMAIN L[p] = {}
  OBVIOUS
<1>3. ASSUME NEW v \in P, NEW w \in P, NEW i \in DOMAIN LL[v], NEW k \in DOMAIN LL[w],
             LL[v][i] = LL[w][k]
      PROVE  v = w /\ i = k
  <2>1. CASE v = p /\ w = p
    BY <1>3, <2>1
  <2>2. CASE v # p /\ w # p
    BY <1>3, <2>2 DEF Once
  <2>3. CASE v = p /\ w # p
    BY <1>3, <2>3 DEF Found
  <2>4. CASE v # p /\ w = p
    BY <1>3, <2>4 DEF Found
  <2> QED
    BY <2>1, <2>2, <2>3, <2>4
<1>4. ASSUME NEW v \in P, NEW w \in P, NEW s \in HH[v], NEW i \in DOMAIN LL[w]
      PROVE  Q[v][s] # LL[w][i]
  <2>1. CASE w = p
    BY <1>1, <2>1 DEF Found
  <2>2. CASE w # p
    BY <1>1, <2>2 DEF Once
  <2> QED
    BY <2>1, <2>2
<1>5. Once(P, HH, Q, LL)
  BY <1>1, <1>3, <1>4 DEF Once
<1>6. ASSUME NEW x, Found(P, HH, Q, LL, x)
      PROVE  \/ Found(P, H, Q, L, x) /\ x # Q[p][h]
             \/ \E i \in DOMAIN LL[p] : LL[p][i] = x
  <2>1. CASE \E v \in P : \E s \in HH[v] : Q[v][s] = x
    BY <1>1, <2>1 DEF Found, Once
  <2>2. CASE \E v \in P : \E i \in DOMAIN LL[v] : LL[v][i] = x
    BY <2>2 DEF Found, Once
  <2> QED
    BY <1>6, <2>1, <2>2 DEF Found
<1>7. ASSUME NEW x, Found(P, H, Q, L, x), x # Q[p][h] PROVE Found(P, HH, Q, LL, x)
  <2>1. CASE \E v \in P : \E s \in H[v] : Q[v][s] = x
    BY <1>1, <1>7, <2>1 DEF Found
  <2>2. CASE \E v \in P : \E i \in DOMAIN L[v] : L[v][i] = x
    BY <1>2, <2>2 DEF Found
  <2> QED
    BY <1>7, <2>1, <2>2 DEF Found
<1>8. ASSUME NEW i \in DOMAIN LL[p] PROVE Found(P, HH, Q, LL, LL[p][i])
  BY DEF Found
<1> QED
  BY <1>5, <1>6, <1>7, <1>8

\* A process copies tasks from slots of another to a list.
CopyMoves(P, H, Q, L, HH, LL, p, u, n, b) ==
    /\ n \in Nat /\ b \in Int /\ L[p] = <<>>
    /\ \A i \in 1 .. n : b + i - 1 \in H[u]
    /\ HH[u] = H[u] \ {b + i : i \in 0 .. n - 1} /\ \A v \in P \ {u} : HH[v] = H[v]
    /\ \A v \in P \ {p} : LL[v] = L[v]
    /\ LL[p] = [i \in 1 .. n |-> Q[u][b + i - 1]]

LEMMA CopyPlaces ==
    ASSUME NEW P, NEW H, NEW Q, NEW L, NEW HH, NEW LL, NEW p \in P, NEW u \in P,
           NEW n, NEW b, Once(P, H, Q, L), CopyMoves(P, H, Q, L, HH, LL, p, u, n, b)
    PROVE  /\ Once(P, HH, Q, LL)
           /\ \A x : Found(P, HH, Q, LL, x) <=> Found(P, H, Q, L, x)
<1>a. /\ n \in Nat /\ b \in Int /\ L[p] = <<>>
      /\ \A i \in 1 .. n : b + i - 1 \in H[u]
      /\ HH[u] = H[u] \ {b + i : i \in 0 .. n - 1} /\ \A v \in P \ {u} : HH[v] = H[v]
      /\ \A v \in P \ {p} : LL[v] = L[v]
      /\ LL[p] = [i \in 1 .. n |-> Q[u][b + i - 1]]
  BY DEF CopyMoves
<1> USE <1>a
<1> DEFINE at(i) == b + i - 1
<1>0. /\ DOMAIN L[p] = {} /\ DOMAIN LL[p] = 1 .. n
      /\ \A i \in 1 .. n : at(i) \in H[u] /\ LL[p][i] = Q[u][at(i)]
      /\ \A i, k \in 1 .. n : at(i) = at(k) => i = k
  OBVIOUS
<1>1. ASSUME NEW v \in P, NEW s
      PROVE  s \in HH[v] <=> s \in H[v] /\ ~(v = u /\ \E i \in 1 .. n : s = at(i))
  <2>1. (\E i \in 0 .. n - 1 : s = b + i) <=> \E i \in 1 .. n : s = b + i - 1
    <3>1. ASSUME NEW i \in 0 .. n - 1, s = b + i PROVE \E k \in 1 .. n : s = b + k - 1
      <4>1. i + 1 \in 1 .. n /\ s = b + (i + 1) - 1
        BY <3>1
      <4> QED
        BY <4>1
    <3>2. ASSUME NEW i \in 1 .. n, s = b + i - 1 PROVE \E k \in 0 .. n - 1 : s = b + k
      <4>1. i - 1 \in 0 .. n - 1 /\ s = b + (i - 1)
        BY <3>2
      <4> QED
        BY <4>1
    <3> QED
      BY <3>1, <3>2
  <2> QED
    BY <2>1
<1> HIDE DEF at
<1>2. ASSUME NEW v \in P, NEW i \in DOMAIN LL[v]
      PROVE  \/ v # p /\ i \in DOMAIN L[v] /\ LL[v][i] = L[v][i]
             \/ v = p /\ i \in 1 .. n /\ at(i) \in H[u] /\ LL[v][i] = Q[u][at(i)]
  BY <1>0
<1>3. ASSUME NEW v \in P, NEW w \in P, NEW i \in DOMAIN LL[v], NEW k \in DOMAIN LL[w],
             LL[v][i] = LL[w][k]
      PROVE  v = w /\ i = k
  <2>1. CASE v = p /\ w = p
    <3>1. at(i) = at(k) /\ i \in 1 .. n /\ k \in 1 .. n
      BY <1>2, <1>3, <2>1 DEF Once
    <3>2. i = k
      BY <1>0, <3>1
    <3> QED
      BY <2>1, <3>2
  <2>2. CASE ~(v = p /\ w = p)
    BY <1>2, <1>3, <2>2 DEF Once
  <2> QED
    BY <2>1, <2>2
<1>4. ASSUME NEW v \in P, NEW w \in P, NEW s \in HH[v], NEW i \in DOMAIN LL[w]
      PROVE  Q[v][s] # LL[w][i]
  <2>1. s \in H[v] /\ ~(v = u /\ \E k \in 1 .. n : s = at(k))
    BY <1>1
  <2>2. CASE w = p
    <3>1. i \in 1 .. n /\ at(i) \in H[u] /\ LL[w][i] = Q[u][at(i)]
      BY <1>0, <2>2
    <3>2. ~(v = u /\ s = at(i))
      BY <2>1, <3>1
    <3> QED
      BY <2>1, <3>1, <3>2 DEF Once
  <2>3. CASE w # p
    BY <2>1, <2>3 DEF Once
  <2> QED
    BY <2>2, <2>3
<1>5. Once(P, HH, Q, LL)
  BY <1>1, <1>3, <1>4 DEF Once
<1>6. ASSUME NEW x, Found(P, HH, Q, LL, x) PROVE Found(P, H, Q, L, x)
  <2>1. CASE \E v \in P : \E s \in HH[v] : Q[v][s] = x
    BY <1>1, <2>1 DEF Found
  <2>2. CASE \E v \in P : \E i \in DOMAIN LL[v] : LL[v][i] = x
    BY <1>2, <2>2 DEF Found
  <2> QED
    BY <1>6, <2>1, <2>2 DEF Found
<1>7. ASSUME NEW x, Found(P, H, Q, L, x) PROVE Found(P, HH, Q, LL, x)
  <2>1. CASE \E v \in P : \E s \in H[v] : Q[v][s] = x
    <3>1. PICK v \in P : \E s \in H[v] : Q[v][s] = x
      BY <2>1
    <3>2. PICK s \in H[v] : Q[v][s] = x
      BY <3>1
    <3>3. CASE s \in HH[v]
      BY <3>2, <3>3 DEF Found
    <3>4. CASE s \notin HH[v]
      <4>1. PICK i \in 1 .. n : s = at(i) /\ v = u
        BY <1>1, <3>4
      <4>2. LL[p][i] = x /\ i \in DOMAIN LL[p]
        BY <1>0, <3>2, <4>1
      <4> QED
        BY <4>2 DEF Found
    <3> QED
      BY <3>3, <3>4
  <2>2. CASE \E v \in P : \E i \in DOMAIN L[v] : L[v][i] = x
    BY <1>0, <2>2 DEF Found
  <2> QED
    BY <1>7, <2>1, <2>2 DEF Found
<1> QED
  BY <1>5, <1>6, <1>7

-----------------------------------------------------------------------------
(* Where the tasks are *)

\* The slots of v that thieves have to copy, and all slots of v that hold a task
Booty(v) == {s \in Slot : \E r \in Proc : Looting(r) /\ victim[r] = v /\ s \in Loot(r)}
Held     == [v \in Proc |-> Queued(v) \cup Booty(v)]

Span(v) ==
    {s \in Slot : Away(max_ntsks, ps[v].tail, s) < ps[v].size_shared + size_local[v]}

LEMMA QueuesSpan == Rings => \A v \in Proc : Queued(v) = Span(v)
<1> SUFFICES ASSUME Rings, NEW v \in Proc PROVE Queued(v) = Span(v)
  OBVIOUS
<1>1. Ring(max_ntsks, vtail1[v], ps[v].tail, ps[v].split, head[v], ps[v].size_shared,
           size_local[v])
  BY DEF Rings
<1>2. {(ps[v].tail + i) % max_ntsks : i \in 0 .. ps[v].size_shared + size_local[v] - 1}
        = {s \in 0 .. max_ntsks - 1 :
             Away(max_ntsks, ps[v].tail, s) < ps[v].size_shared + size_local[v]}
  BY <1>1, RingSpan
<1> QED
  BY <1>2 DEF Queued, Span, Slot

LEMMA QueuesSpanNext == Rings' => \A v \in Proc' : Queued(v)' = Span(v)'
<1> SUFFICES ASSUME Rings', NEW v \in Proc' PROVE Queued(v)' = Span(v)'
  OBVIOUS
<1>1. Ring(max_ntsks', vtail1'[v], ps'[v].tail, ps'[v].split, head'[v], ps'[v].size_shared,
           size_local'[v])
  BY DEF Rings
<1>2. {(ps'[v].tail + i) % max_ntsks' : i \in 0 .. ps'[v].size_shared + size_local'[v] - 1}
        = {s \in 0 .. max_ntsks' - 1 :
             Away(max_ntsks', ps'[v].tail, s) < ps'[v].size_shared + size_local'[v]}
  BY <1>1, RingSpan
<1> QED
  BY <1>2 DEF Queued, Span, Slot

\* What is to be copied stays, but for a thief that has it or has copied it.
LEMMA BootyStep ==
    ASSUME QueueTypes, Places, NEW p \in Proc, Step(p) \/ LockedStep(p), ~PutState(p),
           ~Copy(p), NEW v
    PROVE  Booty(v)' = Booty(v)
<1>1. Proc' = Proc /\ Slot' = Slot
  BY Constants DEF Next, Proc, Slot, max_ntsks
<1>2. \A r \in Proc : /\ Looting(r)' <=> Looting(r)
                      /\ Looting(r)' => victim'[r] = victim[r] /\ Loot(r)' = Loot(r)
  BY LootsMove
<1> QED
  BY <1>1, <1>2 DEF Booty

\* The queue of another stays as it is.
LEMMA QueuedStep ==
    ASSUME SlotsInv, SlotsInv', NEW p \in Proc, Step(p) \/ LockedStep(p), NEW v \in Proc,
           IF v = p THEN ~AddTask(p) /\ ~GetLocal(p) /\ ~GetSharing(p)
                    ELSE ~(PutState(p) /\ v = victim[p])
    PROVE  Queued(v)' = Queued(v)
<1>1. Proc' = Proc /\ Slot' = Slot /\ max_ntsks' = max_ntsks
  BY Constants DEF Next, Proc, Slot, max_ntsks
<1>2. StealInv /\ QueueTypes /\ ps \in [Proc -> State] /\ size_local \in [Proc -> Nat]
  BY DEF SlotsInv, StealInv, Types, QueueTypes
<1>3. ps[v] \in State /\ size_local[v] \in Nat
  BY <1>2
<1>4. /\ ps'[v].tail = ps[v].tail
      /\ ps'[v].size_shared + size_local'[v] = ps[v].size_shared + size_local[v]
  <2>1. CASE v # p
    <3>1. ps'[v] = ps[v]
      <4>1. CASE PutState(p)
        BY <1>2, <2>1, <4>1 DEF PutState
      <4>2. CASE ~PutState(p)
        BY <1>2, <2>1, <4>2, Frame
      <4> QED
        BY <4>1, <4>2
    <3>2. size_local'[v] = size_local[v]
      BY <1>2, <2>1, Frame DEF Untouched
    <3> QED
      BY <3>1, <3>2
  <2>2. CASE v = p
    <3>1. ps'[p].tail = ps[p].tail
      BY <1>2, OwnTail
    <3>2. CASE Share(p)
      <4>1. /\ ps'[p] = [ps[p] EXCEPT !.split = (ps[p].split + Donation(p)) % max_ntsks,
                          !.size_shared = ps[p].size_shared + Donation(p)]
            /\ size_local'[p] = size_local[p] - Donation(p)
        BY <1>2, <3>2 DEF Share, Donate
      <4>2. ps'[p].size_shared = ps[p].size_shared + Donation(p)
        BY <1>3, <2>2, <4>1 DEF State
      <4>3. Donation(p) \in Int /\ ps[p].size_shared \in Int
        BY <1>3, <2>2 DEF Donation, State
      <4> QED
        BY <1>3, <2>2, <3>1, <4>1, <4>2, <4>3
    <3>3. CASE Acquire(p)
      <4> DEFINE n == Lesser(want[p], ps[p].size_shared)
      <4>1. /\ ps'[p] = [ps[p] EXCEPT !.split = (ps[p].split - n) % max_ntsks,
                          !.size_shared = ps[p].size_shared - n]
            /\ size_local'[p] = size_local[p] + n
        BY <1>2, <3>3 DEF Acquire
      <4>2. ps'[p].size_shared = ps[p].size_shared - n
        BY <1>3, <2>2, <4>1 DEF State
      <4>3. n \in Int /\ ps[p].size_shared \in Int
        BY <1>2, <1>3, <2>2 DEF Lesser, State, QueueTypes
      <4> HIDE DEF n
      <4> QED
        BY <1>3, <2>2, <3>1, <4>1, <4>2, <4>3
    <3>4. CASE Clean(p)
      <4>1. ps'[p] = [ps[p] EXCEPT !.dirty = 0] /\ size_local' = size_local
        BY <1>2, <3>4 DEF Clean, owner
      <4> QED
        BY <1>3, <2>2, <3>1, <4>1 DEF State
    <3>5. CASE PutState(p)
      <4>1. victim[p] # p
        BY <1>2, <3>5, VictimBusy
      <4> QED
        BY <1>2, <2>2, <3>5, <4>1 DEF PutState, owner
    <3>6. CASE Step(p) /\ ~Clean(p) /\ ~PutState(p)
      <4>1. ps' = ps /\ size_local' = size_local
        BY <2>2, <3>6 DEF Step, UpdateVtail1, ShareNothing, GetShared, GetNothing, Vote, TryLock,
           Look, Unlock, Copy, shared, owner
      <4> QED
        BY <2>2, <4>1
    <3> QED
      BY <2>2, <3>2, <3>3, <3>4, <3>5, <3>6 DEF LockedStep
  <2> QED
    BY <2>1, <2>2
<1>5. Queued(v)' = Span(v)' /\ Queued(v) = Span(v)
  BY <1>1, QueuesSpan, QueuesSpanNext DEF SlotsInv
<1> QED
  BY <1>1, <1>4, <1>5 DEF Span

\* Most steps move no task to another slot, a steal included.
LEMMA HeldStays ==
    ASSUME SlotsInv, SlotsInv', NEW p \in Proc, Step(p) \/ LockedStep(p),
           ~AddTask(p), ~GetLocal(p), ~GetSharing(p), ~Copy(p)
    PROVE  Held' = Held
<1>1. Proc' = Proc /\ Slot' = Slot /\ max_ntsks' = max_ntsks
  BY Constants DEF Next, Proc, Slot, max_ntsks
<1>2. QueueTypes /\ Places /\ StealInv /\ SlotTypes /\ Rings
  BY DEF SlotsInv, StealInv, Types
<1>3. CASE ~PutState(p)
  <2>1. \A v \in Proc : Queued(v)' = Queued(v) /\ Booty(v)' = Booty(v)
    BY <1>2, <1>3, QueuedStep, BootyStep
  <2> QED
    BY <1>1, <2>1 DEF Held
<1>4. CASE PutState(p)
  <2>1. PICK u \in Proc : u = victim[p] /\ u # p
    BY <1>2, <1>4, VictimBusy DEF QueueTypes
  <2>2. \A v \in Proc \ {u} : Queued(v)' = Queued(v)
    BY <1>4, <2>1, QueuedStep
  <2>3. victim' = victim /\ Looting(p)' /\ ~Looting(p)
    <3>1. pc[p] = "put" /\ pc' = [pc EXCEPT ![p] = "unlock"] /\ sq' = sq /\ victim' = victim
      BY <1>4 DEF PutState, thief, Goto
    <3>2. sq[p].ps.size_shared > 0 /\ pc'[p] = "unlock"
      BY <1>2, <3>1 DEF Places, Place, QueueTypes
    <3> QED
      BY <3>1, <3>2 DEF Looting
  <2>4. \A r \in Proc : /\ Looting(r)' <=> Looting(r) \/ r = p
                        /\ Looting(r)' => Loot(r)' = Loot(r)
    BY <1>2, <1>4, <2>3, LootsMove DEF PutState, Copy
  <2>5. \A v \in Proc : Booty(v)' = IF v = u THEN Booty(v) \cup {s \in Slot : s \in Loot(p)}
                                    ELSE Booty(v)
    <3>1. ASSUME NEW v \in Proc, NEW s
          PROVE  s \in Booty(v)' <=> s \in Booty(v) \/ (v = u /\ s \in Slot /\ s \in Loot(p))
      BY <1>1, <2>1, <2>3, <2>4 DEF Booty
    <3> QED
      BY <3>1
  <2>6. \A s \in Slot : s \in Queued(u) <=> s \in Queued(u)' \/ s \in Loot(p)
    <3> DEFINE m == max_ntsks
               t == ps[u].tail
               a == ps[u].size_shared
               b == size_local[u]
               n == NSteal(p)
    <3>1. Ring(m, vtail1[u], t, ps[u].split, head[u], a, b)
      BY <1>2 DEF Rings
    <3>2. /\ size_local' = size_local /\ ps'[u].size_shared + n = a
          /\ n \in Nat \ {0} /\ Loot(p) = {t + i : i \in 0 .. n - 1}
      BY <1>2, <1>4, <2>1, Theft
    <3>3. n <= m - t /\ ps'[u].tail = (t + n) % m
      <4>1. sq[p].ps.tail = t
        BY <1>2, <1>4, <2>1 DEF PutState, StealInv, Kept, Agree
      <4>2. m - t \in Int /\ (sq[p].ps.size_shared + 1) \div 2 \in Int
        BY <1>2, <3>1 DEF Ring, QueueTypes, State
      <4>3. n <= m - t
        BY <4>1, <4>2 DEF NSteal, Lesser
      <4>4. ps'[u].tail = NewTail(p)
        BY <1>2, <1>4, <2>1 DEF PutState, QueueTypes
      <4> QED
        BY <4>1, <4>3, <4>4 DEF NewTail
    <3>4. ps'[u].size_shared \in Nat
      BY <1>1 DEF SlotsInv, StealInv, Types, QueueTypes, State
    <3>5. Queued(u) = Span(u) /\ Queued(u)' = Span(u)'
      BY <1>1, <1>2, QueuesSpan, QueuesSpanNext DEF SlotsInv
    <3>6. \A s : /\ s \in Queued(u) <=> s \in 0 .. m - 1 /\ Away(m, t, s) < a + b
                 /\ s \in Queued(u)' <=> s \in 0 .. m - 1
                                      /\ Away(m, (t + n) % m, s) < ps'[u].size_shared + b
      BY <1>1, <3>2, <3>3, <3>5 DEF Span, Slot
    <3>7. Slot = 0 .. m - 1
      BY DEF Slot
    <3> HIDE DEF m, t, a, b, n
    <3>8. a \in Nat /\ ps'[u].size_shared = a - n /\ n \in Nat /\ n <= a
      BY <3>1, <3>2, <3>4 DEF Ring
    <3>9. ASSUME NEW s \in 0 .. m - 1
          PROVE  Away(m, t, s) < a + b <=>
                   \/ Away(m, (t + n) % m, s) < (a - n) + b
                   \/ \E i \in 0 .. n - 1 : s = t + i
      BY <3>1, <3>3, <3>8, StealSpan
    <3> QED
      BY <3>2, <3>6, <3>7, <3>8, <3>9
  <2>7. Queued(u) \subseteq Slot /\ Queued(u)' \subseteq Slot
    BY <1>1, <1>2, QueuesSpan, QueuesSpanNext DEF Span, SlotsInv
  <2>8. \A v \in Proc : Queued(v)' \cup Booty(v)' = Queued(v) \cup Booty(v)
    BY <2>2, <2>5, <2>6, <2>7
  <2> QED
    BY <1>1, <2>8 DEF Held
<1> QED
  BY <1>3, <1>4

\* A task that is added comes to a slot that held none.
LEMMA HeldAdd ==
    ASSUME SlotsInv, SlotsFreedLate, SlotsInv', NEW p \in Proc, AddTask(p)
    PROVE  /\ head[p] \notin Held[p]
           /\ Held' = [Held EXCEPT ![p] = @ \cup {head[p]}]
<1>1. Proc' = Proc /\ Slot' = Slot /\ max_ntsks' = max_ntsks
  BY Constants DEF Next, Step, Proc, Slot, max_ntsks
<1>2. QueueTypes /\ Places /\ StealInv /\ SlotTypes /\ Rings
  BY DEF SlotsInv, StealInv, Types
<1>3. /\ Step(p) /\ ~PutState(p) /\ ~Copy(p)
      /\ pc[p] = "add" /\ SpaceAvailable(p)
  BY DEF AddTask, Step, PutState, Copy
<1>4. \A v \in Proc : Booty(v)' = Booty(v)
  BY <1>2, <1>3, BootyStep
<1>5. \A v \in Proc \ {p} : Queued(v)' = Queued(v)
  BY <1>3, QueuedStep
<1> DEFINE m == max_ntsks
           t == ps[p].tail
           a == ps[p].size_shared
           b == size_local[p]
           h == head[p]
           v == vtail1[p]
           x == ps[p].split
<1>6. Queued(p)' = Queued(p) \cup {h}
  <2>1. Ring(m, v, t, x, h, a, b) /\ b < m /\ (h = v => x = h)
    BY <1>2, <1>3 DEF Rings, SpaceAvailable
  <2>2. ps' = ps /\ size_local'[p] = b + 1
    BY <1>2 DEF AddTask, shared, QueueTypes
  <2>3. Queued(p) = Span(p) /\ Queued(p)' = Span(p)'
    BY <1>1, <1>2, QueuesSpan, QueuesSpanNext DEF SlotsInv
  <2>4. \A s : /\ s \in Queued(p) <=> s \in 0 .. m - 1 /\ Away(m, t, s) < a + b
               /\ s \in Queued(p)' <=> s \in 0 .. m - 1 /\ Away(m, t, s) < a + (b + 1)
    BY <1>1, <2>2, <2>3 DEF Span, Slot
  <2> HIDE DEF m, t, a, b, h, v, x
  <2>5. h \in 0 .. m - 1 /\ Away(m, t, h) = a + b
    <3>1. Ring(m, v, t, x, h, a, b)
      BY <2>1
    <3>2. b < m
      BY <2>1
    <3>3. h = v => x = h
      BY <2>1
    <3> QED
      BY <3>1, <3>2, <3>3, RingHead
  <2>6. m \in Nat /\ t \in 0 .. m - 1 /\ a \in Nat /\ b \in Nat
    BY <2>1 DEF Ring
  <2>7. /\ \A s, z \in 0 .. m - 1 : Away(m, t, s) = Away(m, t, z) => s = z
        /\ \A s \in 0 .. m - 1 : Away(m, t, s) \in 0 .. m - 1
    BY <2>6, AwayInjective
  <2>8. ASSUME NEW s \in 0 .. m - 1
        PROVE  Away(m, t, s) < a + (b + 1) <=> Away(m, t, s) < a + b \/ s = h
    <3>1. Away(m, t, s) \in Int /\ (Away(m, t, s) = a + b <=> s = h)
      BY <2>5, <2>7
    <3> QED
      BY <2>6, <3>1
  <2> QED
    BY <2>4, <2>5, <2>8
<1>7. h \notin Queued(p) /\ h \notin Booty(p)
  <2>1. SlotsSound
    BY SlotsKept
  <2> QED
    BY <1>3, <2>1 DEF SlotsSound, Booty
<1> QED
  BY <1>1, <1>4, <1>5, <1>6, <1>7 DEF Held

\* A task that is taken leaves the slot below the head.
LEMMA HeldTake ==
    ASSUME SlotsInv, SlotsFreedLate, SlotsInv', NEW p \in Proc, GetLocal(p) \/ GetSharing(p)
    PROVE  LET top == (head[p] - 1) % max_ntsks
           IN  /\ top \in Held[p]
               /\ Held' = [Held EXCEPT ![p] = @ \ {top}]
<1>1. Proc' = Proc /\ Slot' = Slot /\ max_ntsks' = max_ntsks
  BY Constants DEF Next, Step, LockedStep, Proc, Slot, max_ntsks
<1>2. QueueTypes /\ Places /\ StealInv /\ SlotTypes /\ Rings
  BY DEF SlotsInv, StealInv, Types
<1>3. (Step(p) \/ LockedStep(p)) /\ ~PutState(p) /\ ~Copy(p)
  BY DEF GetLocal, GetSharing, Step, LockedStep, PutState, Copy
<1>4. \A v \in Proc : Booty(v)' = Booty(v)
  BY <1>2, <1>3, BootyStep
<1>5. \A v \in Proc \ {p} : Queued(v)' = Queued(v)
  BY <1>3, QueuedStep
<1> DEFINE m == max_ntsks
           t == ps[p].tail
           a == ps[p].size_shared
           b == size_local[p]
           top == (head[p] - 1) % m
<1>6. top \in Queued(p) /\ Queued(p)' = Queued(p) \ {top}
  <2>1. Ring(m, vtail1[p], t, ps[p].split, head[p], a, b)
    BY <1>2 DEF Rings
  <2>2. a \in Nat /\ b \in Nat /\ m \in Nat /\ t \in 0 .. m - 1
    BY <2>1 DEF Ring
  <2>3. /\ b > 0 /\ ps'[p].tail = t
        /\ ps'[p].size_shared + size_local'[p] = a + b - 1
    <3>1. ps'[p].tail = t
      BY <1>2, <1>3, OwnTail
    <3>2. CASE GetLocal(p)
      BY <1>2, <2>2, <3>1, <3>2 DEF GetLocal, shared, QueueTypes
    <3>3. CASE GetSharing(p)
      <4>1. /\ ps'[p] = [ps[p] EXCEPT !.split = (ps[p].split + Donation(p)) % max_ntsks,
                          !.size_shared = a + Donation(p)]
            /\ size_local'[p] = b - Donation(p) - 1 /\ Donation(p) > 0
        BY <1>2, <3>3 DEF GetSharing, Donate, QueueTypes
      <4>2. ps'[p].size_shared = a + Donation(p)
        BY <1>2, <4>1 DEF State, QueueTypes
      <4>3. Donation(p) \in Int /\ b > 0
        BY <2>2, <4>1 DEF Donation
      <4> HIDE DEF a, b
      <4> QED
        BY <2>2, <3>1, <4>1, <4>2, <4>3
    <3> QED
      BY <3>2, <3>3
  <2>4. Queued(p) = Span(p) /\ Queued(p)' = Span(p)'
    BY <1>1, <1>2, QueuesSpan, QueuesSpanNext DEF SlotsInv
  <2>5. \A s : /\ s \in Queued(p) <=> s \in 0 .. m - 1 /\ Away(m, t, s) < a + b
               /\ s \in Queued(p)' <=> s \in 0 .. m - 1 /\ Away(m, t, s) < a + b - 1
    BY <1>1, <2>3, <2>4 DEF Span, Slot
  <2> DEFINE h == head[p]
  <2>6. top = (h - 1) % m
    OBVIOUS
  <2> HIDE DEF m, t, a, b, top, h
  <2>7. top \in 0 .. m - 1 /\ Away(m, t, top) = a + b - 1
    <3>1. /\ Ring(m, vtail1[p], t, ps[p].split, (h - 1) % m, a, b - 1)
          /\ (h - 1) % m \in 0 .. m - 1
          /\ Away(m, t, (h - 1) % m) = a + b - 1
          /\ b - 1 < m
      <4>1. Ring(m, vtail1[p], t, ps[p].split, h, a, b)
        BY <2>1 DEF h
      <4> QED
        BY <2>3, <4>1, RingTake
    <3> QED
      BY <2>6, <3>1
  <2>8. /\ \A s, z \in 0 .. m - 1 : Away(m, t, s) = Away(m, t, z) => s = z
        /\ \A s \in 0 .. m - 1 : Away(m, t, s) \in 0 .. m - 1
    BY <2>2, AwayInjective
  <2>9. ASSUME NEW s \in 0 .. m - 1
        PROVE  Away(m, t, s) < a + b - 1 <=> Away(m, t, s) < a + b /\ s # top
    <3>1. Away(m, t, s) \in Int /\ (Away(m, t, s) = a + b - 1 <=> s = top)
      BY <2>7, <2>8
    <3> QED
      BY <2>2, <3>1
  <2>10. top \in Queued(p)
    BY <2>2, <2>5, <2>7
  <2> QED
    BY <2>5, <2>9, <2>10
<1>7. top \notin Booty(p)
  <2>1. SlotsSound
    BY SlotsKept
  <2> QED
    BY <1>6, <2>1 DEF SlotsSound, Booty
<1>8. Held' = [Held EXCEPT ![p] = @ \ {top}]
  <2> HIDE DEF top
  <2> QED
    BY <1>1, <1>4, <1>5, <1>6, <1>7 DEF Held
<1> QED
  BY <1>6, <1>8 DEF Held

\* Tasks that are copied leave the slots of the victim.
LEMMA HeldCopy ==
    ASSUME SlotsInv, SlotsFreedLate, SlotsInv', NEW p \in Proc, Copy(p), NEW u \in Proc,
           u = victim[p]
    PROVE  /\ Loot(p) \subseteq Held[u]
           /\ Held' = [Held EXCEPT ![u] = @ \ Loot(p)]
<1>1. Proc' = Proc /\ Slot' = Slot /\ max_ntsks' = max_ntsks
  BY Constants DEF Next, Step, Proc, Slot, max_ntsks
<1>2. QueueTypes /\ Places /\ StealInv /\ SlotTypes /\ Rings
  BY DEF SlotsInv, StealInv, Types
<1>3. Step(p) /\ ~PutState(p) /\ ~AddTask(p) /\ ~GetLocal(p) /\ ~GetSharing(p)
  BY DEF Step, PutState, Copy, AddTask, GetLocal, GetSharing
<1>4. \A v \in Proc : Queued(v)' = Queued(v)
  BY <1>3, QueuedStep
<1>5. Looting(p) /\ ~Looting(p)'
  <2>1. pc[p] = "copy" /\ pc' = [pc EXCEPT ![p] = "add"] /\ sq[p].ps.size_shared > 0
    BY <1>2 DEF Copy, Goto, Places, Place
  <2>2. pc'[p] = "add"
    BY <1>2, <2>1 DEF QueueTypes
  <2> QED
    BY <2>1, <2>2 DEF Looting
<1>6. \A r \in Proc : /\ Looting(r)' <=> Looting(r) /\ r # p
                      /\ Looting(r)' => victim'[r] = victim[r] /\ Loot(r)' = Loot(r)
  BY <1>2, <1>3, <1>5, LootsMove
<1>7. \A r \in Proc \ {p} : Looting(r) /\ victim[r] = u => Loot(r) \cap Loot(p) = {}
  BY <1>5 DEF SlotsInv, Loots
<1>8. \A s \in Loot(p) : s \in Slot
  BY <1>5 DEF SlotsInv, Loots, Behind
<1>9. \A v \in Proc : Booty(v)' = IF v = u THEN Booty(v) \ Loot(p) ELSE Booty(v)
  <2>1. ASSUME NEW v \in Proc, NEW s
        PROVE  s \in Booty(v)' <=> s \in Booty(v) /\ ~(v = u /\ s \in Loot(p))
    BY <1>1, <1>5, <1>6, <1>7 DEF Booty
  <2> QED
    BY <2>1
<1>10. Loot(p) \subseteq Booty(u)
  BY <1>5, <1>8 DEF Booty
<1>11. Loot(p) \cap Queued(u) = {}
  <2>1. SlotsSound
    BY SlotsKept
  <2> QED
    BY <1>5, <2>1 DEF SlotsSound
<1>12. Loot(p) \subseteq Held[u]
  BY <1>10 DEF Held
<1>13. \A v \in Proc : Queued(v)' \cup Booty(v)'
         = IF v = u THEN (Queued(v) \cup Booty(v)) \ Loot(p) ELSE Queued(v) \cup Booty(v)
  BY <1>4, <1>9, <1>11
<1>14. Held' = [Held EXCEPT ![u] = @ \ Loot(p)]
  BY <1>1, <1>13 DEF Held
<1> QED
  BY <1>12, <1>14

-----------------------------------------------------------------------------
(* The places of the tasks of a job whose tasks are told apart               *)

InPlace(x) == Found(Proc, Held, q, todo, x)
Given(x)   == \E p \in Proc : \E i \in DOMAIN job.initial[p] : job.initial[p][i] = x
Adds(t, x) == \E i \in DOMAIN job.adds[t] : job.adds[t][i] = x

\* What is somewhere is a task, ...
TasksTyped == todo \in [Proc -> Seq(Task)] /\ \A x : InPlace(x) => x \in Task

\* ... in one place, ...
Apart == Once(Proc, Held, q, todo)

\* ... and was added by the program or by a task that is nowhere any more.
Origins ==
    \E D \in SUBSET Task :
        /\ \A d \in D : ~InPlace(d)
        /\ \A x : InPlace(x) \/ x \in D => Given(x) \/ \E d \in D : Adds(d, x)

PoolInv == nproc = job.nproc /\ TasksTyped /\ Apart /\ Origins

\* No task is added and none executed.
AllSame == \A x : InPlace(x)' <=> InPlace(x)

LEMMA InitPool == Forest /\ Init /\ Rings => PoolInv
<1> SUFFICES ASSUME Forest, Init, Rings PROVE PoolInv
  OBVIOUS
<1>1. /\ nproc = job.nproc /\ job \in Jobs /\ todo = job.initial
      /\ todo \in [Proc -> Seq(Task)]
  BY TaskAssumption DEF Init, Proc
<1>2. \A v \in Proc : Held[v] = {}
  <2>1. \A v \in Proc : Span(v) = {}
    <3> SUFFICES ASSUME NEW v \in Proc, NEW s \in Span(v) PROVE FALSE
      OBVIOUS
    <3>1. ps[v].size_shared = 0 /\ size_local[v] = 0 /\ ps[v].tail = 0
      BY DEF Init, Unread
    <3>2. max_ntsks \in Nat
      BY <1>1, TaskAssumption DEF max_ntsks
    <3> QED
      BY <3>1, <3>2 DEF Span, Slot, Away
  <2>2. \A v \in Proc : Booty(v) = {}
    BY DEF Booty, Looting, Init
  <2> QED
    BY <2>1, <2>2, QueuesSpan DEF Held
<1>3. \A x : InPlace(x) <=> Given(x)
  BY <1>1, <1>2 DEF InPlace, Found, Given
<1>4. TasksTyped
  BY <1>1, <1>3 DEF TasksTyped, Given
<1>5. Apart
  BY <1>1, <1>2 DEF Apart, Once, Forest, Proc
<1>6. Origins
  <2> DEFINE D == {}
  <2>1. D \in SUBSET Task /\ \A d \in D : ~InPlace(d)
    OBVIOUS
  <2>2. \A x : InPlace(x) \/ x \in D => Given(x) \/ \E d \in D : Adds(d, x)
    BY <1>3
  <2> HIDE DEF D
  <2> QED
    BY <2>1, <2>2 DEF Origins
<1> QED
  BY <1>1, <1>4, <1>5, <1>6 DEF PoolInv

LEMMA SameOrigins ==
    ASSUME Origins, AllSame, nproc' = nproc, job' = job
    PROVE  Origins'
<1>1. PICK D \in SUBSET Task :
        /\ \A d \in D : ~InPlace(d)
        /\ \A x : InPlace(x) \/ x \in D => Given(x) \/ \E d \in D : Adds(d, x)
  BY DEF Origins
<1>2. /\ \A x : InPlace(x)' <=> InPlace(x)
      /\ \A x : Given(x)' <=> Given(x)
      /\ \A d, x : Adds(d, x)' <=> Adds(d, x)
  BY DEF AllSame, Given, Adds, Proc
<1>3. \A d \in D : ~InPlace(d)'
  BY <1>1, <1>2
<1>4. \A x : InPlace(x)' \/ x \in D => Given(x)' \/ \E d \in D : Adds(d, x)'
  BY <1>1, <1>2
<1> QED
  BY <1>3, <1>4 DEF Origins

\* What executing t adds is nowhere yet.
LEMMA NewTasks ==
    ASSUME Forest, DetectorTypes, QueueTypes, nproc = job.nproc, Origins, NEW t \in Task,
           InPlace(t), NEW x, Adds(t, x)
    PROVE  ~InPlace(x)
<1>1. PICK D \in SUBSET Task :
        /\ \A d \in D : ~InPlace(d)
        /\ \A y : InPlace(y) \/ y \in D => Given(y) \/ \E d \in D : Adds(d, y)
  BY DEF Origins
<1>2. job \in Jobs /\ Proc = 0 .. job.nproc - 1
  BY DEF QueueTypes, Proc
<1>3. ~Given(x)
  BY <1>2 DEF Forest, Given, Adds
<1>4. \A d \in D : Adds(d, x) => d = t
  BY <1>2 DEF Forest, Adds
<1> QED
  BY <1>1, <1>3, <1>4

\* The task t is executed.
Executed(t) == \A x : InPlace(x)' <=> (InPlace(x) /\ x # t) \/ Adds(t, x)

LEMMA ExecutedOrigins ==
    ASSUME Forest, DetectorTypes, QueueTypes, nproc = job.nproc, Origins, NEW t \in Task,
           InPlace(t), Executed(t), nproc' = nproc, job' = job
    PROVE  Origins'
<1>1. PICK D \in SUBSET Task :
        /\ \A d \in D : ~InPlace(d)
        /\ \A y : InPlace(y) \/ y \in D => Given(y) \/ \E d \in D : Adds(d, y)
  BY DEF Origins
<1>2. /\ \A x : InPlace(x)' <=> (InPlace(x) /\ x # t) \/ Adds(t, x)
      /\ \A x : Given(x)' <=> Given(x)
      /\ \A d, x : Adds(d, x)' <=> Adds(d, x)
  BY DEF Executed, Given, Adds, Proc
<1>3. job \in Jobs /\ Proc = 0 .. job.nproc - 1
  BY DEF QueueTypes, Proc
<1>4. \A x : Adds(t, x) => ~InPlace(x) /\ x \notin D
  <2> SUFFICES ASSUME NEW x, Adds(t, x) PROVE ~InPlace(x) /\ x \notin D
    OBVIOUS
  <2>1. ~Given(x)
    BY <1>3 DEF Forest, Given, Adds
  <2>2. \A d \in D : Adds(d, x) => d = t
    BY <1>3 DEF Forest, Adds
  <2> QED
    BY <1>1, <2>1, <2>2
<1> DEFINE DD == D \cup {t}
<1>5. DD \in SUBSET Task
  OBVIOUS
<1>6. \A d \in DD : ~InPlace(d)'
  BY <1>1, <1>2, <1>4
<1>7. \A x : InPlace(x)' \/ x \in DD => Given(x)' \/ \E d \in DD : Adds(d, x)'
  BY <1>1, <1>2
<1> HIDE DEF DD
<1> QED
  BY <1>5, <1>6, <1>7 DEF Origins

\* A step of a process executes a task that it has taken, or leaves all tasks
\* where they have to be executed still.
LEMMA PoolStep ==
    ASSUME Forest, SlotsInv, SlotsFreedLate, SlotsInv', PoolInv, NEW p \in Proc,
           Step(p) \/ LockedStep(p)
    PROVE  /\ PoolInv'
           /\ \/ AllSame
              \/ (UNCHANGED detector) /\ \E t \in Task : InPlace(t) /\ Executed(t)
<1>1. /\ Proc' = Proc /\ Slot' = Slot /\ max_ntsks' = max_ntsks
      /\ nproc' = nproc /\ job' = job /\ nproc' = job'.nproc
  BY Constants DEF Next, Proc, Slot, max_ntsks, PoolInv
<1>2. /\ QueueTypes /\ Places /\ StealInv /\ SlotTypes /\ Rings /\ DetectorTypes
      /\ job \in Jobs
  BY DEF SlotsInv, StealInv, Types, QueueTypes
<1>3. /\ Once(Proc, Held, q, todo) /\ todo \in [Proc -> Seq(Task)]
      /\ \A x : InPlace(x) => x \in Task
      /\ nproc = job.nproc /\ Origins
  BY DEF PoolInv, Apart, TasksTyped
<1>4. \A v \in Proc : Held[v] \subseteq Slot
  BY <1>2, QueuesSpan DEF Held, Booty, Span
<1>5. ASSUME AllSame, todo' \in [Proc -> Seq(Task)], Once(Proc, Held', q', todo')
      PROVE  PoolInv'
  <2>1. \A x : InPlace(x)' => x \in Task
    BY <1>3, <1>5 DEF AllSame
  <2>2. TasksTyped'
    BY <1>1, <1>5, <2>1 DEF TasksTyped
  <2>3. Apart'
    BY <1>1, <1>5 DEF Apart
  <2>4. Origins'
    BY <1>1, <1>3, <1>5, SameOrigins
  <2> QED
    BY <1>1, <2>2, <2>3, <2>4 DEF PoolInv
<1>6. ASSUME \A x : Found(Proc, Held', q', todo', x) <=> Found(Proc, Held, q, todo, x)
      PROVE  AllSame
  BY <1>1, <1>6 DEF AllSame, InPlace
<1>7. CASE AddTask(p)
  <2> DEFINE h == head[p]
  <2>1. h \in Slot /\ h \notin Held[p] /\ Held' = [Held EXCEPT ![p] = @ \cup {h}]
    <3>1. h \in Slot
      <4>1. Ring(max_ntsks, vtail1[p], ps[p].tail, ps[p].split, head[p], ps[p].size_shared,
                 size_local[p])
        BY <1>2 DEF Rings
      <4> QED
        BY <4>1 DEF Ring, Ahead, Away, Slot
    <3>2. head[p] \notin Held[p] /\ Held' = [Held EXCEPT ![p] = @ \cup {head[p]}]
      BY <1>7, HeldAdd
    <3> QED
      BY <3>1, <3>2
  <2>2. /\ q' = [q EXCEPT ![p][h] = Head(todo[p])] /\ todo' = [todo EXCEPT ![p] = Tail(@)]
        /\ todo[p] # <<>> /\ todo[p] \in Seq(Task)
    BY <1>2, <1>3, <1>7 DEF AddTask, Places, Place
  <2>3. Held = [v \in Proc |-> Held[v]] /\ q = [v \in Proc |-> [s \in Slot |-> q[v][s]]]
    BY <1>2 DEF Held, SlotTypes
  <2> HIDE DEF h
  <2>4. Held'[p] = Held[p] \cup {h} /\ \A v \in Proc \ {p} : Held'[v] = Held[v]
    BY <2>1, <2>3
  <2>5. q'[p][h] = Head(todo[p]) /\ \A v \in Proc : \A s \in Held[v] : q'[v][s] = q[v][s]
    <3>1. q'[p][h] = Head(todo[p])
      BY <2>1, <2>2, <2>3
    <3>2. ASSUME NEW v \in Proc, NEW s \in Held[v] PROVE q'[v][s] = q[v][s]
      <4>1. s \in Slot /\ ~(v = p /\ s = h)
        BY <1>4, <2>1
      <4> QED
        BY <2>1, <2>2, <2>3, <4>1
    <3> QED
      BY <3>1, <3>2
  <2>6. todo'[p] = Tail(todo[p]) /\ \A v \in Proc \ {p} : todo'[v] = todo[v]
    BY <1>3, <2>2
  <2>7. /\ Once(Proc, Held', q', todo')
        /\ \A x : Found(Proc, Held', q', todo', x) <=> Found(Proc, Held, q, todo, x)
    <3>1. AddMoves(Proc, Held, q, todo, Held', q', todo', p, h)
      BY <2>1, <2>2, <2>4, <2>5, <2>6 DEF AddMoves
    <3> QED
      BY <1>3, <3>1, AddPlaces
  <2>8. todo' \in [Proc -> Seq(Task)]
    BY <1>3, <2>2
  <2> QED
    BY <1>5, <1>6, <2>7, <2>8
<1>8. CASE GetLocal(p) \/ GetSharing(p)
  <2> DEFINE top == (head[p] - 1) % max_ntsks
             t == q[p][top]
  <2>1. top \in Held[p] /\ Held' = [Held EXCEPT ![p] = @ \ {top}]
    BY <1>8, HeldTake
  <2>2. /\ q' = q /\ todo' = [todo EXCEPT ![p] = job.adds[t]] /\ UNCHANGED detector
        /\ pc[p] = "get"
    BY <1>8 DEF GetLocal, GetSharing, Take
  <2>3. todo[p] = <<>>
    BY <1>2, <2>2 DEF Places, Place
  <2>4. InPlace(t) /\ t \in Task
    <3>1. InPlace(t)
      BY <2>1 DEF InPlace, Found
    <3> QED
      BY <1>3, <3>1
  <2> HIDE DEF top, t
  <2>5. /\ Held'[p] = Held[p] \ {top} /\ \A v \in Proc \ {p} : Held'[v] = Held[v]
        /\ todo'[p] = job.adds[t] /\ \A v \in Proc \ {p} : todo'[v] = todo[v]
    <3>1. Held = [v \in Proc |-> Held[v]]
      BY DEF Held
    <3> QED
      BY <1>3, <2>1, <2>2, <3>1
  <2>6. \A i \in DOMAIN todo'[p] : ~InPlace(todo'[p][i])
    BY <1>2, <1>3, <2>4, <2>5, NewTasks DEF Adds
  <2>7. \A i, k \in DOMAIN todo'[p] : todo'[p][i] = todo'[p][k] => i = k
    BY <1>2, <2>4, <2>5 DEF Forest
  <2>8. t = q[p][top]
    BY DEF t
  <2>9. /\ Once(Proc, Held', q, todo')
        /\ \A x : Found(Proc, Held', q, todo', x) <=>
                    \/ Found(Proc, Held, q, todo, x) /\ x # q[p][top]
                    \/ \E i \in DOMAIN todo'[p] : todo'[p][i] = x
    <3>1. \A i \in DOMAIN todo'[p] : ~Found(Proc, Held, q, todo, todo'[p][i])
      BY <2>6 DEF InPlace
    <3>2. TakeMoves(Proc, Held, q, todo, Held', todo', p, top)
      BY <2>1, <2>3, <2>5, <2>7, <3>1 DEF TakeMoves
    <3> QED
      BY <1>3, <3>2, TakePlaces
  <2>10. Executed(t)
    <3>1. \A x : Found(Proc', Held', q', todo', x) <=>
                   \/ Found(Proc, Held, q, todo, x) /\ x # t
                   \/ \E i \in DOMAIN job.adds[t] : job.adds[t][i] = x
      <4>1. \A x : Found(Proc', Held', q', todo', x) <=> Found(Proc, Held', q, todo', x)
        BY <1>1, <2>2
      <4>2. \A x : (\E i \in DOMAIN todo'[p] : todo'[p][i] = x)
                     <=> \E i \in DOMAIN job.adds[t] : job.adds[t][i] = x
        BY <2>5
      <4> QED
        BY <2>8, <2>9, <4>1, <4>2
    <3> QED
      BY <3>1 DEF Executed, InPlace, Adds
  <2>11. todo' \in [Proc -> Seq(Task)]
    BY <1>2, <1>3, <2>2, <2>4, TaskAssumption
  <2>12. TasksTyped'
    <3>1. \A x : Adds(t, x) => x \in Task
      <4>1. job.adds[t] \in Seq(Task)
        BY <1>2, <2>4, TaskAssumption
      <4> QED
        BY <4>1 DEF Adds
    <3>2. \A x : InPlace(x)' => x \in Task
      BY <1>3, <2>10, <3>1 DEF Executed
    <3> QED
      BY <1>1, <2>11, <3>2 DEF TasksTyped
  <2>13. Apart'
    BY <1>1, <2>2, <2>9 DEF Apart
  <2>14. Origins'
    BY <1>1, <1>2, <1>3, <2>4, <2>10, ExecutedOrigins
  <2> QED
    BY <1>1, <2>2, <2>4, <2>10, <2>12, <2>13, <2>14 DEF PoolInv
<1>9. CASE Copy(p)
  <2>1. PICK u \in Proc : u = victim[p]
    BY <1>2 DEF QueueTypes
  <2> DEFINE n == NSteal(p)
             b == sq[p].ps.tail
  <2>2. Loot(p) \subseteq Held[u] /\ Held' = [Held EXCEPT ![u] = @ \ Loot(p)]
    BY <1>9, <2>1, HeldCopy
  <2>3. /\ q' = q /\ todo' = [todo EXCEPT ![p] = [i \in 1 .. n |-> q[u][b + i - 1]]]
    BY <1>9, <2>1 DEF Copy
  <2>4. todo[p] = <<>> /\ n \in Nat /\ b \in Int /\ Loot(p) = {b + i : i \in 0 .. n - 1}
    <3>1. sq[p].ps.size_shared > 0 /\ todo[p] = <<>> /\ sq[p].ps \in State
      BY <1>2, <1>9 DEF Copy, Places, Place, QueueTypes
    <3>2. n \in 1 .. sq[p].ps.size_shared /\ sq[p].ps.size_shared \in Nat
      BY <1>2, <3>1, Steal DEF State
    <3>3. b \in Int
      BY <3>1 DEF State, Slot
    <3> QED
      BY <3>1, <3>2, <3>3 DEF Loot
  <2> HIDE DEF n, b
  <2>5. /\ Held'[u] = Held[u] \ {b + i : i \in 0 .. n - 1}
        /\ \A v \in Proc \ {u} : Held'[v] = Held[v]
        /\ todo'[p] = [i \in 1 .. n |-> q[u][b + i - 1]]
        /\ \A v \in Proc \ {p} : todo'[v] = todo[v]
    <3>1. Held = [v \in Proc |-> Held[v]]
      BY DEF Held
    <3> QED
      BY <1>3, <2>2, <2>3, <2>4, <3>1
  <2>6. \A i \in 1 .. n : b + i - 1 \in Held[u]
    <3> SUFFICES ASSUME NEW i \in 1 .. n PROVE b + i - 1 \in Held[u]
      OBVIOUS
    <3>1. i - 1 \in 0 .. n - 1 /\ b + i - 1 = b + (i - 1)
      BY <2>4
    <3> QED
      BY <2>2, <2>4, <3>1
  <2>7. /\ Once(Proc, Held', q, todo')
        /\ \A x : Found(Proc, Held', q, todo', x) <=> Found(Proc, Held, q, todo, x)
    <3>1. CopyMoves(Proc, Held, q, todo, Held', todo', p, u, n, b)
      BY <2>4, <2>5, <2>6 DEF CopyMoves
    <3> QED
      BY <1>3, <3>1, CopyPlaces
  <2>8. todo' \in [Proc -> Seq(Task)]
    <3>1. \A s \in Held[u] : q[u][s] \in Task
      BY <1>3 DEF InPlace, Found
    <3>2. [i \in 1 .. n |-> q[u][b + i - 1]] \in Seq(Task)
      <4> DEFINE f == [i \in 1 .. n |-> q[u][b + i - 1]]
      <4>1. f \in [1 .. n -> Task]
        BY <2>6, <3>1
      <4> HIDE DEF f
      <4>2. f \in Seq(Task)
        BY <2>4, <4>1, SeqDef
      <4> QED
        BY <4>2 DEF f
    <3> QED
      BY <1>3, <2>3, <3>2
  <2> QED
    BY <1>5, <1>6, <2>3, <2>7, <2>8
<1>10. CASE ~(AddTask(p) \/ GetLocal(p) \/ GetSharing(p) \/ Copy(p))
  <2>1. Held' = Held
    BY <1>10, HeldStays
  <2>2. q' = q
    BY <1>2, <1>10, SlotFrame
  <2>3. todo' = todo
    BY <1>10 DEF Step, LockedStep, UpdateVtail1, ShareNothing, GetShared, GetNothing, Vote, Clean,
       TryLock, Look, Unlock, PutState, Share, Acquire
  <2>4. AllSame
    BY <1>6, <2>1, <2>2, <2>3
  <2> QED
    BY <1>3, <1>5, <2>1, <2>2, <2>3, <2>4
<1> QED
  BY <1>7, <1>8, <1>9, <1>10

\* A step of no process in particular leaves all tasks where they are.
LEMMA PoolRest ==
    ASSUME SlotsInv, PoolInv, UNCHANGED <<nproc, job, q, owner, ps, thief, todo>>,
           pc' = pc \/ \A p \in Proc : pc[p] = "barrier" /\ pc'[p] = "get"
    PROVE  PoolInv' /\ AllSame
<1>1. Proc' = Proc /\ Slot' = Slot /\ max_ntsks' = max_ntsks
  BY DEF Proc, Slot, max_ntsks
<1>2. \A r \in Proc : /\ Looting(r)' <=> Looting(r)
                      /\ Loot(r)' = Loot(r) /\ victim'[r] = victim[r]
  BY <1>1 DEF Looting, Loot, NSteal, thief
<1>3. \A v \in Proc : Booty(v)' = Booty(v) /\ Queued(v)' = Queued(v)
  BY <1>1, <1>2 DEF Booty, Queued, owner
<1>4. Held' = Held
  BY <1>1, <1>3 DEF Held
<1>5. AllSame
  BY <1>1, <1>4 DEF AllSame, InPlace
<1>6. TasksTyped'
  BY <1>1, <1>5 DEF PoolInv, TasksTyped, AllSame
<1>7. Apart'
  BY <1>1, <1>4 DEF PoolInv, Apart
<1>8. Origins'
  BY <1>5, SameOrigins DEF PoolInv
<1> QED
  BY <1>5, <1>6, <1>7, <1>8 DEF PoolInv

LEMMA PoolAnyStep ==
    ASSUME Forest, SlotsInv, SlotsFreedLate, SlotsInv', PoolInv, [Next]_vars
    PROVE  /\ PoolInv'
           /\ \/ AllSame
              \/ (UNCHANGED detector) /\ \E t \in Task : InPlace(t) /\ Executed(t)
<1>1. ASSUME NEW p \in Proc, Step(p) \/ LockedStep(p)
      PROVE  /\ PoolInv'
             /\ \/ AllSame
                \/ (UNCHANGED detector) /\ \E t \in Task : InPlace(t) /\ Executed(t)
  BY <1>1, PoolStep
<1>2. CASE Barrier \/ Over \/ UNCHANGED vars
  <2>1. /\ UNCHANGED <<nproc, job, q, owner, ps, thief, todo>>
        /\ pc' = pc \/ \A p \in Proc : pc[p] = "barrier" /\ pc'[p] = "get"
    BY <1>2 DEF Barrier, Over, vars, shared
  <2> QED
    BY <2>1, PoolRest
<1>3. ASSUME NEW p \in Proc, Transfer(p) PROVE PoolInv' /\ AllSame
  <2>1. UNCHANGED <<nproc, job, q, owner, ps, thief, todo>> /\ pc' = pc
    BY <1>3 DEF Transfer, ShiftArrives, shared
  <2> QED
    BY <2>1, PoolRest
<1> QED
  BY <1>1, <1>2, <1>3 DEF Next

\* What remains to be executed is what is somewhere.
Located == \A x : x \in Remaining <=> InPlace(x)

LEMMA RemainingLocated == SlotsInv => Located
<1> SUFFICES ASSUME SlotsInv, NEW x PROVE x \in Remaining <=> InPlace(x)
  BY DEF Located
<1>1. \A r \in Proc : Looting(r) => victim[r] \in Proc /\ \A s \in Loot(r) : s \in Slot
  BY DEF SlotsInv, StealInv, Types, QueueTypes, Loots, Behind
<1>2. \A v \in Proc : Held[v] = Queued(v) \cup Booty(v)
  BY DEF Held
<1>3. ASSUME x \in Remaining PROVE InPlace(x)
  <2>1. PICK p \in Proc : x \in InQueue(p) \/ x \in Stolen(p) \/ x \in Listed(todo[p])
    BY <1>3 DEF Remaining
  <2>2. CASE x \in InQueue(p)
    BY <1>2, <2>2 DEF InQueue, InPlace, Found
  <2>3. CASE x \in Stolen(p)
    <3>1. Looting(p)
      BY <2>3 DEF Stolen
    <3>2. PICK s \in Loot(p) : x = q[victim[p]][s]
      BY <2>3, <3>1 DEF Stolen
    <3>3. victim[p] \in Proc /\ s \in Booty(victim[p])
      BY <1>1, <3>1 DEF Booty
    <3> QED
      BY <1>2, <3>2, <3>3 DEF InPlace, Found
  <2>4. CASE x \in Listed(todo[p])
    BY <2>4 DEF Listed, InPlace, Found
  <2> QED
    BY <2>1, <2>2, <2>3, <2>4
<1>4. ASSUME InPlace(x) PROVE x \in Remaining
  <2>1. CASE \E v \in Proc : \E s \in Held[v] : q[v][s] = x
    <3>1. PICK v \in Proc : \E s \in Held[v] : q[v][s] = x
      BY <2>1
    <3>2. PICK s \in Held[v] : q[v][s] = x
      BY <3>1
    <3>3. CASE s \in Queued(v)
      BY <3>2, <3>3 DEF Remaining, InQueue
    <3>4. CASE s \in Booty(v)
      <4>1. PICK r \in Proc : Looting(r) /\ victim[r] = v /\ s \in Loot(r)
        BY <3>4 DEF Booty
      <4> QED
        BY <3>2, <4>1 DEF Remaining, Stolen
    <3> QED
      BY <1>2, <3>3, <3>4
  <2>2. CASE \E v \in Proc : \E i \in DOMAIN todo[v] : todo[v][i] = x
    BY <2>2 DEF Remaining, Listed
  <2> QED
    BY <1>4, <2>1, <2>2 DEF InPlace, Found
<1> QED
  BY <1>3, <1>4

\* Who knows of the end knows that nothing remains.
NothingRemains == (\E p \in Proc : hasTerminated(p)) => Remaining = {}

LEMMA EndTold == StealInv /\ DetectedWhenDone => NothingRemains
<1> SUFFICES ASSUME StealInv, \A p \in Proc : Idle(p), NEW x \in Remaining PROVE FALSE
  BY DEF DetectedWhenDone, NothingRemains
<1>1. PICK p \in Proc : x \in InQueue(p) \/ x \in Stolen(p) \/ x \in Listed(todo[p])
  BY DEF Remaining
<1>2. /\ size_local[p] = 0 /\ ps[p].size_shared = 0 /\ todo[p] = <<>> /\ ~Looting(p)
  BY DEF Idle
<1>3. Queued(p) = {}
  BY <1>2 DEF Queued
<1> QED
  BY <1>1, <1>2, <1>3 DEF InQueue, Stolen, Listed

LEMMA EndStays ==
    ASSUME DetectorTypes, [Next]_vars
    PROVE  Proc' = Proc /\ \A p \in Proc : hasTerminated(p) => hasTerminated(p)'
<1>1. Proc' = Proc
  BY Constants DEF vars, Proc
<1>2. ASSUME UNCHANGED pdecision PROVE \A p \in Proc : hasTerminated(p) => hasTerminated(p)'
  BY <1>2 DEF hasTerminated
<1>3. ASSUME NEW p \in Proc, Progress(p, Clear(p))
      PROVE  \A r \in Proc : hasTerminated(r) => hasTerminated(r)'
  BY <1>3 DEF Progress, ProgressEnded, ProgressUp, ProgressRoot, ProgressDown, ProgressWaits,
     hasTerminated, DetectorTypes
<1>4. ASSUME NEW p \in Proc, DecisionArrives(p)
      PROVE  \A r \in Proc : hasTerminated(r) => hasTerminated(r)'
  BY <1>4 DEF DecisionArrives, hasTerminated, DetectorTypes
<1>5. ASSUME NEW p \in Proc, Step(p) \/ LockedStep(p) PROVE UNCHANGED pdecision \/ Vote(p)
  BY <1>5 DEF Step, LockedStep, AddTask, UpdateVtail1, ShareNothing, GetLocal, GetShared,
         GetNothing, Clean, TryLock, Look, PutState, Unlock, Copy, Share, GetSharing, Acquire,
         detector
<1>6. ASSUME Barrier \/ Over \/ UNCHANGED vars PROVE UNCHANGED pdecision
  BY <1>6 DEF Barrier, Over, vars, detector
<1>7. ASSUME NEW p \in Proc, NEW v \in Proc, ShiftArrives(p, v) PROVE UNCHANGED pdecision
  BY <1>7 DEF ShiftArrives, detector
<1> QED
  BY <1>1, <1>2, <1>3, <1>4, <1>5, <1>6, <1>7 DEF Next, Transfer, Vote, Clear

\* One step of the task collection is a step of the pool, or none.
LEMMA PoolRefined ==
    ASSUME StealInv, Located, Located', NothingRemains', [Next]_vars,
           \/ AllSame
           \/ (UNCHANGED detector) /\ \E t \in Task : InPlace(t) /\ Executed(t)
    PROVE  [Pool!PoolNext]_<<[t \in Task |-> Listed(job.adds[t])], Remaining,
                            {p \in Proc : hasTerminated(p)}>>
<1> DEFINE adds == [t \in Task |-> Listed(job.adds[t])]
           ended == {p \in Proc : hasTerminated(p)}
<1>1. adds' = adds
  <2>1. job' = job
    BY Constants DEF vars
  <2> QED
    BY <2>1 DEF Listed
<1>2. ended \subseteq ended'
  BY EndStays DEF StealInv, Types
<1>3. CASE AllSame
  <2>1. Remaining' = Remaining
    BY <1>3 DEF Located, AllSame
  <2>2. CASE ended' = ended
    BY <1>1, <2>1, <2>2
  <2>3. CASE ended' # ended
    <3>1. \E p \in Proc' : hasTerminated(p)'
      BY <1>2, <2>3
    <3>2. Remaining = {}
      BY <2>1, <3>1 DEF NothingRemains
    <3>3. Pool!End
      BY <1>1, <1>2, <2>1, <3>2 DEF Pool!End
    <3> QED
      BY <3>3 DEF Pool!PoolNext
  <2> QED
    BY <2>2, <2>3
<1>4. ASSUME UNCHANGED detector, NEW t \in Task, InPlace(t), Executed(t)
      PROVE  Pool!PoolNext
  <2>1. ended' = ended
    <3>1. Proc' = Proc
      BY EndStays DEF StealInv, Types
    <3> QED
      BY <1>4, <3>1 DEF detector, hasTerminated
  <2>2. t \in Remaining
    BY <1>4 DEF Located
  <2>3. \A x : x \in adds[t] <=> Adds(t, x)
    BY DEF Listed, Adds
  <2>4. \A x : x \in Remaining' <=> (x \in Remaining /\ x # t) \/ Adds(t, x)
    BY <1>4 DEF Located, Executed
  <2>5. Remaining' = (Remaining \ {t}) \cup adds[t]
    BY <2>3, <2>4
  <2>6. Pool!Execute(t)
    BY <1>1, <2>1, <2>2, <2>5 DEF Pool!Execute
  <2> QED
    BY <2>6 DEF Pool!PoolNext
<1> QED
  BY <1>3, <1>4

\* A task collection does what a pool of tasks promises, as long as no slot is
\* freed early: each task is executed once, wherever it was moved, and nobody
\* sees the end before.  The tasks are told apart: each is added by the program
\* or by one other task.
THEOREM TasksExecutedOnce ==
    ASSUME Roomy, Forest
    PROVE  Spec /\ []SlotsFreedLate => ImplementsTaskPool
<1> DEFINE Inv == SlotsInv /\ PoolInv
<1>1. Init => Inv
  BY InitSteals, InitSlots, InitPool DEF SlotsInv
<1>2. Inv /\ SlotsFreedLate /\ [Next]_vars => Inv'
  BY SlotsStep, PoolAnyStep
<1>3. Inv => StealInv /\ Located
  BY RemainingLocated DEF SlotsInv
<1>4. StealInv /\ DetectedWhenDone => NothingRemains
  BY EndTold
<1>5. Inv /\ Inv' /\ SlotsFreedLate /\ Located /\ Located' /\ NothingRemains' /\ [Next]_vars
        => [Pool!PoolNext]_<<[t \in Task |-> Listed(job.adds[t])], Remaining,
                            {p \in Proc : hasTerminated(p)}>>
  BY <1>3, PoolAnyStep, PoolRefined
<1>6. Init => Pool!PoolInit
  BY DEF Init, DetectorInit, hasTerminated, Pool!PoolInit
<1> HIDE DEF Inv
<1> QED
  BY <1>1, <1>2, <1>3, <1>4, <1>5, <1>6, EndDetected, PTL
     DEF Spec, ImplementsTaskPool, Pool!PoolSpec

\* Between two processes, queues of more than one slot suffice: no task is lost,
\* none is executed twice, and the end is seen in time, whatever the tasks add
\* and however steals and the moves of the owners interleave.
THEOREM PairTasksExecutedOnce ==
    ASSUME Pairs, Forest
    PROVE  Spec => ImplementsTaskPool
<1>1. Roomy
  BY DEF Pairs, Roomy
<1>2. Spec => []SlotsSound
  BY PairSlotsSound
<1>3. SlotsSound => SlotsFreedLate
  BY DEF SlotsSound
<1>4. Spec /\ []SlotsFreedLate => ImplementsTaskPool
  BY <1>1, TasksExecutedOnce
<1> QED
  BY <1>2, <1>3, <1>4, PTL

=============================================================================
