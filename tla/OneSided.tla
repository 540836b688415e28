------------------------------- MODULE OneSided -------------------------------
(***************************************************************************)
(* What the runtime promises about memory and mutexes, without messages,   *)
(* queues or progress.  Each rank has a memory.  A write travels to the    *)
(* memory of another rank in its own time, and so does a read that its     *)
(* reader does not wait for, but the accesses of one rank to another       *)
(* arrive in the order they were made.  A read sees every write its reader *)
(* made to that rank before, and none that it made later.  A read-modify-  *)
(* write is atomic.  A fence returns when the writes it covers have        *)
(* arrived.  A mutex has at most one holder.                               *)
(***************************************************************************)
EXTENDS Integers, Sequences

CONSTANTS Rank, Cell

VARIABLES
    mem,    \* the memory of each rank
    pend,   \* pend[s][d]: writes and reads of s that have not reached d
    log,    \* the values the reads of each rank obtained
    dirty,  \* dirty[s][d]: the next fence of s covers d
    held    \* the mutexes each rank holds

ovars == <<mem, pend, log, dirty, held>>

OInit ==
    /\ mem = [d \in Rank |-> [c \in Cell |-> 0]]
    /\ pend = [s \in Rank |-> [d \in Rank |-> <<>>]]
    /\ log = [s \in Rank |-> <<>>]
    /\ dirty = [s \in Rank |-> [d \in Rank |-> FALSE]]
    /\ held = [s \in Rank |-> {}]

\* A cell that a write w replaces or adds to.
Written(old, w) == IF w.op = "OP_ACC" THEN old + w.val ELSE w.val
IsRead(w)       == w.op = "OP_GET"

\* The last access of pend'[s][d] is new.
Appended(s, d) ==
    /\ Len(pend'[s][d]) = Len(pend[s][d]) + 1
    /\ pend' = [pend EXCEPT ![s][d] = Append(@, pend'[s][d][Len(pend'[s][d])])]
Newest(s, d) == pend'[s][d][Len(pend'[s][d])]

\* s writes to d.  A runtime may note it for some other ranks too.
Write(s, d) ==
    /\ Appended(s, d) /\ ~IsRead(Newest(s, d))
    /\ dirty'[s][d] /\ \A r \in Rank : dirty[s][r] => dirty'[s][r]
    /\ dirty' = [dirty EXCEPT ![s] = dirty'[s]]
    /\ UNCHANGED <<mem, log, held>>

\* s asks to read at d.
AskRead(s, d) ==
    /\ Appended(s, d) /\ IsRead(Newest(s, d))
    /\ UNCHANGED <<mem, log, dirty, held>>

\* The oldest access of s to d arrives.
Arrive(s, d) ==
    /\ pend[s][d] # <<>>
    /\ LET w == Head(pend[s][d])
       IN  IF IsRead(w)
           THEN log' = [log EXCEPT ![s] = Append(@, mem[d][w.loc])] /\ mem' = mem
           ELSE mem' = [mem EXCEPT ![d][w.loc] = Written(@, w)] /\ log' = log
    /\ pend' = [pend EXCEPT ![s][d] = Tail(@)]
    /\ UNCHANGED <<dirty, held>>

\* A write may also be done at once, when no earlier access is under way: to
\* the own memory, and where the rank reaches the other memory.
WriteNow(s, d) ==
    /\ pend[s][d] = <<>>
    /\ \E c \in Cell : mem' = [mem EXCEPT ![d][c] = mem'[d][c]]
    /\ UNCHANGED <<pend, log, dirty, held>>

Read(s, d) ==
    /\ pend[s][d] = <<>>
    /\ \E c \in Cell : log' = [log EXCEPT ![s] = Append(@, mem[d][c])]
    /\ UNCHANGED <<mem, pend, dirty, held>>

\* One step reads the old value and stores the new one.
ReadModifyWrite(s, d) ==
    /\ pend[s][d] = <<>>
    /\ \E c \in Cell :
         /\ log' = [log EXCEPT ![s] = Append(@, mem[d][c])]
         /\ mem' = [mem EXCEPT ![d][c] = mem'[d][c]]
    /\ UNCHANGED <<pend, dirty, held>>

NoWrite(q) == \A i \in DOMAIN q : IsRead(q[i])

FenceOver(s) ==
    /\ \A d \in Rank : IF dirty[s][d] THEN dirty'[s][d] \/ NoWrite(pend[s][d])
                        ELSE ~dirty'[s][d]
    /\ dirty' = [dirty EXCEPT ![s] = dirty'[s]]
    /\ UNCHANGED <<mem, pend, log, held>>

Acquire(s) ==
    /\ held[s] \subseteq held'[s]
    /\ \A d \in Rank : d # s => held[d] \cap held'[s] = {}
    /\ held' = [held EXCEPT ![s] = held'[s]]
    /\ UNCHANGED <<mem, pend, log, dirty>>

Release(s) ==
    /\ held'[s] \subseteq held[s]
    /\ held' = [held EXCEPT ![s] = held'[s]]
    /\ UNCHANGED <<mem, pend, log, dirty>>

ONext ==
    \E s \in Rank :
        \/ \E d \in Rank : \/ Write(s, d) \/ AskRead(s, d) \/ Arrive(s, d)
                           \/ Read(s, d) \/ ReadModifyWrite(s, d) \/ WriteNow(s, d)
        \/ FenceOver(s) \/ Acquire(s) \/ Release(s)

OSpec == OInit /\ [][ONext]_ovars
=============================================================================
