------------------------------- MODULE MCComex -------------------------------
(***************************************************************************)
(* Programs for model checking Comex, and the properties that are about    *)
(* what those programs compute.                                            *)
(***************************************************************************)
EXTENDS ComexInv, GaMutex, SequencesExt

Rank2 == 0 .. 1
Rank3 == 0 .. 2

C(op, to, grp, loc, val) ==
    [op |-> op, to |-> to, grp |-> grp, loc |-> loc, val |-> val]

InitCall     == <<C("init", 0, Rank, 0, 0)>>
FinalizeCall == <<C("finalize", 0, Rank, 0, 0)>>
Barrier(g)   == <<C("barrier", 0, g, 0, 0)>>
Put(p, n, v) == <<C("put", p, {}, n, v)>>
PutNext(p)   == <<C("putnext", p, {}, 1, 0)>>
Acc(p, n, v) == <<C("acc", p, {}, n, v)>>
Get(p, n)    == <<C("get", p, {}, n, 0)>>
Wait         == <<C("wait", 0, {}, 0, 0)>>
Fence(ps)    == <<C("fence", 0, ps, 0, 0)>>
FetchAdd(p, v)  == <<C("fadd", p, {}, 0, v)>>
Swap(p, v)      == <<C("swap", p, {}, 1, v)>>
Create(n)       == <<C("create", 0, {}, n, 0)>>
Destroy         == <<C("destroy", 0, Rank, 0, 0)>>
LockOf(m, p)    == <<C("lock", p, {}, m, 0)>>
UnlockOf(m, p)  == <<C("unlock", p, {}, m, 0)>>

\* comex_malloc, comex_free
Malloc(g) == <<C("alloc", 0, {}, 0, 0)>> \o Barrier(g) \o <<C("gather", 0, g, 0, 0)>>
Free(g)   == <<C("release", 0, {}, 0, 0)>> \o Barrier(g)

-----------------------------------------------------------------------------
(* Mutexes.  As in python/tests/test.py:509-531, every rank increments a   *)
(* shared counter under a mutex: read, write back plus one, release.       *)

\* The mutex and the counter are on the same rank: no fence is needed.
IncrementUnfenced(m, p) ==
    LockOf(m, p) \o Get(p, 1) \o PutNext(p) \o UnlockOf(m, p)

\* The counter is on another rank than the mutex: fence before the release.
IncrementFenced(m, p, d) ==
    LockOf(m, p) \o Get(d, 1) \o PutNext(d) \o Fence({d}) \o UnlockOf(m, p)

\* Creation is followed by a barrier, as GA programs that synchronise do.
LockTest(body) ==
    Create(1) \o Barrier(Rank) \o body \o Destroy

\* The counter on the rank of the mutex, which is one of two clients; or on one
\* of two clients that are not the rank of the mutex
LockPrograms ==
    { [r \in Rank |-> LockTest(IF r = 2 THEN <<>> ELSE IncrementUnfenced(0, 0))
                      \o FinalizeCall],
      [r \in Rank |-> LockTest(IF r = 0 THEN <<>> ELSE IncrementFenced(0, 0, 1))] }

\* Two mutexes of one rank and one of another, taken one inside the other in
\* the same order everywhere, and a mutex locked twice in a row.
NestedLocks(r) ==
    CASE r = 0 -> LockOf(0, 0) \o LockOf(1, 0) \o UnlockOf(1, 0) \o UnlockOf(0, 0)
      [] r = 1 -> LockOf(1, 0) \o UnlockOf(1, 0) \o LockOf(1, 0) \o UnlockOf(1, 0)
      [] r = 2 -> LockOf(0, 0) \o LockOf(0, 1) \o UnlockOf(0, 0) \o UnlockOf(0, 1)

LockLivePrograms ==
    { [r \in Rank |->
         Create(IF r = 2 THEN 0 ELSE 2 - r) \o Barrier(Rank)
         \o NestedLocks(r) \o FinalizeCall] }

\* What the increments of "putnext" calls on rank d should add up to.
Increments(d) ==
    Cardinality({<<r, i>> \in Rank \X (1 .. 16) :
        /\ i \in DOMAIN prog[r]
        /\ prog[r][i].op = "putnext"
        /\ prog[r][i].to = d})

\* No increment is lost: between the read and the write of one critical
\* section no other rank writes, and each sees the write before it.
NoLostUpdate ==
    prog \in LockPrograms /\ (\A r \in Rank : Done(r)) =>
        \A d \in Rank : mem[d][0] = Increments(d)

\* An unlock of a mutex the caller does not hold.
MisusePrograms ==
    { [r \in Rank |->
         Create(1) \o Barrier(Rank)
         \o (CASE r = 0 -> LockOf(0, 1) \o UnlockOf(0, 1) \o extra
               [] r = 1 -> FinalizeCall
               [] OTHER -> LockOf(0, 1) \o UnlockOf(0, 1) \o FinalizeCall)] :
      extra \in {UnlockOf(0, 1) \o FinalizeCall,
                 UnlockOf(0, 1) \o LockOf(0, 1) \o FinalizeCall} }

\* The erroneous unlock never goes through unnoticed.
MisuseNoticed == prog \in MisusePrograms => ~ \A r \in Rank : Done(r)

\* A program that releases only what it holds never kills a rank: no
\* assertion of the runtime fails and no missing mutex is accessed
\* (comex.c:1889-1893, 1950, 2003-2007).
AbortsOnlyMisuse == aborted => prog \in MisusePrograms

\* The assertions of the runtime meet the programs that misuse it, all of them
\* and no other.
AssertionsFit == MisuseNoticed /\ AbortsOnlyMisuse

-----------------------------------------------------------------------------
(* Barriers over overlapping groups, with unfenced writes before them.  *)

G01 == {0, 1}
G12 == {1, 2}
G02 == {0, 2}

BarrierPrograms ==
    { \* a chain of two groups that share rank 1
      [r \in Rank |->
         CASE r = 0 -> Put(1, 1, 1) \o Barrier(G01) \o FinalizeCall
           [] r = 1 -> Barrier(G01) \o Acc(2, 1, 1) \o Barrier(G12) \o FinalizeCall
           [] r = 2 -> Put(0, 1, 2) \o Barrier(G12) \o FinalizeCall],
      \* all three pairs, then the world, twice in a row
      [r \in Rank |->
         CASE r = 0 -> Barrier(G01) \o Put(2, 1, 1) \o Barrier(G02) \o Barrier(Rank)
           [] r = 1 -> Barrier(G01) \o Barrier(G12) \o Barrier(Rank)
           [] r = 2 -> Barrier(G12) \o Barrier(G02) \o Barrier(Rank)] }

-----------------------------------------------------------------------------
(* The mutexes of Global Arrays on top of the runtime *)

\* Every rank locks a mutex of its own as far as there are enough; creation
\* is followed by a synchronisation, and destruction ends with one.
GaEach(num, r) ==
    GaCreate(num, r) \o Barrier(Rank)
    \o GaLock(num, r % num) \o GaUnlock(num, r % num)
    \o GaDestroy

GaPrograms == { [r \in Rank |-> GaEach(num, r)] : num \in {5} }

\* Rank 1 holds mutex 0 while it locks mutex 1; nobody else locks any.
GaNestedPrograms ==
    { [r \in Rank |->
         GaCreate(2, r) \o Barrier(Rank)
         \o (IF r = 1 THEN GaLock(2, 0) \o GaLock(2, 1)
                           \o GaUnlock(2, 1) \o GaUnlock(2, 0)
             ELSE <<>>)
         \o GaDestroy \o FinalizeCall] }

\* "Lock an object defined by the mutex number" (base.c:3723): different
\* numbers are different mutexes, and a rank may hold one and take another
\* that is free.
GaNestedReturns == <>(\A r \in Rank : Done(r))

\* Programs whose calls all return.
LivePrograms == LockLivePrograms \cup BarrierPrograms \cup GaPrograms

-----------------------------------------------------------------------------
(* Collective memory.  A program synchronises before it frees, as          *)
(* pnga_destroy does (base.c).                                             *)

\* The ranks write to each other's segments, ...
SegmentPrograms ==
    { [r \in Rank |->
         Malloc(Rank) \o Put((r + 1) % 3, 1, 1) \o Barrier(Rank) \o Free(Rank)
         \o FinalizeCall] }

\* ... and a rank releases a mutex of another outside the group of its
\* comex_malloc, which may be inside a comex_malloc with the third.
OverlapPrograms ==
    { [r \in Rank |->
         Create(1) \o Barrier(Rank)
         \o (CASE r = 0 -> LockOf(0, 2) \o UnlockOf(0, 2) \o Malloc(G01) \o Malloc(G02)
               [] r = 1 -> Malloc(G01) \o Malloc(G12)
               [] OTHER -> Malloc(G02) \o Malloc(G12))
         \o Destroy] }

\* MPI does not buffer, so that a rank which waits in the collective keeps a
\* release from being sent; all calls return nevertheless.
ReturningPrograms == LivePrograms \cup OverlapPrograms

-----------------------------------------------------------------------------
(* Read-modify-write *)

\* Fetch-and-adds and accumulates on cell 0 of rank 0, swaps on its cell 1
RmwPrograms ==
    { [r \in Rank |->
         CASE r = 0 -> Swap(0, 13) \o FinalizeCall
           [] r = 1 -> Acc(0, 1, 3) \o FetchAdd(0, 2) \o FinalizeCall
           [] OTHER -> FetchAdd(0, 1) \o Swap(0, 11) \o FinalizeCall] }

\* The read-modify-writes of r in order: the i-th returned res[r][i].
Rmws(r) == SelectSeq(prog[r], LAMBDA c : c.op \in RmwOp)

\* The values that the calls op of all ranks have returned
Results(op) ==
    UNION {{<<r, i, res[r][i]>> : i \in {j \in DOMAIN res[r] : Rmws(r)[j].op = op}} :
           r \in Rank}

\* nxtval: no two reads of a counter that only grows return the same value.
TicketsDistinct ==
    prog \in RmwPrograms => \A x, y \in Results("fadd") : x[3] = y[3] => x = y

\* The values added to cell 0 of rank d by fetch-and-adds and accumulates
Added(d) ==
    LET adds(r) == SelectSeq(prog[r], LAMBDA c : c.to = d /\ c.op \in {"acc", "fadd"})
        sum(cs) == FoldSeq(LAMBDA c, a : a + c.val, 0, cs)
    IN  FoldFunction(+, 0, [r \in Rank |-> sum(adds(r))])

\* When all programs are over nothing that was added is missing, although
\* the accumulates were never fenced.
NothingLost ==
    prog \in RmwPrograms /\ (\A r \in Rank : Done(r)) =>
        \A d \in Rank : mem[d][0] = Added(d)

\* The values that rank r swaps in
SwapValues(r) ==
    {prog[r][i].val : i \in {j \in DOMAIN prog[r] : prog[r][j].op = "swap"}}

\* A swap hands the old value to exactly one caller: what was swapped in and
\* not returned is what the cell holds.
SwapsConserve ==
    prog \in RmwPrograms /\ (\A r \in Rank : Done(r)) =>
        {0} \cup UNION {SwapValues(r) : r \in Rank}
            = {mem[0][1]} \cup {x[3] : x \in Results("swap")}

\* Read-modify-writes of several ranks are atomic, among themselves and with
\* accumulates that take another path (comex.c:1748, 1808, 498).
RmwAtomic == TicketsDistinct /\ NothingLost /\ SwapsConserve

-----------------------------------------------------------------------------
(* Puts, gets and accumulates of several blocks *)

\* One rank is the target of two others, one of which has two targets to
\* fence and waits for nothing else.
MixedPrograms ==
    { [r \in Rank |->
         CASE r = 0 -> Put(1, 1, 1) \o FinalizeCall
           [] r = 1 -> Acc(1, 1, 1) \o Wait \o FinalizeCall
           [] OTHER -> Put(0, 1, 2) \o Acc(1, 1, 5) \o Fence(Rank) \o FinalizeCall] }

\* Two ranks write and read each other's memory and their own.
MutualPrograms ==
    { [r \in Rank |->
         (CASE r = 0 -> Put(1, 2, 1) \o Get(1, 2) \o Put(1, 1, 2) \o Fence({1})
            [] r = 1 -> Put(1, 2, 3) \o Get(1, 1)
                        \o Acc(0, 2, 4) \o Get(0, 1)
            [] OTHER -> <<>>)
         \o FinalizeCall] }

\* A rank that has sends outstanding answers the gets of another; MPI does
\* not buffer.
BoundedPrograms ==
    { [r \in Rank |->
         CASE r = 0 -> Put(1, 2, 1) \o Acc(1, 2, 2) \o FinalizeCall
           [] r = 1 -> Acc(2, 2, 1) \o Get(0, 1) \o FinalizeCall
           [] OTHER -> Get(0, 2) \o Put(0, 1, 3) \o FinalizeCall] }

-----------------------------------------------------------------------------
(* The programs of the run about data, mutexes and memory: those over an MPI *)
(* that buffers, and all                                                     *)

BufferedCalls == LockPrograms \cup MisusePrograms \cup SegmentPrograms
                 \cup MixedPrograms \cup MutualPrograms \cup RmwPrograms
CallPrograms  == BufferedCalls \cup OverlapPrograms \cup BoundedPrograms

-----------------------------------------------------------------------------
(* Creation without a barrier after it, as in python/tests/test.py:514-518. *)

RacePrograms ==
    { [r \in Rank |-> InitCall \o Create(1) \o LockOf(0, 0) \o UnlockOf(0, 0)
                      \o Destroy \o FinalizeCall] }

-----------------------------------------------------------------------------
(* The theorems about barriers ask that the ranks agree on the barriers they *)
(* have in common, and on the MPI collectives that follow them.  All         *)
(* programs above do, the erroneous ones included.                           *)

ASSUME ProgramsAgree ==
    \A ps \in Programs : Matched(ps) /\ FinalizeLast(ps) /\ GathersMatched(ps)

=============================================================================
