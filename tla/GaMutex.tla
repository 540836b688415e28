-------------------------------- MODULE GaMutex --------------------------------
(***************************************************************************)
(* The mutexes of Global Arrays (global/src/base.c): num mutexes numbered  *)
(* from 0, spread over the ranks in chunks, each GA call translated into   *)
(* the calls of the runtime it makes.  ARMCI passes them on unchanged      *)
(* (comex/src-armci/armci.c:119-128, 254-257, 563-566).                    *)
(***************************************************************************)
EXTENDS ComexState

\* GAnproc
NProc == Cardinality(Rank)

RuntimeCall(op, to, loc) ==
    <<[op |-> op, to |-> to, grp |-> Rank, loc |-> loc, val |-> 0]>>

\* chunk_mutex: the mutexes that each rank creates until there are enough
ChunkMutex(num) == (num + NProc - 1) \div NProc

\* The mutexes rank r creates when num are created together
MyShare(num, r) == IF r * ChunkMutex(num) >= num THEN 0 ELSE ChunkMutex(num)

\* pnga_create_mutexes
GaCreate(num, r) ==
    IF NProc = 1 THEN <<>> ELSE RuntimeCall("create", 0, MyShare(num, r))

\* p and m of pnga_lock and pnga_unlock: the rank whose mutex stands for GA
\* mutex number mutex, and its index there.  Neither depends on mutex.
HomeRank(num, mutex)  == num \div ChunkMutex(num) - 1
HomeIndex(num, mutex) == num % ChunkMutex(num)

\* pnga_lock and pnga_unlock of a mutex number that passes their check,
\* mutex <= num
GaLock(num, mutex) ==
    IF NProc = 1 THEN <<>>
    ELSE RuntimeCall("lock", HomeRank(num, mutex), HomeIndex(num, mutex))

GaUnlock(num, mutex) ==
    IF NProc = 1 THEN <<>>
    ELSE RuntimeCall("unlock", HomeRank(num, mutex), HomeIndex(num, mutex))

\* pnga_destroy_mutexes
GaDestroy == IF NProc = 1 THEN <<>> ELSE RuntimeCall("destroy", 0, 0)
=============================================================================
