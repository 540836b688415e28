# A verification project for the Global Arrays toolkit

The Global Arrays toolkit (GA) gives SPMD programs a one-sided view of arrays
that are spread over the processes of a job: any process may get, put or
accumulate any section without the owner taking part.  Underneath, a *runtime*
(ComEx, or the older ARMCI) turns these calls into communication.  This
directory holds TLA+ models of the parts of that stack whose correctness
depends on the order of events, TLC configurations that check them on small
instances, and theorems with proofs for TLAPS.

Two complete runtimes are modelled: the one over two-sided MPI
(`comex/src-mpi`, every rank serves the others from inside its own calls) and
the one with progress ranks (`comex/src-mpi-pr`, one rank per host serves, the
others share memory).  Both are shown to implement one abstract one-sided
memory.  Around them: the locks of ARMCI, the mutexes and non-blocking
handles of GA, its local memory allocator MA, and `tascel`, a collection of tasks
whose processes steal from each other, shown to implement an abstract pool of
tasks.

Paths below are relative to `src/`.

## 1. Inventory

| component | source | state | operations | hard because |
|---|---|---|---|---|
| message queue, progress loop | `comex/src-mpi/comex.c` 179-431 | `mq` of posted sends, `gq` of gets | `_mq_push`, `comex_make_progress`, `_make_progress_if_needed` | the loop runs inside every call and serves other ranks; sends complete when MPI says so |
| one-sided data, rmw, fence | same, 606-1128, 1666-1858 | `fence_array`, notify cells | put, acc, get (contiguous, strided, vector, nb), fetch-and-add, swap, fence, wait | writes return before they arrive; only the fence, the channel order and the barrier order them |
| barrier | same, 1131-1327 | `bq`, two masks | `comex_barrier` over any group | requests name no group, the queue grows under its own traversal |
| mutexes | same, 1861-2123 | `mutexes`, `lq` | create, destroy, lock, unlock | unlock is not acknowledged; create is local |
| memory | same, 2126-2230 | segments | `comex_malloc`, `comex_free` | blocks in an MPI collective where nothing is served; releases before its barrier |
| groups | `comex/src-mpi/groups.c` | group table | `comex_group_create`, ... | a chain of communicator merges |
| progress-rank runtime | `comex/src-mpi-pr/comex.c`, `groups.c`, `reg_cache.c` | ring of handles, registration caches, semaphores, mutex tables, `fence_array` | all calls of the interface, the server loop and its handlers | shared memory beside messages; answers without tags; flags per master, not per rank |
| other back ends | `comex/src-mpi-pt`, `-mt`, `-mpi3`, `-ofi`, `-ofa`, `-dmapp`, `-portals4` | | the same interface | threads, network hardware |
| ARMCI interface of ComEx | `comex/src-armci` | - | one call each into ComEx | - |
| ARMCI locks | `armci/src/locks` | ticket table, table of locked areas | `armci_generic_mutex_lock`, `armci_lockmem`, the handler of lock requests | blocked processes keep a ticket, areas may contain each other, tables are stored to without the native lock |
| ARMCI transport, memory | `armci/src/xfer`, `progress`, `devices`, `memory` | buffers, handles, heap | put, get, fence, `kr_malloc` | buffer reuse, completion order |
| GA mutexes | `global/src/base.c` 3687-3790 | `num_mutexes`, `chunk_mutex` | create, destroy, lock, unlock | maps a number to a rank and an index |
| GA non-blocking handles | `global/src/nbutil.c` | table of slots, pool of list elements | nb put/get/acc, wait, test | slots are reused, evicted and recognised by a tag that wraps |
| GA core | `global/src/base.c`, `onesided.c`, `decomp.c`, `ghosts.c` | array table, distributions | create, destroy, put, get, sync, fence | masks of sync, groups, distribution arithmetic |
| GA numerics | `global/src/matmul.c`, `LinAlg`, `gaf2c` | - | linear algebra, interface glue | - |
| MA | `ma/ma.c` | one segment with a heap and a stack that grow towards each other, free list | allocate, free, free a piece, push, pop, chop, inquire | splitting, coalescing and cutting the heap must agree; the length of a block depends on its address, and on an alignment that may change |
| parallel I/O | `pario` | files | disk-resident arrays | asynchronous requests |
| TCGMSG | `tcgmsg` | shared counter | send, receive, `nxtval` | counter server |
| task collection | `tascel/src/SplitQueueOpt.cc`, `TerminationDetector.cc`, `UniformTaskCollectionSplit.cc` | ring of slots with `split`, `tail` and `head`, a token, `vtail1`, `vtail2`; a tree of votes | add, get, share, acquire, steal, process | thieves write back what they read; slots are freed by comparing two counters; votes while tasks move |
| extensions, bindings | `ga++`, `python`, `gparrays`, `gfutex`, older queues of `tascel`, `cca` | - | wrappers, tasks | - |

What makes each correct, in a sentence:

* **runtimes, data**: a rank observes remote memory as if each of its writes to
  a rank arrived in the order they were made, its own reads saw all of them,
  and read-modify-writes were atomic; a fence returns when the writes it covers
  have arrived.  This sentence is the module `OneSided`.
* **barrier**: nobody leaves before all have entered; what was sent before it
  has arrived; it terminates whatever other barriers the members take part in.
* **mutexes** (of both runtimes): one holder; every waiting rank is served; the
  table is freed when nobody needs it; no answer reaches a call that is over.
* **memory**: no message names a segment that its target does not have.
* **progress ranks**: every answer goes to the call that asked for it, a handle
  serves one call at a time, every process that touches a segment has mapped it,
  a server that has left has nothing to do.
* **GA mutexes**: every number names a mutex that exists, and different numbers
  different ones.
* **GA handles**: a slot serves one call; a wait waits for the requests it was given
  for; no list element is in two lists or in none.
* **MA**: blocks neither overlap nor get lost, what a client asked for lies inside
  its block, and what an inquiry promises is granted.
* **ARMCI locks**: locked areas do not overlap, a slot of the table serves one
  process; a ticket mutex has one holder, and whoever waits is told.
* **task collection**: every task is executed once, wherever it was moved; the
  end is seen exactly when nothing is left.

`PROJECT.json` lists the hazards line by line, with the properties that cover
them; the few without one say why.

## 2. Modules

```
  ComexState      state, messages, send/receive, the progress loop
     |      \
  ComexData  ComexBarrier        put/acc/get/rmw/fence | barrier
     |           |
  ComexMemory  ComexMutex        segments, groups | create/lock/unlock/destroy
      \         /
        Comex  -------------- OneSided ------- PrComex
       /     \              (abstract)       /    |
  ComexInv   GaMutex                   PrCalls  PrServer
   |     \    |                       |     \   /
   |    MCComex                       |    PrState        MCPrComex
 ComexCallProofs                    PrComexProofs
   |           \                        |
 ComexDataProofs  ComexBarrierProofs  PrOneSidedProofs

  NbHandles       \  LocalProofs (both)
  MemoryAllocator  >  MCLocal (both)

  ArmciProc -- MemLock     \  ArmciLockProofs (both)
           \-- TicketMutex  >  MCArmciLocks (both)

  TermDetect -- TaskQueue -- TaskQueueProofs
               /    |
       TaskPool  MCTaskQueue
     (abstract)
```

| module | models |
|---|---|
| `ComexState` | the variables of a rank (`l_state`, `fence_array`, locals of a blocked call), messages (`header_t` plus payload), channels, entering and leaving `comex_make_progress` |
| `ComexData` | `_put_nbi`, `_acc_nbi`, `_get_nbi` and the strided loops around them, `comex_rmw`, `comex_fence_proc`, `comex_fence_all`, `comex_wait*` and their handlers |
| `ComexMemory` | `comex_malloc`, `comex_free`: the segment, and the MPI collective in which a rank serves nobody |
| `ComexBarrier` | `comex_barrier`, one action per stage, and the barriers of `comex_init`, `comex_finalize`, `comex_malloc`, `comex_free` and `comex_destroy_mutexes` |
| `ComexMutex` | `comex_create_mutexes`, `comex_lock`, `comex_unlock`, `comex_destroy_mutexes`, `_lq_progress`, the lock handlers |
| `Comex` | the composition, its fairness, the properties |
| `OneSided` | the abstract specification of both runtimes: memories, writes and reads on their way, fences, exclusive mutexes; no messages |
| `ComexInv` | the inductive invariants of the proofs |
| `GaMutex` | `pnga_create_mutexes`, `pnga_lock`, `pnga_unlock`, `pnga_destroy_mutexes` as the runtime calls they make |
| `PrState` | the state of the progress-rank runtime, the ring of `nb_max_outstanding` handles (`nb_get_handle_index`, `nb_wait_for_handle`), posting of receives and sends |
| `PrCalls` | the calls of a worker: direct and by message, blocking, non-blocking and packed; both fences, barrier, malloc, free, mutexes, finalize |
| `PrServer` | `_progress_server` and its handlers: data, rmw, fence, mutexes, segment registration, quit |
| `PrComex` | hosts and masters, the composition, its fairness, the properties |
| `NbHandles` | `nbutil.c`: slots, list elements, eviction, tags, wait and test, and the calls that use them for regular and block-cyclic arrays |
| `MemoryAllocator` | `ma.c`: regions, the layout of a block (`balloc_after`, `balloc_before`), `block_split`, `list_coalesce`, `block_free_heap`, the calls on heap and stack, and inquiries |
| `ArmciProc` | the processes of an ARMCI job |
| `MemLock` | `armci_lockmem`, `armci_unlockmem`: the table of locked areas, its native lock, the two stores of a release |
| `TicketMutex` | `armci_generic_mutex_lock/unlock`, `register_in_tickets`, the turn, the table of tickets, builds that poll and builds with a handler (`SERVER_LOCK`) |
| `TermDetect` | `TerminationDetector`: votes up the tree, the decision down |
| `TaskQueue` | the split queue, its lock and its thieves, and `process()` of the task collection |
| `TaskPool` | the abstract specification of a task collection: tasks that are waiting, and who has seen the end |
| `MC*` | programs (jobs) for TLC, and properties about what these programs compute |
| `*Proofs` | theorems |

### The two-sided runtime: state

* A rank is one thread.  `prog[r]` is the sequence of runtime calls it makes,
  `pc[r]` the number of the call it is in, `phase[r]` the place in that call,
  `busy[r]` whether it is inside `comex_make_progress`.
* `chan[s][d]` holds what `s` posted for `d` and `d` has not received, in the order of
  posting: MPI does not let messages of one pair, tag and communicator overtake
  each other, and the code uses one tag.  A receive takes the first message of
  any nonempty channel (`MPI_Iprobe(MPI_ANY_SOURCE)`) and runs its handler, with
  everything the handler pushes, as one step: handlers call no progress.
* `posted[r]` is `l_state.mq_size` outside the loop (inside it nobody reads
  it); `gets[r]` the length of `gq`; `notify[r]` the cell that a blocked call
  polls.  A message carries in `call` the number of the call it belongs to and
  so stands for the `notify_address` in the header, which is memory of that
  call: a response with an older number would write to freed memory, which
  `NothingLate` excludes.
* `bq`, `kept` (the `new_bq` of the traversal), `reqs`, `resps`, `nmutex`,
  `mutexes`, `lq`, `fence`, `mem` are the data structures of the code.  `held` is a
  history variable: mutexes whose lock call has returned and whose unlock has
  not been called.

### The two-sided runtime: steps

A step runs from one point where another rank can interfere to the next.  Ranks
interfere only by messages, and messages are received only inside
`comex_make_progress`; so a call is cut at its calls of that function, nested ones
included.  `Pushed` is the push with `_make_progress_if_needed`: when `mq` reaches
`MAX_NB_OUTSTANDING` the rank enters the loop in the middle of its call, and
may serve any number of requests, and receive any number of barrier requests,
before it goes on.  `Progress` enters the loop unconditionally, `Returned` is
the condition under which the loop is left.  In the MPI collective of
`comex_malloc` a rank receives nothing at all until every member has come.

A pass of the loop that receives nothing is not a step.  A job that cannot make
progress is therefore a deadlock in the model, and TLC looks for deadlocks in
every passing run of the runtimes.

### The progress-rank runtime

The largest rank of each host is its *master*; it runs no program but
`_progress_server`.  A worker reaches the memory of its own host directly
(`SameHost`), all other memory by a message to the master of that host.  A worker
posts the receive of an answer before it sends the request (`Prepost`), and all
answers have one tag, so the *n*-th answer of a master completes the *n*-th receive
posted for it: `posted[w][m]` is that list, and `AnswersInOrder` says that it always
is the list of the requests under way.  The sends and receives of a call are listed
in one handle of a ring (`TakeHandle`), which user-level handles share.

The runtime has two fences.  `comex_fence_all` asks every flagged master and waits
for the answers (`Fence`).  `comex_fence_proc`, which is GA's fence, waits only
for the worker's own sends (`FenceProc`).  `OneSided` is told that the second has
flushed as well, as its header says, by the mapping: from a `comex_fence_proc` on
until the next write to the same rank (`Relied`) nothing is dirty (`Dirty`).
`FenceFlushes` says that then nothing is under way.  The code does not ensure it
(finding 6); the jobs of `pr` keep it, and it is a premise of the refinement.

Direct accesses and handlers that read and write a cell are two steps (`srv` holds
the update a process is in the middle of), excluded only by the semaphores that the
code takes.  An assertion of the code (`COMEX_ASSERT`) sets `failed` and ends the
job.

### ARMCI locks, GA handles and MA

`MemLock` and `TicketMutex` cut the code at the loads and stores of shared memory
that can interfere: reading the turn, clearing a slot as one store or two
(`Stores`), the handler running beside the application thread (`server`).  The
handler enters a process in the table of the blocked by three stores (`StoreMutex`,
`StoreTicket`, `StoreTag`; mutex.c:280-282), and the owner, which searches that
table in its application thread, loads the mutex, the ticket and the tag of one
entry after the other (`LookAtMutex`, `LookAtTicket`, `TellBlocked`; 320-343).  Only the
search of the handler itself is one step (`Pass`): the handler does not interrupt
itself.  A tag that is not that of the request may lead anywhere, or nowhere.
Taking a ticket is one step, the `ARMCI_FETCH_AND_ADD` of the code.  `MCArmciLocks` runs both together, as `ARMCI_Acc` inside a mutex
does.  `NbHandles` is a sequential module: one process, one action per call, any order of
calls, with requests that complete by themselves.  `TestZero` is the answer 0 of a
test, which `ARMCI_Test` and ComEx define as "completed" (comex.h:656,
comex/src-armci/armci.c:555-560): the code gives it at the first complete element of
the list (nbutil.c:264), and 1 while all are under way or the list is empty.

`MemoryAllocator` is sequential too: one action per call, which succeeds; a call that
fails changes nothing.  A block is named by the address of its descriptor.  The gap
in front of the client space depends on this address and on the type, so `BytesAfter`
and `BytesBefore` compute lengths as `balloc_after` and `balloc_before` do, the latter with
the remainder of an unsigned number (`Word`).  A layout is what differs between
builds and programs: sizes and bases of types, the address of the segment, the
arguments of `MA_init`, and the alignments that the program asks for, at the start
(`numalign`) and in the middle (`later`).

### The task collection

A process is one thread.  A step goes from one access to shared memory to the
next.  What the owner does to its queue under its lock is one step, since a thief
that holds no token touches nothing but `vtail2`; a steal is cut at every transfer:
`TryLock`, `Look` (the state is read), `PutState` (it is written back with a new tail
and the mark `dirty`), `Unlock`, `Copy`, and `ShiftArrives` (the accumulate to
`vtail2`), which arrives before the next read-modify-write of its sender to that
process.  The owner reads its mark for the vote and clears it in two steps.
A vote and a decision travel by MPI; the receive of the decision is posted when the
vote is sent, so that it may be filled in at any time after that (`DecisionArrives`).
`updateVtail1` reads `*tail` twice in the source, which has no `volatile`; the model
is a build that loads it once.

### Abstractions

* A strided call is a sequence of blocks, a block one cell; a vector call a
  sequence of contiguous ones.  Index arithmetic, data types and scale factors
  are left out.
* The non-blocking calls of the two-sided back end block (they call the blocking
  ones), so they are not separate operations; those of the progress-rank back end
  are.
* `_lq_progress` walks one list for all mutexes; the model keeps a list per
  mutex in the same order, since the entries of different mutexes do not interact.
  The code runs it at the end of every pass of the loop, the model in
  the two handlers that can give it work.  Theorem `Settled` shows that no
  waiter of a free mutex is left after any step, so that in the other passes it
  would find nothing.
* The requests of a barrier are sent in any order instead of round the ring,
  fence requests in any order instead of by rank.
* An access to a mutex the table does not have is modelled as the end of the
  job (`Abort`), like a failed assertion.  In C it is undefined for a nonempty table
  and a NULL dereference for an empty one.
* In `PrComex` a header and what follows it (strides, vectors, data) are one
  message: they are sent together and the server takes them together.  The MPI
  barriers and gathers of the workers are steps of a whole group.
* Failures of MPI, out-of-memory and signals are left out: the code checks
  them by assertions and has no recovery.

## 3. Runs

| run | module | instance | shows |
|---|---|---|---|
| `runtime` | `MCComex` | 3 ranks, 1 mutex, 2 cells, bound 2; MPI buffers except for the programs with overlapping `comex_malloc` and those about the bound; 323 580 states | `MutualExclusion`, `LockQueueSettled`; `NoLostUpdate`: increments under a mutex add up, without a fence if counter and mutex share a rank, with one otherwise; `FenceSound`; `AssertionsFit`: an unlock by a rank that is not the holder never goes unnoticed, and no assertion fails in a program without one; `MemorySafe`: no message names a segment that is gone, none is late for an epoch; `DestroySafe`: the table of mutexes is freed when nobody holds, waits or has a message under way; `ImplementsOneSided`: the refinement; `RmwAtomic`: tickets are distinct, nothing that was added is lost, a swap hands a value to one caller; `SendsBounded` |
| `live` | `MCComex` | 3 ranks, mutexes on 2 ranks, nested and repeated, barriers of all pairs and the world, GA mutexes, `comex_malloc` of overlapping pairs over an MPI that does not buffer; a progress loop after every push; 170 403 states | `Termination`; `NothingLate`: no response outlives its call, and after finalize nothing is under way; `BarriersMatched`: nobody leaves before all have entered, one request per peer; `BarrierDrains`; the inductive invariant `LockInv` |
| `pr` | `MCPrComex` | 2 hosts with 2 workers and 1, a ring of 2 handles, 2 addresses, each job with and without buffering; 29 357 states | `AnswersInOrder`, `BarrierFlushes`, `MutexHeldOnce`, `QuitLast`; `ReadsSeeWrites`: accumulates add up on all three ways to a cell, critical sections see each other's writes, barriers publish; `NoFailure`: no assertion fails but where the ring is exhausted, which a comment of the code announces, programs keep the rules that theorems have as premises (`ReplacedUnused`, `Disciplined`, `FinalizedTogether`, `DirectInTurn`, `UpdatesAlone`, `FenceFlushes`), and the type invariant; `WaitCompletes`, `Termination`, `ImplementsOneSided` |
| `armci_locks` | `MCArmciLocks` | 3 processes, 2 slots, 2 mutexes, areas in lines of 4 bytes; 36 735 states | `Exclusion`, `OneSlotEach`, `MutexExclusive`, `NoTicketProblem`, `Termination` |
| `local` | `MCLocal` | handles: 3 handles, 2 slots, tags 0-2, up to 2 requests; memory: 4 layouts; symmetry of handles; 1 193 889 states | `WaitCompletes`, `TestTruthful`, `ListsSound`; `BlocksSound`, `ClientsSound`, `InquiriesHold` |
| `tasks` | `MCTaskQueue` | 2 processes with queues of 2, 3 and 4 slots, 3 with 4 slots, some over a runtime that serves a process only inside its calls; 173 233 states | `SlotsSound`, `StateKept`, `DetectedWhenDone`, `ImplementsTaskPool`, `Termination` |
| `race` | `MCComex` | 2 ranks; some 120 states | finding 1 |
| `ga_nested` | `MCComex` | 2 ranks; 86 states | finding 2 |
| `mutex_forgets` | `MCArmciLocks` | 3 processes, with handler; some 3 600 states | finding 3 |
| `pr_destroy` | `MCPrComex` | 1 host, 2 workers; some 260 states | finding 4 |
| `pr_fence` | `MCPrComex` | 2 hosts, 3 workers; some 400 states | finding 6 |
| `tasks_vtail` | `MCTaskQueue` | 3 processes, 3 slots; some 3 300 states | finding 5 |

Why these bounds:

* *Two-sided runtime.*  Two ranks are enough for a request to race its answer; three
  for two clients of one server, for a release that must wake a third rank,
  for two groups that share one member, and for data on a rank other than the
  mutex's.  Programs of four to six calls let each call meet the trail of the
  one before (late messages, flags, queue entries), the only way by which calls
  influence each other.  `MaxOutstanding` is `MAX_NB_OUTSTANDING`: 1 in `live`, a progress loop after every
  push; 2 in `runtime`, one after every other push; 8, as in `comex_impl.h`, in
  `race` and `ga_nested`, whose programs never fill it.  `Buffered` holds
  the programs that run over an MPI which may complete a send at any time (which
  admits all behaviours of an MPI that may not); the others bring out waits for a
  send, and `SendsBounded` holds for those alone.
* *Progress ranks.*  A host with two workers has all ways to a cell (owner, host,
  other host), a second host makes answers of two masters interleave.  A ring of
  two comes round in three calls.  Two addresses make a freed one come back while a
  cache could still know it.
* *ARMCI locks.*  Areas of one and two lines, with more areas than slots; mutexes
  with two waiters, so that tickets pass each other in the table.
* *Local state.*  Three handles for two slots is the smallest table that overflows,
  three tags the fewest that wrap while a handle is open.  The heaps hold two or
  three blocks, enough for a free block between used ones and for every split
  and merge; the unit is four bytes, with types longer than `ALIGNMENT`, no multiple of
  it, and with bases off it below and above the segment.
* *Tasks.*  A queue of two slots wraps and fills; a steal of half of three or four
  slots leaves both sides something; three processes make a tree with two
  children.  With two thieves the queue must not come round: finding 5 says why.

`PROJECT.json` gives a mutant for each property of each passing run: a plausible
bug in the modelled code under which TLC finds the property violated.

TLC looks for deadlocks in every run but two, where the job really stops.  In
`ga_nested` the rank polls for a message nobody will send; what is checked there is
that the program ends.  In `armci_locks` the wake-up that finding 3 loses stops the
one job where the owner and a process served by the handler lock the same mutex
(`SharedJob` with a handler); `Termination` leaves out just this job (`MayForget`), and no
other job of the run stops.

### Fairness

* `Comex`: each rank is weakly fair: while it can receive a message or take its
  next local step it eventually does.  A rank is a process that runs its calls and
  polls in a loop without conditions.  The receive and the local steps share one
  condition, since nothing obliges the loop to prefer one.  Completion of a
  send is assumed only after it was received: MPI may buffer, but does not promise
  it.  A rank serves others only while it is inside a call, so programs end
  with `comex_finalize`, as real ones must (or with a barrier over all ranks,
  which does the same work).
* `PrComex`: each worker and each server is weakly fair, and a collective whose
  members have all come completes.
* `MCArmciLocks`: each process, the handler (a thread of its own) and the arrival of
  puts are weakly fair.
* `TaskQueue`: each process, the arrival of transfers and the MPI barrier are weakly
  fair, as far as the runtime below is served.  With ARMCI's server or a progress
  rank (`async`) it always is.  Over `comex/src-mpi` a process serves others only inside
  its own calls, and neither the spin of `addTask` (SplitQueueOpt.cc:262-264) nor
  `MPI_Barrier` at the end (Comm.cc:17-19) is one: what goes to such a process, the
  increment of `vtail2` included, arrives under no fairness (`Served`).  For jobs over
  such a runtime `Termination` therefore says less: one process comes to the end, or
  one spins for ever on a full ring.  Both happen, see below.  The token of a process's own queue is taken with strong fairness: the
  owner asks for it again and again, and a thief gives up after ten attempts and
  turns to others, so that the token is free infinitely often and no thief is
  always the faster one.

### Findings

1. `race`: `comex_create_mutexes` (comex.c:1999) has no barrier.  A lock request can
   reach a rank that has not created its mutexes; `_lq_progress` then reads
   `l_state.mutexes[id]` with `mutexes == NULL` (comex.c:1950).  The header calls
   the function collective, and the repository's tests lock right after it
   (`python/tests/test.py:514-518`, `global/testing/lock.c:92-98`).
2. `ga_nested`: `pnga_lock` computes the home of a mutex from `num_mutexes`,
   not from its argument (base.c:3735-3736).  All GA mutexes are one, and a rank that
   holds one and takes another waits for itself.
3. `mutex_forgets`: in builds with `SERVER_LOCK` the handler of a lock request
   reads the turn first and enters the process in the table of the blocked
   later (mutex.c:273-282); a release of the owner in between finds nobody to tell.
4. `pr_destroy`: an unlock of a mutex of the smallest worker of a host, by another
   worker, may be overtaken by the destruction of the mutexes: the barrier of
   `comex_destroy_mutexes` fences only masters that have puts or accumulates.
   The assertion that mutexes are free fails in the master.
5. `tasks_vtail`: a thief writes back the whole state of a queue, `vtail2`
   included; an increment by another thief in between is lost.
6. `pr_fence`: `comex_fence_proc` of `src-mpi-pr` (comex.c:768-778) waits for the caller's
   sends and asks no master, so that a put may still be in the channel when it
   returns.  The header promises a flush (comex.h:551), and `ARMCI_Fence`, `pnga_fence`,
   the sync of a group (onesided.c:118) and `python/tests/test.py:518-526` build on it:
   there, the next holder of the mutex may read the old value.  `comex_fence_all`
   (`ARMCI_AllFence`, the sync of the world) does flush.

Known from the models and without a run of their own:

* A program with more GA handles unwaited than slots can have a wait return with
  requests under way: an evicted slot stays marked as free (nbutil.c:171), and the
  next request overwrites its tag.  `EveryWaitCompletes` fails for it; `WaitCompletes` is
  about the others (`Modest`).  The handles of block-cyclic arrays are not initialised
  (onesided.c:1927), so that a used one may name the slot of another call
  (`NbCallCyclic`).
* The conflict test of `armci_lockmem` looks only at the end points of the new area,
  so that an area around a locked one is granted: `AreasExclusive` fails, and
  `Exclusion` has the premise `NoneWithin`.  Where a release is two stores, a slot that
  looks free may still be written to, hence the other premise, `whole`.
* In builds with `SERVER_LOCK` the owner may read the mutex of an entry from one request
  and the ticket from the next, because the handler stores them one by one
  (mutex.c:280-282 against 324).  Let the owner lock and release mutex 0, a process of
  its node do so while it holds mutex 1, and a far process ask for mutex 1: the owner
  loads mutex 0 from the entry of the far process, the handler stores mutex 1 and
  ticket 1 there, and the owner loads ticket 1, which it has to pass on for mutex 0.
  The far process is told that it has mutex 1, while the near one holds it;
  `MutexExclusive` fails after 21 steps.  The jobs of `armci_locks` keep `WholeEntries`, an assumption that TLC evaluates: the owner
  never searches the table, or a process not near it locks mutex 0 only, which is
  what a fresh page holds.  The theorems have the same premise as a state predicate.
* A test of a GA handle answers 0, "completed", as soon as one request of the call is
  complete (nbutil.c:264), and 1 for ever if the only element was taken over for
  another call.  `TestTruthful` is for calls whose list has one element at most
  (`Single`) and fails without that premise.  `pario/dra/disk.arrays.c:1663` takes 0 for
  "ga op not complete".
* Over `comex/src-mpi` a full ring of tasks hangs: the owner spins in `addTask` without a
  call to the runtime, and the increment that would free slots is never applied
  (the `Wide` job of `UnservedJobs`, 31 steps).  And whoever comes to the last barrier
  serves nobody, so that the others need not end.
* The table of the blocked is used as `malloc` leaves it: a number in it that happens to
  be a ticket is taken for a waiting process (premise `CleanFill`).
* With two thieves and a queue that comes round, `addTask` can overwrite a task that has
  yet to be copied (`SlotsSound` with `ThiefJobs`).  A build that loads `*tail` twice in
  `updateVtail1` has this with one thief.  MPI may fill in the decision before
  `MPI_Test` says so (TerminationDetector.cc:94); a process then does not pass it on, and
  with four processes or more one is never told.
* In `comex/src-mpi-pr` the handlers of fetch-and-add and swap take no semaphore
  (comex.c:2954), and an update can be lost between them and a direct accumulate
  of the same cell.  `comex_test` makes no progress by itself.
* `MA_free_heap_piece` after `MA_set_numalign` was lowered: the length is computed anew
  for a client space that is where it was, so that the cut goes through the space
  that is kept (ma.c:2228).  `ClientsInside` says so by `Still`.
  `MA_inquire_heap_no_partition` leaves out what free blocks have beyond the
  partition although the result is said to be the largest piece (2801).
  `MA_inquire_stack_check_heap` (2940) can promise what is not granted.  The
  unsigned remainder of `balloc_before` (758) misaligns types whose base is above
  the client and whose length does not divide the number of words.

One fact that is no finding, but was unexpected: `BarrierDrains` excludes messages of a
rank to itself.  `comex_unlock` of one's own mutex posts a message to oneself,
and a barrier sends nothing behind it, so with a buffering MPI the barrier can
be over before the message was received.  `comex_destroy_mutexes` goes on to
poll until its mutexes are unused, and the mutant that takes this away breaks
`DestroySafe`.

## 4. Theorems

Each is about every value of the constants that satisfies the named
assumptions: any number of processes, any bounds, any programs.

**Two-sided runtime, types and mutexes** (`ComexCallProofs`; assumptions
`RankAssumption`, `BoundAssumption`, `ProgramAssumption`: ranks are finitely many
numbers, bounds are numbers, programs are sequences of calls whose cells exist; they
may be wrong in any other way).

* `TypeCorrect`: `Spec => []TypeOK`.  Not inductive alone: a block counter must stay
  below the number of blocks, a phase must belong to the call the rank is in.
  `ControlOK` says so; `TypeInv == TypeOK /\ ControlOK` is inductive.  That a handler
  only reaches existing cells and mutex entries is part of it.
* `LockPath`: `Spec => []LockInv`, and `Exclusion`: `Spec => []MutualExclusion`.
  Exclusion of holders says nothing of the grants on their way, so it cannot be
  inductive.  A lock call leaves one trace at a time: its request on the
  way (`TagInv`, and no unlock behind it, `OrderInv`), an entry of the queue
  (`QueueInv`), a response on its way (`GrantInv`), the notify cell at zero
  (`GrantedInv`), the mutex held (`HeldInv`).  From the grant on, the server's
  table names the caller, and no unlock message of the caller for that mutex is
  on its way, so that nobody can take it from him.  Two holders would both be the
  one entry of the table.  The induction goes through frame conditions: named
  reasons why a step does not disturb a part of the invariant, proved once per
  kind of step and used by each action.
* `Settled`: `Spec => []LockQueueSettled`, the justification of where the model runs
  `_lq_progress`.

**Two-sided runtime, requests and answers** (`ComexCallProofs`; the same assumptions).

* `CallTraces`: `Spec => []CallInv`.  A call that asks another rank for something
  leaves a trace there: the request on its way, an entry of `bq`, `new_bq` or `lq`, the
  response on its way.  `Open(r, p)` is the number of traces that `r` has at `p`.
  `CallInv` says that all of them are of the call in progress (`MessagesPresent`,
  `QueuesPresent`) and that their number is what the call waits for (`Counted`: the
  length of `gq` for a get, `*notify` for a lock, rmw or fence, the two masks for a
  barrier).  Every step leaves the traces alone, turns one into the next, adds one
  together with the counter, or takes one away together with it.
* `ResponsesCurrent`: `Spec => []NoStaleResponse`, and `RequestsApart`:
  `Spec => []OneRequestPerPeer`.  Both hold in every program, erroneous ones included,
  and are read off `CallInv`.

**Two-sided runtime, data** (`ComexDataProofs`).

* `FenceArray`: `Spec => []FenceSound`.  A flag is cleared when the answer to a fence
  arrives; `FenceInv` says why no write can then be under way: behind a request its
  sender posts no write (`WritesAhead`: it waits), so that a write which is still in the
  channel has the fence request behind it, and that has not been answered.
* `Implements`: `Spec => ImplementsOneSided`, the refinement, without premises on
  the programs.  A write of `OneSided` is on its way while its message is
  (`Writes` takes the messages of that kind from a channel, in their order), and a read
  happens when the target serves it: `log` is what the call has returned followed by the
  values in the answers under way (`Values`).  A get or rmw is served at the head of its
  channel, hence after all writes of its reader to that target, since a channel has no
  overtaking; and since a call has one target, its answers come from one channel
  only, in the order in which they were asked for (`CallInv`).  `FenceOver` needs
  `FenceInv`, `Acquire` needs the invariant of the mutexes.  Each action of `Next` maps to
  a step of `OneSided` or to a stutter; one lemma each.

**Two-sided runtime, barriers** (`ComexBarrierProofs`).

* `BarrierCounts`: `Spec => []BarrierInv`, in every program.  A request names no group,
  so that a rank cannot know which barrier a request is for.  What two ranks do
  agree on is a number: the barriers that `p` has left with `q` in the group,
  plus one if `q` has answered the one `p` is in, plus one if `q` still has to, are the
  barriers with `p` in the group in which `q` has got all requests (`AnswersCounted`).
  `Behind`, `RequestTaken` and `SentAfter` say that what is under way was sent after the
  barriers that its receiver has completed.
* `BarriersMeet`, `BarriersDrain`, `NothingComesLate`: `BarriersMatched`,
  `BarrierDrains` and `NothingLate`, for programs that agree on their barriers
  (`Matched`): the *k*-th barrier that two ranks have in common is over the same group
  on both, and a `comex_finalize` on both or on none.  That is what calling a collective
  in the same order means; the number of calls in between, the groups and
  their overlaps are arbitrary, and nothing is said of the barriers of ranks that have
  none in common.  Under this premise a count of common barriers fixes the count for
  each group (`GroupsPaired`).  `NothingComesLate` also asks that programs end
  with `comex_finalize` if they call it (`FinalizeLast`).  The premises are not
  vacuous: `ProgramsAgree` in `MCComex` has TLC evaluate them for all programs of every
  run of the module.
* `MemoryOrdered`: `MemorySafe`, for programs that agree on their barriers and on the
  MPI collectives that follow them (`GathersMatched`; `comex_malloc` is such a pair).
  What is under way to a rank was sent after exactly as many common barriers as the rank
  is complete in (`SentBetween`: `SentAfter` gives one bound, `AnswersCounted` the other).
  Hence a message finds the segments that a barrier before it made and none
  after it freed (`SegmentSafe`, about calls whose segment is there between those two
  barriers, `Covered`, and in need of no premise at all); and a message to a rank inside
  `MPI_Allgather` is of a call that its sender made after its own part in the same
  collective (`EpochEnds`).
* `SendsStayBounded`: `Spec => []SendsBounded`, in every program.  `SendInv` says that
  `posted` is a bound of what is under way outside the loop.  It is reset on entry to
  the loop, while messages are still under way and answers add to them; that is sound
  only because the loop is left when all have been received.

**Progress-rank runtime** (`PrComexProofs`, and `PrOneSidedProofs` for the last theorem;
`RankAssumption`, `BoundAssumption`, `NameAssumption` and `JobAssumption`: programs name
workers, and wait for handles in their variables).  A theorem with a premise on the programs says so, as a state predicate
that TLC checks in every job of `pr` (it is part of `NoFailure`); the others hold of
programs that exhaust the ring, unlock what they do not hold, or fail an assertion.

* `PrInvariant`: `Spec => []PrInv`, the inductive invariant.  `Paired` is about one worker
  and one master: requests and posted receives are each in the order of their calls,
  every request that is answered has a receive, every receive has such a request or is of
  a call whose request waits in the queue of a mutex, and then nothing else is under way.
  The difficult step is the grant in `UnlockHandler`, which answers another worker than
  the one whose message it handles: it must find exactly one receive (`QueuedOnce`).
  `Flushed`: a write under way is flagged, while a fence waits its request is
  behind all writes, and in a barrier no flag is set.  `Named`: whatever is under way for
  the last call that stored its handle in a variable is listed in that handle.  A step
  is first shown to be of one of five kinds (`Stepped`: workers go on or wait, a call
  sends, an answer completes a call, a server takes a message), and each part of the
  invariant is shown to survive each kind, so that no part is proved once per action.
* `PrTypeCorrect`: `Spec => []PrTypeOK`.
* `AnswersMatched`: `Spec /\ []ReplacedUnused => []AnswersInOrder`.  The premise says
  that no table of mutexes is replaced while somebody waits in one of its queues; a
  program that violates it leaves a worker with a receive that nobody will answer,
  which the code excludes by an assertion on destruction.
* `BarriersFlush`: `Spec => []BarrierFlushes`, and `WaitsComplete`: `Spec => WaitCompletes`.
  The second is about reuse of the ring: a handle that is taken again was waited for, so
  that an older request cannot hide behind it, and a newer one cannot be listed there
  while the program has the handle.
* `AccumulatesNeverMeet`: `Spec => []AccumulatesApart`.  Whoever is between the read and
  the write of an accumulate holds the semaphore of the rank it is for
  (`SemaphoresHeld`).
* `MutexesHeldOnce`: `Spec /\ []Disciplined => []MutexHeldOnce`.  A mutex is a worker's
  (`Owns`) while it holds it, but already when its lock request has been granted and its
  call has not returned (`Cleared`: it waits, and its request is neither under way
  nor in the queue), and still while its unlock is under way.  `MutexInv` says that the
  owner is the one in the table (`Entered`) and that a worker is in one of these
  situations only (`Agreed`).  Without the premise the theorem is false: an
  unlock of somebody else's mutex is obeyed (the handler does not look at who sent it),
  and a table that is replaced forgets its holders.
* `ServersQuitLast`: `Spec /\ []FinalizedTogether => []QuitLast`.  `EndInv` follows a worker
  through the seven parts of `comex_finalize`: past the first barrier it has no
  flag, hence no write under way; past the wait for all handles it has no receive;
  past the second barrier all are there (`Past`).  Only the smallest worker of a host
  tells its master to quit, once, and only then.
* `OneSidedImplemented`: `Spec /\ []Disciplined /\ []DirectInTurn /\ []UpdatesAlone /\
  []FenceFlushes => ImplementsOneSided`, the refinement. An access of `OneSided` is on its way from the
  send of a put, an accumulate or a get until the master of the memory is done with it
  (`OnWay`: what is in the channel or in hand, in that order). A put or get arrives
  when it is served, an accumulate with its write. `WayInv` says why this is well
  defined and what a step does to it: a message about memory is at the master of that
  memory, and never about the sender's own unless it is a read-modify-write (`Home`),
  an accumulate that a worker makes itself is that of its call (`Handy`), and what a
  master has read is still there (`Current`). When a master comes to a
  read-modify-write it has no other message of its sender, which waits for the answer
  (`Paired`); a fence finds no write on its way by `Flushed`; `Acquire` needs
  `MutexHeldOnce`. Two things the runtime does not do. A strided or vector call that
  is sent packed goes through the master even on the own host, and a direct access to
  the same memory may overtake it. And no semaphore keeps a direct put from a cell
  that a master is amid updating. Programs that meet either are excluded by
  `DirectInTurn` and `UpdatesAlone`. A third is the flush of `comex_fence_proc`: only
  `comex_fence_all` is shown to wait for its writes, and of the other fence the theorem
  assumes, by `FenceFlushes`, that it finds nothing to wait for (finding 6).

**GA handles** (`LocalProofs`; `NbAssumption`).

* `WaitsComplete`, `TestsTruthful`: for programs that stay within the table
  (`Modest`), the second about calls with one element in their list at most.  `NbInv` says that every request under way can be found from its
  handle (`Traceable`), that a slot in use is named by an open handle with its tag
  (`SlotsOwned`), and that a call in progress has its slot (`CallOwns`).  As no
  more handles are open than there are slots, a new one always finds a free slot,
  and nothing is evicted.
* `ListsStaySound`: for all programs, those that overfill the table included.

**MA** (`LocalProofs`; `AllocatorAssumption`).

* `BlocksStaySound`: `MaSpec => []BlocksSound`.  `Tiles` says that a set of blocks covers
  an interval.  Lemmas say what splitting a block, taking the first ones or
  the last ones, and merging runs of free blocks do to it.  `block_free_heap`
  cuts the heap at the last used block, and the lemma about it (`ReclaimSound`) is
  used twice, for a whole block and for the piece that was split off.
* `ClientsStaySound`: `MaSpec => []ClientsSound`.  A block that is cut must keep
  its client, whose place is computed from the address alone: `InPlace`, the
  client space is where `ClientAfter` puts it, is the strengthening for what is inside.
  For alignment it is `AlignedInv`: all blocks, free ones too, and the gap begin at
  multiples of `ALIGNMENT`.  Heap blocks are aligned by their lengths and stack blocks
  by their addresses, which agree because the segment itself is aligned (an assumption:
  `malloc` gives it).  `balloc_before` takes its remainder modulo a word first, which
  does no harm to a type whose length divides the word, or below the word if the
  base is below the segment (`AlignedBefore`).

* `InquiriesStayTrue`: `MaSpec => []InquiriesHold`, from `BlocksStaySound`.  Of the numbers
  that fit into a block `ma_nelem` answers the greatest (`ElementsFit`), the same goes for
  the free blocks (`FragmentFits`), and what `MA_init` reckons with is enough
  because rounding is monotone (`OverheadBound`).

**ARMCI locks** (`ArmciLockProofs`).

* `LockedAreasExclusive`, `SlotsServeOne`, `MemTypeCorrect` (`MemLockAssumption`; the first
  under `NoneWithin`, no area reaches beyond another at both ends, and a release
  that is one store).  `MemInv` says who has the native lock (`NativeHeld`), that
  what a process holds is in its slot (`AreaGiven`, `SlotsTaken`), and what a
  scan of the table has already excluded (`ScanSound`): slots that were looked at
  can only have been cleared since.
* `MutexesExclusive`, `TicketsInOrder` (`TicketAssumption`; premise
  `[]EntryKeepsMutex \/ []OwnerSilent`: the handler gives no entry another mutex, or the
  owner never searches the table; without it they are false): a ticket is in one place
  at a time (`OnePlace`: a process that polls, the handler, the table, a reply, a
  holder, a put or a request), at the last four of them it is its turn, and nowhere
  has the turn passed it (`InTurn`); entries of the table that were left over are
  not looked for any more (`Leftovers`).

**Task collection** (`TaskQueueProofs`; `TaskAssumption`).

* `StatesKept`: `StealInv` says which values are possible at each place of a steal
  (`Places`), that a token has one taker (`Tokens`), and that what a thief has
  read is what it would read again (`Kept`).
* `EndDetected`: nobody knows of the end while somebody has a task.  `TaskInv` adds that
  either all are idle, or the votes of the current wave tell the truth (`Waves`): a
  process that has voted and has got a task since was given it by a thief that
  marked it dirty, or stole it and is dirty itself, and this mark will stop the next
  wave.  A dirty vote of a descendant reaches the root through the tree; the
  argument takes a least element where induction over the tree would be needed.
* `SlotsStaySound` (`Roomy`: queues of more than one slot; a queue of one slot wraps
  around to itself, and its tail cannot say whether it is empty).  `Ring` has the
  arithmetic: what is local, what is shared, what thieves copy and what is free
  are consecutive stretches of the ring, and their lengths add up.  `Rings` says so
  of each process, `Loots` of what a thief has yet to copy: it lies between
  `vtail1` and the tail, and thieves of one queue have stretches of their own.  The premise
  `SlotsFreedLate` is what `updateVtail1` is for: when it finds `vtail2` at the tail, no
  steal is under way.  For three processes and more the code does not ensure it
  (finding 5), so there it stays a premise, and TLC checks it in the jobs of `tasks`.
* `PairSlotsSound` (`Pairs`: at most two processes) has no premise: with one
  thief, `vtail2` is the tail less the steal that is under way (`Counted`).
* `TasksExecutedOnce`, `PairTasksExecutedOnce`: the refinement of `TaskPool`, under the
  same premises and `Forest`: each task of a job is added once, so that tasks are told
  apart (an assumption TLC evaluates on the jobs of its runs).  A task is in one place,
  a slot, a loot or the list of what is to be added (`Apart`), and what was executed
  has left its trace in what it added (`Origins`), so no task comes back.  With them
  each step of a queue maps to an execution, to the sight of the end, or to a stutter.

Only model-checked: liveness (fairness and ENABLED are out of the prover's
reach); `DestroySafe`; `NoFailure`, which
holds of programs that use segments as they should; `SlotsFreedLate` in the
jobs with three processes; and what given programs
compute (`NoLostUpdate`, `RmwAtomic`, `AssertionsFit`, `ReadsSeeWrites`).

## 5. What is not modelled

* **Other back ends of ComEx.**  `src-mpi-pt` is a near copy of `src-mpi-pr` with the
  server in a thread of the master; the others rest on the ordering rules of their
  network libraries, which the code does not show.
* **Groups.**  A collective of the model is over a set of ranks; the table of
  groups and the merges of communicators are left out.
* **ARMCI transport and devices.**  Their correctness is a matter of network
  interfaces; the locks, which rest on shared memory alone, are modelled.
* **`kr_malloc`.**  An allocator like MA, without a stack.
* **GA core.**  Distributions and index arithmetic are pure functions; the syncs and
  fences are one call each into the runtime.  The fence of all ranks is checked there for
  both runtimes, and that of one rank for `src-mpi`; in `src-mpi-pr` the latter is
  finding 6.  Numerics,
  bindings and interface glue have no concurrency of their own.
* **MA.**  The table of handles (a block is its handle), the values of guards and
  checksums and their verification, names, statistics, the other inquiries.
* **TCGMSG, parallel I/O.**  Messages and files; `nxtval` is a fetch-and-add of the
  runtime (`RmwAtomic`) or a server loop around one counter.
* **Extensions.**  Wrappers, and the older task queues of `tascel`.

## 6. Running

    tlc -config runtime.cfg MCComex        # also live, race, ga_nested
    tlc -config pr.cfg MCPrComex           # also pr_destroy, pr_fence
    tlc -config armci_locks.cfg MCArmciLocks   # also mutex_forgets
    tlc -config local.cfg MCLocal
    tlc -config tasks.cfg MCTaskQueue      # also tasks_vtail
    tlapm ComexCallProofs.tla              # and each other *Proofs.tla

The slowest runs, `live` and `tasks`, take two to three minutes with two workers, the
others up to two; from nothing the proofs take two to sixteen minutes a module.
