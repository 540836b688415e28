------------------------------ MODULE ComexState ------------------------------
(***************************************************************************)
(* The state of the two-sided MPI runtime, comex/src-mpi/comex.c, and the  *)
(* steps every call shares: posting a message, receiving one, entering and *)
(* leaving comex_make_progress.                                            *)
(*                                                                         *)
(* A rank is one thread.  It runs the calls of its program in order; while *)
(* it is inside comex_make_progress (busy) it also receives messages, one  *)
(* per iteration of that loop, and it stays there until every send it      *)
(* posted is complete.  A pass of the loop that receives nothing changes   *)
(* nothing and is not a step, so a rank that polls in vain shows up as a   *)
(* deadlock and not as a cycle.                                            *)
(*                                                                         *)
(* The queue mq of posted sends is only ever observed in two ways: by its  *)
(* length, when a call has pushed outside the progress loop, and by its    *)
(* being empty, when the loop is left.  posted is that length.  The sends  *)
(* of a rank are complete when its outgoing channels are empty; an MPI     *)
(* that buffers (Eager) may report them complete at any time before.  A    *)
(* job, its programs and its MPI, is chosen once: Buffered is the set of   *)
(* jobs that run over an MPI that buffers.                                 *)
(***************************************************************************)
EXTENDS Integers, Sequences, FiniteSets

CONSTANTS
    Rank,            \* the ranks of MPI_COMM_WORLD: 0 .. size - 1
    NumMutexes,      \* the most mutexes a rank may create
    NumCells,        \* memory cells of each rank that remote calls name
    MaxOutstanding,  \* MAX_NB_OUTSTANDING, comex_impl.h:7
    Buffered,        \* jobs whose MPI may complete a send nobody received yet
    Created,         \* mutexes every rank has created before the programs start
    Programs         \* the programs the ranks may run, one function each

Mutex == 0 .. NumMutexes - 1
Cell  == 0 .. NumCells - 1

\* l_state.mutexes[id] is the holder's rank, or -1
Nobody == -1

CallOp == {"put", "putnext", "acc", "get", "wait", "fence", "fadd", "swap",
           "create", "destroy", "lock", "unlock", "init", "barrier",
           "finalize", "alloc", "gather", "release"}

DataOp    == {"put", "putnext", "acc", "get"}
RmwOp     == {"fadd", "swap"}
BarrierOp == {"init", "barrier", "finalize", "destroy"}

\* One call of a program: the operation, the remote rank, the group (for a
\* fence, the ranks it covers), a value, and in loc the number of blocks of
\* a put, acc or get, the cell of a rmw, the id of a mutex or the number of
\* mutexes to create.
Call ==
    {c \in [op : CallOp, to : Rank, grp : SUBSET Rank, loc : Nat, val : Int] :
        /\ c.op \in DataOp => c.loc \in 1 .. NumCells
        /\ c.op \in RmwOp => c.loc \in Cell
        /\ c.op = "create" => c.loc <= NumMutexes}

OpCode == {"OP_PUT", "OP_ACC", "OP_GET_REQUEST", "OP_GET_RESPONSE",
           "OP_FENCE_REQUEST", "OP_FENCE_RESPONSE",
           "OP_BARRIER_REQUEST", "OP_BARRIER_RESPONSE",
           "OP_FETCH_AND_ADD_REQUEST", "OP_FETCH_AND_ADD_RESPONSE",
           "OP_SWAP_REQUEST", "OP_SWAP_RESPONSE",
           "OP_LOCK_REQUEST", "OP_LOCK_RESPONSE", "OP_UNLOCK"}

\* The messages that name a cell of the rank they go to
CellOp == {"OP_PUT", "OP_ACC", "OP_GET_REQUEST", "OP_FETCH_AND_ADD_REQUEST",
           "OP_SWAP_REQUEST"}

\* header_t and its payload.  loc is remote_address (a cell) or the mutex id
\* the lock messages carry in length.  call numbers the sender's call: a
\* request's notify_address is a cell of that call, freed when it returns.
Message ==
    {m \in [op : OpCode, loc : Int, val : Int, call : Nat] :
        /\ m.op \in CellOp => m.loc \in Cell
        /\ m.op \in {"OP_LOCK_REQUEST", "OP_UNLOCK"} => m.loc \in Nat}

Msg(op, loc, val, call) ==
    [op |-> op, loc |-> loc, val |-> val, call |-> call]

\* barrier_t and lock_t: who asked, and its notify_address
Waiter == [rank : Rank, call : Nat]

Phase == {"idle", "issue", "fence", "wait", "bsend", "breq", "bscan", "bwait",
          "gather"}

ASSUME RankAssumption == Rank \subseteq Nat /\ IsFiniteSet(Rank)
ASSUME BoundAssumption ==
    /\ NumMutexes \in Nat
    /\ NumCells \in Nat
    /\ MaxOutstanding \in Nat \ {0}
    /\ Created \in 0 .. NumMutexes
ASSUME ProgramAssumption == Programs \subseteq [Rank -> Seq(Call)]

VARIABLES
    prog,      \* the calls each rank makes
    pc,        \* the number of the call a rank is in, or makes next
    phase,     \* where in that call it is
    busy,      \* is it inside comex_make_progress
    chan,      \* chan[s][d]: messages s posted to d and d has not received
    posted,    \* l_state.mq_size outside the progress loop
    gets,      \* l_state.gq: gets whose response has not arrived
    notify,    \* the cell *notify a blocked call waits on
    fence,     \* fence_array
    todo,      \* ranks the call still has to send its request to
    step,      \* blocks of a strided call already issued
    bq,        \* l_state.bq: queued barrier requests
    kept,      \* new_bq of comex_barrier's traversal of bq
    reqs,      \* request_received_mask of the barrier in progress
    resps,     \* response_received_mask of the barrier in progress
    nmutex,    \* l_state.num_mutexes
    mutexes,   \* l_state.mutexes
    lq,        \* l_state.lq, the waiters of each mutex in order of arrival
    mem,       \* the cells of each rank
    res,       \* values the gets and rmws of a rank returned, in order
    held,      \* mutexes a rank has been granted and not released (history)
    aborted    \* an assertion failed or a NULL table was read

control   == <<prog, pc, phase, busy, posted>>
waiting   == <<gets, notify>>
issuing   == <<todo, step>>
barriers  == <<bq, kept, reqs, resps>>
locks     == <<nmutex, mutexes, lq, held>>
memory    == <<mem, res>>
vars == <<control, chan, waiting, fence, issuing, barriers, locks, memory,
          aborted>>

\* MPI buffers in this job.
Eager == prog \in Buffered

Cur(r) == prog[r][pc[r]]

\* Rank r is between calls and its program goes on with the operation op.
Calls(r, op) ==
    /\ phase[r] = "idle"
    /\ pc[r] <= Len(prog[r])
    /\ Cur(r).op = op

-----------------------------------------------------------------------------
(* Sends, receives and the progress loop *)

\* _mq_push: MPI_Isend.
Push(r, d, m) == chan' = [chan EXCEPT ![r][d] = Append(@, m)]

\* MPI_Recv: r takes the first message that s sent it.
Taken(r, s) == [chan EXCEPT ![s][r] = Tail(@)]

\* The receive of a message that has no answer.
Consume(r, s) == chan' = Taken(r, s)

\* The receive of a message of s, and a push to d in the same iteration.
Answer(r, s, d, m) == chan' = [Taken(r, s) EXCEPT ![r][d] = Append(@, m)]

\* Everything r posted has been received.
SendsReceived(r) == \A d \in Rank : chan[r][d] = <<>>

\* comex_make_progress is left when no get and no send is outstanding; the
\* last MPI_Iprobe may have missed any message still under way to r.
Returned(r) == busy[r] => gets[r] = 0 /\ (Eager \/ SendsReceived(r))

\* The call goes on in phase ph, and calls comex_make_progress, ...
Progress(r, ph) ==
    /\ phase' = [phase EXCEPT ![r] = ph]
    /\ busy' = [busy EXCEPT ![r] = TRUE]
    /\ posted' = [posted EXCEPT ![r] = 0]
    /\ UNCHANGED <<prog, pc>>

\* ... or does not, having pushed nothing, ...
Proceed(r, ph) ==
    /\ phase' = [phase EXCEPT ![r] = ph]
    /\ busy' = [busy EXCEPT ![r] = FALSE]
    /\ UNCHANGED <<prog, pc, posted>>

\* The call returns to the program.
Return(r) ==
    /\ pc' = [pc EXCEPT ![r] = @ + 1]
    /\ phase' = [phase EXCEPT ![r] = "idle"]
    /\ busy' = [busy EXCEPT ![r] = FALSE]
    /\ UNCHANGED <<prog, posted>>

\* Mutant: one message more than the bound.
FloodedLate(r) == posted[r] + 1 > MaxOutstanding

\* ... or has pushed a message: _make_progress_if_needed.
Flooded(r) == posted[r] + 1 >= MaxOutstanding

Pushed(r, ph) ==
    IF Flooded(r) THEN Progress(r, ph)
    ELSE /\ phase' = [phase EXCEPT ![r] = ph]
         /\ busy' = [busy EXCEPT ![r] = FALSE]
         /\ posted' = [posted EXCEPT ![r] = @ + 1]
         /\ UNCHANGED <<prog, pc>>

\* In comex_make_progress, the first message s sent r is received.
Receives(r, s, op) ==
    /\ busy[r]
    /\ chan[s][r] # <<>>
    /\ Head(chan[s][r]).op = op

\* A response stores to its notify_address.  The cell is the one r waits on
\* only if the call that sent the request has not returned.
Notified(r, m) == m.call = pc[r] /\ phase[r] # "idle"

\* assert(0), or an access through a NULL or too short table.
Abort == aborted' = TRUE /\ UNCHANGED <<control, chan, waiting, fence, issuing,
             barriers, locks, memory>>

\* After comex_init everywhere; with Created > 0, also after the creation of
\* that many mutexes on each rank and a barrier.
Init ==
    /\ prog \in Programs
    /\ pc = [r \in Rank |-> 1]
    /\ phase = [r \in Rank |-> "idle"]
    /\ busy = [r \in Rank |-> FALSE]
    /\ chan = [s \in Rank |-> [d \in Rank |-> <<>>]]
    /\ posted = [r \in Rank |-> 0]
    /\ gets = [r \in Rank |-> 0]
    /\ notify = [r \in Rank |-> 0]
    /\ fence = [r \in Rank |-> [p \in Rank |-> FALSE]]
    /\ todo = [r \in Rank |-> {}]
    /\ step = [r \in Rank |-> 0]
    /\ bq = [r \in Rank |-> <<>>]
    /\ kept = [r \in Rank |-> <<>>]
    /\ reqs = [r \in Rank |-> {}]
    /\ resps = [r \in Rank |-> [p \in Rank |-> 0]]
    /\ nmutex = [r \in Rank |-> Created]
    /\ mutexes = [r \in Rank |-> [m \in Mutex |-> Nobody]]
    /\ lq = [r \in Rank |-> [m \in Mutex |-> <<>>]]
    /\ mem = [r \in Rank |-> [c \in Cell |-> 0]]
    /\ res = [r \in Rank |-> <<>>]
    /\ held = [r \in Rank |-> {}]
    /\ aborted = FALSE
=============================================================================
