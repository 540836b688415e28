--------------------------------- MODULE Comex ---------------------------------
(***************************************************************************)
(* The two-sided MPI runtime as a whole: the calls of ComexData,           *)
(* ComexBarrier, ComexMutex and ComexMemory on every rank, over one        *)
(* message queue and one progress loop, and what they promise together.    *)
(***************************************************************************)
EXTENDS ComexData, ComexMutex, ComexMemory

Receive(r, s) ==
    \/ DataReceive(r, s)
    \/ BarrierReceive(r, s)
    \/ MutexReceive(r, s)

\* What the program and the calls of rank r do.
LocalStep(r) ==
    \/ DataStep(r)
    \/ BarrierStep(r)
    \/ MutexStep(r)
    \/ MemoryStep(r)

\* One iteration of the progress loop of r receives a message.
ReceiveStep(r) == \E s \in Rank : Receive(r, s)

Done(r) == pc[r] > Len(prog[r])

\* The job is over: every program has ended, or an assertion killed it.
Over ==
    /\ aborted \/ \A r \in Rank : Done(r)
    /\ UNCHANGED vars

Next ==
    \/ ~aborted /\ \E r \in Rank : LocalStep(r)
    \/ ~aborted /\ \E r \in Rank : ReceiveStep(r)
    \/ Over

\* Each rank is a thread that runs its program and polls in the progress
\* loop: while it can do something it eventually does.  MPI is not obliged
\* to buffer, so that a rank may stay in the loop as long as a message of
\* its own has not been received.
Fairness ==
    \A r \in Rank :
        WF_vars(/\ ~aborted
                /\ \/ ReceiveStep(r)
                   \/ LocalStep(r) /\ (busy[r] => SendsReceived(r)))

Spec == Init /\ [][Next]_vars /\ Fairness

-----------------------------------------------------------------------------
(* Types *)

TypeOK ==
    /\ prog \in Programs
    /\ pc \in [Rank -> Nat \ {0}]
    /\ phase \in [Rank -> Phase]
    /\ busy \in [Rank -> BOOLEAN]
    /\ chan \in [Rank -> [Rank -> Seq(Message)]]
    /\ posted \in [Rank -> Nat]
    /\ gets \in [Rank -> Int]
    /\ notify \in [Rank -> Int]
    /\ fence \in [Rank -> [Rank -> BOOLEAN]]
    /\ todo \in [Rank -> SUBSET Rank]
    /\ step \in [Rank -> Nat]
    /\ bq \in [Rank -> Seq(Waiter)]
    /\ kept \in [Rank -> Seq(Waiter)]
    /\ reqs \in [Rank -> SUBSET Rank]
    /\ resps \in [Rank -> [Rank -> Nat]]
    /\ nmutex \in [Rank -> 0 .. NumMutexes]
    /\ mutexes \in [Rank -> [Mutex -> Rank \cup {Nobody}]]
    /\ lq \in [Rank -> [Mutex -> Seq(Waiter)]]
    /\ mem \in [Rank -> [Cell -> Int]]
    /\ res \in [Rank -> Seq(Int)]
    /\ held \in [Rank -> SUBSET (Rank \X Nat)]
    /\ aborted \in BOOLEAN

-----------------------------------------------------------------------------
(* Safety *)

InFlight(s, d) == {chan[s][d][i] : i \in DOMAIN chan[s][d]}

WriteOp    == {"OP_PUT", "OP_ACC"}
ResponseOp == {"OP_GET_RESPONSE", "OP_FENCE_RESPONSE", "OP_BARRIER_RESPONSE",
               "OP_FETCH_AND_ADD_RESPONSE", "OP_SWAP_RESPONSE",
               "OP_LOCK_RESPONSE"}

\* No assertion of the runtime fails and no missing mutex is accessed
\* (comex.c:1889-1893, 1950, 2003-2007).
NoAbort == ~aborted

\* Two ranks never both hold a mutex: lock returned, unlock not yet called.
MutualExclusion ==
    \A p, q \in Rank : p # q => held[p] \cap held[q] = {}

\* A response stores through the notify_address of its request, memory that
\* the call frees when it returns (comex.c:1125, 1742, 2099, 1321): as long
\* as a response is under way, the call that asked for it has not returned.
NoStaleResponse ==
    \A s, r \in Rank : \A m \in InFlight(s, r) :
        m.op \in ResponseOp => m.call = pc[r] /\ phase[r] # "idle"

\* A rank that fence_array does not mark has applied every put and
\* accumulate of r: the flag may be cleared only by a fence that waited.
FenceSound ==
    \A r, p \in Rank : ~fence[r][p] =>
        \A m \in InFlight(r, p) : m.op \notin WriteOp

\* Between two iterations of a progress loop no rank waits for a free mutex,
\* so that _lq_progress has work only after a lock or unlock request.
LockQueueSettled ==
    \A r \in Rank : \A m \in Mutex :
        lq[r][m] # <<>> => mutexes[r][m] # Nobody

\* The messages of r that have not been received
Unreceived(r) == UNION {{d} \X DOMAIN chan[r][d] : d \in Rank}

\* A program that runs on has fewer than MAX_NB_OUTSTANDING messages on their
\* way, its answers to other ranks included, unless MPI buffered more
\* (_make_progress_if_needed after the pushes of a call, comex.c:302).
SendsBounded ==
    \A r \in Rank : ~busy[r] /\ ~Eager =>
        Cardinality(Unreceived(r)) < MaxOutstanding

\* Barriers over the group g among the first n calls of r.
BarrierCount(r, g, n) ==
    Cardinality({i \in 1 .. n : /\ prog[r][i].op \in BarrierOp
                                /\ prog[r][i].grp = g})

\* Barriers over g that r has left, and that it has entered.
Left(r, g) == BarrierCount(r, g, pc[r] - 1)
Entered(r, g) ==
    BarrierCount(r, g, IF phase[r] = "idle" THEN pc[r] - 1 ELSE pc[r])

Groups(r) == {prog[r][i].grp : i \in {j \in DOMAIN prog[r] :
                                        prog[r][j].op \in BarrierOp}}

\* Nobody leaves the n-th barrier of a group before every member entered
\* its n-th barrier of that group.
BarrierSafety ==
    \A r \in Rank : \A g \in Groups(r) : \A q \in g :
        Left(r, g) <= Entered(q, g)

\* "Ensures all comex communication has completed" (comex.h:170): once
\* anybody has left a barrier, whatever a member sent another member before
\* entering it has been received, without any fence.  A message of a rank to
\* itself is not covered: a barrier sends none behind it, and a rank that
\* unlocks a mutex of its own may leave a barrier before it has received
\* that message, which is why comex_destroy_mutexes goes on to drain.
BarrierDrains ==
    \A p, q \in Rank : p # q => \A m \in InFlight(p, q) :
        m.op \notin ResponseOp =>
            \A g \in Groups(p) : q \in g =>
                \A r \in g : Left(r, g) <= BarrierCount(p, g, m.call - 1)

\* The barrier queue of q holds at most one request of each rank, with those
\* under way counted in: requests are told apart by their sender only.
OneRequestPerPeer ==
    \A p, q \in Rank :
        LET queued(b) == Cardinality({i \in DOMAIN b : b[i].rank = p})
        IN  queued(bq[q]) + queued(kept[q]) +
            Cardinality({i \in DOMAIN chan[p][q] :
                           chan[p][q][i].op = "OP_BARRIER_REQUEST"}) <= 1

\* Requests without a group meet the barrier they are for: nobody leaves
\* early, and no sender has two to be matched.
BarriersMatched == BarrierSafety /\ OneRequestPerPeer

\* Rank r has returned from comex_finalize.
Finalized(r) == pc[r] > 1 /\ prog[r][pc[r] - 1].op = "finalize"

\* comex_finalize frees the communicator: nothing is, or ever will be, under
\* way from another rank to one that returned from it.
FinalizeQuiet ==
    \A r \in Rank : Finalized(r) => \A s \in Rank \ {r} : chan[s][r] = <<>>

\* Nothing arrives where what it needs has been freed.
NothingLate == NoStaleResponse /\ FinalizeQuiet

\* "end ARMCI epoch, enter MPI epoch" (comex.c:2155): to a rank inside the
\* MPI collective nothing is under way from the members of its group, until
\* they have left that collective.
EpochEnds ==
    \A r \in Rank : phase[r] = "gather" =>
        \A s \in Cur(r).grp \ {r} :
            \/ chan[s][r] = <<>>
            \/ LET g == Cur(r).grp
               IN  CallsOver(s, "gather", g, pc[s] - 1) >= GathersEntered(r, g)

\* Call number i of p is a barrier over a group that q is in.
Common(p, q, i) == prog[p][i].op \in BarrierOp /\ q \in prog[p][i].grp
CommonCount(p, q, n) == Cardinality({i \in 1 .. n : Common(p, q, i)})

\* Rank p has a segment from the last barrier with s before call number c of
\* s to the next one: programs that synchronise after comex_malloc and before
\* comex_free name segments in such calls only.
Covered(s, c, p) ==
    LET epoch == CommonCount(s, p, c - 1)
    IN  \A n \in 0 .. Len(prog[p]) :
            \/ CommonCount(p, s, n) = epoch
            \/ n # Len(prog[p]) /\ CommonCount(p, s, n + 1) = epoch
            => SegmentAfter(p, n)

\* comex_free releases the segment before its barrier (comex.c:2185), and a
\* rank may put as soon as its own comex_malloc has returned: no message of
\* such a call arrives at a rank that has no segment.
SegmentSafe ==
    \A s, r \in Rank : s # r => \A m \in InFlight(s, r) :
        m.op \in CellOp /\ Covered(s, m.call, r) => HasSegment(r)

\* Collective memory calls find the channels in order: no message comes too
\* late for a segment, or while its target is inside MPI.
MemorySafe == SegmentSafe /\ EpochEnds

\* comex_destroy_mutexes frees a table nobody needs: no mutex of r is held
\* and no lock or unlock request is on its way to r.
DestroySafe ==
    [][\A r \in Rank : nmutex[r] > 0 /\ nmutex'[r] = 0 =>
          \A s \in Rank :
             /\ \A h \in held[s] : h[1] # r
             /\ \A m \in InFlight(s, r) :
                   m.op \notin {"OP_LOCK_REQUEST", "OP_UNLOCK"}]_vars

-----------------------------------------------------------------------------
(* Refinement *)

\* The responses that carry a value
ValueOp == {"OP_GET_RESPONSE", "OP_FETCH_AND_ADD_RESPONSE", "OP_SWAP_RESPONSE"}

\* How many of the first i messages of q are one of ops, and those of q that
\* are, in their order
Upto(q, ops, i) == Cardinality({j \in 1 .. i : q[j].op \in ops})
Only(q, ops) ==
    [k \in 1 .. Upto(q, ops, Len(q)) |->
        q[CHOOSE i \in DOMAIN q : q[i].op \in ops /\ Upto(q, ops, i) = k]]

\* The writes and the values that are under way on a channel
Writes(q) == LET ms == Only(q, WriteOp)
             IN  [i \in DOMAIN ms |-> [op |-> ms[i].op, loc |-> ms[i].loc, val |-> ms[i].val]]
Values(q) == LET ms == Only(q, ValueOp) IN [i \in DOMAIN ms |-> ms[i].val]

\* The writes of s that d has not received
Pending(s, d) == Writes(chan[s][d])

\* The values that are on their way back to r; only the target of the call
\* in progress sends any.
Returning(r) == IF phase[r] = "idle" THEN <<>> ELSE Values(chan[Cur(r).to][r])

Promised ==
    INSTANCE OneSided WITH
        pend  <- [s \in Rank |-> [d \in Rank |-> Pending(s, d)]],
        log   <- [r \in Rank |-> res[r] \o Returning(r)],
        dirty <- fence

\* The runtime implements the memory and mutexes of OneSided: a read obtains
\* its value when the remote rank serves it, after all earlier writes of the
\* reader (get, rmw, fence and lock paths of comex.c together).
ImplementsOneSided == Promised!OSpec

-----------------------------------------------------------------------------
(* Liveness *)

\* Every call of every program returns: no lock waits forever, no barrier
\* hangs, no progress loop spins without end.
Termination == <>(\A r \in Rank : Done(r))
=============================================================================
