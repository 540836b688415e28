------------------------------ MODULE ComexMemory ------------------------------
(***************************************************************************)
(* Collective memory of comex/src-mpi/comex.c: comex_malloc allocates a    *)
(* segment, runs a barrier of the group and exchanges the addresses by     *)
(* MPI_Allgather; comex_free releases the segment and runs a barrier.  A   *)
(* program of the model spells them out as the calls                       *)
(*     alloc, barrier, gather       and       release, barrier.            *)
(* comex_group_create is a gather as well: the communicators of a group    *)
(* are merged in rounds that involve every member (groups.c:210-237).      *)
(*                                                                         *)
(* A rank inside an MPI collective is outside comex_make_progress: it      *)
(* receives no message of the runtime.  How many segments a rank has       *)
(* follows from the calls it has made, and needs no variable.              *)
(***************************************************************************)
EXTENDS ComexState

\* comex_malloc_local, comex_free_local: a step of the rank alone.
LocalSegment(r) ==
    /\ \E op \in {"alloc", "release"} : Calls(r, op)
    /\ Return(r)
    /\ UNCHANGED <<chan, waiting, fence, issuing, barriers, locks, memory,
                   aborted>>

\* The calls op over the group g among the first n of r
CallsOver(r, op, g, n) ==
    Cardinality({i \in 1 .. n : prog[r][i].op = op /\ prog[r][i].grp = g})

\* MPI matches the collectives of a communicator in order.
GathersEntered(r, g) ==
    CallsOver(r, "gather", g, IF phase[r] = "gather" THEN pc[r] ELSE pc[r] - 1)

\* MPI_Allgather is entered, ...
GatherStart(r) ==
    /\ Calls(r, "gather")
    /\ Proceed(r, "gather")
    /\ UNCHANGED <<chan, waiting, fence, issuing, barriers, locks, memory,
                   aborted>>

\* ... and left when all members have contributed.
GatherReturn(r) ==
    /\ phase[r] = "gather"
    /\ LET g == Cur(r).grp
       IN  \A q \in g : GathersEntered(q, g) >= GathersEntered(r, g)
    /\ Return(r)
    /\ UNCHANGED <<chan, waiting, fence, issuing, barriers, locks, memory,
                   aborted>>

MemoryStep(r) == LocalSegment(r) \/ GatherStart(r) \/ GatherReturn(r)

\* Rank r has a segment that remote calls may name, after n calls.
SegmentAfter(r, n) ==
    LET made(op) == Cardinality({i \in 1 .. n : prog[r][i].op = op})
    IN  made("alloc") > made("release")
HasSegment(r) == SegmentAfter(r, pc[r] - 1)
=============================================================================
