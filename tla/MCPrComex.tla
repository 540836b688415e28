------------------------------ MODULE MCPrComex ------------------------------
(* Jobs of the progress-rank runtime for TLC, and what their programs show *)
EXTENDS PrComex

CONSTANTS x, y, seg, tmp   \* names of handles and of segments

Default == [op |-> "barrier", to |-> 0, grp |-> {}, seg |-> seg, val |-> 0,
            packed |-> FALSE, hdl |-> Blocking]

Do(op)               == << [Default EXCEPT !.op = op] >>
All(op, grp)         == << [Default EXCEPT !.op = op, !.grp = grp] >>
Malloc(g, s, size)   == << [Default EXCEPT !.op = "malloc", !.grp = g, !.seg = s,
                                           !.val = size] >>
FreeSeg(g, s)        == << [Default EXCEPT !.op = "free", !.grp = g, !.seg = s] >>
Op(op, d, v)         == << [Default EXCEPT !.op = op, !.to = d, !.val = v] >>
Packed(op, d, v)     == << [Op(op, d, v)[1] EXCEPT !.packed = TRUE] >>
Nb(op, d, v, h)      == << [Op(op, d, v)[1] EXCEPT !.hdl = h] >>
Of(s, call)          == << [call[1] EXCEPT !.seg = s] >>
Create1(n)           == << [Default EXCEPT !.op = "create", !.val = n] >>
WaitFor(h)           == << [Default EXCEPT !.op = "wait", !.hdl = h] >>
TestFor(h)           == << [Default EXCEPT !.op = "test", !.hdl = h] >>

-----------------------------------------------------------------------------
(* Hosts: two workers and their master, and one worker and its master; or  *)
(* the first of these alone.                                               *)

TwoHosts == [r \in 0 .. 4 |-> IF r <= 2 THEN 0 ELSE 1]
OneHost  == [r \in 0 .. 2 |-> 0]

W3 == {0, 1, 3}
W2 == {0, 1}

\* Every worker adds to the memory of rank 0: as the owner, directly, through
\* the master of the own host, and from another host.
Accs(w) ==
    Malloc(W3, seg, 1)
    \o (CASE w = 0 -> Op("acc", 0, 1)
          [] w = 1 -> Op("acc", 0, 2) \o Packed("acc", 0, 4) \o Op("put", 3, 6)
          [] w = 3 -> Op("acc", 0, 8) \o Op("put", 1, 5))
    \o All("barrier", W3) \o FreeSeg(W3, seg) \o Do("finalize")

\* What the accumulates of a job add to the memory of a rank
AccSum(d) ==
    LET accs == {<<w, i>> \in Worker \X (1 .. 12) :
                    /\ i \in DOMAIN job.calls[w]
                    /\ job.calls[w][i].op = "acc" /\ job.calls[w][i].to = d}
    IN  MapThenSumSet(LAMBDA c : job.calls[c[1]][c[2]].val, accs)

\* Non-blocking calls in a ring of two handles: puts, gets and accumulates to
\* the other host and to the own memory, and waits in another order
NonBlocking(w) ==
    Malloc(W3, seg, 1)
    \o (CASE w = 0 -> Nb("put", 3, 1, x) \o Nb("get", 3, 0, y) \o WaitFor(y)
                      \o Nb("acc", 3, 2, Implicit) \o WaitFor(x) \o Do("wait_all")
          [] w = 1 -> <<>>
          [] w = 3 -> Nb("acc", 3, 4, Implicit) \o Nb("get", 0, 0, Implicit)
                      \o Nb("put", 0, 2, Implicit) \o Op("fadd", 0, 3))
    \o Do("finalize")

Tested(w) ==
    Malloc(W3, seg, 1)
    \o (CASE w = 0 -> <<>>
          [] w = 1 -> Nb("get", 3, 0, x) \o TestFor(x) \o Op("get", 3, 0)
                      \o WaitFor(x) \o Do("fence")
          [] w = 3 -> Nb("put", 1, 6, y) \o Op("acc", 3, 1) \o TestFor(y)
                      \o Packed("get", 1, 0) \o WaitFor(y))
    \o Do("finalize")

\* "the user can accidentally exhaust the available handles" (comex.c:3801):
\* comex_wait_all completes the calls, but only comex_wait gives back handles.
Exhausting(w) ==
    Malloc(W3, seg, 1)
    \o (IF w = 0 THEN Nb("put", 3, 1, x) \o Nb("get", 3, 0, y) \o Do("wait_all")
                      \o Op("get", 3, 0)
        ELSE <<>>)

\* Segments of two groups; the address of a freed one is used again.
Segments(w) ==
    (IF w \in W2 THEN Malloc(W2, seg, 1 - w) ELSE <<>>)
    \o Malloc(W3, tmp, 1)
    \o (IF w = 1 THEN Op("put", 0, 7) ELSE <<>>)
    \o (IF w \in W2 THEN FreeSeg(W2, seg) ELSE <<>>)
    \o Malloc(W3, seg, 1)
    \o (CASE w = 0 -> Op("acc", 3, 1)
          [] w = 1 -> Op("get", 0, 0) \o Of(tmp, Op("get", 0, 0))
          [] w = 3 -> Op("swap", 1, 9) \o Op("get", 0, 0))
    \o FreeSeg(W3, tmp) \o FreeSeg(W3, seg) \o Do("finalize")

\* Every worker reads a cell and writes it, under a mutex that is at another
\* master than the cell.  Two reach the cell by messages, its owner directly.
\* Before it unlocks it makes the calls of flush.
Locked(w, flush) ==
    Create1(1) \o Malloc(W3, seg, 1)
    \o Op("lock", 0, 0) \o Op("get", 3, 0) \o Op("put", 3, w + 1) \o flush
    \o Op("unlock", 0, 0) \o Do("finalize")

\* A fence of all; one of the rank that was written to, behind a read there or
\* alone
FenceAll    == Do("fence")
ReadBack    == Op("get", 3, 0) \o Op("fence_proc", 3, 0)
FenceTarget == Op("fence_proc", 3, 0)

\* A write that nobody waited for, and readers of two hosts behind a chain of
\* barriers of overlapping groups
Published(w) ==
    Malloc(W3, seg, 1)
    \o (CASE w = 0 -> Nb("put", 3, 7, Implicit) \o All("barrier", {0, 1})
          [] w = 1 -> All("barrier", {0, 1}) \o Op("get", 3, 0) \o All("barrier", {1, 3})
          [] w = 3 -> All("barrier", {1, 3}) \o Op("get", 3, 0))
    \o Do("finalize")

\* Two workers with a mutex each, which they destroy in the end.  A request
\* with an answer comes between the last unlock and comex_destroy_mutexes.
Destroyed(w, answered) ==
    Create1(1) \o Malloc(W2, seg, 1)
    \o Op("lock", 0, 0) \o Op("lock", 1, 0) \o Op("unlock", 1, 0) \o Op("unlock", 0, 0)
    \o (IF answered THEN Op("fadd", 0, 1) ELSE <<>>)
    \o Do("destroy") \o Do("finalize")

Job(hostid, ws, Program(_), eager) ==
    [hostid |-> hostid, calls |-> [w \in ws |-> Program(w)], eager |-> eager]

\* MPI buffers a message or not.
PrJobs ==
    UNION {{Job(TwoHosts, W3, Accs, eager), Job(TwoHosts, W3, NonBlocking, eager),
            Job(TwoHosts, W3, Tested, eager), Job(TwoHosts, W3, Exhausting, eager),
            Job(TwoHosts, W3, Segments, eager), Job(TwoHosts, W3, Published, eager),
            Job(TwoHosts, W3, LAMBDA w : Locked(w, FenceAll), eager),
            Job(TwoHosts, W3, LAMBDA w : Locked(w, ReadBack), eager),
            Job(OneHost, W2, LAMBDA w : Destroyed(w, TRUE), eager)} :
           eager \in BOOLEAN}

FenceJobs   == {Job(TwoHosts, W3, LAMBDA w : Locked(w, FenceTarget), TRUE)}
DestroyJobs == {Job(OneHost, W2, LAMBDA w : Destroyed(w, FALSE), TRUE)}

-----------------------------------------------------------------------------

\* No accumulate is lost, on whichever way it comes to the memory: the server
\* and the workers of a host add under the semaphore of the rank that owns the
\* memory (_acc_handler, nb_acc).
AccsAddUp ==
    \A w \in Worker :
        job.calls[w] = Accs(w) /\ At(w, "gather") /\ Cur(w).op = "free" =>
            mem[0][ptrs[w][seg][0]] = AccSum(0)

\* Each critical section sees what the one before it wrote: no two read the
\* same value, and none its own.
ReadsLastWrite ==
    \A w \in Worker :
        (\E flush \in {FenceAll, ReadBack, FenceTarget} : job.calls[w] = Locked(w, flush))
        /\ got[w] # <<>> =>
            /\ got[w][1] # w + 1
            /\ \A v \in Worker \ {w} : got[v] # <<>> => got[v][1] # got[w][1]

\* Whoever has left a barrier sees what its members wrote before it, and so on
\* along a chain of barriers.
WritesPublished ==
    \A w \in Worker :
        job.calls[w] = Published(w) => \A i \in DOMAIN got[w] : got[w][i] = 7

\* What a program orders by a mutex and a fence, or by barriers, a read sees,
\* whether it is direct or goes through a master; and accumulates, which need
\* no order, all count.
ReadsSeeWrites == ReadsLastWrite /\ WritesPublished /\ AccsAddUp

\* COMEX_ASSERT(mutexes[proc][i] == UNLOCKED) in _mutex_destroy_handler: when a
\* master comes to destroy mutexes, nobody holds or waits for any.  "this
\* barrier ensures there are no outstanding lock requests" (comex.c:1541).
DestroyedUnused ==
    \A m \in Server, w \in Worker :
        Incoming(m, w, {"OP_DESTROY_MUTEXES"}) =>
            \A i \in DOMAIN mutexes[w] :
                mutexes[w][i] = UNLOCKED /\ lq[w][i] = <<>>
=============================================================================
