------------------------------- MODULE ComexInv -------------------------------
(***************************************************************************)
(* The inductive invariants behind the theorems of ComexCallProofs         *)
(* (ControlOK, with the types, LockInv and CallInv), ComexDataProofs       *)
(* (FenceInv) and ComexBarrierProofs (BarrierInv).                         *)
(***************************************************************************)
EXTENDS Comex

\* A rank that is inside a call is inside a call of its program; while it
\* issues blocks there is one left to issue, and otherwise the block counter
\* is back at zero; only a fence sends fence requests.
ControlOK ==
    \A r \in Rank :
        /\ phase[r] # "idle" => pc[r] \in DOMAIN prog[r]
        /\ phase[r] = "issue" => Cur(r).op \in DataOp /\ step[r] < Cur(r).loc
        /\ phase[r] # "issue" => step[r] = 0
        /\ phase[r] = "fence" => Cur(r).op = "fence"

-----------------------------------------------------------------------------
(* Who holds a mutex.  A lock call leaves one of four traces: its request  *)
(* on the way, an entry of lq, a response on the way, notify at zero.      *)
(* Traces of calls that have returned may be left; they carry an older     *)
(* call number and are ignored.                                            *)

\* Rank r is inside a call of one of these operations.
In(r, ops) == phase[r] # "idle" /\ Cur(r).op \in ops

\* Rank r waits in comex_lock.
Locking(r) == phase[r] = "wait" /\ Cur(r).op = "lock"

\* A message or entry that call number c of r caused: that call has been
\* made, and if r has not left it, it is one of these operations ...
Asked(r, c, ops) == c <= pc[r] /\ (c = pc[r] => In(r, ops))

\* ... or a lock of a mutex of s.
AskedLock(r, c, s) == c <= pc[r] /\ (c = pc[r] => Locking(r) /\ Cur(r).to = s)

RmwRequest  == {"OP_FETCH_AND_ADD_REQUEST", "OP_SWAP_REQUEST"}
RmwResponse == {"OP_FETCH_AND_ADD_RESPONSE", "OP_SWAP_RESPONSE"}

\* A message of s to d that concerns a blocked call stems from such a call.
Tagged(s, d, m) ==
    /\ m.op = "OP_FENCE_REQUEST" => Asked(s, m.call, {"fence"})
    /\ m.op = "OP_FENCE_RESPONSE" => Asked(d, m.call, {"fence"})
    /\ m.op \in RmwRequest => Asked(s, m.call, RmwOp)
    /\ m.op \in RmwResponse => Asked(d, m.call, RmwOp)
    /\ m.op = "OP_LOCK_REQUEST" =>
          AskedLock(s, m.call, d) /\ (m.call = pc[s] => Cur(s).loc = m.loc)
    /\ m.op = "OP_LOCK_RESPONSE" => AskedLock(d, m.call, s)

TagInv ==
    \A s, d \in Rank : \A i \in DOMAIN chan[s][d] : Tagged(s, d, chan[s][d][i])

\* No unlock message of r is on its way to s.
NoUnlock(r, s) == \A i \in DOMAIN chan[r][s] : chan[r][s][i].op # "OP_UNLOCK"

\* The server s of mutex id has given it to r.
Owned(r, s, id) == id \in Mutex /\ id < nmutex[s] /\ mutexes[s][id] = r

\* Behind the request of a lock call no unlock message follows.
OrderInv ==
    \A r, s \in Rank : \A i, j \in DOMAIN chan[r][s] :
        /\ chan[r][s][i].op = "OP_LOCK_REQUEST"
        /\ chan[r][s][i].call = pc[r]
        /\ i < j
        => chan[r][s][j].op # "OP_UNLOCK"

\* Once the request of a lock call is queued, no unlock message of the rank
\* is on its way to the server.
Queued(s, id, w) ==
    /\ AskedLock(w.rank, w.call, s)
    /\ w.call = pc[w.rank] => Cur(w.rank).loc = id /\ NoUnlock(w.rank, s)

QueueInv ==
    \A s \in Rank : \A id \in Mutex : \A i \in DOMAIN lq[s][id] :
        Queued(s, id, lq[s][id][i])

\* A response on its way: the mutex is reserved for the rank that waits.
GrantInv ==
    \A s, r \in Rank : \A i \in DOMAIN chan[s][r] :
        /\ chan[s][r][i].op = "OP_LOCK_RESPONSE"
        /\ chan[s][r][i].call = pc[r]
        => Owned(r, s, Cur(r).loc) /\ NoUnlock(r, s)

\* The response has arrived, and comex_lock is about to return.
GrantedInv ==
    \A r \in Rank : Locking(r) /\ notify[r] = 0 =>
        Owned(r, Cur(r).to, Cur(r).loc) /\ NoUnlock(r, Cur(r).to)

\* A mutex a rank holds is its own at the server, and no unlock message for
\* it is on its way.
HeldInv ==
    \A r \in Rank : \A h \in held[r] :
        /\ Owned(r, h[1], h[2])
        /\ \A i \in DOMAIN chan[r][h[1]] :
              chan[r][h[1]][i].op = "OP_UNLOCK" =>
                  chan[r][h[1]][i].loc # h[2]

LockInv ==
    /\ TagInv
    /\ OrderInv
    /\ QueueInv
    /\ GrantInv
    /\ GrantedInv
    /\ HeldInv

-----------------------------------------------------------------------------
(* What a call still waits for.  A call that asks other ranks for an answer *)
(* leaves traces: a request on its way, an entry of a queue, a response on *)
(* its way.  Open counts them; CallInv says what their number is.          *)

RequestOp == {"OP_GET_REQUEST", "OP_FENCE_REQUEST", "OP_BARRIER_REQUEST",
              "OP_FETCH_AND_ADD_REQUEST", "OP_SWAP_REQUEST", "OP_LOCK_REQUEST"}

\* The calls that send such a request, or get such a response
Caller(op) ==
    CASE op \in {"OP_GET_REQUEST", "OP_GET_RESPONSE"}         -> {"get"}
      [] op \in {"OP_FENCE_REQUEST", "OP_FENCE_RESPONSE"}     -> {"fence"}
      [] op \in {"OP_BARRIER_REQUEST", "OP_BARRIER_RESPONSE"} -> BarrierOp
      [] op \in RmwRequest \cup RmwResponse                   -> RmwOp
      [] OTHER                                                -> {"lock"}

\* Call number c of r is in progress, and is one of these operations.
Present(r, c, ops) == c = pc[r] /\ In(r, ops)

\* All traces are of calls in progress.
MessagesPresent ==
    \A s, d \in Rank : \A i \in DOMAIN chan[s][d] :
        LET m == chan[s][d][i]
        IN  /\ m.op \in RequestOp => Present(s, m.call, Caller(m.op))
            /\ m.op \in ResponseOp => Present(d, m.call, Caller(m.op))

EntriesPresent(q, ops) ==
    \A i \in DOMAIN q : Present(q[i].rank, q[i].call, ops)

QueuesPresent ==
    \A p \in Rank :
        /\ EntriesPresent(bq[p], BarrierOp)
        /\ EntriesPresent(kept[p], BarrierOp)
        /\ \A id \in Mutex : EntriesPresent(lq[p][id], {"lock"})

\* The messages of q that are one of ops, and the entries of q for rank r
Num(q, ops) == Cardinality({i \in DOMAIN q : q[i].op \in ops})
From(q, r)  == Cardinality({i \in DOMAIN q : q[i].rank = r})
Unit(b)     == IF b THEN 1 ELSE 0

InLockQueue(r, p) ==
    \E id \in Mutex : \E i \in DOMAIN lq[p][id] : lq[p][id][i].rank = r
LockEntries(r, p) == IF InLockQueue(r, p) THEN 1 ELSE 0

\* The traces of r at p: between the two, and in the queues of p
Wire(r, p) == Num(chan[r][p], RequestOp) + Num(chan[p][r], ResponseOp)
Parked(r, p) == From(bq[p], r) + From(kept[p], r) + LockEntries(r, p)
Open(r, p) == Wire(r, p) + Parked(r, p)

\* A rank waits for a mutex once.
QueuedOnce ==
    \A p \in Rank : \A id, jd \in Mutex :
        \A i \in DOMAIN lq[p][id] : \A j \in DOMAIN lq[p][jd] :
            lq[p][id][i].rank = lq[p][jd][j].rank => id = jd /\ i = j

\* The phases of a call and the operation it is belong together.
BarrierPhase == {"bsend", "breq", "bscan", "bwait"}

PhaseAt(r) ==
    /\ phase[r] \in BarrierPhase => Cur(r).op \in BarrierOp
    /\ In(r, BarrierOp) => phase[r] \in BarrierPhase
    /\ phase[r] = "gather" => Cur(r).op = "gather"
    /\ phase[r] = "wait" /\ Cur(r).op # "unlock" => busy[r]
    /\ todo[r] # {} => phase[r] \in {"fence", "bsend"}

\* Ranks a fence has asked, or has still to ask
Awaited(r) == {p \in Rank : p \in todo[r] \/ Open(r, p) # 0}

\* The traces of r are what its call says it waits for.  Other calls than
\* these wait for nobody.
AskingOp == {"get", "fence", "lock"} \cup RmwOp \cup BarrierOp

NobodyAsked(r) == ~In(r, AskingOp) => \A p \in Rank : Open(r, p) = 0

\* A get asks its target, and gq counts its requests.
GetCounted(r) ==
    /\ In(r, {"get"}) =>
          /\ \A p \in Rank : Open(r, p) = IF p = Cur(r).to THEN gets[r] ELSE 0
          /\ Cur(r).to = r => gets[r] = 0
    /\ ~In(r, {"get"}) => gets[r] = 0

\* A lock or rmw asks its target once, and *notify says so.
NotifyCounted(r) ==
    In(r, {"lock"} \cup RmwOp) =>
        /\ \A p \in Rank : Open(r, p) = IF p = Cur(r).to THEN notify[r] ELSE 0
        /\ notify[r] \in {0, 1}

\* A fence asks each rank once, and *notify counts those still to answer.
FenceCounted(r) ==
    In(r, {"fence"}) =>
        /\ \A p \in Rank : Open(r, p) + Unit(p \in todo[r]) <= 1
        /\ notify[r] = Cardinality(Awaited(r))

\* A member of a barrier has still to be asked, is asked, or has answered.
MasksCounted(r) ==
    In(r, BarrierOp) =>
        \A p \in Rank :
           IF p \in Cur(r).grp \ {r}
           THEN Open(r, p) + Unit(p \in todo[r]) + resps[r][p] = 1
           ELSE Open(r, p) = 0 /\ p \notin todo[r]

Counted(r) ==
    /\ NobodyAsked(r)
    /\ GetCounted(r)
    /\ NotifyCounted(r)
    /\ FenceCounted(r)
    /\ MasksCounted(r)

CallInv ==
    /\ \A r \in Rank : PhaseAt(r)
    /\ MessagesPresent
    /\ QueuesPresent
    /\ QueuedOnce
    /\ \A r \in Rank : Counted(r)

-----------------------------------------------------------------------------
(* What fence_array promises.  Channels keep order, and a rank writes       *)
(* nothing while it waits for an answer: when its request is received, all  *)
(* that it wrote to that rank has been received before.                     *)

Holds(q, ops) == \E i \in DOMAIN q : q[i].op \in ops

\* Behind a request no write follows.
WritesAhead(q) ==
    \A i, j \in DOMAIN q :
        q[i].op \in RequestOp /\ i < j => q[j].op \notin WriteOp

\* Rank r has sent p the request of the fence it is in.
FenceSent(r, p) == In(r, {"fence"}) /\ p \in Cur(r).grp \ todo[r]

FenceInv ==
    \A r, p \in Rank :
        /\ WritesAhead(chan[r][p])
        /\ Holds(chan[r][p], WriteOp) =>
              /\ r # p
              /\ fence[r][p]
              /\ FenceSent(r, p) => Holds(chan[r][p], {"OP_FENCE_REQUEST"})

-----------------------------------------------------------------------------
(* How many messages are under way.  posted counts them, up to those that   *)
(* have been received meanwhile; the progress loop is left when all are.    *)

SendInv ==
    \A r \in Rank :
        /\ posted[r] < MaxOutstanding
        /\ busy[r] => posted[r] = 0 /\ phase[r] \notin {"idle", "gather"}
        /\ ~busy[r] /\ ~Eager => Cardinality(Unreceived(r)) <= posted[r]

-----------------------------------------------------------------------------
(* What a barrier promises.  A request names no group, so two ranks count   *)
(* the barriers they have in common; the answer to the k-th request of one  *)
(* is given inside the k-th common barrier of the other, once this one has  *)
(* a request of every member.                                              *)

\* Rank r has a request of every member of the barrier it is in.
Gathering(r) == phase[r] \in {"bsend", "breq"}
Complete(r) == phase[r] \in {"bscan", "bwait"}

\* The barriers with q that p has left, and those that p has been complete in
LeftWith(p, q) == CommonCount(p, q, pc[p] - 1)
CompleteWith(p, q) == CommonCount(p, q, IF Complete(p) THEN pc[p] ELSE pc[p] - 1)

\* Rank q has answered the request of the barrier that p is in ...
Told(p, q) ==
    /\ In(p, BarrierOp) /\ q \in Cur(p).grp
    /\ resps[p][q] # 0 \/ Holds(chan[q][p], {"OP_BARRIER_RESPONSE"})

\* ... or has still to, for the barrier that it is in itself.
Owes(q, p) == Complete(q) /\ p \in reqs[q]

AnswersCounted ==
    \A p, q \in Rank : p # q =>
        LeftWith(p, q) + Unit(Told(p, q)) + Unit(Owes(q, p)) = CompleteWith(q, p)

\* request_received_mask
MaskSound(r) ==
    /\ Gathering(r) => reqs[r] = {r}
    /\ phase[r] = "bscan" =>
          \A p \in reqs[r] : p \in Cur(r).grp \ {r} /\ From(bq[r], p) + From(kept[r], p) # 0
    /\ phase[r] = "bwait" => reqs[r] = {}

\* Behind a barrier request its sender has sent nothing but answers, ...
Behind(q) ==
    \A i, j \in DOMAIN q :
        q[i].op = "OP_BARRIER_REQUEST" /\ i < j => q[j].op \in ResponseOp

\* ... so that nothing else is left when the request has been received.
Asking(p, q) == In(p, BarrierOp) /\ q \in Cur(p).grp \ todo[p]

RequestTaken(p, q) ==
    Asking(p, q) /\ ~Holds(chan[p][q], {"OP_BARRIER_REQUEST"}) =>
        \A i \in DOMAIN chan[p][q] : chan[p][q][i].op \in ResponseOp

\* What is under way was sent after the barriers that were complete, by a
\* call that the sender has made and that is no collective of MPI.
Sends(p, c) == c \in DOMAIN prog[p] /\ c <= pc[p] /\ prog[p][c].op # "gather"

SentAfter(p, q) ==
    \A i \in DOMAIN chan[p][q] : chan[p][q][i].op \notin ResponseOp =>
        /\ Sends(p, chan[p][q][i].call)
        /\ CompleteWith(q, p) <= CommonCount(p, q, chan[p][q][i].call - 1)

\* No rank runs past the end of its program.
InProgram(r) == pc[r] <= Len(prog[r]) + 1

BarrierInv ==
    /\ AnswersCounted
    /\ \A r \in Rank : MaskSound(r) /\ InProgram(r)
    /\ \A p, q \in Rank : Behind(chan[p][q])
    /\ \A p, q \in Rank : p # q => RequestTaken(p, q) /\ SentAfter(p, q)

\* The programs agree on their barriers: a rank calls those of groups it is
\* in, and the k-th barrier that two ranks have in common is the same one on
\* both: over the same group, and a comex_finalize on both or on none.
Matched(ps) ==
    LET common(p, q, i) == ps[p][i].op \in BarrierOp /\ q \in ps[p][i].grp
        count(p, q, n)  == Cardinality({i \in 1 .. n : common(p, q, i)})
    IN  \A p, q \in Rank : \A i \in DOMAIN ps[p], j \in DOMAIN ps[q] :
            /\ ps[p][i].op \in BarrierOp => p \in ps[p][i].grp
            /\ /\ common(p, q, i) /\ common(q, p, j)
               /\ count(p, q, i) = count(q, p, j)
               => /\ ps[p][i].grp = ps[q][j].grp
                  /\ ps[p][i].op = "finalize" <=> ps[q][j].op = "finalize"

\* An MPI collective comes right after a barrier over its group, as in
\* comex_malloc, and after the same common barriers on both of two ranks.
GathersMatched(ps) ==
    LET common(p, q, i) == ps[p][i].op \in BarrierOp /\ q \in ps[p][i].grp
        count(p, q, n)  == Cardinality({i \in 1 .. n : common(p, q, i)})
        gather(p, i)    == i \in DOMAIN ps[p] /\ ps[p][i].op = "gather"
    IN  \A p, q \in Rank : \A i \in DOMAIN ps[p] :
            /\ gather(p, i) => /\ i - 1 \in DOMAIN ps[p]
                               /\ ps[p][i - 1].op \in BarrierOp
                               /\ ps[p][i - 1].grp = ps[p][i].grp
            /\ \A j \in DOMAIN ps[q] :
                  /\ common(p, q, i) /\ common(q, p, j)
                  /\ count(p, q, i) = count(q, p, j)
                  => (gather(p, i + 1) <=> gather(q, j + 1))

\* comex_finalize is the last call of a program, and over all ranks.
FinalizeLast(ps) ==
    \A r \in Rank : \A i \in DOMAIN ps[r] :
        ps[r][i].op = "finalize" => i = Len(ps[r]) /\ ps[r][i].grp = Rank

=============================================================================
