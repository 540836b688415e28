------------------------------- MODULE PrComex -------------------------------
(***************************************************************************)
(* The progress-rank runtime, comex/src-mpi-pr/comex.c: the workers of     *)
(* PrCalls and the servers of PrServer.  A run starts after comex_init,    *)
(* with no segment and no mutex, and ends when every worker has made its   *)
(* calls.                                                                  *)
(***************************************************************************)
EXTENDS PrCalls, PrServer

Init ==
    /\ job \in Jobs
    /\ master = [r \in Ranks |-> MasterOf(job, r)]
    /\ pc = [w \in Worker |-> 1]
    /\ stage = [w \in Worker |-> 1]
    /\ mode = [w \in Worker |-> "run"]
    /\ nb = [w \in Worker |-> [next |-> 0, cur |-> 0, used |-> {}, listed |-> {}]]
    /\ hdls = [w \in Worker |-> [x \in Name |-> 0]]
    /\ chan = [w \in Worker |-> [m \in Server |-> <<>>]]
    /\ posted = [w \in Worker |-> [m \in Server |-> <<>>]]
    /\ got = [w \in Worker |-> <<>>]
    /\ fence = [w \in Worker |-> [m \in Server |-> FALSE]]
    /\ ptrs = [w \in Worker |-> [s \in Segment |-> [v \in Worker |-> Null]]]
    /\ reg = [r \in Ranks |-> {}]
    /\ mem = [r \in Rank |-> [a \in {Null} \cup Addr |-> 0]]
    /\ sem = [r \in Rank |-> UNLOCKED]
    /\ num = [w \in Worker |-> <<>>]
    /\ mutexes = [w \in Worker |-> <<>>]
    /\ lq = [w \in Worker |-> <<>>]
    /\ srv = [r \in Ranks |-> <<>>]
    /\ running = [m \in Server |-> TRUE]
    /\ held = [w \in Worker |-> {}]
    /\ failed = FALSE

Over == \A w \in Worker : ~Active(w)

\* After a failed assertion the job is gone.
Next ==
    \/ /\ ~failed
       /\ \/ \E w \in Worker : WorkerStep(w)
          \/ \E m \in Server : ServerStep(m)
          \/ \E ws \in SUBSET Worker : GroupStep(ws)
          \/ Leave
    \/ (Over \/ failed) /\ UNCHANGED vars

\* Every process is scheduled, and MPI completes what can complete.
Fairness ==
    /\ \A r \in Rank : /\ WF_vars(~failed /\ r \in Worker /\ WorkerStep(r))
                       /\ WF_vars(~failed /\ r \in Server /\ ServerStep(r))
    /\ WF_vars(~failed /\ ((\E ws \in SUBSET Worker : GroupStep(ws)) \/ Leave))

Spec == Init /\ [][Next]_vars /\ Fairness

-----------------------------------------------------------------------------
(* Properties *)

Update == [from : Worker, old : Int,
           msg : [op : {"OP_ACC", "OP_FETCH_AND_ADD", "OP_SWAP"}, rank : Rank,
                  id : {Null} \cup Addr, val : Int, entries : {{}}, call : Nat \X Nat,
                  nb : Handle]]

\* Type invariant: the control state of the workers, the handle ring, the
\* registration caches and the semaphores.
PrTypeOK ==
    /\ pc \in [Worker -> Nat] /\ stage \in [Worker -> 1 .. 7]
    /\ mode \in [Worker -> {"run", "wait", "acc"}]
    /\ nb \in [Worker -> [next : Handle, cur : Handle, used : SUBSET Handle,
                          listed : SUBSET Handle]]
    /\ reg \in [Ranks -> SUBSET (Rank \X Addr)]
    /\ fence \in [Worker -> [Server -> BOOLEAN]]
    /\ sem \in [Rank -> Rank \cup {UNLOCKED}]
    /\ \A r \in Ranks : srv[r] = <<>> \/ srv[r] \in Seq(Update)
    /\ failed \in BOOLEAN

\* Messages of w that m has not handled to the end
Ongoing(w, m) ==
    (IF m \in Server /\ srv[m] # <<>> /\ srv[m][1].from = w
     THEN <<srv[m][1].msg>> ELSE <<>>) \o chan[w][m]

Answered(msg) == msg.op \notin {"OP_PUT", "OP_ACC", "OP_UNLOCK", "OP_QUIT"}

\* w waits in a queue of m.
Queued(w, m) ==
    \E o \in Worker : master[o] = m /\
        \E i \in DOMAIN lq[o] : \E k \in DOMAIN lq[o][i] : lq[o][i][k] = w

\* What was made for an earlier call, or an earlier part of it, comes first.
Before(c, d) == c[1] < d[1] \/ (c[1] = d[1] /\ c[2] < d[2])
InOrder(s)   == \A i, k \in DOMAIN s : i < k => Before(s[i].call, s[k].call)

\* The calls of w with a request at m
Asking(w, m) == LET q == Ongoing(w, m)
                IN  {q[i].call : i \in {k \in DOMAIN q : Answered(q[k])}}

\* Every answer goes to the call that asked for it: the receives a worker has
\* posted for a master are those of its requests there, in the same order, or
\* the one of a lock request that waits in a queue, after which there is none.
\* Otherwise a get could return the answer of another call (nb_recv,
\* comex.c:3741; all answers have the same tag).
AnswersInOrder ==
    ~failed => \A w \in Worker, m \in Server :
        /\ InOrder(Ongoing(w, m)) /\ InOrder(posted[w][m])
        /\ {posted[w][m][i].call : i \in DOMAIN posted[w][m]}
             = Asking(w, m) \cup (IF Queued(w, m) THEN {<<pc[w], stage[w]>>} ELSE {})
        /\ Queued(w, m) => Asking(w, m) = {}

\* A worker that waits in the barrier of a call has no put or accumulate under
\* way: comex_barrier is a fence of all and a barrier (comex.c:781).
BarrierFlushes ==
    \A w \in Worker : At(w, "sync") =>
        \A m \in Server : \A i \in DOMAIN Ongoing(w, m) :
            Ongoing(w, m)[i].op \notin {"OP_PUT", "OP_ACC"}

\* Nobody waits for a mutex of a worker when its table is made or destroyed.
ReplacedUnused ==
    \A m \in Server, w \in Worker :
        Incoming(m, w, {"OP_CREATE_MUTEXES", "OP_DESTROY_MUTEXES"}) =>
            \A i \in DOMAIN lq[w] : lq[w][i] = <<>>

\* Programs unlock what they hold, and nobody holds or waits for a mutex of a
\* worker when its table is made or destroyed.
Disciplined ==
    /\ \A w \in Worker : Calling(w, {"unlock"}) => <<Cur(w).to, Cur(w).val>> \in held[w]
    /\ \A m \in Server, w \in Worker :
          Incoming(m, w, {"OP_CREATE_MUTEXES", "OP_DESTROY_MUTEXES"}) =>
              \A i \in DOMAIN mutexes[w] : mutexes[w][i] = UNLOCKED /\ lq[w][i] = <<>>

\* comex_finalize is the last call of a program, and the workers that meet in
\* it are all in it.
FinalizedTogether ==
    /\ \A w \in Worker : \A i \in DOMAIN job.calls[w] :
          job.calls[w][i].op = "finalize" => i = Len(job.calls[w])
    /\ Met(Worker, "sync") =>
          \A v, w \in Worker : Cur(v).op = "finalize" => Cur(w).op = "finalize"

-----------------------------------------------------------------------------
(* Refinement *)

\* How many of the first i messages of q access the memory of d, and those of q
\* that do, in their order
IsAccess(h, d) == h.op \in {"OP_PUT", "OP_ACC", "OP_GET"} /\ h.rank = d
Upto(q, d, i)  == Cardinality({j \in 1 .. i : IsAccess(q[j], d)})
Only(q, d) ==
    [k \in 1 .. Upto(q, d, Len(q)) |->
        q[CHOOSE i \in DOMAIN q : IsAccess(q[i], d) /\ Upto(q, d, i) = k]]

\* The accesses of s to the memory of d that its master has not handled
Accesses(q, d) ==
    LET hs == Only(q, d)
    IN  [i \in DOMAIN hs |-> [op |-> hs[i].op, loc |-> hs[i].id, val |-> hs[i].val]]
OnWay(s, d) == IF s \in Worker /\ d \in Ranks
               THEN Accesses(Ongoing(s, master[d]), d) ELSE <<>>

\* A put or accumulate of s to the memory of d, by message
WritesTo(s, c, d) ==
    c.op \in {"put", "acc"} /\ c.to = d /\ s # d /\ (SameHost(d, s) => c.packed)

\* The calls of s that have sent what they send; and, of its first n, is there a
\* comex_fence_proc for d with no write to d behind it?
Made(s) == IF mode[s] = "wait" THEN pc[s] ELSE pc[s] - 1
Fenced(s, d, n) ==
    \E i \in 1 .. n :
        /\ job.calls[s][i].op = "fence_proc" /\ job.calls[s][i].to = d
        /\ \A k \in i + 1 .. n : ~WritesTo(s, job.calls[s][k], d)
Relied(s, d) == Fenced(s, d, Made(s))

\* The variables of OneSided; what comex_fence_proc has flushed is not dirty.
Pend    == [s \in Rank |-> [d \in Rank |-> OnWay(s, d)]]
Log     == [s \in Rank |-> IF s \in Worker THEN got[s] ELSE <<>>]
Dirty   == [s \in Rank |-> [d \in Rank |->
               IF s \in Worker /\ d \in Ranks THEN fence[s][master[d]] /\ ~Relied(s, d)
               ELSE FALSE]]
Holding == [s \in Rank |-> IF s \in Worker THEN held[s] ELSE {}]

Promise == INSTANCE OneSided WITH
    Cell <- {Null} \cup Addr, pend <- Pend, log <- Log, dirty <- Dirty, held <- Holding

\* What a program sees of memory and mutexes is what OneSided promises: the
\* accesses of a rank arrive in order, a read sees the writes before it, a
\* read-modify-write is atomic, a fence covers the writes it should.
ImplementsOneSided == Promise!OSpec

\* "Flush all outgoing messages from me to the given proc" (comex.h:551).
FenceFlushes ==
    \A s, d \in Worker : Relied(s, d) => Promise!NoWrite(OnWay(s, d))

\* A direct access of w is about to be made, or an accumulate is being made.
Accessing(w) ==
    /\ Active(w) /\ mode[w] # "wait" /\ Cur(w).op \in {"put", "acc", "get"}
    /\ Direct(w)

\* Programs that reach memory directly wait first for what they sent packed to
\* the master of the same memory: one does not come after the other.
DirectInTurn == \A w \in Worker : Accessing(w) => OnWay(w, Cur(w).to) = <<>>

\* Programs do not write directly to a cell that a master is updating, nor
\* release it; an accumulate they may make, unless the master is amid a
\* read-modify-write, which takes no semaphore.
UpdatesAlone ==
    \A m \in Server : srv[m] # <<>> =>
        LET h    == srv[m][1].msg
            cell == <<h.rank, h.id>>
        IN  \A w \in Worker :
              /\ Calling(w, {"put"}) /\ Direct(w) => <<Cur(w).to, Target(w)>> # cell
              /\ At(w, "release") => <<w, ptrs[w][Cur(w).seg][w]>> # cell
              /\ mode[w] = "acc" /\ h.op # "OP_ACC" =>
                    <<srv[w][1].msg.rank, srv[w][1].msg.id>> # cell

-----------------------------------------------------------------------------

\* No assertion fails and no access goes wrong: every segment a message names
\* is mapped by the master that handles it and by the workers that reach it
\* directly, nothing is registered twice, and no mutex is destroyed in use.
\* Where a program calls comex_fence_proc nothing is under way.  The one way to
\* fail is a program that holds all the handles.  No variable leaves its type
\* either.
NoFailure ==
    /\ PrTypeOK
    /\ ReplacedUnused /\ Disciplined /\ FinalizedTogether
    /\ DirectInTurn /\ UpdatesAlone /\ FenceFlushes
    /\ failed => \E w \in Worker : nb[w].used = Handle

\* A mutex has at most one holder, and the master knows it.
MutexHeldOnce ==
    \A w \in Worker : \A x \in held[w] :
        /\ \A v \in Worker \ {w} : x \notin held[v]
        /\ x[2] + 1 \in DOMAIN mutexes[x[1]] => mutexes[x[1]][x[2] + 1] = w

\* The calls of w up to now that were given a handle in the variable x
Issued(w, x) == {i \in 1 .. pc[w] - 1 : /\ job.calls[w][i].op \in {"put", "acc", "get"}
                                        /\ job.calls[w][i].hdl = x}

\* When the wait for a handle returns, the operation that the handle was given
\* for is complete, whatever calls took handles in between: its answer has
\* come, and its message is out of the hands of MPI (nb_get_handle_index,
\* nb_wait_for_handle, comex_wait).
WaitCompletes ==
    [][\A w \in Worker :
         Calling(w, {"wait"}) /\ pc'[w] # pc[w] =>
           \A c \in Issued(w, Cur(w).hdl) :
             (\A k \in Issued(w, Cur(w).hdl) : k <= c) =>
               \A m \in Server :
                 /\ \A i \in DOMAIN posted[w][m] : posted[w][m][i].call # <<c, 1>>
                 /\ job.eager \/ \A i \in DOMAIN chan[w][m] :
                                    chan[w][m][i].call # <<c, 1>>]_vars

\* A master that left its loop has nothing to do: at most unlocks that nobody
\* waits for are lost.
QuitLast ==
    \A m \in Server : ~running[m] =>
        \A w \in Worker :
            /\ posted[w][m] = <<>>
            /\ \A i \in DOMAIN chan[w][m] : chan[w][m][i].op = "OP_UNLOCK"

\* Every program comes to its end, unless an assertion fails.
Termination == <>(Over \/ failed)
=============================================================================
