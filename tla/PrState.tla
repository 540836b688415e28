------------------------------- MODULE PrState -------------------------------
(***************************************************************************)
(* The state of the progress-rank runtime, comex/src-mpi-pr/comex.c, and   *)
(* what its calls share.  The largest rank of every host is the master: it *)
(* runs no program but a server loop.  The other ranks are workers.  A     *)
(* worker reaches the memory of its own host directly and all other memory *)
(* by messages to the master of that host.                                 *)
(*                                                                         *)
(* A worker posts the receive of an answer before it sends the request.    *)
(* The sends and receives of a call are listed in one of nb_max_outstand-  *)
(* ing handles, which a ring hands out.  A header and what follows it      *)
(* (strides, vectors, data) are one message of the model: they are posted  *)
(* together, and the server takes them together.                           *)
(*                                                                         *)
(* A receive is complete when the server has sent its answer, a send when  *)
(* the server has taken the message, or at once if MPI buffers.            *)
(***************************************************************************)
EXTENDS Integers, Sequences, FiniteSets, FiniteSetsExt

CONSTANTS
    Rank,     \* the ranks of the largest job: 0 .. size - 1
    MaxNb,    \* nb_max_outstanding
    MaxAddr,  \* the most segments a rank can have at a time
    Segment,  \* names a program has for the segments of one comex_malloc
    Name,     \* variables of a program that hold a non-blocking handle
    Jobs      \* hosts, programs and MPI: see Job

Null     == 0            \* a segment of size zero has no address
Addr     == 1 .. MaxAddr
UNLOCKED == -1
Handle   == 0 .. MaxNb - 1

\* How a call waits: until its handle is done, not at all and without a
\* handle of its own, or when the program waits for the handle it was given.
Blocking == "blocking"
Implicit == "implicit"

\* The parts of a call, in order
Stages(op) ==
    CASE op = "barrier"  -> <<"fence", "sync">>
      [] op = "malloc"   -> <<"fence", "sync", "gather", "notify", "fence", "sync">>
      [] op = "free"     -> <<"fence", "sync", "gather", "notify", "release",
                              "fence", "sync">>
      [] op = "create"   -> <<"gather", "create", "fence", "sync">>
      [] op = "destroy"  -> <<"fence", "sync", "destroy">>
      [] op = "finalize" -> <<"fence", "sync", "wait_all", "fence", "sync",
                              "quit", "leave">>
      [] OTHER           -> <<op>>

\* op is the call (comex_put: "put", ...), to the rank it is for, grp its
\* group, seg the segment it names, val a value, the id of a mutex, the
\* number of mutexes or the size to allocate; packed marks a strided or
\* vector call, and hdl how it waits.
Call == [op : {"put", "acc", "get", "fadd", "swap", "wait", "test", "wait_all",
               "fence", "fence_proc", "barrier", "malloc", "free", "create",
               "destroy", "lock", "unlock", "finalize"},
         to : Rank, grp : SUBSET Rank, seg : Segment, val : Int,
         packed : BOOLEAN, hdl : {Blocking, Implicit} \cup Name]

ASSUME RankAssumption  == Rank \subseteq Nat /\ IsFiniteSet(Rank)
ASSUME BoundAssumption == MaxNb \in Nat \ {0} /\ MaxAddr \in Nat \ {0}
ASSUME NameAssumption  == Blocking \notin Name /\ Implicit \notin Name

\* The master of a rank, the largest of its host; and those that have another
MasterOf(j, r) == Max({q \in DOMAIN j.hostid : j.hostid[q] = j.hostid[r]})
Programmed(j)  == {r \in DOMAIN j.hostid : MasterOf(j, r) # r}

\* The ranks and groups that a program knows are made up of workers, and it
\* waits for handles that are in its variables.
ASSUME JobAssumption ==
    \A j \in Jobs :
        /\ DOMAIN j.hostid \subseteq Rank
        /\ j.eager \in BOOLEAN
        /\ j.calls \in [Programmed(j) -> Seq(Call)]
        /\ \A r \in Programmed(j) : \A i \in DOMAIN j.calls[r] :
              /\ j.calls[r][i].to \in Programmed(j)
              /\ j.calls[r][i].grp \subseteq Programmed(j)
              /\ j.calls[r][i].op \in {"wait", "test"} => j.calls[r][i].hdl \in Name

VARIABLES
    job,       \* hostid, and the program of each worker; does MPI buffer
    master,    \* g_state.master
    pc,        \* the number of the call a worker is in
    stage,     \* the part of this call
    mode,      \* "run", "wait" for its handle, or "acc", amid an accumulate
    nb,        \* the ring: nb_index, the handle of the call, handles in use
               \* by the program, handles with something in their lists
    hdls,      \* the handles in the variables of the program
    chan,      \* chan[w][m]: messages of worker w that m has not received
    posted,    \* posted[w][m]: receives w has posted for answers of m
    got,       \* values that answers and direct reads brought, in order
    fence,     \* fence_array: masters that have writes of the worker
    ptrs,      \* the addresses comex_malloc returned for a segment
    reg,       \* reg_cache: the <<rank, address>> a process has mapped
    mem,       \* the cell of each rank at each address
    sem,       \* semaphores: who is in the semaphore of a rank
    num,       \* num_mutexes of a worker, <<>> for NULL
    mutexes,   \* mutexes[w], at the master of w: the holders
    lq,        \* lq_heads[w]: the ranks that wait for each of them
    srv,       \* the update of a cell a process is in the middle of, or <<>>
    running,   \* is a server in its loop
    held,      \* mutexes whose lock call has returned to a worker (history)
    failed     \* an assertion of the code failed

control == <<pc, stage, mode>>
data    == <<got, fence, mem, sem>>
segs    == <<ptrs, reg>>
locks   == <<num, mutexes, lq, held>>
servers == <<srv, running>>
vars == <<job, master, control, nb, hdls, chan, posted, data, segs, locks,
          servers, failed>>

-----------------------------------------------------------------------------
(* Ranks *)

Ranks   == DOMAIN job.hostid
Worker  == {r \in Ranks : master[r] # r}
Server  == {r \in Ranks : master[r] = r}
SameHost(p, q) == job.hostid[p] = job.hostid[q]

\* _smallest_world_rank_with_same_hostid of the world group, and _largest_...
\* of g
Smallest(w)    == \A v \in Worker : SameHost(v, w) => w <= v
Largest(w, g)  == \A v \in g : SameHost(v, w) => v <= w

-----------------------------------------------------------------------------
(* Calls *)

Active(w) == pc[w] <= Len(job.calls[w])
Cur(w)    == job.calls[w][pc[w]]
Stage(w)  == Stages(Cur(w).op)[stage[w]]
At(w, s)  == Active(w) /\ mode[w] = "run" /\ Stage(w) = s

\* The workers ws finish the part of their call they are in.
Advance(ws) ==
    LET last(w) == stage[w] = Len(Stages(Cur(w).op))
    IN  /\ pc' = [w \in Worker |-> IF w \in ws /\ last(w) THEN pc[w] + 1 ELSE pc[w]]
        /\ stage' = [w \in Worker |-> IF w \notin ws THEN stage[w]
                                      ELSE IF last(w) THEN 1 ELSE stage[w] + 1]
        /\ mode' = [w \in Worker |-> IF w \in ws THEN "run" ELSE mode[w]]

Turn(w, m) == mode' = [mode EXCEPT ![w] = m] /\ UNCHANGED <<pc, stage>>

\* COMEX_ASSERT: what is checked when the build has assertions, and would be
\* an access to missing memory when it has not.
Assert(ok) == failed' = (failed \/ ~ok)

-----------------------------------------------------------------------------
(* Handles *)

\* A send or receive of this handle is not complete.
Pending(w, h) ==
    \E m \in Server :
        \/ \E i \in DOMAIN posted[w][m] : posted[w][m][i].nb = h
        \/ ~job.eager /\ \E i \in DOMAIN chan[w][m] : chan[w][m][i].nb = h

\* nb_wait_for_handle: the handle that is n places behind nb_index, the place
\* of the first that no user-level handle names, and the handles it waits for
\* on its way there.  When all are named it looks at all of them in vain.
Nth(w, n)    == (nb[w].next + n) % MaxNb
Free(w)      == {n \in Handle : Nth(w, n) \notin nb[w].used}
Place(w)     == IF Free(w) = {} THEN MaxNb - 1 ELSE Min(Free(w))
Taken(w)     == Nth(w, Place(w))
Examined(w)  == {Nth(w, n) : n \in 0 .. Place(w)}
HandleFound(w) == \A h \in Examined(w) : ~Pending(w, h)

\* Mutant: the index returned is one too far.
TakeHandleNext(w, lists, hdl) ==
    /\ Free(w) # {} /\ HandleFound(w)
    /\ nb' = [nb EXCEPT ![w] =
         [next |-> (Taken(w) + 1) % MaxNb,
          cur  |-> Taken(w),
          used |-> IF hdl \in Name THEN @.used \cup {Taken(w)} ELSE @.used,
          listed |-> (@.listed \ Examined(w)) \cup (IF lists THEN {Taken(w)} ELSE {})]]
    /\ hdls' = IF hdl \in Name THEN [hdls EXCEPT ![w][hdl] = (Taken(w) + 1) % MaxNb]
             ELSE hdls

\* Mutant: the ring does not wrap around.
TakeHandleUnwrapped(w, lists, hdl) ==
    /\ Free(w) # {} /\ HandleFound(w)
    /\ nb' = [nb EXCEPT ![w] =
         [next |-> Taken(w) + 1,
          cur  |-> Taken(w),
          used |-> IF hdl \in Name THEN @.used \cup {Taken(w)} ELSE @.used,
          listed |-> (@.listed \ Examined(w)) \cup (IF lists THEN {Taken(w)} ELSE {})]]
    /\ hdls' = IF hdl \in Name THEN [hdls EXCEPT ![w][hdl] = Taken(w)] ELSE hdls

\* The call of w takes its handle; it lists something there, or does not, and
\* returns it to its program in the variable hdl, or does not.
TakeHandle(w, lists, hdl) ==
    /\ Free(w) # {} /\ HandleFound(w)
    /\ nb' = [nb EXCEPT ![w] =
         [next |-> (Taken(w) + 1) % MaxNb,
          cur  |-> Taken(w),
          used |-> IF hdl \in Name THEN @.used \cup {Taken(w)} ELSE @.used,
          listed |-> (@.listed \ Examined(w)) \cup (IF lists THEN {Taken(w)} ELSE {})]]
    /\ hdls' = IF hdl \in Name THEN [hdls EXCEPT ![w][hdl] = Taken(w)] ELSE hdls

\* The lists of the handles hs are empty again.
Emptied(w, hs) == [nb EXCEPT ![w].listed = @ \ hs]

-----------------------------------------------------------------------------
(* Messages *)

\* header_t: the operation, the rank whose memory or mutex it is for, the
\* address or id, a value, and the segments of OP_MALLOC and OP_FREE.  call
\* and nb say for which call it was sent, and in which handle it is listed.
Header(w, op, rank, id, val, entries) ==
    [op |-> op, rank |-> rank, id |-> id, val |-> val, entries |-> entries,
     call |-> <<pc[w], stage[w]>>, nb |-> Taken(w)]

Request(w, op, rank, id, val) == Header(w, op, rank, id, val, {})

\* nb_recv for the answer, if there will be one, and nb_send_header, to each
\* of the masters ms
Send(w, ms, header) ==
    chan' = [chan EXCEPT ![w] =
      [m \in Server |-> IF m \in ms THEN Append(@[m], header) ELSE @[m]]]

Prepost(w, ms) ==
    posted' = [posted EXCEPT ![w] =
      [m \in Server |->
         IF m \in ms THEN Append(@[m], [call |-> <<pc[w], stage[w]>>, nb |-> Taken(w)])
         ELSE @[m]]]

\* A call that sends one request to each of ms, and waits for the answers
Ask(w, ms, header) ==
    /\ TakeHandle(w, TRUE, Blocking)
    /\ Prepost(w, ms) /\ Send(w, ms, header)
    /\ Turn(w, "wait")
=============================================================================
