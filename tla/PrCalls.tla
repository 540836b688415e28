------------------------------- MODULE PrCalls -------------------------------
(***************************************************************************)
(* The calls of a worker, comex/src-mpi-pr/comex.c.  A call has one action *)
(* for each of its parts (Stages).  One that asks a master stops in mode   *)
(* "wait", and Return is the end of its nb_wait_for_all.                   *)
(***************************************************************************)
EXTENDS PrState

\* The program of w is about to make the call op.
Calling(w, ops) == At(w, Cur(w).op) /\ Cur(w).op \in ops

\* A rank reaches its own memory directly, and the memory of its host if it
\* need not pack the data.
Direct(w) == \/ Cur(w).to = w
             \/ SameHost(Cur(w).to, w) /\ ~Cur(w).packed

\* The place of the segment a call names in the memory of the rank it is for,
\* and whether w has it mapped
Target(w) == ptrs[w][Cur(w).seg][Cur(w).to]
Mapped(w) == <<Cur(w).to, Target(w)>> \in reg[w]

\* After its messages are sent a call waits for its handle if it is blocking.
Sent(w) == IF Cur(w).hdl = Blocking THEN Turn(w, "wait") ELSE Advance({w})

\* comex_put, comex_get and their strided, vector and non-blocking forms
DirectPut(w) ==
    /\ Calling(w, {"put"}) /\ Direct(w)
    /\ TakeHandle(w, FALSE, Cur(w).hdl)
    /\ Assert(Mapped(w))
    /\ mem' = [mem EXCEPT ![Cur(w).to][Target(w)] = Cur(w).val]
    /\ Advance({w})
    /\ UNCHANGED <<job, master, chan, posted, got, fence, sem, segs, locks,
                   servers>>

DirectGet(w) ==
    /\ Calling(w, {"get"}) /\ Direct(w)
    /\ TakeHandle(w, FALSE, Cur(w).hdl)
    /\ Assert(Mapped(w))
    /\ got' = [got EXCEPT ![w] = Append(@, mem[Cur(w).to][Target(w)])]
    /\ Advance({w})
    /\ UNCHANGED <<job, master, chan, posted, fence, mem, sem, segs, locks,
                   servers>>

\* Mutant: the semaphore is not waited for.
DirectAccBarges(w) ==
    /\ Calling(w, {"acc"}) /\ Direct(w)
    /\ TakeHandle(w, FALSE, Cur(w).hdl)
    /\ Assert(Mapped(w))
    /\ sem' = [sem EXCEPT ![Cur(w).to] = w]
    /\ srv' = [srv EXCEPT ![w] =
         <<[from |-> w, old |-> mem[Cur(w).to][Target(w)],
            msg |-> Request(w, "OP_ACC", Cur(w).to, Target(w), Cur(w).val)]>>]
    /\ Turn(w, "acc")
    /\ UNCHANGED <<job, master, chan, posted, got, fence, mem, segs, locks,
                   running>>

\* comex_acc takes the semaphore and reads ...
DirectAcc(w) ==
    /\ Calling(w, {"acc"}) /\ Direct(w)
    /\ TakeHandle(w, FALSE, Cur(w).hdl)
    /\ Assert(Mapped(w))
    /\ sem[Cur(w).to] = UNLOCKED
    /\ sem' = [sem EXCEPT ![Cur(w).to] = w]
    /\ srv' = [srv EXCEPT ![w] =
         <<[from |-> w, old |-> mem[Cur(w).to][Target(w)],
            msg |-> Request(w, "OP_ACC", Cur(w).to, Target(w), Cur(w).val)]>>]
    /\ Turn(w, "acc")
    /\ UNCHANGED <<job, master, chan, posted, got, fence, mem, segs, locks,
                   running>>

\* ... and adds, and releases it.
DirectAccApply(w) ==
    /\ mode[w] = "acc"
    /\ LET s == srv[w][1]
       IN  /\ mem' = [mem EXCEPT ![s.msg.rank][s.msg.id] = s.old + s.msg.val]
           /\ sem' = [sem EXCEPT ![s.msg.rank] = UNLOCKED]
    /\ srv' = [srv EXCEPT ![w] = <<>>]
    /\ Advance({w})
    /\ UNCHANGED <<job, master, nb, hdls, chan, posted, got, fence, segs,
                   locks, running, failed>>

\* Mutant: the flag is not set.
RemoteWriteUnflagged(w) ==
    /\ Calling(w, {"put", "acc"}) /\ ~Direct(w)
    /\ TakeHandle(w, TRUE, Cur(w).hdl)
    /\ LET m == master[Cur(w).to]
       IN  /\ fence' = fence
           /\ Send(w, {m}, Request(w, IF Cur(w).op = "put" THEN "OP_PUT" ELSE "OP_ACC",
                                   Cur(w).to, Target(w), Cur(w).val))
    /\ Sent(w)
    /\ UNCHANGED <<job, master, posted, got, mem, sem, segs, locks, servers,
                   failed>>

\* To other memory the calls go through the master of its host, and a write
\* sets the flag of that master.
RemoteWrite(w) ==
    /\ Calling(w, {"put", "acc"}) /\ ~Direct(w)
    /\ TakeHandle(w, TRUE, Cur(w).hdl)
    /\ LET m == master[Cur(w).to]
       IN  /\ fence' = [fence EXCEPT ![w][m] = TRUE]
           /\ Send(w, {m}, Request(w, IF Cur(w).op = "put" THEN "OP_PUT" ELSE "OP_ACC",
                                   Cur(w).to, Target(w), Cur(w).val))
    /\ Sent(w)
    /\ UNCHANGED <<job, master, posted, got, mem, sem, segs, locks, servers,
                   failed>>

RemoteGet(w) ==
    /\ Calling(w, {"get"}) /\ ~Direct(w)
    /\ TakeHandle(w, TRUE, Cur(w).hdl)
    /\ LET m == master[Cur(w).to]
       IN  /\ Prepost(w, {m})
           /\ Send(w, {m}, Request(w, "OP_GET", Cur(w).to, Target(w), 0))
    /\ Sent(w)
    /\ UNCHANGED <<job, master, data, segs, locks, servers, failed>>

\* comex_rmw goes through the master, wherever the memory is.
Rmw(w) ==
    /\ Calling(w, {"fadd", "swap"})
    /\ Ask(w, {master[Cur(w).to]},
           Request(w, IF Cur(w).op = "fadd" THEN "OP_FETCH_AND_ADD" ELSE "OP_SWAP",
                   Cur(w).to, Target(w), Cur(w).val))
    /\ UNCHANGED <<job, master, data, segs, locks, servers, failed>>

-----------------------------------------------------------------------------
(* Completion *)

\* nb_wait_for_all returns: the answers of the call have come.
Return(w) ==
    /\ Active(w) /\ mode[w] = "wait" /\ ~Pending(w, nb[w].cur)
    /\ nb' = Emptied(w, {nb[w].cur})
    /\ held' = IF Stage(w) # "lock" THEN held
               ELSE [held EXCEPT ![w] = @ \cup {<<Cur(w).to, Cur(w).val>>}]
    /\ fence' = IF Stage(w) # "fence" THEN fence
                ELSE [fence EXCEPT ![w] = [m \in Server |-> FALSE]]
    /\ Advance({w})
    /\ UNCHANGED <<job, master, hdls, chan, posted, got, mem, sem, segs, num,
                   mutexes, lq, servers, failed>>

\* comex_wait
Wait(w) ==
    /\ Calling(w, {"wait"})
    /\ LET h == hdls[w][Cur(w).hdl]
       IN  /\ ~Pending(w, h)
           /\ nb' = [Emptied(w, {h}) EXCEPT ![w].used = @ \ {h}]
    /\ Advance({w})
    /\ UNCHANGED <<job, master, hdls, chan, posted, data, segs, locks, servers,
                   failed>>

\* comex_test looks at the lists of the handle, and does not empty them.
Test(w) ==
    /\ Calling(w, {"test"})
    /\ LET h == hdls[w][Cur(w).hdl]
       IN  nb' = IF h \in nb[w].listed THEN nb ELSE [nb EXCEPT ![w].used = @ \ {h}]
    /\ Advance({w})
    /\ UNCHANGED <<job, master, hdls, chan, posted, data, segs, locks, servers,
                   failed>>

\* All that the handles of w list is complete.  They stay in use.
Complete(w) ==
    /\ \A h \in Handle : ~Pending(w, h)
    /\ nb' = Emptied(w, Handle)
    /\ Advance({w})
    /\ UNCHANGED <<job, master, hdls, chan, posted, data, segs, locks, servers,
                   failed>>

\* comex_wait_all and comex_wait_proc
WaitAll(w) == At(w, "wait_all") /\ Complete(w)

\* comex_fence_proc waits like comex_wait_all: it asks no master, and clears no
\* flag.
FenceProc(w) == At(w, "fence_proc") /\ Complete(w)

\* Mutant: only one master is asked.
OneFlagged(w) == {m \in Server : fence[w][m] /\ \A k \in Server : fence[w][k] => m <= k}

\* comex_fence_all asks the masters whose flags are set.
Flagged(w) == {m \in Server : fence[w][m]}

\* Mutant: the fence asks nobody.
FenceForgets(w) ==
    /\ At(w, "fence")
    /\ Advance({w})
    /\ UNCHANGED <<job, master, nb, hdls, chan, posted, data, segs, locks,
                   servers, failed>>

Fence(w) ==
    /\ At(w, "fence")
    /\ \/ /\ Flagged(w) = {}
          /\ Advance({w}) /\ UNCHANGED <<nb, hdls, chan, posted>>
       \/ /\ Flagged(w) # {}
          /\ Ask(w, Flagged(w), Request(w, "OP_FENCE", 0, Null, 0))
    /\ UNCHANGED <<job, master, data, segs, locks, servers, failed>>

-----------------------------------------------------------------------------
(* Collective calls *)

\* MPI_Barrier of a group: its members leave it after all have entered.  The
\* calls about mutexes and comex_finalize are for the world group.
Group(w) == IF Cur(w).op \in {"create", "destroy", "finalize"} THEN Worker
            ELSE Cur(w).grp

\* Mutant: some members are enough.
MetAny(ws, s) == ws # {} /\ \A w \in ws : At(w, s)

Met(ws, s) == ws # {} /\ \A w \in ws : At(w, s) /\ Group(w) = ws

Sync(ws) ==
    /\ Met(ws, "sync")
    /\ Advance(ws)
    /\ UNCHANGED <<job, master, nb, hdls, chan, posted, data, segs, locks,
                   servers, failed>>

\* The segment a member of a comex_malloc allocates before the MPI_Allgather,
\* and registers for itself
Unused(w)    == {a \in Addr : <<w, a>> \notin reg[w]}
Allocated(w) == IF Cur(w).val = 0 THEN Null ELSE Min(Unused(w))

GatherMalloc(ws) ==
    /\ Met(ws, "gather") /\ \A w \in ws : Cur(w).op = "malloc" /\ Unused(w) # {}
    /\ reg' = [p \in Ranks |->
         IF p \in ws /\ Allocated(p) # Null THEN reg[p] \cup {<<p, Allocated(p)>>}
         ELSE reg[p]]
    /\ ptrs' = [w \in Worker |->
         IF w \notin ws THEN ptrs[w]
         ELSE [ptrs[w] EXCEPT ![Cur(w).seg] =
                 [v \in Worker |-> IF v \in ws THEN Allocated(v) ELSE Null]]]
    /\ Advance(ws)
    /\ UNCHANGED <<job, master, nb, hdls, chan, posted, data, locks, servers,
                   failed>>

GatherFree(ws) ==
    /\ Met(ws, "gather") /\ \A w \in ws : Cur(w).op = "free"
    /\ Advance(ws)
    /\ UNCHANGED <<job, master, nb, hdls, chan, posted, data, segs, locks,
                   servers, failed>>

\* num_mutexes has a number for each worker, in the order of their ranks.
GatherCreate(ws) ==
    /\ Met(ws, "gather") /\ \A w \in ws : Cur(w).op = "create"
    /\ Assert(\A w \in ws : num[w] = <<>>)
    /\ num' = [w \in Worker |->
         [i \in 1 .. Cardinality(ws) |->
            Cur(CHOOSE v \in ws : Cardinality({u \in ws : u <= v}) = i).val]]
    /\ Advance(ws)
    /\ UNCHANGED <<job, master, nb, hdls, chan, posted, data, segs, mutexes,
                   lq, held, servers>>

\* Mutant: the own segment is not announced.
OtherEntries(w) == {<<v, ptrs[w][Cur(w).seg][v]>> : v \in
                 {u \in Cur(w).grp \ {w} : SameHost(u, w) /\ ptrs[w][Cur(w).seg][u] # Null}}

\* The segments of the members on the host of w
Entries(w) == {<<v, ptrs[w][Cur(w).seg][v]>> : v \in
                 {u \in Cur(w).grp : SameHost(u, w) /\ ptrs[w][Cur(w).seg][u] # Null}}

\* A member maps what the others of its host allocated, or removes it from its
\* cache, and the largest of a host tells the master.
Notify(w) ==
    /\ At(w, "notify")
    /\ LET malloc == Cur(w).op = "malloc"
           others == {e \in Entries(w) : e[1] # w}
       IN  /\ reg' = [reg EXCEPT ![w] = IF malloc THEN @ \cup others ELSE @ \ others]
           /\ Assert(IF malloc THEN others \cap reg[w] = {} ELSE others \subseteq reg[w])
           /\ IF Largest(w, Cur(w).grp)
              THEN Ask(w, {master[w]},
                       Header(w, IF malloc THEN "OP_MALLOC" ELSE "OP_FREE",
                              0, Null, 0, Entries(w)))
              ELSE Advance({w}) /\ UNCHANGED <<nb, hdls, chan, posted>>
    /\ UNCHANGED <<job, master, data, ptrs, locks, servers>>

\* comex_free_local.  The memory that the next comex_malloc gets is zero.
Release(w) ==
    /\ At(w, "release")
    /\ LET a == ptrs[w][Cur(w).seg][w]
       IN  IF a = Null THEN UNCHANGED <<reg, mem, failed>>
           ELSE /\ Assert(<<w, a>> \in reg[w])
                /\ reg' = [reg EXCEPT ![w] = @ \ {<<w, a>>}]
                /\ mem' = [mem EXCEPT ![w][a] = 0]
    /\ Advance({w})
    /\ UNCHANGED <<job, master, nb, hdls, chan, posted, got, fence, sem, ptrs,
                   locks, servers>>

-----------------------------------------------------------------------------
(* Mutexes and the end *)

Create(w) ==
    /\ At(w, "create")
    /\ Ask(w, {master[w]}, Request(w, "OP_CREATE_MUTEXES", 0, Null, Cur(w).val))
    /\ UNCHANGED <<job, master, data, segs, locks, servers, failed>>

\* The smallest worker of a host sends the number at the place of its rank in
\* the whole job; behind the end of num_mutexes any number may stand.
Destroy(w) ==
    /\ At(w, "destroy")
    /\ IF Smallest(w)
       THEN \E n \in IF w + 1 \in DOMAIN num[w] THEN {num[w][w + 1]} ELSE 0 .. 2 :
               Ask(w, {master[w]}, Request(w, "OP_DESTROY_MUTEXES", 0, Null, n))
       ELSE Advance({w}) /\ UNCHANGED <<nb, hdls, chan, posted>>
    /\ num' = [num EXCEPT ![w] = <<>>]
    /\ UNCHANGED <<job, master, data, segs, mutexes, lq, held, servers, failed>>

\* Mutant: the call does not wait for the mutex.
LockAtOnce(w) ==
    /\ Calling(w, {"lock"})
    /\ TakeHandle(w, TRUE, Blocking)
    /\ Prepost(w, {master[Cur(w).to]})
    /\ Send(w, {master[Cur(w).to]},
            Request(w, "OP_LOCK", Cur(w).to, Cur(w).val, 0))
    /\ held' = [held EXCEPT ![w] = @ \cup {<<Cur(w).to, Cur(w).val>>}]
    /\ Advance({w})
    /\ UNCHANGED <<job, master, data, segs, num, mutexes, lq, servers, failed>>

Lock(w) ==
    /\ Calling(w, {"lock"})
    /\ Ask(w, {master[Cur(w).to]},
           Request(w, "OP_LOCK", Cur(w).to, Cur(w).val, 0))
    /\ UNCHANGED <<job, master, data, segs, locks, servers, failed>>

\* comex_unlock waits for its send, and for no answer.
Unlock(w) ==
    /\ Calling(w, {"unlock"})
    /\ TakeHandle(w, TRUE, Blocking)
    /\ Send(w, {master[Cur(w).to]},
            Request(w, "OP_UNLOCK", Cur(w).to, Cur(w).val, 0))
    /\ held' = [held EXCEPT ![w] = @ \ {<<Cur(w).to, Cur(w).val>>}]
    /\ Turn(w, "wait")
    /\ UNCHANGED <<job, master, posted, data, segs, num, mutexes, lq, servers,
                   failed>>

\* The smallest worker of a host stops the server.
SendQuit(w) ==
    /\ At(w, "quit")
    /\ IF Smallest(w)
       THEN /\ TakeHandle(w, TRUE, Blocking)
            /\ Send(w, {master[w]}, Request(w, "OP_QUIT", 0, Null, 0))
            /\ Turn(w, "wait")
       ELSE Advance({w}) /\ UNCHANGED <<nb, hdls, chan>>
    /\ UNCHANGED <<job, master, posted, data, segs, locks, servers, failed>>

\* MPI_Barrier of all ranks, which the servers enter after their loop
Leave ==
    /\ \A w \in Worker : At(w, "leave")
    /\ \A m \in Server : ~running[m]
    /\ Advance(Worker)
    /\ UNCHANGED <<job, master, nb, hdls, chan, posted, data, segs, locks,
                   servers, failed>>

\* nb_wait_for_handle finds every handle in use, and aborts.
Takes(w) ==
    /\ Active(w) /\ mode[w] = "run"
    /\ \/ Stage(w) \in {"put", "acc", "get", "fadd", "swap", "lock", "unlock", "create"}
       \/ Stage(w) = "fence" /\ Flagged(w) # {}
       \/ Stage(w) = "notify" /\ Largest(w, Cur(w).grp)
       \/ Stage(w) \in {"destroy", "quit"} /\ Smallest(w)

Exhausted(w) ==
    /\ Takes(w) /\ Free(w) = {} /\ HandleFound(w)
    /\ Assert(FALSE)
    /\ UNCHANGED <<job, master, control, nb, hdls, chan, posted, data, segs,
                   locks, servers>>

WorkerStep(w) ==
    \/ DirectPut(w) \/ DirectGet(w) \/ DirectAcc(w) \/ DirectAccApply(w)
    \/ RemoteWrite(w) \/ RemoteGet(w) \/ Rmw(w)
    \/ Return(w) \/ Wait(w) \/ Test(w) \/ WaitAll(w) \/ Fence(w)
    \/ FenceProc(w)
    \/ Notify(w) \/ Release(w) \/ Create(w) \/ Destroy(w)
    \/ Lock(w) \/ Unlock(w) \/ SendQuit(w) \/ Exhausted(w)

GroupStep(ws) ==
    Sync(ws) \/ GatherMalloc(ws) \/ GatherFree(ws) \/ GatherCreate(ws)
=============================================================================
