------------------------------ MODULE PrServer ------------------------------
(***************************************************************************)
(* The server loop of a master, _progress_server of                        *)
(* comex/src-mpi-pr/comex.c, and its handlers.  The server receives from   *)
(* any worker, and handles one message before it receives the next.  Two   *)
(* kinds of handlers share memory with workers of the host while they run, *)
(* and take two steps: an accumulate reads under the semaphore of the rank *)
(* it is for, and adds; a read-modify-write reads and writes without it.   *)
(***************************************************************************)
EXTENDS PrState

\* m may receive a message of w with an operation of ops.
Incoming(m, w, ops) ==
    /\ running[m] /\ srv[m] = <<>>
    /\ chan[w][m] # <<>> /\ Head(chan[w][m]).op \in ops

Msg(m, w) == Head(chan[w][m])

Receive(m, w) == chan' = [chan EXCEPT ![w][m] = Tail(@)]

\* server_send: the answer completes the first receive that w posted.
Answer(m, w) == posted' = [posted EXCEPT ![w][m] = SubSeq(@, 2, Len(@))]
Expected(m, w) == posted[w][m] # <<>>

Returns(w, val) == got' = [got EXCEPT ![w] = Append(@, val)]

\* reg_cache_find
Registered(p, x) == Assert(x \in reg[p])

PutHandler(m, w) ==
    /\ Incoming(m, w, {"OP_PUT"})
    /\ Receive(m, w)
    /\ LET h == Msg(m, w)
       IN  /\ Registered(m, <<h.rank, h.id>>)
           /\ mem' = [mem EXCEPT ![h.rank][h.id] = h.val]
    /\ UNCHANGED <<job, master, control, nb, hdls, posted, got, fence, sem,
                   segs, locks, servers>>

GetHandler(m, w) ==
    /\ Incoming(m, w, {"OP_GET"})
    /\ Receive(m, w) /\ Answer(m, w)
    /\ LET h == Msg(m, w)
       IN  /\ Assert(<<h.rank, h.id>> \in reg[m] /\ Expected(m, w))
           /\ Returns(w, mem[h.rank][h.id])
    /\ UNCHANGED <<job, master, control, nb, hdls, fence, mem, sem, segs,
                   locks, servers>>

\* The server is in the middle of the message of w, having read the cell.
Begin(m, w) ==
    LET h == Msg(m, w)
    IN  /\ Registered(m, <<h.rank, h.id>>)
        /\ srv' = [srv EXCEPT ![m] =
                     <<[from |-> w, msg |-> h, old |-> mem[h.rank][h.id]]>>]

Busy(m, ops) == srv[m] # <<>> /\ srv[m][1].msg.op \in ops

\* _acc_handler takes the semaphore and reads ...
AccHandler(m, w) ==
    /\ Incoming(m, w, {"OP_ACC"})
    /\ sem[Msg(m, w).rank] = UNLOCKED
    /\ Receive(m, w) /\ Begin(m, w)
    /\ sem' = [sem EXCEPT ![Msg(m, w).rank] = m]
    /\ UNCHANGED <<job, master, control, nb, hdls, posted, got, fence, mem,
                   segs, locks, running>>

\* ... and adds, and releases it.
AccApply(m) ==
    /\ Busy(m, {"OP_ACC"})
    /\ LET h == srv[m][1].msg
       IN  /\ mem' = [mem EXCEPT ![h.rank][h.id] = srv[m][1].old + h.val]
           /\ sem' = [sem EXCEPT ![h.rank] = UNLOCKED]
    /\ srv' = [srv EXCEPT ![m] = <<>>]
    /\ UNCHANGED <<job, master, control, nb, hdls, chan, posted, got, fence,
                   segs, locks, running, failed>>

\* _fetch_and_add_handler and _swap_handler read the old value ...
RmwHandler(m, w) ==
    /\ Incoming(m, w, {"OP_FETCH_AND_ADD", "OP_SWAP"})
    /\ Receive(m, w) /\ Begin(m, w)
    /\ UNCHANGED <<job, master, control, nb, hdls, posted, data, segs, locks,
                   running>>

\* ... and store the new one, and answer with the old.
RmwApply(m) ==
    /\ Busy(m, {"OP_FETCH_AND_ADD", "OP_SWAP"})
    /\ LET s   == srv[m][1]
           new == IF s.msg.op = "OP_SWAP" THEN s.msg.val ELSE s.old + s.msg.val
       IN  /\ mem' = [mem EXCEPT ![s.msg.rank][s.msg.id] = new]
           /\ Answer(m, s.from) /\ Returns(s.from, s.old)
           /\ Assert(Expected(m, s.from))
    /\ srv' = [srv EXCEPT ![m] = <<>>]
    /\ UNCHANGED <<job, master, control, nb, hdls, chan, fence, sem, segs,
                   locks, running>>

FenceHandler(m, w) ==
    /\ Incoming(m, w, {"OP_FENCE"})
    /\ Receive(m, w) /\ Answer(m, w) /\ Assert(Expected(m, w))
    /\ UNCHANGED <<job, master, control, nb, hdls, data, segs, locks, servers>>

\* The table is for the rank that sent the message.
MutexCreateHandler(m, w) ==
    /\ Incoming(m, w, {"OP_CREATE_MUTEXES"})
    /\ Receive(m, w) /\ Answer(m, w) /\ Assert(Expected(m, w))
    /\ mutexes' = [mutexes EXCEPT ![w] = [i \in 1 .. Msg(m, w).val |-> UNLOCKED]]
    /\ lq' = [lq EXCEPT ![w] = [i \in 1 .. Msg(m, w).val |-> <<>>]]
    /\ UNCHANGED <<job, master, control, nb, hdls, data, segs, num, held,
                   servers>>

\* Nobody holds or waits for any of the mutexes that the message counts.
MutexDestroyHandler(m, w) ==
    /\ Incoming(m, w, {"OP_DESTROY_MUTEXES"})
    /\ Receive(m, w) /\ Answer(m, w)
    /\ Assert(/\ Expected(m, w)
              /\ \A i \in 1 .. Msg(m, w).val :
                    /\ i \in DOMAIN mutexes[w]
                    /\ mutexes[w][i] = UNLOCKED /\ lq[w][i] = <<>>)
    /\ mutexes' = [mutexes EXCEPT ![w] = <<>>]
    /\ lq' = [lq EXCEPT ![w] = <<>>]
    /\ UNCHANGED <<job, master, control, nb, hdls, data, segs, num, held,
                   servers>>

\* The mutex a message is about, with its place in the table of rank o; to
\* touch one that is not there is a failure.
Touches(o, i) == i \in DOMAIN mutexes[o]

\* Mutant: every request is granted.
LockHandlerGrants(m, w) ==
    /\ Incoming(m, w, {"OP_LOCK"})
    /\ Receive(m, w)
    /\ LET o == Msg(m, w).rank
           i == Msg(m, w).id + 1
       IN  /\ Assert(Touches(o, i) /\ Expected(m, w))
           /\ mutexes' = [mutexes EXCEPT ![o][i] = w]
           /\ Answer(m, w)
    /\ UNCHANGED lq
    /\ UNCHANGED <<job, master, control, nb, hdls, data, segs, num, held,
                   servers>>

\* A free mutex is granted, else the request waits.
LockHandler(m, w) ==
    /\ Incoming(m, w, {"OP_LOCK"})
    /\ Receive(m, w)
    /\ LET o == Msg(m, w).rank
           i == Msg(m, w).id + 1
       IN  \/ /\ Touches(o, i) => mutexes[o][i] = UNLOCKED
              /\ Assert(Touches(o, i) /\ Expected(m, w))
              /\ mutexes' = [mutexes EXCEPT ![o][i] = w]
              /\ Answer(m, w) /\ UNCHANGED lq
           \/ /\ Touches(o, i) /\ mutexes[o][i] # UNLOCKED
              /\ lq' = [lq EXCEPT ![o][i] = Append(@, w)]
              /\ UNCHANGED <<mutexes, posted, failed>>
    /\ UNCHANGED <<job, master, control, nb, hdls, data, segs, num, held,
                   servers>>

\* Mutant: the first that waits is not told.
UnlockHandlerFrees(m, w) ==
    /\ Incoming(m, w, {"OP_UNLOCK"})
    /\ Receive(m, w)
    /\ mutexes' = [mutexes EXCEPT ![Msg(m, w).rank][Msg(m, w).id + 1] = UNLOCKED]
    /\ UNCHANGED <<job, master, control, nb, hdls, posted, data, segs, num, lq,
                   held, servers, failed>>

\* The first that waits gets the mutex, whoever released it.
UnlockHandler(m, w) ==
    /\ Incoming(m, w, {"OP_UNLOCK"})
    /\ Receive(m, w)
    /\ LET o == Msg(m, w).rank
           i == Msg(m, w).id + 1
       IN  \/ /\ Touches(o, i) /\ lq[o][i] # <<>>
              /\ mutexes' = [mutexes EXCEPT ![o][i] = Head(lq[o][i])]
              /\ lq' = [lq EXCEPT ![o][i] = Tail(@)]
              /\ Answer(m, Head(lq[o][i])) /\ Assert(Expected(m, Head(lq[o][i])))
           \/ /\ Touches(o, i) => lq[o][i] = <<>>
              /\ Assert(Touches(o, i))
              /\ mutexes' = [mutexes EXCEPT ![o][i] = UNLOCKED]
              /\ UNCHANGED <<lq, posted>>
    /\ UNCHANGED <<job, master, control, nb, hdls, data, segs, num, held,
                   servers>>

\* reg_cache_insert asserts that the address is not registered yet, ...
MallocHandler(m, w) ==
    /\ Incoming(m, w, {"OP_MALLOC"})
    /\ Receive(m, w) /\ Answer(m, w)
    /\ Assert(Expected(m, w) /\ Msg(m, w).entries \cap reg[m] = {})
    /\ reg' = [reg EXCEPT ![m] = @ \cup Msg(m, w).entries]
    /\ UNCHANGED <<job, master, control, nb, hdls, data, ptrs, locks, servers>>

\* ... and comex_free that it is.
FreeHandler(m, w) ==
    /\ Incoming(m, w, {"OP_FREE"})
    /\ Receive(m, w) /\ Answer(m, w)
    /\ Assert(Expected(m, w) /\ Msg(m, w).entries \subseteq reg[m])
    /\ reg' = [reg EXCEPT ![m] = @ \ Msg(m, w).entries]
    /\ UNCHANGED <<job, master, control, nb, hdls, data, ptrs, locks, servers>>

\* The loop ends: nothing is received any more.
Quit(m, w) ==
    /\ Incoming(m, w, {"OP_QUIT"})
    /\ Receive(m, w)
    /\ running' = [running EXCEPT ![m] = FALSE]
    /\ UNCHANGED <<job, master, control, nb, hdls, posted, data, segs, locks,
                   srv, failed>>

ServerStep(m) ==
    \/ \E w \in Worker :
         \/ PutHandler(m, w) \/ GetHandler(m, w) \/ AccHandler(m, w)
         \/ RmwHandler(m, w) \/ FenceHandler(m, w)
         \/ MutexCreateHandler(m, w) \/ MutexDestroyHandler(m, w)
         \/ LockHandler(m, w) \/ UnlockHandler(m, w)
         \/ MallocHandler(m, w) \/ FreeHandler(m, w) \/ Quit(m, w)
    \/ AccApply(m) \/ RmwApply(m)
=============================================================================
