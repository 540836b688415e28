----------------------------- MODULE ComexBarrier -----------------------------
(***************************************************************************)
(* comex_barrier of comex/src-mpi/comex.c.  Every member of the group      *)
(* sends every other a request, waits until it has queued the requests of  *)
(* all, answers each of them once, and waits for all the answers.          *)
(*                                                                         *)
(* A request names no group: it is matched with the barrier in progress by *)
(* its sender alone, and the queue bq may hold requests of other barriers, *)
(* of ranks inside and outside the group, before, between and behind the   *)
(* ones to answer.  A push of an answer may enter the progress loop in the *)
(* middle of the traversal of bq, which then grows at its tail.            *)
(*                                                                         *)
(* comex_init, comex_finalize and comex_destroy_mutexes run a barrier over *)
(* all ranks.                                                              *)
(***************************************************************************)
EXTENDS ComexState

\* OP_BARRIER_REQUEST to p, one of the members ps that are left to send to.
\* The code goes round the ring of members; the model allows any order.
SendRequest(r, p, ps) ==
    /\ Push(r, p, Msg("OP_BARRIER_REQUEST", 0, 0, pc[r]))
    /\ todo' = [todo EXCEPT ![r] = ps \ {p}]
    /\ IF ps = {p} THEN Progress(r, "breq") ELSE Pushed(r, "bsend")

\* comex_barrier starts: the caller counts its own request as received, ...
BarrierStart(r) ==
    /\ \E op \in BarrierOp : Calls(r, op)
    /\ reqs' = [reqs EXCEPT ![r] = {r}]
    /\ resps' = [resps EXCEPT ![r] = [p \in Rank |-> 0]]
    /\ LET others == Cur(r).grp \ {r}
       IN  IF others = {}
           THEN Progress(r, "breq") /\ UNCHANGED <<chan, todo>>
           ELSE \E p \in others : SendRequest(r, p, others)
    /\ UNCHANGED <<waiting, fence, step, bq, kept, locks, memory, aborted>>

\* ... and sends the others theirs.
BarrierSend(r) ==
    /\ phase[r] = "bsend"
    /\ Returned(r)
    /\ \E p \in todo[r] : SendRequest(r, p, todo[r])
    /\ UNCHANGED <<waiting, fence, step, barriers, locks, memory, aborted>>

\* request_received_mask after a look at the whole queue
RequestsIn(r) ==
    reqs[r] \cup ({bq[r][i].rank : i \in DOMAIN bq[r]} \cap Cur(r).grp)

\* The requests of all members are queued.  The caller answers itself and,
\* after more progress, traverses the queue.
BarrierGathered(r) ==
    /\ phase[r] = "breq"
    /\ Returned(r)
    /\ RequestsIn(r) = Cur(r).grp
    /\ reqs' = [reqs EXCEPT ![r] = Cur(r).grp \ {r}]
    /\ resps' = [resps EXCEPT ![r][r] = 1]
    /\ Progress(r, "bscan")
    /\ UNCHANGED <<chan, waiting, fence, issuing, bq, kept, locks, memory,
                   aborted>>

\* The traversal meets a request of this barrier, which is answered once.
Answerable(r) ==
    bq[r] # <<>> /\ Head(bq[r]).rank \in reqs[r] \cap Cur(r).grp

\* It is answered and freed; the rest of bq is what the traversal still has
\* to see, and a nested progress loop appends to it.
BarrierAnswer(r) ==
    /\ phase[r] = "bscan"
    /\ Returned(r)
    /\ Answerable(r)
    /\ LET q == Head(bq[r])
       IN  /\ reqs' = [reqs EXCEPT ![r] = @ \ {q.rank}]
           /\ Push(r, q.rank, Msg("OP_BARRIER_RESPONSE", 0, 0, q.call))
    /\ bq' = [bq EXCEPT ![r] = Tail(@)]
    /\ Pushed(r, "bscan")
    /\ UNCHANGED <<waiting, fence, issuing, kept, resps, locks, memory,
                   aborted>>

\* Mutant: a request of another barrier is dropped.
BarrierDrop(r) ==
    /\ phase[r] = "bscan"
    /\ Returned(r)
    /\ bq[r] # <<>>
    /\ ~Answerable(r)
    /\ bq' = [bq EXCEPT ![r] = Tail(@)]
    /\ Proceed(r, "bscan")
    /\ UNCHANGED <<chan, waiting, fence, issuing, kept, reqs, resps,
                   locks, memory, aborted>>

\* A request of another barrier stays queued.
BarrierKeep(r) ==
    /\ phase[r] = "bscan"
    /\ Returned(r)
    /\ bq[r] # <<>>
    /\ ~Answerable(r)
    /\ kept' = [kept EXCEPT ![r] = Append(@, Head(bq[r]))]
    /\ bq' = [bq EXCEPT ![r] = Tail(@)]
    /\ Proceed(r, "bscan")
    /\ UNCHANGED <<chan, waiting, fence, issuing, reqs, resps,
                   locks, memory, aborted>>

\* The end of the traversal: what was kept is the queue again.  Progress, and
\* one more traversal if a member is still unanswered.
BarrierScanned(r) ==
    /\ phase[r] = "bscan"
    /\ Returned(r)
    /\ bq[r] = <<>>
    /\ bq' = [bq EXCEPT ![r] = kept[r]]
    /\ kept' = [kept EXCEPT ![r] = <<>>]
    /\ Progress(r, IF reqs[r] = {} THEN "bwait" ELSE "bscan")
    /\ UNCHANGED <<chan, waiting, fence, issuing, reqs, resps, locks,
                   memory, aborted>>

\* Mutant: the barrier does not wait for the answers.
AnsweredNot(r) == TRUE

\* Every member answered, and the barrier is over.
Answered(r) == \A p \in Cur(r).grp : resps[r][p] = 1

\* Mutant: the barrier is over when the requests are out.
BarrierReturnEarly(r) ==
    /\ phase[r] = "breq"
    /\ Cur(r).op # "destroy"
    /\ Returned(r)
    /\ Return(r)
    /\ UNCHANGED <<chan, waiting, fence, issuing, barriers, locks, memory,
                   aborted>>

\* comex_barrier returns, and comex_init and comex_finalize with it.
BarrierReturn(r) ==
    /\ phase[r] = "bwait"
    /\ Cur(r).op # "destroy"
    /\ Returned(r)
    /\ Answered(r)
    /\ Return(r)
    /\ UNCHANGED <<chan, waiting, fence, issuing, barriers, locks, memory,
                   aborted>>

-----------------------------------------------------------------------------

\* Requests are always queued for later.
BarrierRequestHandler(r, s) ==
    /\ Receives(r, s, "OP_BARRIER_REQUEST")
    /\ bq' = [bq EXCEPT ![r] =
                 Append(@, [rank |-> s, call |-> Head(chan[s][r]).call])]
    /\ Consume(r, s)
    /\ UNCHANGED <<control, waiting, fence, issuing, kept, reqs, resps, locks,
                   memory, aborted>>

BarrierResponseHandler(r, s) ==
    /\ Receives(r, s, "OP_BARRIER_RESPONSE")
    /\ resps' = [resps EXCEPT ![r][s] =
                    IF Notified(r, Head(chan[s][r])) THEN @ + 1 ELSE @]
    /\ Consume(r, s)
    /\ UNCHANGED <<control, waiting, fence, issuing, bq, kept, reqs, locks,
                   memory, aborted>>

-----------------------------------------------------------------------------

BarrierStep(r) ==
    \/ BarrierStart(r) \/ BarrierSend(r) \/ BarrierGathered(r)
    \/ BarrierAnswer(r) \/ BarrierKeep(r) \/ BarrierScanned(r)
    \/ BarrierReturn(r)

BarrierReceive(r, s) == BarrierRequestHandler(r, s) \/ BarrierResponseHandler(r, s)
=============================================================================
