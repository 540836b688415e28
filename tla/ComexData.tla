------------------------------- MODULE ComexData -------------------------------
(***************************************************************************)
(* One-sided data calls of comex/src-mpi/comex.c over the message queue:   *)
(* put, accumulate and get (a strided call is a sequence of blocks, a      *)
(* vector call a sequence of contiguous calls), fetch-and-add, swap, fence *)
(* and wait, with the handlers that serve them on the remote rank.         *)
(*                                                                         *)
(* A put or accumulate returns when its sends are complete, which says     *)
(* nothing about the remote memory; fence_array remembers the ranks whose  *)
(* memory may lag, and a fence exchanges one message with each of them.    *)
(***************************************************************************)
EXTENDS ComexState

\* The data a put sends.  A "putnext" stands for a program that writes back
\* one more than the value it read last.
LastRead(r) == IF res[r] = <<>> THEN 0 ELSE res[r][Len(res[r])]
PutValue(r) == IF Cur(r).op = "putnext" THEN LastRead(r) + 1 ELSE Cur(r).val

-----------------------------------------------------------------------------
(* put, acc, get: one block after the other, then comex_wait_proc *)

\* The call has a block to issue and is not inside a nested progress loop.
NextBlock(r, ops) ==
    /\ \/ \E op \in ops : Calls(r, op)
       \/ phase[r] = "issue" /\ Cur(r).op \in ops
    /\ Returned(r)
    /\ UNCHANGED todo

LastBlock(r) == step[r] + 1 = Cur(r).loc

\* The block was issued.  After the last one, comex_wait_proc enters the
\* progress loop; before, only a block that was pushed may.
BlockIssued(r, pushed) ==
    /\ step' = [step EXCEPT ![r] = IF LastBlock(r) THEN 0 ELSE @ + 1]
    /\ IF LastBlock(r) THEN Progress(r, "wait")
       ELSE IF pushed THEN Pushed(r, "issue")
       ELSE Proceed(r, "issue")

\* _put_nbi to the caller itself is a memcpy, ...
PutSelf(r) ==
    /\ NextBlock(r, {"put", "putnext"})
    /\ Cur(r).to = r
    /\ mem' = [mem EXCEPT ![r][step[r]] = PutValue(r)]
    /\ BlockIssued(r, FALSE)
    /\ UNCHANGED <<chan, waiting, fence, barriers, locks, res, aborted>>

\* Mutant: the remote rank is not marked.
PutRemoteUnmarked(r) ==
    /\ NextBlock(r, {"put", "putnext"})
    /\ Cur(r).to # r
    /\ Push(r, Cur(r).to, Msg("OP_PUT", step[r], PutValue(r), pc[r]))
    /\ BlockIssued(r, TRUE)
    /\ UNCHANGED <<waiting, fence, barriers, locks, memory, aborted>>

\* ... to another rank it marks fence_array and posts OP_PUT.
PutRemote(r) ==
    /\ NextBlock(r, {"put", "putnext"})
    /\ Cur(r).to # r
    /\ fence' = [fence EXCEPT ![r][Cur(r).to] = TRUE]
    /\ Push(r, Cur(r).to, Msg("OP_PUT", step[r], PutValue(r), pc[r]))
    /\ BlockIssued(r, TRUE)
    /\ UNCHANGED <<waiting, barriers, locks, memory, aborted>>

\* _acc_nbi to the caller itself
AccSelf(r) ==
    /\ NextBlock(r, {"acc"})
    /\ Cur(r).to = r
    /\ mem' = [mem EXCEPT ![r][step[r]] = @ + Cur(r).val]
    /\ BlockIssued(r, FALSE)
    /\ UNCHANGED <<chan, waiting, fence, barriers, locks, res, aborted>>

\* _acc_nbi to another rank
AccRemote(r) ==
    /\ NextBlock(r, {"acc"})
    /\ Cur(r).to # r
    /\ fence' = [fence EXCEPT ![r][Cur(r).to] = TRUE]
    /\ Push(r, Cur(r).to, Msg("OP_ACC", step[r], Cur(r).val, pc[r]))
    /\ BlockIssued(r, TRUE)
    /\ UNCHANGED <<waiting, barriers, locks, memory, aborted>>

\* _get_nbi from the caller itself
GetSelf(r) ==
    /\ NextBlock(r, {"get"})
    /\ Cur(r).to = r
    /\ res' = [res EXCEPT ![r] = Append(@, mem[r][step[r]])]
    /\ BlockIssued(r, FALSE)
    /\ UNCHANGED <<chan, waiting, fence, barriers, locks, mem, aborted>>

\* _get_nbi from another rank: one more entry in gq, one OP_GET_REQUEST
GetRemote(r) ==
    /\ NextBlock(r, {"get"})
    /\ Cur(r).to # r
    /\ gets' = [gets EXCEPT ![r] = @ + 1]
    /\ Push(r, Cur(r).to, Msg("OP_GET_REQUEST", step[r], 0, pc[r]))
    /\ BlockIssued(r, TRUE)
    /\ UNCHANGED <<notify, fence, barriers, locks, memory, aborted>>

\* comex_wait, comex_test, comex_wait_proc, comex_wait_all
WaitStart(r) ==
    /\ Calls(r, "wait")
    /\ Progress(r, "wait")
    /\ UNCHANGED <<chan, waiting, fence, issuing, barriers, locks, memory,
                   aborted>>

-----------------------------------------------------------------------------
(* comex_rmw *)

\* The request goes out as a message even when the target is the caller.
RmwStart(r) ==
    /\ \E op \in RmwOp : Calls(r, op)
    /\ notify' = [notify EXCEPT ![r] = 1]
    /\ Push(r, Cur(r).to,
            Msg(IF Cur(r).op = "fadd" THEN "OP_FETCH_AND_ADD_REQUEST"
                                      ELSE "OP_SWAP_REQUEST",
                Cur(r).loc, Cur(r).val, pc[r]))
    /\ Progress(r, "wait")
    /\ UNCHANGED <<gets, fence, issuing, barriers, locks, memory, aborted>>

-----------------------------------------------------------------------------
(* comex_fence_proc and comex_fence_all *)

\* The ranks a fence call sends to: those in its scope that are marked.
FenceTargets(r) == {p \in Cur(r).grp : fence[r][p]}

\* Nothing is outstanding: the call returns at once.
FenceNothing(r) ==
    /\ Calls(r, "fence")
    /\ FenceTargets(r) = {}
    /\ Return(r)
    /\ UNCHANGED <<chan, waiting, fence, issuing, barriers, locks, memory,
                   aborted>>

\* _send_fence_message to p, one of the ranks ps that are left to send to (in
\* any order); after the last one comes the loop that waits for responses.
SendFence(r, p, ps) ==
    /\ Push(r, p, Msg("OP_FENCE_REQUEST", 0, 0, pc[r]))
    /\ todo' = [todo EXCEPT ![r] = ps \ {p}]
    /\ IF ps = {p} THEN Progress(r, "wait") ELSE Pushed(r, "fence")

FenceStart(r) ==
    /\ Calls(r, "fence")
    /\ notify' = [notify EXCEPT ![r] = Cardinality(FenceTargets(r))]
    /\ \E p \in FenceTargets(r) : SendFence(r, p, FenceTargets(r))
    /\ UNCHANGED <<gets, fence, step, barriers, locks, memory, aborted>>

FenceNext(r) ==
    /\ phase[r] = "fence"
    /\ Returned(r)
    /\ \E p \in todo[r] : SendFence(r, p, todo[r])
    /\ UNCHANGED <<waiting, fence, step, barriers, locks, memory, aborted>>

\* Mutant: the fence does not wait for the responses.
FenceReturnEarly(r) ==
    /\ phase[r] = "wait"
    /\ Cur(r).op = "fence"
    /\ Returned(r)
    /\ fence' = [fence EXCEPT ![r] =
                    [p \in Rank |-> @[p] /\ p \notin Cur(r).grp]]
    /\ Return(r)
    /\ UNCHANGED <<chan, waiting, issuing, barriers, locks, memory, aborted>>

\* All responses are in: the fenced ranks are no longer marked.
FenceReturn(r) ==
    /\ phase[r] = "wait"
    /\ Cur(r).op = "fence"
    /\ Returned(r)
    /\ notify[r] = 0
    /\ fence' = [fence EXCEPT ![r] =
                    [p \in Rank |-> @[p] /\ p \notin Cur(r).grp]]
    /\ Return(r)
    /\ UNCHANGED <<chan, waiting, issuing, barriers, locks, memory, aborted>>

\* A put, acc, get, wait, rmw or unlock returns.
CallReturn(r) ==
    /\ phase[r] = "wait"
    /\ Cur(r).op \notin {"fence", "lock"}
    /\ Returned(r)
    /\ notify[r] = 0
    /\ Return(r)
    /\ UNCHANGED <<chan, waiting, fence, issuing, barriers, locks, memory,
                   aborted>>

-----------------------------------------------------------------------------
(* The handlers, run by r for a message of s *)

PutHandler(r, s) ==
    /\ Receives(r, s, "OP_PUT")
    /\ LET m == Head(chan[s][r])
       IN  mem' = [mem EXCEPT ![r][m.loc] = m.val]
    /\ Consume(r, s)
    /\ UNCHANGED <<control, waiting, fence, issuing, barriers, locks, res,
                   aborted>>

AccHandler(r, s) ==
    /\ Receives(r, s, "OP_ACC")
    /\ LET m == Head(chan[s][r])
       IN  mem' = [mem EXCEPT ![r][m.loc] = @ + m.val]
    /\ Consume(r, s)
    /\ UNCHANGED <<control, waiting, fence, issuing, barriers, locks, res,
                   aborted>>

GetRequestHandler(r, s) ==
    /\ Receives(r, s, "OP_GET_REQUEST")
    /\ LET m == Head(chan[s][r])
       IN  Answer(r, s, s, [m EXCEPT !.op = "OP_GET_RESPONSE",
                                     !.val = mem[r][m.loc]])
    /\ UNCHANGED <<control, waiting, fence, issuing, barriers, locks, memory,
                   aborted>>

GetResponseHandler(r, s) ==
    /\ Receives(r, s, "OP_GET_RESPONSE")
    /\ gets' = [gets EXCEPT ![r] = @ - 1]
    /\ res' = [res EXCEPT ![r] = Append(@, Head(chan[s][r]).val)]
    /\ Consume(r, s)
    /\ UNCHANGED <<control, notify, fence, issuing, barriers, locks, mem,
                   aborted>>

\* Mutant: the sum is not stored.
FetchAndAddForgets(r, s) ==
    /\ Receives(r, s, "OP_FETCH_AND_ADD_REQUEST")
    /\ LET m == Head(chan[s][r])
       IN  Answer(r, s, s, [m EXCEPT !.op = "OP_FETCH_AND_ADD_RESPONSE",
                                     !.val = mem[r][m.loc]])
    /\ UNCHANGED <<control, waiting, fence, issuing, barriers, locks, memory,
                   aborted>>

FetchAndAddRequestHandler(r, s) ==
    /\ Receives(r, s, "OP_FETCH_AND_ADD_REQUEST")
    /\ LET m == Head(chan[s][r])
       IN  /\ mem' = [mem EXCEPT ![r][m.loc] = @ + m.val]
           /\ Answer(r, s, s, [m EXCEPT !.op = "OP_FETCH_AND_ADD_RESPONSE",
                                         !.val = mem[r][m.loc]])
    /\ UNCHANGED <<control, waiting, fence, issuing, barriers, locks, res,
                   aborted>>

SwapRequestHandler(r, s) ==
    /\ Receives(r, s, "OP_SWAP_REQUEST")
    /\ LET m == Head(chan[s][r])
       IN  /\ mem' = [mem EXCEPT ![r][m.loc] = m.val]
           /\ Answer(r, s, s, [m EXCEPT !.op = "OP_SWAP_RESPONSE",
                                         !.val = mem[r][m.loc]])
    /\ UNCHANGED <<control, waiting, fence, issuing, barriers, locks, res,
                   aborted>>

\* _fetch_and_add_response_handler and _swap_response_handler are the same.
RmwResponseHandler(r, s) ==
    /\ \E op \in {"OP_FETCH_AND_ADD_RESPONSE", "OP_SWAP_RESPONSE"} :
          Receives(r, s, op)
    /\ LET m == Head(chan[s][r])
       IN  /\ res' = [res EXCEPT ![r] = Append(@, m.val)]
           /\ notify' = [notify EXCEPT ![r] = IF Notified(r, m) THEN 0 ELSE @]
    /\ Consume(r, s)
    /\ UNCHANGED <<control, gets, fence, issuing, barriers, locks, mem,
                   aborted>>

FenceRequestHandler(r, s) ==
    /\ Receives(r, s, "OP_FENCE_REQUEST")
    /\ Answer(r, s, s, [Head(chan[s][r]) EXCEPT !.op = "OP_FENCE_RESPONSE"])
    /\ UNCHANGED <<control, waiting, fence, issuing, barriers, locks, memory,
                   aborted>>

FenceResponseHandler(r, s) ==
    /\ Receives(r, s, "OP_FENCE_RESPONSE")
    /\ notify' = [notify EXCEPT ![r] =
                     IF Notified(r, Head(chan[s][r])) THEN @ - 1 ELSE @]
    /\ Consume(r, s)
    /\ UNCHANGED <<control, gets, fence, issuing, barriers, locks, memory,
                   aborted>>

-----------------------------------------------------------------------------

DataStep(r) ==
    \/ PutSelf(r) \/ PutRemote(r) \/ AccSelf(r) \/ AccRemote(r)
    \/ GetSelf(r) \/ GetRemote(r) \/ WaitStart(r) \/ RmwStart(r)
    \/ FenceNothing(r) \/ FenceStart(r) \/ FenceNext(r) \/ FenceReturn(r)
    \/ CallReturn(r)

DataReceive(r, s) ==
    \/ PutHandler(r, s) \/ AccHandler(r, s)
    \/ GetRequestHandler(r, s) \/ GetResponseHandler(r, s)
    \/ FetchAndAddRequestHandler(r, s) \/ SwapRequestHandler(r, s)
    \/ RmwResponseHandler(r, s)
    \/ FenceRequestHandler(r, s) \/ FenceResponseHandler(r, s)
=============================================================================
