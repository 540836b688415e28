------------------------------ MODULE ComexMutex ------------------------------
(***************************************************************************)
(* The mutexes of comex/src-mpi/comex.c.  Each rank serves the mutexes it  *)
(* created: a lock request joins the queue lq, and every iteration of the  *)
(* progress loop ends with _lq_progress, which gives each free mutex to    *)
(* the first rank that waits for it.  An unlock is a message nobody        *)
(* acknowledges.                                                           *)
(*                                                                         *)
(* The code keeps one list for all mutexes and grants in list order; the   *)
(* model keeps the waiters of each mutex apart, in the same order.  It     *)
(* runs _lq_progress in the two handlers that can give it something to do  *)
(* (LockQueueSettled of module Comex says why the others cannot).          *)
(***************************************************************************)
EXTENDS ComexBarrier

\* Mutant: one mutex too many.
CreateOneMore(r) ==
    /\ Calls(r, "create")
    /\ IF nmutex[r] # 0 \/ \E m \in Mutex : lq[r][m] # <<>>
       THEN Abort
       ELSE /\ nmutex' = [nmutex EXCEPT ![r] = Cur(r).loc + 1]
            /\ mutexes' = [mutexes EXCEPT ![r] = [m \in Mutex |-> Nobody]]
            /\ Return(r)
            /\ UNCHANGED <<chan, waiting, fence, issuing, barriers, lq, held,
                           memory, aborted>>

\* comex_create_mutexes(n): local, although documented as collective.  The
\* assertions at its head catch a second creation and a request that is
\* already queued.
CreateMutexes(r) ==
    /\ Calls(r, "create")
    /\ IF nmutex[r] # 0 \/ \E m \in Mutex : lq[r][m] # <<>>
       THEN Abort
       ELSE /\ nmutex' = [nmutex EXCEPT ![r] = Cur(r).loc]
            /\ mutexes' = [mutexes EXCEPT ![r] = [m \in Mutex |-> Nobody]]
            /\ Return(r)
            /\ UNCHANGED <<chan, waiting, fence, issuing, barriers, lq, held,
                           memory, aborted>>

\* comex_lock
Lock(r) ==
    /\ Calls(r, "lock")
    /\ notify' = [notify EXCEPT ![r] = 1]
    /\ Push(r, Cur(r).to, Msg("OP_LOCK_REQUEST", Cur(r).loc, 0, pc[r]))
    /\ Progress(r, "wait")
    /\ UNCHANGED <<gets, fence, issuing, barriers, locks, memory, aborted>>

\* Mutant: the lock call does not wait to be granted the mutex.
LockReturnEarly(r) ==
    /\ phase[r] = "wait"
    /\ Cur(r).op = "lock"
    /\ Returned(r)
    /\ held' = [held EXCEPT ![r] = @ \cup {<<Cur(r).to, Cur(r).loc>>}]
    /\ Return(r)
    /\ UNCHANGED <<chan, waiting, fence, issuing, barriers, nmutex, mutexes,
                   lq, memory, aborted>>

LockReturn(r) ==
    /\ phase[r] = "wait"
    /\ Cur(r).op = "lock"
    /\ Returned(r)
    /\ notify[r] = 0
    /\ held' = [held EXCEPT ![r] = @ \cup {<<Cur(r).to, Cur(r).loc>>}]
    /\ Return(r)
    /\ UNCHANGED <<chan, waiting, fence, issuing, barriers, nmutex, mutexes,
                   lq, memory, aborted>>

\* comex_unlock posts the message and returns.
Unlock(r) ==
    /\ Calls(r, "unlock")
    /\ Push(r, Cur(r).to, Msg("OP_UNLOCK", Cur(r).loc, 0, pc[r]))
    /\ held' = [held EXCEPT ![r] = @ \ {<<Cur(r).to, Cur(r).loc>>}]
    /\ Pushed(r, "wait")
    /\ UNCHANGED <<waiting, fence, issuing, barriers, nmutex, mutexes, lq,
                   memory, aborted>>

\* Mutant: holders are not considered.
UnusedQueueOnly(r) == \A m \in Mutex : lq[r][m] = <<>>

\* No mutex of r is held and nobody waits for one.
Unused(r) ==
    /\ \A m \in Mutex : lq[r][m] = <<>>
    /\ \A m \in Mutex : m < nmutex[r] => mutexes[r][m] = Nobody

\* comex_destroy_mutexes: its barrier is over, more progress was made until
\* no mutex of r was in use, and they are freed.
DestroyReturn(r) ==
    /\ phase[r] = "bwait"
    /\ Cur(r).op = "destroy"
    /\ Returned(r)
    /\ Answered(r)
    /\ Unused(r)
    /\ nmutex' = [nmutex EXCEPT ![r] = 0]
    /\ Return(r)
    /\ UNCHANGED <<chan, waiting, fence, issuing, barriers, mutexes, lq,
                   held, memory, aborted>>

-----------------------------------------------------------------------------

\* A table of n mutexes has no entry for id.  With n = 0 the table is NULL,
\* with a larger id the access is past its end.
NoSuchMutex(r, id) == id >= nmutex[r]

\* Mutant: a mutex that is held is given away.
LqProgressGrantsHeld(r, s, id, holder, queue) ==
    IF queue # <<>>
    THEN LET w == Head(queue)
         IN  /\ mutexes' = [mutexes EXCEPT ![r][id] = w.rank]
             /\ lq' = [lq EXCEPT ![r][id] = Tail(queue)]
             /\ Answer(r, s, w.rank, Msg("OP_LOCK_RESPONSE", -1, 0, w.call))
    ELSE /\ mutexes' = [mutexes EXCEPT ![r][id] = holder]
         /\ lq' = [lq EXCEPT ![r][id] = queue]
         /\ Consume(r, s)

\* Mutant: a waiter is told only if it is the rank that sent the message, so
\* that a release wakes nobody.
LqProgressWakesNobody(r, s, id, holder, queue) ==
    IF holder = Nobody /\ queue # <<>> /\ Head(queue).rank = s
    THEN LET w == Head(queue)
         IN  /\ mutexes' = [mutexes EXCEPT ![r][id] = w.rank]
             /\ lq' = [lq EXCEPT ![r][id] = Tail(queue)]
             /\ Answer(r, s, w.rank, Msg("OP_LOCK_RESPONSE", -1, 0, w.call))
    ELSE /\ mutexes' = [mutexes EXCEPT ![r][id] = holder]
         /\ lq' = [lq EXCEPT ![r][id] = queue]
         /\ Consume(r, s)

\* _lq_progress for mutex id of r, at the end of the iteration in which r
\* received a message of s that left the mutex with this holder and queue: a
\* free mutex goes to its first waiter, who is told.
LqProgress(r, s, id, holder, queue) ==
    IF holder = Nobody /\ queue # <<>>
    THEN LET w == Head(queue)
         IN  /\ mutexes' = [mutexes EXCEPT ![r][id] = w.rank]
             /\ lq' = [lq EXCEPT ![r][id] = Tail(queue)]
             /\ Answer(r, s, w.rank, Msg("OP_LOCK_RESPONSE", -1, 0, w.call))
    ELSE /\ mutexes' = [mutexes EXCEPT ![r][id] = holder]
         /\ lq' = [lq EXCEPT ![r][id] = queue]
         /\ Consume(r, s)

\* _lq_push: the requester joins the queue of the mutex.
LockRequestHandler(r, s) ==
    /\ Receives(r, s, "OP_LOCK_REQUEST")
    /\ LET m  == Head(chan[s][r])
           id == m.loc
       IN  IF NoSuchMutex(r, id)
           THEN Abort
           ELSE /\ LqProgress(r, s, id, mutexes[r][id],
                      Append(lq[r][id], [rank |-> s, call |-> m.call]))
                /\ UNCHANGED <<control, waiting, fence, issuing, barriers,
                               nmutex, held, memory, aborted>>

\* Mutant: anybody may unlock.
UnlockByAnybody(r, s) ==
    /\ Receives(r, s, "OP_UNLOCK")
    /\ LET id == Head(chan[s][r]).loc
       IN  IF NoSuchMutex(r, id)
           THEN Abort
           ELSE /\ LqProgress(r, s, id, Nobody, lq[r][id])
                /\ UNCHANGED <<control, waiting, fence, issuing, barriers,
                               nmutex, held, memory, aborted>>

\* Only the holder may unlock: an assertion.
UnlockRequestHandler(r, s) ==
    /\ Receives(r, s, "OP_UNLOCK")
    /\ LET id == Head(chan[s][r]).loc
       IN  IF NoSuchMutex(r, id) \/ mutexes[r][id] # s
           THEN Abort
           ELSE /\ LqProgress(r, s, id, Nobody, lq[r][id])
                /\ UNCHANGED <<control, waiting, fence, issuing, barriers,
                               nmutex, held, memory, aborted>>

LockResponseHandler(r, s) ==
    /\ Receives(r, s, "OP_LOCK_RESPONSE")
    /\ notify' = [notify EXCEPT ![r] =
                     IF Notified(r, Head(chan[s][r])) THEN 0 ELSE @]
    /\ Consume(r, s)
    /\ UNCHANGED <<control, gets, fence, issuing, barriers, locks, memory,
                   aborted>>

-----------------------------------------------------------------------------

MutexStep(r) ==
    \/ CreateMutexes(r) \/ Lock(r) \/ LockReturn(r) \/ Unlock(r)
    \/ DestroyReturn(r)

MutexReceive(r, s) ==
    \/ LockRequestHandler(r, s) \/ UnlockRequestHandler(r, s)
    \/ LockResponseHandler(r, s)
=============================================================================
