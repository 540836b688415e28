------------------------------- MODULE TaskQueue -------------------------------
(***************************************************************************)
(* The task collection of tascel: UniformTaskCollectionSplit.cc over the   *)
(* queues of SplitQueueOpt.cc.  A queue is a ring of slots,                *)
(*                                                                         *)
(*   vtail1 .. tail      stolen, perhaps not yet copied by the thief       *)
(*   tail .. split       shared: to be stolen                              *)
(*   split .. head       local: the owner's, which adds and takes at head  *)
(*                                                                         *)
(* The owner moves tasks between the two parts under a lock.  A thief      *)
(* takes the lock, reads the state, writes it back with a new tail,        *)
(* releases the lock, copies the tasks and adds their number to vtail2;    *)
(* the owner compares vtail2 with tail to learn that slots are free again. *)
(*                                                                         *)
(* Each process is one thread.  A step goes from one access to the memory  *)
(* that it shares with others to the next; what the owner does under its   *)
(* lock is one step.  The transfers of ARMCI are external: a put or an     *)
(* accumulate arrives before the next read-modify-write of its sender to   *)
(* the same process, as in OneSided.                                       *)
(***************************************************************************)
EXTENDS TermDetect, Sequences

CONSTANTS
    Task,
    NoTask,  \* what an unused slot holds
    Jobs     \* nproc; max, the slots of a queue; initial, the tasks each
             \* process adds before it starts; adds, the tasks that executing
             \* a task adds; async, whether ARMCI serves a process that is in
             \* no call of it (as with a progress rank or a data server)

ASSUME TaskAssumption ==
    \A j \in Jobs :
        /\ j.nproc \in Nat \ {0} /\ j.max \in Nat \ {0}
        /\ j.initial \in [0 .. j.nproc - 1 -> Seq(Task)]
        /\ j.adds \in [Task -> Seq(Task)]
        /\ j.async \in BOOLEAN

VARIABLES
    job,        \* the job that runs
    q,          \* the slots of each process
    head, size_local, vtail1,   \* known to the owner alone
    ps,         \* sq_state.ps: dirty, split, tail, size_shared
    vtail2,     \* sq_state.vtail2
    token,      \* is the token in the lock word
    shift,      \* shift[p][v]: an accumulate of p to vtail2 of v under way
    pc,         \* where each process is
    victim,     \* whom it steals from; itself if nobody
    want,       \* how many tasks it wants to acquire
    sq,         \* what a thief has read of the state of its victim
    todo,       \* tasks a process is about to add to its own queue
    begun       \* the barrier of process() is over

owner   == <<head, size_local, vtail1>>
shared  == <<ps, vtail2, token>>
thief   == <<victim, want, sq>>
vars == <<nproc, detector, job, q, owner, shared, shift, pc, thief, todo, begun>>

max_ntsks == job.max
Slot == 0 .. max_ntsks - 1
Lesser(a, b) == IF a <= b THEN a ELSE b

Unread == [ps |-> [dirty |-> 0, split |-> 0, tail |-> 0, size_shared |-> 0],
           vtail2 |-> 0]

Init ==
    /\ job \in Jobs /\ nproc = job.nproc
    /\ DetectorInit
    /\ q = [p \in Proc |-> [s \in Slot |-> NoTask]]
    /\ head = [p \in Proc |-> 0]
    /\ size_local = [p \in Proc |-> 0]
    /\ vtail1 = [p \in Proc |-> 0]
    /\ ps = [p \in Proc |-> Unread.ps]
    /\ vtail2 = [p \in Proc |-> 0]
    /\ token = [p \in Proc |-> TRUE]
    /\ shift = [p \in Proc |-> [v \in Proc |-> 0]]
    /\ pc = [p \in Proc |-> IF job.initial[p] = <<>> THEN "barrier" ELSE "add"]
    /\ victim = [p \in Proc |-> p]
    /\ want = [p \in Proc |-> 0]
    /\ sq = [p \in Proc |-> Unread]
    /\ todo = job.initial
    /\ begun = FALSE

Goto(p, l) == pc' = [pc EXCEPT ![p] = l]

-----------------------------------------------------------------------------
(* The owner: addTask *)

\* spaceAvailable: a queue whose head has come round to vtail1 is full,
\* unless all three agree.
SpaceAvailable(p) ==
    head[p] = vtail1[p] => ps[p].split = head[p]

\* The task goes to the slot at head ...
AddTask(p) ==
    /\ pc[p] = "add" /\ SpaceAvailable(p)
    /\ q' = [q EXCEPT ![p][head[p]] = Head(todo[p])]
    /\ todo' = [todo EXCEPT ![p] = Tail(@)]
    /\ head' = [head EXCEPT ![p] = (@ + 1) % max_ntsks]
    /\ size_local' = [size_local EXCEPT ![p] = @ + 1]
    /\ Goto(p, "share")
    /\ UNCHANGED <<nproc, detector, job, vtail1, shared, shift, thief, begun>>

\* Mutant: the comparison of vtail2 with tail is left out.
UpdateVtail1Always(p) ==
    /\ pc[p] = "add" /\ ~SpaceAvailable(p)
    /\ vtail1' = [vtail1 EXCEPT ![p] = ps[p].tail]
    /\ UNCHANGED <<nproc, detector, job, q, head, size_local, shared, shift, pc, thief,
                   todo, begun>>

\* updateVtail1, while there is no space: if all steals are complete their
\* slots are free.  This is a build that loads *tail once for the comparison
\* and the assignment; in one that loads it twice a steal may come between.
UpdateVtail1(p) ==
    /\ pc[p] = "add" /\ ~SpaceAvailable(p)
    /\ vtail2[p] = ps[p].tail
    /\ vtail1' = [vtail1 EXCEPT ![p] = ps[p].tail]
    /\ UNCHANGED <<nproc, detector, job, q, head, size_local, shared, shift, pc, thief,
                   todo, begun>>

\* After a task was added: the next one; or the program is done with adding,
\* or the thief with what it stole, unless it sees the end.
Added(p) ==
    /\ Goto(p, CASE todo[p] # <<>> -> "add"
                 [] todo[p] = <<>> /\ ~begun -> "barrier"
                 [] todo[p] = <<>> /\ begun /\ victim[p] # p /\ hasTerminated(p) -> "over"
                 [] OTHER -> "get")
    /\ victim' = IF todo[p] # <<>> THEN victim ELSE [victim EXCEPT ![p] = p]

\* releaseToShared(*size_local / 2), if the shared part is empty
Donation(p) == IF ps[p].size_shared = 0 THEN size_local[p] \div 2 ELSE 0

Donate(p) ==
    ps' = [ps EXCEPT ![p] =
             [@ EXCEPT !.split = (ps[p].split + Donation(p)) % max_ntsks,
                       !.size_shared = ps[p].size_shared + Donation(p)]]

\* ... and half of the local part is shared.
Share(p) ==
    /\ pc[p] = "share" /\ Donation(p) > 0
    /\ token[p]
    /\ Donate(p)
    /\ size_local' = [size_local EXCEPT ![p] = @ - Donation(p)]
    /\ Added(p)
    /\ UNCHANGED <<nproc, detector, job, q, head, vtail1, vtail2, token, shift, want,
                   sq, todo, begun>>

ShareNothing(p) ==
    /\ pc[p] = "share" /\ Donation(p) = 0
    /\ Added(p)
    /\ UNCHANGED <<nproc, detector, job, q, owner, shared, shift, want, sq, todo, begun>>

\* process() starts with a barrier.
Barrier ==
    /\ \A p \in Proc : pc[p] = "barrier"
    /\ begun' = TRUE
    /\ pc' = [p \in Proc |-> "get"]
    /\ UNCHANGED <<nproc, detector, job, q, owner, shared, shift, thief, todo>>

-----------------------------------------------------------------------------
(* The owner: getTask *)

\* A local task is taken, and executed: it adds tasks.
Take(p) ==
    LET top == (head[p] - 1) % max_ntsks
        new == job.adds[q[p][top]]
    IN  /\ head' = [head EXCEPT ![p] = top]
        /\ todo' = [todo EXCEPT ![p] = new]
        /\ Goto(p, IF new = <<>> THEN "get" ELSE "add")

GetLocal(p) ==
    /\ pc[p] = "get" /\ size_local[p] > 0 /\ Donation(p) = 0
    /\ Take(p)
    /\ size_local' = [size_local EXCEPT ![p] = @ - 1]
    /\ UNCHANGED <<nproc, detector, job, q, vtail1, shared, shift, thief, begun>>

\* Before it, half of the local part is shared.
GetSharing(p) ==
    /\ pc[p] = "get" /\ Donation(p) > 0
    /\ token[p]
    /\ Donate(p)
    /\ Take(p)
    /\ size_local' = [size_local EXCEPT ![p] = @ - Donation(p) - 1]
    /\ UNCHANGED <<nproc, detector, job, q, vtail1, vtail2, token, shift, thief, begun>>

\* No local task: acquireFromShared is called with half of the shared ones, ...
GetShared(p) ==
    /\ pc[p] = "get" /\ size_local[p] = 0 /\ ps[p].size_shared > 0
    /\ want' = [want EXCEPT ![p] = (ps[p].size_shared + 1) \div 2]
    /\ Goto(p, "acquire")
    /\ UNCHANGED <<nproc, detector, job, q, owner, shared, shift, victim, sq, todo, begun>>

\* Mutant: the lock is not taken.
AcquireUnlocked(p) ==
    LET n == Lesser(want[p], ps[p].size_shared)
    IN  /\ pc[p] = "acquire"
        /\ ps' = [ps EXCEPT ![p] =
                    [@ EXCEPT !.split = (ps[p].split - n) % max_ntsks,
                              !.size_shared = ps[p].size_shared - n]]
        /\ size_local' = [size_local EXCEPT ![p] = @ + n]
        /\ want' = [want EXCEPT ![p] = 0]
        /\ Goto(p, IF n > 0 THEN "get" ELSE "vote")
        /\ UNCHANGED <<nproc, detector, job, q, head, vtail1, vtail2, token, shift,
                       victim, sq, todo, begun>>

\* ... of which there may be fewer when it has the lock, or none.
Acquire(p) ==
    LET n == Lesser(want[p], ps[p].size_shared)
    IN  /\ pc[p] = "acquire" /\ token[p]
        /\ ps' = [ps EXCEPT ![p] =
                    [@ EXCEPT !.split = (ps[p].split - n) % max_ntsks,
                              !.size_shared = ps[p].size_shared - n]]
        /\ size_local' = [size_local EXCEPT ![p] = @ + n]
        /\ want' = [want EXCEPT ![p] = 0]
        /\ Goto(p, IF n > 0 THEN "get" ELSE "vote")
        /\ UNCHANGED <<nproc, detector, job, q, head, vtail1, vtail2, token, shift,
                       victim, sq, todo, begun>>

GetNothing(p) ==
    /\ pc[p] = "get" /\ size_local[p] = 0 /\ ps[p].size_shared = 0
    /\ Goto(p, "vote")
    /\ UNCHANGED <<nproc, detector, job, q, owner, shared, shift, thief, todo, begun>>

-----------------------------------------------------------------------------
(* The idle process: td_progress, and steal *)

\* The loop of process(): it ends when the end is known, else steals from
\* another process at random.
Seek(p) ==
    IF hasTerminated(p) THEN Goto(p, "over") /\ victim' = [victim EXCEPT ![p] = p]
    ELSE \E v \in Proc \ {p} : victim' = [victim EXCEPT ![p] = v] /\ Goto(p, "vote")

\* td_progress, and the beginning of steal: p votes "yes" if nobody has stolen
\* from it since it voted last ...
Vote(p) ==
    /\ pc[p] = "vote"
    /\ Progress(p, ps[p].dirty = 0)
    /\ Goto(p, "clean")
    /\ UNCHANGED <<nproc, job, q, owner, shared, shift, thief, todo, begun>>

\* Mutant: the mark stays.
CleanForgotten(p) ==
    /\ pc[p] = "clean"
    /\ IF victim[p] = p \/ hasTerminated(p) THEN Seek(p)
       ELSE Goto(p, "lock") /\ UNCHANGED victim
    /\ UNCHANGED <<nproc, detector, job, q, owner, shared, shift, want, sq, todo, begun>>

\* ... and clears the mark.
Clean(p) ==
    /\ pc[p] = "clean"
    /\ ps' = [ps EXCEPT ![p].dirty = 0]
    /\ IF victim[p] = p \/ hasTerminated(p) THEN Seek(p)
       ELSE Goto(p, "lock") /\ UNCHANGED victim
    /\ UNCHANGED <<nproc, detector, job, q, owner, vtail2, token, shift, want, sq, todo,
                   begun>>

\* lock(proc, trylock_max_attempts): p gets the token or gives up.
TryLock(p) ==
    /\ pc[p] = "lock" /\ shift[p][victim[p]] = 0
    /\ IF token[victim[p]]
       THEN /\ token' = [token EXCEPT ![victim[p]] = FALSE]
            /\ Goto(p, "look")
            /\ UNCHANGED victim
       ELSE Seek(p) /\ UNCHANGED token
    /\ UNCHANGED <<nproc, detector, job, q, owner, ps, vtail2, shift, want, sq, todo,
                   begun>>

\* The state is read ...
Look(p) ==
    /\ pc[p] = "look"
    /\ sq' = [sq EXCEPT ![p] = [ps |-> ps[victim[p]], vtail2 |-> vtail2[victim[p]]]]
    /\ Goto(p, IF ps[victim[p]].size_shared = 0 THEN "unlock" ELSE "put")
    /\ UNCHANGED <<nproc, detector, job, q, owner, shared, shift, victim, want, todo,
                   begun>>

\* Half of the shared tasks are stolen, as far as they do not wrap around.
NSteal(p)  == Lesser((sq[p].ps.size_shared + 1) \div 2, max_ntsks - sq[p].ps.tail)
NewTail(p) == (sq[p].ps.tail + NSteal(p)) % max_ntsks
Loot(p)    == {sq[p].ps.tail + i : i \in 0 .. NSteal(p) - 1}

\* Mutant: the victim is not marked.
PutUnmarked(p) ==
    /\ pc[p] = "put"
    /\ ps' = [ps EXCEPT ![victim[p]] =
                [dirty |-> sq[p].ps.dirty, split |-> sq[p].ps.split,
                 tail |-> NewTail(p),
                 size_shared |-> sq[p].ps.size_shared - NSteal(p)]]
    /\ vtail2' = [vtail2 EXCEPT ![victim[p]] = sq[p].vtail2]
    /\ Goto(p, "unlock")
    /\ UNCHANGED <<nproc, detector, job, q, owner, token, shift, thief, todo, begun>>

\* ... and written back; all of it, sizeof(sq) bytes, vtail2 as well.
PutState(p) ==
    /\ pc[p] = "put"
    /\ ps' = [ps EXCEPT ![victim[p]] =
                [dirty |-> 1, split |-> sq[p].ps.split, tail |-> NewTail(p),
                 size_shared |-> sq[p].ps.size_shared - NSteal(p)]]
    /\ vtail2' = [vtail2 EXCEPT ![victim[p]] = sq[p].vtail2]
    /\ Goto(p, "unlock")
    /\ UNCHANGED <<nproc, detector, job, q, owner, token, shift, thief, todo, begun>>

\* The token is given back.
Unlock(p) ==
    /\ pc[p] = "unlock"
    /\ token' = [token EXCEPT ![victim[p]] = TRUE]
    /\ IF sq[p].ps.size_shared = 0 THEN Seek(p) /\ sq' = [sq EXCEPT ![p] = Unread]
       ELSE Goto(p, "copy") /\ UNCHANGED <<victim, sq>>
    /\ UNCHANGED <<nproc, detector, job, q, owner, ps, vtail2, shift, want, todo, begun>>

\* The tasks are copied; an accumulate to vtail2 is sent.
Copy(p) ==
    /\ pc[p] = "copy"
    /\ todo' = [todo EXCEPT ![p] =
                  [i \in 1 .. NSteal(p) |-> q[victim[p]][sq[p].ps.tail + i - 1]]]
    /\ shift' = [shift EXCEPT ![p][victim[p]] = NewTail(p) - sq[p].ps.tail]
    /\ sq' = [sq EXCEPT ![p] = Unread]
    /\ Goto(p, "add")
    /\ UNCHANGED <<nproc, detector, job, q, owner, shared, victim, want, begun>>

ShiftArrives(p, v) ==
    /\ shift[p][v] # 0
    /\ vtail2' = [vtail2 EXCEPT ![v] = @ + shift[p][v]]
    /\ shift' = [shift EXCEPT ![p][v] = 0]
    /\ UNCHANGED <<nproc, detector, job, q, owner, ps, token, pc, thief, todo, begun>>

-----------------------------------------------------------------------------

\* The steps for which a process needs the token of its own queue
LockedStep(p) == Share(p) \/ GetSharing(p) \/ Acquire(p)

Step(p) ==
    \/ AddTask(p) \/ UpdateVtail1(p) \/ ShareNothing(p)
    \/ GetLocal(p) \/ GetShared(p) \/ GetNothing(p)
    \/ Vote(p) \/ Clean(p) \/ TryLock(p) \/ Look(p) \/ PutState(p)
    \/ Unlock(p) \/ Copy(p)

Transfer(p) ==
    \/ DecisionArrives(p) /\ UNCHANGED <<nproc, job, q, owner, shared, shift, pc, thief,
                                        todo, begun>>
    \/ \E v \in Proc : ShiftArrives(p, v)

Over == (\A p \in Proc : pc[p] = "over") /\ UNCHANGED vars

Next ==
    \/ \E p \in Proc : Step(p) \/ LockedStep(p) \/ Transfer(p)
    \/ Barrier \/ Over

\* addTask waits for space, in a loop without a call of ARMCI.
Spinning(p) == pc[p] = "add" /\ ~SpaceAvailable(p)

\* What others ask of the memory of v is done: by a runtime that needs no call
\* of v, or while v calls it again and again; it does not when it spins, nor in
\* the barrier at the end of process(), which is one of MPI.
Served(v) == job.async \/ ~(Spinning(v) \/ pc[v] = "over")

\* The next step of p is an access to the memory of its victim.
Remote(p) == pc[p] \in {"lock", "look", "put", "unlock", "copy"}

\* Every process runs, and what is sent arrives, at a process that is served.
\* A process that tries again and again to get the token of its own queue gets
\* it: thieves give up after ten attempts, and are busy with messages between
\* any two.
Anybody == UNION {0 .. j.nproc - 1 : j \in Jobs}
Fairness ==
    /\ \A p \in Anybody :
        /\ WF_vars(p \in Proc /\ (Remote(p) => Served(victim[p])) /\ Step(p))
        /\ SF_vars(p \in Proc /\ LockedStep(p))
        /\ WF_vars(p \in Proc /\ \E v \in Proc : Served(v) /\ ShiftArrives(p, v))
    /\ WF_vars(Barrier)

Spec == Init /\ [][Next]_vars /\ Fairness

-----------------------------------------------------------------------------
(* Properties *)

\* p has stolen tasks that it has not copied yet.
Looting(p) == pc[p] \in {"unlock", "copy"} /\ sq[p].ps.size_shared > 0

\* The slots of the queue of p, from tail to head
Queued(p) ==
    {(ps[p].tail + i) % max_ntsks : i \in 0 .. ps[p].size_shared + size_local[p] - 1}

\* updateVtail1 does what it is for: when it finds vtail2 to be the tail, no
\* steal from this queue is under way, and all slots behind the tail are free.
SlotsFreedLate ==
    \A p \in Proc : pc[p] = "add" /\ ~SpaceAvailable(p) /\ vtail2[p] = ps[p].tail =>
        \A r \in Proc : Looting(r) => victim[r] # p

\* The assertions of empty, acquireFromShared and releaseToShared hold, no
\* stolen slot is given to another thief, and where addTask finds space it
\* overwrites neither a task of the queue nor one that a thief still has to copy.
SlotsSound ==
    /\ SlotsFreedLate
    /\ \A p \in Proc :
        /\ ps[p].size_shared + size_local[p] \in 0 .. max_ntsks
        /\ ps[p].split = (ps[p].tail + ps[p].size_shared) % max_ntsks
        /\ head[p] = (ps[p].split + size_local[p]) % max_ntsks
        /\ \A r \in Proc : Looting(r) /\ victim[r] = p =>
             /\ Loot(r) \cap Queued(p) = {}
             /\ \A o \in Proc \ {r} : Looting(o) /\ victim[o] = p =>
                                      Loot(o) \cap Loot(r) = {}
             /\ pc[p] = "add" /\ SpaceAvailable(p) => head[p] \notin Loot(r)
        /\ pc[p] = "add" /\ SpaceAvailable(p) => head[p] \notin Queued(p)

\* What a thief writes back is what the queue still is, but for the mark and
\* for vtail2: nobody else has the token, and the owner waits.
StateKept ==
    \A p \in Proc : pc[p] = "put" =>
        LET v == victim[p]
        IN  /\ [sq[p].ps EXCEPT !.dirty = 0] = [ps[v] EXCEPT !.dirty = 0]
            /\ \A r \in Proc \ {p} : pc[r] \in {"look", "put", "unlock"} => victim[r] # v

\* Nothing is left for p to do.
Idle(p) ==
    /\ size_local[p] = 0 /\ ps[p].size_shared = 0
    /\ todo[p] = <<>> /\ ~Looting(p)

\* "Returns true if all of the tasks have been processed" (SplitQueueOpt.h:161):
\* when one process knows of the end, all are idle, and nobody is amid a steal.
DetectedWhenDone ==
    (\E p \in Proc : hasTerminated(p)) => \A p \in Proc : Idle(p)

\* The tasks of a list
Listed(s) == {s[i] : i \in DOMAIN s}

\* The tasks in the queue of p, and on their way to p; those that are not executed yet
InQueue(p) == {q[p][s] : s \in Queued(p)}
Stolen(p)  == IF Looting(p) THEN {q[victim[p]][s] : s \in Loot(p)} ELSE {}

Remaining == UNION {InQueue(p) \cup Stolen(p) \cup Listed(todo[p]) : p \in Proc}

Pool == INSTANCE TaskPool WITH
    Task    <- Task,
    adds    <- [t \in Task |-> Listed(job.adds[t])],
    waiting <- Remaining,
    ended   <- {p \in Proc : hasTerminated(p)}

\* Jobs whose tasks are told apart: each is added once, by the program or by the
\* execution of one other task.
Forest ==
    \A j \in Jobs :
        /\ \A p, r \in 0 .. j.nproc - 1 :
             \A i \in DOMAIN j.initial[p], k \in DOMAIN j.initial[r] :
                j.initial[p][i] = j.initial[r][k] => p = r /\ i = k
        /\ \A t, u \in Task :
             \A i \in DOMAIN j.adds[t], k \in DOMAIN j.adds[u] :
                j.adds[t][i] = j.adds[u][k] => t = u /\ i = k
        /\ \A t \in Task, p \in 0 .. j.nproc - 1 :
             \A i \in DOMAIN j.adds[t], k \in DOMAIN j.initial[p] :
                j.adds[t][i] # j.initial[p][k]

\* Every task is executed once, and the end is seen when all were: no task is
\* lost or doubled on its way between local and shared parts and thieves.
ImplementsTaskPool == Pool!PoolSpec

\* Where ARMCI serves everybody, every process comes to the end of process().
\* Elsewhere one does, and leaves the others to ask it for the token in vain; or
\* one spins for ever, on a ring that only the increment of a thief could free.
Termination ==
    <>[](IF job.async THEN \A p \in Proc : pc[p] = "over"
         ELSE \E p \in Proc : pc[p] = "over" \/ Spinning(p))
=============================================================================
