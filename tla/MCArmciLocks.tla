------------------------------ MODULE MCArmciLocks ------------------------------
(***************************************************************************)
(* The locks of ARMCI as programs use them: processes that accumulate to   *)
(* areas of memory of one owner, which locks the areas, and that lock and  *)
(* unlock mutexes of this owner.                                           *)
(***************************************************************************)
EXTENDS MemLock, TicketMutex, Sequences, Functions

CONSTANTS
    Jobs   \* for each process its calls, and the builds of the job

VARIABLES
    job,   \* the job that runs
    made   \* how many of its calls each process has begun

vars == <<memvars, ticketvars, job, made>>

Acc(s, e)  == <<[op |-> "acc", area |-> <<s, e>>]>>
LockOf(m)  == <<[op |-> "lock", mutex |-> m]>>
UnlockOf(m) == <<[op |-> "unlock", mutex |-> m]>>
Critical(m) == LockOf(m) \o UnlockOf(m)

Init ==
    /\ MemInit /\ TicketInit
    /\ job \in Jobs /\ server \in job.builds
    /\ made = [p \in Proc |-> 0]

\* p makes its next call.
Call(p) ==
    /\ at[p] = "out" /\ phase[p] = "out" /\ made[p] < Len(job.calls[p])
    /\ made' = [made EXCEPT ![p] = @ + 1]
    /\ LET c == job.calls[p][made'[p]]
       IN  \/ c.op = "acc" /\ LockMem(p, c.area) /\ UNCHANGED ticketvars
           \/ c.op = "lock" /\ Lock(p, c.mutex) /\ UNCHANGED memvars
           \/ c.op = "unlock" /\ Unlock(p, c.mutex) /\ UNCHANGED memvars
    /\ UNCHANGED job

\* p goes on with a call.
Step(p) ==
    /\ \/ MemStep(p) /\ UNCHANGED ticketvars
       \/ TicketStep(p) /\ UNCHANGED memvars
    /\ UNCHANGED <<job, made>>

Handle  == HandlerStep /\ UNCHANGED <<memvars, job, made>>
Deliver == (\E w \in posted : TurnArrives(w)) /\ UNCHANGED <<memvars, job, made>>

Done == \A p \in Proc : made[p] = Len(job.calls[p]) /\ at[p] = "out" /\ phase[p] = "out"
Over == Done /\ requests = {} /\ posted = {} /\ UNCHANGED vars

Next == (\E p \in Proc : Call(p) \/ Step(p)) \/ Handle \/ Deliver \/ Over

\* Every process runs, the handler runs, and puts arrive.
Fairness == (\A p \in Proc : WF_vars(Call(p) \/ Step(p))) /\ WF_vars(Handle) /\ WF_vars(Deliver)

Spec == Init /\ [][Next]_vars /\ Fairness

-----------------------------------------------------------------------------
(* Jobs of three processes, 0, 1 and 2; 0 is the owner, and 1 is near it. *)

Processes == 0 .. 2
NearOwner == {0, 1}

Job(b, x, y, z) ==
    [builds |-> b,
     calls  |-> [p \in Processes |-> CASE p = 0 -> x [] p = 1 -> y [] OTHER -> z]]
Generic == {FALSE}
Server  == {TRUE}

\* Areas of one or two cache lines of 4 bytes.  The jobs have more areas than
\* slots, and a mutex around an accumulate.
SmallAreas == {<<4, 6>>, <<5, 9>>, <<8, 11>>, <<13, 14>>}

AccJobs ==
    {Job(Generic, Acc(4, 6) \o Acc(5, 9), Acc(5, 9), Acc(8, 11) \o Acc(4, 6)),
     Job(Generic, Acc(4, 6), Acc(8, 11) \o Acc(13, 14), Acc(13, 14)),
     Job(BOOLEAN, Acc(5, 9), LockOf(0) \o Acc(5, 9) \o UnlockOf(0),
         LockOf(0) \o Acc(8, 11) \o UnlockOf(0))}

\* No mutex is locked by the owner and by the process that is not near it ...
ApartJobs ==
    {Job(BOOLEAN, <<>>, Critical(0) \o Critical(1), Critical(1) \o Critical(0)),
     Job(BOOLEAN, <<>>, LockOf(0) \o Critical(1) \o UnlockOf(0), Critical(0) \o Critical(0)),
     Job(BOOLEAN, Critical(1) \o Critical(1), Critical(1) \o Critical(0), Critical(0))}

\* ... or one is.
OwnerJob(b)  == Job(b, Critical(0) \o Critical(1), Critical(1), Critical(1) \o Critical(0))
SharedJob(b) == Job(b, Critical(0) \o Critical(0), Critical(0), Critical(0) \o Critical(0))

LockJobs   == AccJobs \cup ApartJobs \cup {OwnerJob(Generic), SharedJob(BOOLEAN)}
ServerJobs == {SharedJob(Server)}

\* The mutexes that p locks in a job
LockedBy(j, p) ==
    {c.mutex : c \in {d \in Range(j.calls[p]) : d.op = "lock"}}

\* The owner never searches the table, or the handler stores no other mutex in
\* an entry than the 0 of a fresh page.
ASSUME WholeEntries ==
    \A j \in Jobs : TRUE \in j.builds =>
        \/ LockedBy(j, 0) = {}
        \/ \A p \in Processes \ NearOwner : LockedBy(j, p) \subseteq {0}

\* The owner and a process that is not near it lock the same mutex, and the
\* handler serves it: the wake-up of this process may be lost.
MayForget ==
    server /\ \E p \in Processes \ NearOwner : LockedBy(job, 0) \cap LockedBy(job, p) # {}

\* A fresh page
Zeroed == {<<0, 0>>}

\* Every call returns, though areas conflict, the table fills up and mutexes
\* are contended: nobody is forgotten or starves, but for the wake-ups that the
\* race of the owner with the handler loses.
Termination == MayForget \/ <>Done
=============================================================================
