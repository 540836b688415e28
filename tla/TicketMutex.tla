------------------------------ MODULE TicketMutex ------------------------------
(***************************************************************************)
(* ARMCI's mutexes, armci/src/locks/mutex.c, as one owner keeps them: for  *)
(* each mutex a token, from which a process that locks takes a ticket, and *)
(* a turn, which says whose ticket is served.                              *)
(*                                                                         *)
(* Most builds poll the turn and write it on release.  In builds with      *)
(* SERVER_LOCK (LAPI, GM) a process of another node asks a handler at the  *)
(* owner, which answers when the turn has come; every release goes to the  *)
(* handler too, but for those of the owner itself, which does the same     *)
(* work in its application thread.  Requests may overtake each other.      *)
(***************************************************************************)
EXTENDS Integers, ArmciProc

CONSTANTS
    Owner,     \* the process that created the mutexes
    Near,      \* processes of the owner's node
    Count,     \* how many mutexes it created
    Builds,    \* whether the build has SERVER_LOCK: the builds considered
    Fill       \* what malloc leaves in an entry of the table of the blocked

Mutex == 0 .. Count - 1

ASSUME TicketAssumption ==
    /\ Proc \subseteq Nat
    /\ Owner \in Near /\ Near \subseteq Proc
    /\ Count \in Nat
    /\ Builds \subseteq BOOLEAN
    /\ Fill \subseteq Nat \X Nat

None == -1

VARIABLES
    server,    \* the build has SERVER_LOCK
    token,     \* glob_mutex[Owner].token
    turn,      \* glob_mutex[Owner].turn
    tickets,   \* glob_mutex[Owner].tickets of each process
    phase,     \* where each process is in a call
    mutex,     \* the mutex of its call
    myturn,    \* its ticket while it polls
    held,      \* the mutexes it has locked (history)
    posted,    \* puts of a turn under way, <<process, mutex, value>>
    requests,  \* requests to the handler under way
    reply,     \* the ticket under way to a process that asked
    handler,   \* the request the handler has begun
    blocked,   \* the handler's table: the mutex and ticket of each process
    left       \* the entries of it that the owner still has to look at

ticketvars == <<server, token, turn, tickets, phase, mutex, myturn, held, posted,
                requests, reply, handler, blocked, left>>

Idle == [stage |-> "idle", from |-> Owner, mutex |-> 0, ticket |-> 0]

TicketInit ==
    /\ server \in Builds
    /\ token = [m \in Mutex |-> 0]
    /\ turn = [m \in Mutex |-> 0]
    /\ tickets = [p \in Proc |-> [m \in Mutex |-> 0]]
    /\ phase = [p \in Proc |-> "out"]
    /\ mutex = [p \in Proc |-> 0]
    /\ myturn = [p \in Proc |-> 0]
    /\ held = [p \in Proc |-> {}]
    /\ posted = {}
    /\ requests = {}
    /\ reply = [p \in Proc |-> None]
    /\ handler = Idle
    /\ blocked \in [Proc -> Fill]
    /\ left = {}

Request(op, p, m, t) == [op |-> op, from |-> p, mutex |-> m, ticket |-> t]

-----------------------------------------------------------------------------
(* PARMCI_Lock *)

\* register_in_mutex_queue, in armci_generic_lock
TakeTicket(p, m) ==
    /\ phase[p] = "out" /\ m \notin held[p]
    /\ ~server \/ p \in Near
    /\ myturn' = [myturn EXCEPT ![p] = token[m]]
    /\ token' = [token EXCEPT ![m] = @ + 1]
    /\ phase' = [phase EXCEPT ![p] = "poll"]
    /\ mutex' = [mutex EXCEPT ![p] = m]
    /\ UNCHANGED <<server, turn, tickets, held, posted, requests, reply, handler,
                   blocked, left>>

\* armci_rem_lock
AskServer(p, m) ==
    /\ phase[p] = "out" /\ m \notin held[p]
    /\ server /\ p \notin Near
    /\ requests' = requests \cup {Request("lock", p, m, 0)}
    /\ phase' = [phase EXCEPT ![p] = "ask"]
    /\ mutex' = [mutex EXCEPT ![p] = m]
    /\ UNCHANGED <<server, token, turn, tickets, myturn, held, posted, reply, handler,
                   blocked, left>>

Lock(p, m) == TakeTicket(p, m) \/ AskServer(p, m)

\* The call returns: p has the mutex and keeps its ticket.
Granted(p, t) ==
    /\ tickets' = [tickets EXCEPT ![p][mutex[p]] = t]
    /\ held' = [held EXCEPT ![p] = @ \cup {mutex[p]}]
    /\ phase' = [phase EXCEPT ![p] = "out"]

\* Mutant: a turn that has passed is taken as well.
PollLate(p) ==
    /\ phase[p] = "poll"
    /\ turn[mutex[p]] + 1 >= myturn[p]
    /\ Granted(p, myturn[p])
    /\ UNCHANGED <<server, token, turn, mutex, myturn, posted, requests, reply,
                   handler, blocked, left>>

\* The turn that the process reads is its own, or has passed ("problem with
\* tickets").
Poll(p) ==
    /\ phase[p] = "poll"
    /\ turn[mutex[p]] >= myturn[p]
    /\ IF turn[mutex[p]] = myturn[p]
       THEN Granted(p, myturn[p])
       ELSE /\ phase' = [phase EXCEPT ![p] = "dead"]
            /\ UNCHANGED <<tickets, held>>
    /\ UNCHANGED <<server, token, turn, mutex, myturn, posted, requests, reply,
                   handler, blocked, left>>

\* The answer of the handler arrives.
Answered(p) ==
    /\ phase[p] = "ask"
    /\ reply[p] # None
    /\ Granted(p, reply[p])
    /\ reply' = [reply EXCEPT ![p] = None]
    /\ UNCHANGED <<server, token, turn, mutex, myturn, posted, requests, handler,
                   blocked, left>>

-----------------------------------------------------------------------------
(* PARMCI_Unlock *)

Release(p, m) ==
    /\ phase[p] = "out" /\ m \in held[p]
    /\ held' = [held EXCEPT ![p] = @ \ {m}]

\* Mutant: a turn is skipped.
GenericUnlockTwice(p, m) ==
    /\ ~server
    /\ Release(p, m)
    /\ tickets' = [tickets EXCEPT ![p][m] = @ + 1]
    /\ posted' = posted \cup {<<p, m, tickets'[p][m] + 1>>}
    /\ UNCHANGED <<server, token, turn, phase, mutex, myturn, requests, reply, handler,
                   blocked, left>>

\* armci_generic_unlock puts the next ticket as the turn.
GenericUnlock(p, m) ==
    /\ ~server
    /\ Release(p, m)
    /\ tickets' = [tickets EXCEPT ![p][m] = @ + 1]
    /\ posted' = posted \cup {<<p, m, tickets'[p][m]>>}
    /\ UNCHANGED <<server, token, turn, phase, mutex, myturn, requests, reply, handler,
                   blocked, left>>

\* The put reaches the owner.
TurnArrives(w) ==
    /\ w \in posted
    /\ posted' = posted \ {w}
    /\ turn' = [turn EXCEPT ![w[2]] = w[3]]
    /\ UNCHANGED <<server, token, tickets, phase, mutex, myturn, held, requests, reply,
                   handler, blocked, left>>

\* armci_rem_unlock
RemUnlock(p, m) ==
    /\ server /\ p # Owner
    /\ Release(p, m)
    /\ requests' = requests \cup {Request("unlock", p, m, tickets[p][m])}
    /\ UNCHANGED <<server, token, turn, tickets, phase, mutex, myturn, posted, reply,
                   handler, blocked, left>>

\* The owner sets the turn itself, armci_server_unlock_mutex ...
OwnerUnlock(m) ==
    /\ server
    /\ Release(Owner, m)
    /\ turn' = [turn EXCEPT ![m] = tickets[Owner][m] + 1]
    /\ phase' = [phase EXCEPT ![Owner] = "search"]
    /\ mutex' = [mutex EXCEPT ![Owner] = m]
    /\ UNCHANGED <<server, token, tickets, myturn, posted, requests, reply, handler,
                   blocked, left>>

\* ... and compares it with the token, in armci_mutex_free: if they are equal
\* nobody is in the queue.
MutexFree ==
    /\ phase[Owner] = "search"
    /\ turn[mutex[Owner]] = token[mutex[Owner]]
    /\ phase' = [phase EXCEPT ![Owner] = "out"]
    /\ UNCHANGED <<server, token, turn, tickets, mutex, myturn, held, posted, requests,
                   reply, handler, blocked, left>>

\* The ticket that the owner's release passes on
NextTicket == tickets[Owner][mutex[Owner]] + 1

\* The turn that was loaded for this comparison may be the one just set,
\* though a process that polls has since been served.
BeginScan ==
    /\ phase[Owner] = "search"
    /\ token[mutex[Owner]] # NextTicket
    /\ phase' = [phase EXCEPT ![Owner] = "scan"]
    /\ left' = Proc
    /\ UNCHANGED <<server, token, turn, tickets, mutex, myturn, held, posted, requests,
                   reply, handler, blocked>>

\* The entry of p is the next of the table.
AtEntry(p) == p \in left /\ \A q \in left : p <= q

\* Nobody waits at the entry of p; after the last one nobody is waiting.
NextEntry(p) ==
    /\ left' = left \ {p}
    /\ phase' = [phase EXCEPT ![Owner] = IF left' = {} THEN "out" ELSE "scan"]

\* The table is the handler's, which may write an entry between any two of
\* the owner's loads: of its mutex, ...
LookAtMutex(p) ==
    /\ phase[Owner] = "scan" /\ AtEntry(p)
    /\ IF blocked[p][1] = mutex[Owner]
       THEN phase' = [phase EXCEPT ![Owner] = "match"] /\ UNCHANGED left
       ELSE NextEntry(p)
    /\ UNCHANGED <<server, token, turn, tickets, mutex, myturn, held, posted, requests,
                   reply, handler, blocked>>

\* ... of its ticket, ...
LookAtTicket(p) ==
    /\ phase[Owner] = "match" /\ AtEntry(p)
    /\ IF blocked[p][2] = NextTicket
       THEN phase' = [phase EXCEPT ![Owner] = "tell"] /\ UNCHANGED left
       ELSE NextEntry(p)
    /\ UNCHANGED <<server, token, turn, tickets, mutex, myturn, held, posted, requests,
                   reply, handler, blocked>>

\* The handler has not yet stored the tag of the request of p.
Untagged(p) == handler.from = p /\ handler.stage \in {"mutex", "turn", "tag"}

\* ... and of the tag that says where p expects the answer.  A tag that is not
\* the one of p's request need not lead there.
TellBlocked(p) ==
    /\ phase[Owner] = "tell" /\ AtEntry(p)
    /\ \/ reply' = [reply EXCEPT ![p] = NextTicket]
       \/ Untagged(p) /\ UNCHANGED reply
    /\ phase' = [phase EXCEPT ![Owner] = "out"]
    /\ left' = {}
    /\ UNCHANGED <<server, token, turn, tickets, mutex, myturn, held, posted, requests,
                   handler, blocked>>

OwnerSearch ==
    \/ MutexFree \/ BeginScan
    \/ \E p \in left : LookAtMutex(p) \/ LookAtTicket(p) \/ TellBlocked(p)

Unlock(p, m) == GenericUnlock(p, m) \/ RemUnlock(p, m) \/ (p = Owner /\ OwnerUnlock(m))

-----------------------------------------------------------------------------
(* The handler: armci_server_lock and armci_server_unlock *)

\* A lock request takes a ticket, ...
HandleLock(q) ==
    /\ handler = Idle
    /\ q \in requests /\ q.op = "lock"
    /\ requests' = requests \ {q}
    /\ handler' = [stage |-> "compare", from |-> q.from, mutex |-> q.mutex,
                   ticket |-> token[q.mutex]]
    /\ token' = [token EXCEPT ![q.mutex] = @ + 1]
    /\ UNCHANGED <<server, turn, tickets, phase, mutex, myturn, held, posted, reply,
                   blocked, left>>

\* ... compares it with the turn, and answers if it is equal ("problem with
\* tickets" if the turn has passed) ...
CompareTurn ==
    /\ handler.stage = "compare"
    /\ IF turn[handler.mutex] = handler.ticket
       THEN /\ reply' = [reply EXCEPT ![handler.from] = handler.ticket]
            /\ handler' = Idle
       ELSE /\ handler' = [handler EXCEPT !.stage = IF turn[handler.mutex] > handler.ticket
                                                    THEN "dead" ELSE "mutex"]
            /\ UNCHANGED reply
    /\ UNCHANGED <<server, token, turn, tickets, phase, mutex, myturn, held, posted,
                   requests, blocked, left>>

\* ... and otherwise enters the process in the table: stores the mutex, ...
StoreMutex ==
    /\ handler.stage = "mutex"
    /\ blocked' = [blocked EXCEPT ![handler.from] = <<handler.mutex, @[2]>>]
    /\ handler' = [handler EXCEPT !.stage = "turn"]
    /\ UNCHANGED <<server, token, turn, tickets, phase, mutex, myturn, held, posted,
                   requests, reply, left>>

\* ... the ticket ...
StoreTicket ==
    /\ handler.stage = "turn"
    /\ blocked' = [blocked EXCEPT ![handler.from] = <<@[1], handler.ticket>>]
    /\ handler' = [handler EXCEPT !.stage = "tag"]
    /\ UNCHANGED <<server, token, turn, tickets, phase, mutex, myturn, held, posted,
                   requests, reply, left>>

\* ... and the tag.
StoreTag ==
    /\ handler.stage = "tag"
    /\ handler' = Idle
    /\ UNCHANGED <<server, token, turn, tickets, phase, mutex, myturn, held, posted,
                   requests, reply, blocked, left>>

\* The entries of the table that wait for ticket t of m.  If nobody has taken
\* that ticket the table is not searched.
Waiting(m, t) == {p \in Proc : token[m] # t /\ blocked[p] = <<m, t>>}

\* Mutant: the process that is found is not told.
PassNobody(m, t) == UNCHANGED reply

\* One of those found is sent the ticket.
Pass(m, t) ==
    \/ \E p \in Waiting(m, t) : reply' = [reply EXCEPT ![p] = t]
    \/ Waiting(m, t) = {} /\ UNCHANGED reply

\* An unlock request sets the turn and looks for a process that is blocked.
\* The handler does not interrupt itself, so that it finds every entry whole.
HandleUnlock(q) ==
    /\ handler = Idle
    /\ q \in requests /\ q.op = "unlock"
    /\ requests' = requests \ {q}
    /\ turn' = [turn EXCEPT ![q.mutex] = q.ticket + 1]
    /\ Pass(q.mutex, q.ticket + 1)
    /\ UNCHANGED <<server, token, tickets, phase, mutex, myturn, held, posted, handler,
                   blocked, left>>

TicketStep(p) == Poll(p) \/ Answered(p) \/ (p = Owner /\ OwnerSearch)

HandlerStep ==
    \/ CompareTurn \/ StoreMutex \/ StoreTicket \/ StoreTag
    \/ \E q \in requests : HandleLock(q) \/ HandleUnlock(q)

TicketNext ==
    \/ \E p \in Proc, m \in Mutex : Lock(p, m) \/ Unlock(p, m)
    \/ \E p \in Proc : TicketStep(p)
    \/ \E w \in posted : TurnArrives(w)
    \/ HandlerStep

TicketSpec == TicketInit /\ [][TicketNext]_ticketvars

-----------------------------------------------------------------------------
(* Properties *)

Requests == [op : {"lock", "unlock"}, from : Proc, mutex : Mutex, ticket : Nat]

TicketTypeOK ==
    /\ server \in Builds
    /\ token \in [Mutex -> Nat]
    /\ turn \in [Mutex -> Nat]
    /\ tickets \in [Proc -> [Mutex -> Nat]]
    /\ phase \in [Proc -> {"out", "poll", "ask", "search", "scan", "match", "tell",
                         "dead"}]
    /\ mutex \in [Proc -> Nat]
    /\ myturn \in [Proc -> Nat]
    /\ held \in [Proc -> SUBSET Mutex]
    /\ posted \subseteq Proc \X Mutex \X Nat
    /\ requests \subseteq Requests
    /\ reply \in [Proc -> Nat \cup {None}]
    /\ handler \in [stage : {"idle", "compare", "mutex", "turn", "tag", "dead"},
                    from : Proc, mutex : Nat, ticket : Nat]
    /\ blocked \in [Proc -> Nat \X Nat]
    /\ left \subseteq Proc

\* The table of the blocked, which malloc does not clear (mutex.c:128), holds
\* no ticket that a release would look for.
CleanFill == \A e \in Fill : e[2] = 0

\* The owner searches the table after a release.
InSearch == phase[Owner] \in {"search", "scan", "match", "tell"}

\* The handler never stores another mutex in an entry, ...
EntryKeepsMutex == handler.stage = "mutex" => blocked[handler.from][1] = handler.mutex

\* ... or the owner never searches the table.  Otherwise a search may take the
\* mutex of an entry from one request and the ticket from another, and the
\* owner give away a turn that is not there.
OwnerSilent == ~InSearch

\* No mutex is held by two processes.
MutexExclusive == CleanFill => \A p, q \in Proc : p # q => held[p] \cap held[q] = {}

\* armci_die, "problem with tickets", is never reached.
NoTicketProblem ==
    CleanFill => handler.stage # "dead" /\ \A p \in Proc : phase[p] # "dead"

\* A release of m is under way.
Releasing(m) ==
    \/ \E w \in posted : w[2] = m
    \/ \E q \in requests : q.op = "unlock" /\ q.mutex = m
    \/ InSearch /\ mutex[Owner] = m

\* p is on its way to take the turn of m.
Taking(p, m) ==
    \/ m \in held[p]
    \/ mutex[p] = m /\ phase[p] = "poll" /\ myturn[p] = turn[m]
    \/ mutex[p] = m /\ phase[p] = "ask" /\ reply[p] = turn[m]

\* "nobody is waiting" (mutex.c:345): when a release is over, the ticket whose
\* turn it is was not taken, or its process will learn of it.
TurnHasTaker ==
    \A m \in Mutex : turn[m] # token[m] =>
        \/ Releasing(m)
        \/ handler.stage # "idle" /\ handler.mutex = m
        \/ \E p \in Proc : Taking(p, m)
=============================================================================
