------------------------------ MODULE TermDetect ------------------------------
(***************************************************************************)
(* The termination detector of tascel, TerminationDetector.cc: a binary    *)
(* tree of processes.  In the up phase a process waits for the votes of    *)
(* its children and sends its own, "no" if one of these is, to its parent; *)
(* the root decides, and in the down phase the decision travels back.      *)
(* Each process polls from its own loop.                                   *)
(***************************************************************************)
EXTENDS Integers

VARIABLES
    nproc,      \* the number of processes, which does not change
    dirUp,      \* is a process in the up phase
    myvote,     \* its vote, 0 or 1
    pdecision,  \* the decision it knows of, 0 or 1: a buffer that MPI fills
    votes,      \* votes[c]: a vote of c that its parent has not taken
    decisions   \* decisions[c]: a decision for c that c has not taken

detector == <<dirUp, myvote, pdecision, votes, decisions>>

Proc == 0 .. nproc - 1
None == -1

\* "me != 0" compares the address of a function and is always true, so that
\* the root is its own parent: in C, (0 - 1) / 2 is 0.
Parent(p)   == IF p = 0 THEN 0 ELSE (p - 1) \div 2
Children(p) == {c \in {2 * p + 1, 2 * p + 2} : c < nproc}

\* The constructor
DetectorInit ==
    /\ dirUp = [p \in Proc |-> TRUE]
    /\ myvote = [p \in Proc |-> 1]
    /\ pdecision = [p \in Proc |-> 0]
    /\ votes = [p \in Proc |-> None]
    /\ decisions = [p \in Proc |-> None]

\* vote: a "no" stays until the vote is sent.
Voted(p, yes) == IF yes THEN myvote[p] ELSE 0

\* What p would send up
Decision(p, yes) ==
    IF Voted(p, yes) = 1 /\ \A c \in Children(p) : votes[c] = 1 THEN 1 ELSE 0

VotesIn(p) == \A c \in Children(p) : votes[c] # None

\* progress, when the end is known: the vote is noted and nothing else done.
ProgressEnded(p, yes) ==
    /\ pdecision[p] = 1
    /\ myvote' = [myvote EXCEPT ![p] = Voted(p, yes)]
    /\ UNCHANGED <<dirUp, pdecision, votes, decisions>>

\* propogateUp
ProgressUp(p, yes) ==
    /\ pdecision[p] = 0 /\ dirUp[p] /\ VotesIn(p) /\ p # 0
    /\ votes' = [c \in Proc |-> IF c = p THEN Decision(p, yes)
                                ELSE IF c \in Children(p) THEN None ELSE votes[c]]
    /\ myvote' = [myvote EXCEPT ![p] = 1]
    /\ dirUp' = [dirUp EXCEPT ![p] = FALSE]
    /\ UNCHANGED <<pdecision, decisions>>

\* The root decides; its message to itself has arrived when it is sent, so
\* that it goes on with propogateDown.
ProgressRoot(p, yes) ==
    /\ pdecision[p] = 0 /\ dirUp[p] /\ VotesIn(p) /\ p = 0
    /\ pdecision' = [pdecision EXCEPT ![p] = Decision(p, yes)]
    /\ decisions' = [c \in Proc |-> IF c \in Children(p) THEN Decision(p, yes)
                                    ELSE decisions[c]]
    /\ votes' = [c \in Proc |-> IF c \in Children(p) THEN None ELSE votes[c]]
    /\ myvote' = [myvote EXCEPT ![p] = 1]
    /\ UNCHANGED dirUp

\* propogateDown
ProgressDown(p, yes) ==
    /\ pdecision[p] = 0 /\ ~dirUp[p] /\ decisions[p] # None
    /\ pdecision' = [pdecision EXCEPT ![p] = decisions[p]]
    /\ decisions' = [c \in Proc |-> IF c = p THEN None
                                    ELSE IF c \in Children(p) THEN decisions[p]
                                    ELSE decisions[c]]
    /\ dirUp' = [dirUp EXCEPT ![p] = TRUE]
    /\ myvote' = [myvote EXCEPT ![p] = Voted(p, yes)]
    /\ UNCHANGED votes

\* Messages are missing.
ProgressWaits(p, yes) ==
    /\ pdecision[p] = 0
    /\ IF dirUp[p] THEN ~VotesIn(p) ELSE decisions[p] = None
    /\ myvote' = [myvote EXCEPT ![p] = Voted(p, yes)]
    /\ UNCHANGED <<dirUp, pdecision, votes, decisions>>

Progress(p, yes) ==
    \/ ProgressEnded(p, yes) \/ ProgressUp(p, yes) \/ ProgressRoot(p, yes)
    \/ ProgressDown(p, yes) \/ ProgressWaits(p, yes)

\* pdecision is the buffer of a receive: MPI may fill it in before MPI_Test
\* says so, in any call.  A process that finds it filled in calls
\* propogateDown no more, and its children are never told.
DecisionArrives(p) ==
    /\ decisions[p] = 1 /\ pdecision[p] = 0
    /\ pdecision' = [pdecision EXCEPT ![p] = 1]
    /\ UNCHANGED <<dirUp, myvote, votes, decisions>>

hasTerminated(p) == pdecision[p] = 1
=============================================================================
