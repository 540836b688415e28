------------------------------ MODULE MCTaskQueue ------------------------------
(* Jobs of the task collection for TLC, and what the code says of vtail2. *)
EXTENDS TaskQueue, FiniteSetsExt, SequencesExt

\* Tasks; the first ones are added by the program.
Tasks == 1 .. 6

Job(n, max, first, adds) ==
    [nproc |-> n, max |-> max,
     initial |-> [p \in 0 .. n - 1 |-> IF p = 0 THEN first ELSE <<>>],
     adds |-> adds, async |-> TRUE]

\* The same over a runtime that serves a process only in its own calls
Unserved(j) == [j EXCEPT !.async = FALSE]

\* A chain, as in test/TestQueue.cc; a task that adds two others to a queue that
\* is full but for its own slot, so that it waits for a thief
Chain == [t \in Tasks |-> IF t \in {2, 3} THEN <<t + 1>> ELSE <<>>]
Wide  == [t \in Tasks |-> IF t = 2 THEN <<3, 4>> ELSE IF t = 1 THEN <<5>> ELSE <<>>]
Grow  == [t \in Tasks |-> IF t = 3 THEN <<4, 5, 6>> ELSE <<>>]

\* Two processes, with queues that wrap around and fill up
PairJobs ==
    {Job(2, 2, <<1, 2>>, adds) : adds \in {Chain, Wide}}
    \cup {Job(2, 3, <<1, 2, 3>>, Grow)}

\* Three, with a queue that does not come round
TrioJobs == {Job(3, 4, <<1, 2>>, Chain)}

\* Without service, on a ring that fills up and on one that does not
UnservedJobs == {Unserved(Job(2, 2, <<1, 2>>, Wide)), Unserved(Job(2, 4, <<1, 2>>, Chain)),
                 Unserved(Job(3, 4, <<1, 2>>, Chain))}

TaskJobs == PairJobs \cup TrioJobs \cup UnservedJobs

\* Two thieves and a victim with tasks for both
ThiefJobs == {Job(3, 3, <<1, 2, 3>>, Grow)}

ASSUME ToldApart == Forest

-----------------------------------------------------------------------------

\* vtail2 is "incremented after a steal completes" (SplitQueueOpt.h:40), "so that
\* it can be updated independent of the rest of the queue state" (27): it is
\* the tail, less the steals that are not complete.
ShiftOf(p, v) ==
    shift[p][v] + IF Looting(p) /\ victim[p] = v THEN NewTail(p) - sq[p].ps.tail ELSE 0

Vtail2Counts ==
    \A v \in Proc :
        vtail2[v] + FoldFunction(+, 0, [p \in Proc |-> ShiftOf(p, v)]) = ps[v].tail
=============================================================================
