------------------------------- MODULE TaskPool -------------------------------
(***************************************************************************)
(* What a task collection promises: every task is executed once, whoever   *)
(* added it and wherever it was moved meanwhile, and no process sees the   *)
(* end before there is nothing left to execute.                            *)
(***************************************************************************)

CONSTANT Task

VARIABLES
    adds,     \* adds[t]: the tasks that executing t adds; never changes
    waiting,  \* the tasks that still have to be executed
    ended     \* the processes that have seen the end

Execute(t) ==
    /\ t \in waiting
    /\ waiting' = (waiting \ {t}) \cup adds[t]
    /\ UNCHANGED <<adds, ended>>

End ==
    /\ waiting = {}
    /\ ended \subseteq ended'
    /\ UNCHANGED <<adds, waiting>>

PoolInit == ended = {}
PoolNext == End \/ \E t \in Task : Execute(t)
PoolSpec == PoolInit /\ [][PoolNext]_<<adds, waiting, ended>>
=============================================================================
