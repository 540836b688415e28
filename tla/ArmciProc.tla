------------------------------- MODULE ArmciProc -------------------------------
(***************************************************************************)
(* The processes that the locks of ARMCI serve.                            *)
(***************************************************************************)
CONSTANTS
    Proc
=============================================================================
