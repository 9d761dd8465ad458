---------------------------- MODULE AppLifecycle ----------------------------
(***************************************************************************)
(* What app-core promises an application about its life-cycle callbacks.  *)
(* include/SLP_Appcore_PG.h lists five operations (struct appcore_ops):    *)
(* CREATE before the main loop, RESET at the first idler and at every      *)
(* relaunch, PAUSE and RESUME as the windows disappear and come back,      *)
(* TERMINATE after the main loop.  This module is the order in which the   *)
(* code may reach them; op is the slot reached last ("none" before any).   *)
(* A slot the application left NULL is reached all the same: nothing is    *)
(* called, but the life cycle moves on.                                    *)
(***************************************************************************)

VARIABLE op

OpSlots == {"create", "reset", "pause", "resume", "terminate"}

Init == op = "none"

(***************************************************************************)
(* appcore_efl_main may be called again after it has returned: either the  *)
(* previous life ended with TERMINATE, or its CREATE failed.               *)
(***************************************************************************)
Create == op \in {"none", "terminate", "create"} /\ op' = "create"

Reset == op \in {"create", "reset", "pause", "resume"} /\ op' = "reset"

(***************************************************************************)
(* PAUSE never comes before the first RESET, and never twice in a row.     *)
(***************************************************************************)
Pause == op \in {"reset", "resume"} /\ op' = "pause"

(***************************************************************************)
(* RESUME only ever answers the PAUSE just before it.                      *)
(***************************************************************************)
Resume == op = "pause" /\ op' = "resume"

Terminate == op \in {"create", "reset", "pause", "resume"} /\ op' = "terminate"

Next == Create \/ Reset \/ Pause \/ Resume \/ Terminate

Spec == Init /\ [][Next]_op
=============================================================================
