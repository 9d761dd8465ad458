------------------------- MODULE MCAppcoreEflClaims -------------------------
(***************************************************************************)
(* What the documentation says of appcore_efl_main and the code does not   *)
(* do.  Each claim is the property of a run of its own that TLC refutes.   *)
(***************************************************************************)
EXTENDS MCAppcoreEfl

(***************************************************************************)
(* struct appcore_ops: if create returns non-zero, Appcore does not run    *)
(* the main loop.                                                          *)
(***************************************************************************)
CreateErrorCancels == pc = "loop" => cret = 0

(***************************************************************************)
(* Programming guide: RESUME is called when one of the windows is visible. *)
(* A running application with a visible window has seen the RESUME of its  *)
(* last PAUSE.                                                             *)
(***************************************************************************)
ResumedBeforeActive ==
    state = "AS_RUNNING" /\ b_active /\ CheckVisible(winnode) => ~suspended
=============================================================================
