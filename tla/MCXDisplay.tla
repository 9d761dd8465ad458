----------------------------- MODULE MCXDisplay -----------------------------
(***************************************************************************)
(* Two top windows and a child window, with up to three events in flight.  *)
(* The application has all its callbacks; create may cancel the launch and *)
(* appcore_init may fail, so that a loop may start on a display an earlier *)
(* launch left open.                                                       *)
(***************************************************************************)
EXTENDS XDisplay

MCUiOps == {EflOps}
MCVconfFailures == {{}}
MCOpsChoices == {OpSlots}
MCReturnValues == {0}
MCCreateReturnValues == {0, -1}
=============================================================================
