---------------------------- MODULE MCAppcoreEfl ----------------------------
(***************************************************************************)
(* AppcoreEfl on two windows: enough for one to be visible while the other *)
(* is hidden or obscured.  Applications fill in all slots, none, or all    *)
(* but pause; create may return success, -1 or another error.              *)
(***************************************************************************)
EXTENDS AppcoreEfl

MCOpsChoices == {OpSlots, OpSlots \ {"pause"}, {}}
MCVconfFailures == {{}, {"LOW_MEMORY"}}
MCUiOps == {EflOps}
MCCreateReturnValues == {-1, 0, 1}
MCPauseReturnValues == {-1, 0}
=============================================================================
