----------------------------- MODULE MCRotation -----------------------------
(***************************************************************************)
(* Rotation with one or two clients, two positions of the device and one   *)
(* the table of the code does not know.                                    *)
(***************************************************************************)
EXTENDS Rotation, TLC

MCCodes == {"ROTATION_EVENT_0", "ROTATION_EVENT_90", "ROTATION_UNKNOWN"}
MCTwoCodes == {"ROTATION_EVENT_0", "ROTATION_UNKNOWN"}

(***************************************************************************)
(* No client is different from another, before it has registered.          *)
(***************************************************************************)
MCSymmetry == Permutations(Clients)
=============================================================================
