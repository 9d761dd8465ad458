------------------------------ MODULE MCXRaise ------------------------------
(***************************************************************************)
(* Three windows in every tree they can form, one of them not eligible,    *)
(* and two things the other clients do during a search.                    *)
(***************************************************************************)
EXTENDS XRaise
=============================================================================
