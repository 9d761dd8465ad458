--------------------------- MODULE RotationPromise ---------------------------
(***************************************************************************)
(* What app-core promises a client of its rotation service (section 4 of   *)
(* SLP_Appcore_PG.h, and appcore_set_rotation_cb in appcore-common.h): one *)
(* client at a time, told the changes of the mode from its registration    *)
(* until appcore_unset_rotation_cb, and never the same mode twice in a     *)
(* row.  With which data it is called is not part of this promise: that    *)
(* is OwnData of Rotation, which the code does not always keep.            *)
(***************************************************************************)
EXTENDS Integers

CONSTANTS Clients, NULL, Modes

VARIABLES
    client,   \* the registered callback
    told,     \* the last call: of which callback, what mode; nth alternates
    toldnow   \* this registration has been called

promiseVars == <<client, told, toldnow>>

Init ==
    /\ client = NULL
    /\ told = [callback |-> NULL, mode |-> "UNKNOWN", nth |-> 0]
    /\ toldnow = FALSE

(***************************************************************************)
(* A second client is refused.  The new one has not been told anything.    *)
(***************************************************************************)
Register(c) ==
    /\ client = NULL
    /\ client' = c
    /\ toldnow' = FALSE
    /\ UNCHANGED told

Unregister ==
    /\ client # NULL
    /\ client' = NULL
    /\ UNCHANGED <<told, toldnow>>

(***************************************************************************)
(* A call of the registered callback, and only when the mode is new to it. *)
(***************************************************************************)
Tell(m) ==
    /\ client # NULL
    /\ toldnow => told.mode # m
    /\ told' = [callback |-> client, mode |-> m, nth |-> 1 - told.nth]
    /\ toldnow' = TRUE
    /\ UNCHANGED client

Next == \/ \E c \in Clients : Register(c)
        \/ Unregister
        \/ \E m \in Modes : Tell(m)

Spec == Init /\ [][Next]_promiseVars
=============================================================================
