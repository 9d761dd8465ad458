--------------------------- MODULE AppcoreProofs ---------------------------
(***************************************************************************)
(* Theorems about appcore.c alone, for every set of toolkits, callbacks    *)
(* and vconf failures.                                                     *)
(***************************************************************************)
EXTENDS Appcore, TLAPS

(***************************************************************************)
(* UpcallSafe is not inductive on its own: a key is only watched while     *)
(* core is in use, which is what NothingLeftBehind says.                   *)
(***************************************************************************)
CoreInv == CoreTypeOK /\ UpcallSafe /\ NothingLeftBehind

(***************************************************************************)
(* What __clear leaves in core.                                            *)
(***************************************************************************)
LEMMA ClearedCore == /\ Cleared \in [state : {0, 1}, ops : UiOps \cup {NULL},
                                     sops : [SysEvents -> Cbs \cup {NULL}]]
                     /\ Cleared.state = 0
                     /\ Cleared.ops = NULL
<1>1. [e \in SysEvents |-> NULL] \in [SysEvents -> Cbs \cup {NULL}]
      OBVIOUS
<1> QED BY <1>1 DEF Cleared

(***************************************************************************)
(* Before anything is called core is cleared and nothing is registered.    *)
(***************************************************************************)
LEMMA CoreInitInv == CoreInit => CoreInv
<1> SUFFICES ASSUME CoreInit PROVE CoreInv
    OBVIOUS
<1>1. CoreTypeOK
      BY ClearedCore DEF CoreInit, CoreTypeOK
<1>2. UpcallSafe
      BY ClearedCore DEF CoreInit, UpcallSafe
<1>3. NothingLeftBehind
      BY ClearedCore DEF CoreInit, NothingLeftBehind
<1> QED BY <1>1, <1>2, <1>3 DEF CoreInv

(***************************************************************************)
(* The two ways core is given up, the err label of appcore_init and        *)
(* appcore_exit, both leave the invariant true.                            *)
(***************************************************************************)
LEMMA AfterClear ==
  ASSUME vconf' = {}, core' = Cleared, aul' \in BOOLEAN, start' = FALSE
  PROVE  CoreInv'
<1>1. CoreTypeOK'
      BY ClearedCore DEF CoreTypeOK
<1>2. UpcallSafe'
      BY ClearedCore DEF UpcallSafe
<1>3. NothingLeftBehind'
      BY ClearedCore DEF NothingLeftBehind
<1> QED BY <1>1, <1>2, <1>3 DEF CoreInv

(***************************************************************************)
(* Every exported operation of appcore.c keeps the invariant, those that   *)
(* fail half-way included.                                                 *)
(***************************************************************************)
LEMMA CoreStepInv == CoreInv /\ [CoreNext]_coreVars => CoreInv'
<1> SUFFICES ASSUME CoreInv, [CoreNext]_coreVars PROVE CoreInv'
    OBVIOUS
<1> USE CoreAssumption
    DEF CoreInv, CoreTypeOK, UpcallSafe, NothingLeftBehind
<1>1. ASSUME NEW o \in UiOps, AppcoreInit(o) PROVE CoreInv'
      BY <1>1 DEF AppcoreInit, AddVconf
<1>2. CASE AppcoreInitFails
  <2>1. CASE I18nFails
        BY <2>1 DEF I18nFails, coreVars
  <2>2. CASE AulLaunchInitFails \/ ArgvHandlerFails
        BY <2>2, <1>2, AfterClear DEF AppcoreInitFails, AulLaunchInitFails,
                                      ArgvHandlerFails, InitError, DelVconf
  <2> QED BY <1>2, <2>1, <2>2 DEF AppcoreInitFails
<1>3. CASE AppcoreExit
      BY <1>3, AfterClear DEF AppcoreExit, DelVconf
<1>4. ASSUME NEW e \in SysEvents, NEW cb \in Cbs \cup {NULL}, SetEventCallback(e, cb)
      PROVE CoreInv'
      BY <1>4 DEF SetEventCallback
<1>5. CASE TakeStartBundle
      BY <1>5 DEF TakeStartBundle
<1>6. CASE UNCHANGED coreVars
      BY <1>6 DEF coreVars
<1> QED BY <1>1, <1>2, <1>3, <1>4, <1>5, <1>6 DEF CoreNext

(***************************************************************************)
(* In every behaviour of appcore.c, whatever fails and in whatever order   *)
(* its operations are called, an upcall finds the toolkit it needs and a   *)
(* core not in use has left nothing registered.                            *)
(***************************************************************************)
THEOREM CoreSafe == CoreSpec => [](CoreTypeOK /\ UpcallSafe /\ NothingLeftBehind)
<1>1. CoreSpec => []CoreInv
      BY CoreInitInv, CoreStepInv, PTL DEF CoreSpec
<1>2. CoreInv => CoreTypeOK /\ UpcallSafe /\ NothingLeftBehind
      BY DEF CoreInv
<1> QED BY <1>1, <1>2, PTL
=============================================================================
