------------------------------ MODULE Appcore ------------------------------
(***************************************************************************)
(* appcore.c: the part of app-core that does not know the toolkit.  It     *)
(* keeps one struct appcore (here core), registers one vconf callback per  *)
(* system key and one AUL handler, and calls the toolkit back through      *)
(* ops->cb_app.  The actions are the exported operations; AppcoreEfl calls *)
(* them from appcore_efl_main.                                             *)
(***************************************************************************)
EXTENDS Integers

CONSTANTS
    UiOps,          \* the struct ui_ops a toolkit may pass to appcore_init
    Cbs,            \* the system event callbacks an application may register
    NULL,
    VconfFailures   \* the sets of keys vconf may refuse to watch

SysEvents == {"LOWMEM", "LOWBAT", "LANGCHG", "REGIONCHG"}

VconfKeys == {"LOW_MEMORY", "BATTERY_STATUS_LOW", "LANGSET", "REGIONFORMAT",
              "REGIONFORMAT_TIME1224"}

ASSUME CoreAssumption == /\ NULL \notin UiOps
                         /\ NULL \notin Cbs
                         /\ VconfFailures \subseteq SUBSET VconfKeys

VARIABLES
    core,    \* static struct appcore core
    vconf,   \* the keys of evtops[] that are being watched
    aul,     \* aul_launch_init has installed __aul_handler
    start    \* AUL holds the bundle of argv for the first idler

coreVars == <<core, vconf, aul, start>>

Cleared == [state |-> 0, ops |-> NULL, sops |-> [e \in SysEvents |-> NULL]]

CoreTypeOK ==
    /\ core \in [state : {0, 1}, ops : UiOps \cup {NULL},
                 sops : [SysEvents -> Cbs \cup {NULL}]]
    /\ vconf \subseteq VconfKeys
    /\ aul \in BOOLEAN
    /\ start \in BOOLEAN

CoreInit == /\ core = Cleared
            /\ vconf = {}
            /\ aul = FALSE
            /\ start = FALSE
-----------------------------------------------------------------------------
(***************************************************************************)
(* __add_vconf ignores what vconf_notify_key_changed returns, so a refused *)
(* key is simply not watched and initialisation goes on.                   *)
(***************************************************************************)
AddVconf == \E refused \in VconfFailures : vconf' = VconfKeys \ refused

DelVconf == vconf' = {}

AppcoreInitWithoutArgv(o) ==   \* mutant: aul_launch_argv_handler not called
    /\ core.state = 0
    /\ AddVconf
    /\ aul' = TRUE
    /\ start' = FALSE
    /\ core' = [core EXCEPT !.state = 1, !.ops = o]

(***************************************************************************)
(* appcore_init(ops), everything succeeding.                               *)
(***************************************************************************)
AppcoreInit(o) ==
    /\ core.state = 0
    /\ AddVconf
    /\ aul' = TRUE
    /\ start' = TRUE
    /\ core' = [core EXCEPT !.state = 1, !.ops = o]

(***************************************************************************)
(* appcore_init returning -1.  set_i18n fails before anything is           *)
(* registered and returns at once; aul_launch_init and                     *)
(* aul_launch_argv_handler go to err, which unregisters the keys and       *)
(* clears the whole of core, the event callbacks the application set       *)
(* earlier included.  err does not undo aul_launch_init.                   *)
(***************************************************************************)
I18nFails == UNCHANGED coreVars

InitErrorKeepsKeys == vconf' = VconfKeys /\ core' = Cleared   \* mutant: no __del_vconf

InitError == DelVconf /\ core' = Cleared

AulLaunchInitFails == InitError /\ UNCHANGED <<aul, start>>

ArgvHandlerFails == InitError /\ aul' = TRUE /\ UNCHANGED start

AppcoreInitFails ==
    /\ core.state = 0
    /\ I18nFails \/ AulLaunchInitFails \/ ArgvHandlerFails

(***************************************************************************)
(* appcore_exit.  aul_finalize is called whether or not core is in use.    *)
(***************************************************************************)
AppcoreExit ==
    /\ IF core.state = 1 THEN DelVconf /\ core' = Cleared
                         ELSE UNCHANGED <<core, vconf>>
    /\ aul' = FALSE
    /\ start' = FALSE

(***************************************************************************)
(* appcore_set_event_callback(event, cb, data); cb = NULL unsets it.       *)
(***************************************************************************)
SetEventCallback(e, cb) ==
    /\ core' = [core EXCEPT !.sops[e] = cb]
    /\ UNCHANGED <<vconf, aul, start>>

(***************************************************************************)
(* AUL hands the bundle it kept from argv to __aul_handler (AUL_START) at  *)
(* the first idler.                                                        *)
(***************************************************************************)
TakeStartBundle == aul /\ start /\ start' = FALSE /\ UNCHANGED <<core, vconf, aul>>

(***************************************************************************)
(* __sys_do: a change of a watched key reaches the application only when   *)
(* a callback is registered for its event; __sys_do_default does nothing.  *)
(***************************************************************************)
EventOf == [LOW_MEMORY |-> "LOWMEM", BATTERY_STATUS_LOW |-> "LOWBAT",
            LANGSET |-> "LANGCHG", REGIONFORMAT |-> "REGIONCHG",
            REGIONFORMAT_TIME1224 |-> "REGIONCHG"]

Delivered(k) == k \in vconf /\ core.sops[EventOf[k]] # NULL
-----------------------------------------------------------------------------
CoreNext == \/ \E o \in UiOps : AppcoreInit(o)
            \/ AppcoreInitFails
            \/ AppcoreExit
            \/ \E e \in SysEvents, cb \in Cbs \cup {NULL} : SetEventCallback(e, cb)
            \/ TakeStartBundle

CoreSpec == CoreInit /\ [][CoreNext]_coreVars

(***************************************************************************)
(* Handlers are installed only around a core that can serve them: when a   *)
(* key is watched, or core is in use, core.ops is set.  __sys_lowmem_post  *)
(* and appcore_flush_memory dereference ac->ops without looking.           *)
(***************************************************************************)
UpcallSafe == (vconf # {} \/ core.state = 1) => core.ops \in UiOps

(***************************************************************************)
(* A core that is not in use keeps nothing registered with vconf, no       *)
(* toolkit and no start bundle, however initialisation failed.             *)
(***************************************************************************)
NothingLeftBehind == core.state = 0 => core.ops = NULL /\ vconf = {} /\ ~start
=============================================================================
