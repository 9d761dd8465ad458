----------------------------- MODULE AppcoreEfl -----------------------------
(***************************************************************************)
(* appcore-efl.c on top of appcore.c: appcore_efl_main, its life-cycle     *)
(* state machine (__do_app), the list of the application's windows and the *)
(* X event handlers that turn visibility into PAUSE and RESUME.            *)
(*                                                                         *)
(* Everything runs on one thread, so an action is one whole handler, from  *)
(* the main loop calling it to its return.  The application's own          *)
(* callbacks run inside a handler; what they can do to app-core is         *)
(* AppCode.  create and terminate run outside the loop and are given       *)
(* states of their own (pc), during which no event is dispatched.          *)
(***************************************************************************)
EXTENDS Appcore

CONSTANTS
    Windows,             \* X windows the server may report events about
    EflOps,              \* &efl_ops
    OpsChoices,          \* the sets of non-NULL slots of struct appcore_ops
    CreateReturnValues,  \* what the create callback may return
    PauseReturnValues,   \* what the pause callback may return
    AllocMayFail         \* calloc of a win_node may return NULL

OpSlots == {"create", "reset", "pause", "resume", "terminate"}

ASSUME EflAssumption ==
    /\ EflOps \in UiOps
    /\ OpsChoices \subseteq SUBSET OpSlots
    /\ NULL \notin OpsChoices
    /\ CreateReturnValues \subseteq Int
    /\ PauseReturnValues \subseteq Int
    /\ AllocMayFail \in BOOLEAN

VARIABLES
    pc,         \* where appcore_efl_main is: not called, in create, in the
                \*   loop, in terminate
    ops,        \* priv.ops; __set_data and __unset_data set name and mfcb with it
    state,      \* priv.state
    mftimer,    \* priv.mftimer # NULL
    timers,     \* how many flush timers ecore holds
    handlers,   \* hshow, hhide and hvchange are installed
    cret,       \* what create returned, 0 when there is none
    quit,       \* elm_exit was called, the loop stops after this iteration
    resource_reclaiming,
    cached,     \* the toolkit's caches hold something (elm_cache_all_flush empties them)
    b_active,   \* static, survives appcore_efl_main
    winnode,    \* g_winnode_list: the window's node and its bfobscured
    sysman,     \* what the system manager was told last
    op,         \* history: the slot of appcore_ops reached last
    suspended   \* history: pause was reached, and no resume since

doVars  == <<state, mftimer, timers, sysman, op, suspended>>
appVars == <<quit, resource_reclaiming>>
mainVars == <<pc, ops, handlers, cret>>
winVars == <<b_active, winnode>>
vars == <<coreVars, doVars, appVars, cached, mainVars, winVars>>

AppStates == {"AS_NONE", "AS_CREATED", "AS_RUNNING", "AS_PAUSED", "AS_DYING"}

TypeOK ==
    /\ CoreTypeOK
    /\ pc \in {"idle", "create", "loop", "terminate"}
    /\ ops \in OpsChoices \cup {NULL}
    /\ state \in AppStates
    /\ mftimer \in BOOLEAN
    /\ timers \in Nat
    /\ handlers \in BOOLEAN
    /\ cret \in CreateReturnValues \cup {0}
    /\ quit \in BOOLEAN
    /\ resource_reclaiming \in BOOLEAN
    /\ cached \in BOOLEAN
    /\ b_active \in BOOLEAN
    /\ winnode \in [Windows -> {"absent", "visible", "obscured"}]
    /\ sysman \in {"foreground", "background"}
    /\ op \in OpSlots \cup {"none"}
    /\ suspended \in BOOLEAN

Init ==
    /\ CoreInit
    /\ pc = "idle"
    /\ ops = NULL
    /\ state = "AS_NONE"
    /\ mftimer = FALSE
    /\ timers = 0
    /\ handlers = FALSE
    /\ cret = 0
    /\ quit = FALSE
    /\ resource_reclaiming = TRUE
    /\ cached = FALSE
    /\ b_active = TRUE
    /\ winnode = [w \in Windows |-> "absent"]
    /\ sysman = "foreground"
    /\ op = "none"
    /\ suspended = FALSE
-----------------------------------------------------------------------------
DoAppMemFlushDropped ==   \* mutant: ui->mfcb is not called
    UNCHANGED cached

(***************************************************************************)
(* AE_MEM_FLUSH: ui->mfcb empties the toolkit's caches, and __do_app       *)
(* returns before it looks at the timer.                                   *)
(***************************************************************************)
DoAppMemFlush == cached' = FALSE

(***************************************************************************)
(* appcore_flush_memory, whoever calls it, reaches __do_app through        *)
(* core.ops; before appcore_init and after appcore_exit it does nothing.   *)
(***************************************************************************)
FlushMemory == IF core.state = 0 THEN UNCHANGED cached ELSE DoAppMemFlush

(***************************************************************************)
(* AE_LOWMEM_POST: a paused application is flushed at once, and __do_app   *)
(* returns before it looks at the timer, which goes on running.            *)
(***************************************************************************)
DoAppLowMemPost == IF state = "AS_PAUSED" THEN FlushMemory ELSE UNCHANGED cached

(***************************************************************************)
(* What the application may do to app-core from inside one of its          *)
(* callbacks: ask the loop to stop (elm_exit) and                          *)
(* appcore_set_system_resource_reclaiming.  Registering event callbacks,   *)
(* drawing and appcore_flush_memory are actions of their own below: no     *)
(* handler reads what they change after a callback.                        *)
(***************************************************************************)
AppCode == quit' \in {quit, TRUE} /\ resource_reclaiming' \in BOOLEAN

RunSlot(slot) == IF slot \in ops THEN AppCode ELSE UNCHANGED appVars

Live(timer) == IF timer THEN 1 ELSE 0

TimerDelUnchecked(add) ==   \* mutant: ecore_timer_del without looking at mftimer
    /\ mftimer' = add
    /\ timers' = timers - 1 + Live(add)

(***************************************************************************)
(* __appcore_timer_del, and what __appcore_timer_add makes of it when the  *)
(* same handler sets a timer after deleting the old one.                   *)
(***************************************************************************)
TimerDelThenAdd(add) == /\ mftimer' = add
                        /\ timers' = timers - Live(mftimer) + Live(add)

TimerDel == TimerDelThenAdd(FALSE)

DoAppTerminateKeepsLoop ==   \* mutant: no elm_exit
    /\ TimerDel
    /\ state' = "AS_DYING"
    /\ UNCHANGED <<quit, sysman, op, suspended, resource_reclaiming>>

(***************************************************************************)
(* __do_app, one operator per event.  ops # NULL stands for the early      *)
(* return on ui->ops == NULL; HandlersNeedOps shows it is never taken.     *)
(***************************************************************************)
DoAppTerminate ==
    /\ TimerDel
    /\ state' = "AS_DYING"
    /\ quit' = TRUE
    /\ UNCHANGED <<sysman, op, suspended, resource_reclaiming>>

DoAppResetKeepsTimer ==   \* mutant: the timer is only deleted on AE_RESUME
    /\ ops # NULL
    /\ RunSlot("reset")
    /\ state' = "AS_RUNNING"
    /\ op' = "reset"
    /\ UNCHANGED <<mftimer, timers, sysman, suspended>>

DoAppReset ==
    /\ ops # NULL
    /\ TimerDel
    /\ RunSlot("reset")
    /\ state' = "AS_RUNNING"
    /\ op' = "reset"
    /\ UNCHANGED <<sysman, suspended>>

DoAppPauseInformsLess ==   \* mutant: sysman_inform_backgrd inside the if
    /\ ops # NULL
    /\ \/ /\ state = "AS_RUNNING"
          /\ RunSlot("pause")
          /\ TimerDelThenAdd(FALSE)
          /\ state' = "AS_PAUSED" /\ op' = "pause" /\ suspended' = TRUE
          /\ sysman' = "background"
       \/ /\ state # "AS_RUNNING"
          /\ UNCHANGED <<doVars, appVars>>

(***************************************************************************)
(* r starts at -1 and stays so when there is no pause callback, so the     *)
(* timer is only set after a callback that returned r >= 0; the callback   *)
(* may have changed resource_reclaiming just before it is read.            *)
(***************************************************************************)
DoAppPause ==
    /\ ops # NULL
    /\ \/ /\ state = "AS_RUNNING"
          /\ RunSlot("pause")
          /\ \E r \in IF "pause" \in ops THEN PauseReturnValues ELSE {-1} :
                TimerDelThenAdd(r >= 0 /\ resource_reclaiming')
          /\ state' = "AS_PAUSED"
          /\ op' = "pause"
          /\ suspended' = TRUE
       \/ /\ state # "AS_RUNNING"
          /\ IF state = "AS_PAUSED" THEN UNCHANGED <<mftimer, timers>> ELSE TimerDel
          /\ UNCHANGED <<state, op, suspended, appVars>>
    /\ sysman' = "background"

DoAppResumeAlways ==   \* mutant: no test of AS_PAUSED
    /\ ops # NULL
    /\ TimerDel
    /\ RunSlot("resume")
    /\ state' = "AS_RUNNING" /\ op' = "resume" /\ suspended' = FALSE
    /\ sysman' = "foreground"

DoAppResumeKeepsState ==   \* mutant: ui->state is not set back
    /\ ops # NULL
    /\ TimerDel
    /\ RunSlot("resume")
    /\ sysman' = "foreground"
    /\ UNCHANGED <<state, op, suspended>>

DoAppResume ==
    /\ ops # NULL
    /\ TimerDel
    /\ \/ /\ state = "AS_PAUSED"
          /\ RunSlot("resume")
          /\ state' = "AS_RUNNING"
          /\ op' = "resume"
          /\ suspended' = FALSE
       \/ /\ state # "AS_PAUSED"
          /\ UNCHANGED <<state, op, suspended, appVars>>
    /\ sysman' = "foreground"
-----------------------------------------------------------------------------
(***************************************************************************)
(* appcore_efl_main up to the loop.  A second call while the first is      *)
(* running is turned away by __set_data with nothing changed.              *)
(***************************************************************************)
BeforeLoop ==
    /\ pc = "idle"
    /\ \E o \in OpsChoices : ops' = o
    /\ AppcoreInit(EflOps)
    /\ pc' = "create"
    /\ op' = "create"
    /\ suspended' = FALSE
    /\ UNCHANGED <<state, mftimer, timers, sysman, appVars, handlers, cret, winVars, cached>>

BeforeLoopFails ==
    /\ pc = "idle"
    /\ AppcoreInitFails
    /\ UNCHANGED <<doVars, appVars, mainVars, winVars, cached>>

CreateFailsWithoutExit(r) ==   \* mutant: aul_finalize instead of appcore_exit
    /\ pc = "create"
    /\ r = -1
    /\ aul' = FALSE /\ start' = FALSE
    /\ pc' = "idle"
    /\ ops' = NULL
    /\ UNCHANGED <<core, vconf, doVars, appVars, handlers, cret, winVars, cached>>

(***************************************************************************)
(* The create callback returns r.  Only -1 cancels the launch:             *)
(* appcore_exit, then __unset_data in appcore_efl_main.  After anything    *)
(* else (or without a callback) the handlers are installed and elm_run     *)
(* starts.                                                                 *)
(***************************************************************************)
CreateReturns(r) ==
    /\ pc = "create"
    /\ r \in IF "create" \in ops THEN CreateReturnValues ELSE {0}
    /\ RunSlot("create")
    /\ IF r = -1
       THEN /\ AppcoreExit
            /\ pc' = "idle"
            /\ ops' = NULL
            /\ UNCHANGED <<state, handlers, cret>>
       ELSE /\ pc' = "loop"
            /\ state' = "AS_CREATED"
            /\ handlers' = TRUE
            /\ cret' = r
            /\ UNCHANGED <<ops, coreVars>>
    /\ UNCHANGED <<mftimer, timers, sysman, op, suspended, winVars, cached>>

(***************************************************************************)
(* elm_run returns once elm_exit was called; __after_loop then calls       *)
(* appcore_exit before the terminate callback.  The call before that,      *)
(* appcore_unset_rotation_cb, is UnsetRotation of module Rotation: it      *)
(* shares no state with this one.                                          *)
(***************************************************************************)
LeaveLoop ==
    /\ pc = "loop"
    /\ quit
    /\ quit' = FALSE
    /\ AppcoreExit
    /\ pc' = "terminate"
    /\ op' = "terminate"
    /\ UNCHANGED <<state, mftimer, timers, sysman, suspended, ops, handlers,
                   cret, resource_reclaiming, cached, winVars>>

TerminateKeepsTimer ==   \* mutant: __after_loop without __appcore_timer_del
    /\ pc = "terminate"
    /\ RunSlot("terminate")
    /\ handlers' = FALSE
    /\ mftimer' = FALSE
    /\ pc' = "idle"
    /\ ops' = NULL
    /\ state' = "AS_NONE"
    /\ cret' = 0
    /\ UNCHANGED <<timers, sysman, op, suspended, coreVars, winVars, cached>>

(***************************************************************************)
(* The rest of __after_loop, and __unset_data.  g_winnode_list and         *)
(* b_active are not part of priv and stay as they are.                     *)
(***************************************************************************)
TerminateReturns ==
    /\ pc = "terminate"
    /\ RunSlot("terminate")
    /\ handlers' = FALSE
    /\ TimerDel
    /\ pc' = "idle"
    /\ ops' = NULL
    /\ state' = "AS_NONE"
    /\ cret' = 0
    /\ UNCHANGED <<sysman, op, suspended, coreVars, winVars, cached>>
-----------------------------------------------------------------------------
(***************************************************************************)
(* Events the loop dispatches.  After elm_exit the iteration in progress   *)
(* may still dispatch what is already queued, so quit is no guard.         *)
(***************************************************************************)
InLoop == pc = "loop"

(***************************************************************************)
(* __aul_handler.  __app_reset and __app_terminate do nothing unless       *)
(* core.ops is set; a start message may come again at any time (relaunch). *)
(***************************************************************************)
AulStart ==
    /\ core.ops # NULL
    /\ DoAppReset
    /\ UNCHANGED <<mainVars, winVars, cached>>

FirstStart == InLoop /\ TakeStartBundle /\ AulStart

Relaunch == InLoop /\ aul /\ AulStart /\ UNCHANGED coreVars

AulTerminate ==
    /\ InLoop
    /\ aul
    /\ core.ops # NULL
    /\ DoAppTerminate
    /\ UNCHANGED <<coreVars, mainVars, winVars, cached>>

LowMemoryPost(k) == IF k = "LOW_MEMORY" THEN DoAppLowMemPost ELSE UNCHANGED cached

(***************************************************************************)
(* A watched vconf key changes: pre, the application's callback, post.     *)
(***************************************************************************)
VconfChanged(k) ==
    /\ InLoop
    /\ k \in vconf
    /\ IF Delivered(k) THEN AppCode ELSE UNCHANGED appVars
    /\ LowMemoryPost(k)
    /\ UNCHANGED <<coreVars, doVars, mainVars, winVars>>

(***************************************************************************)
(* __appcore_memory_flush_cb: the five seconds are over.  It flushes,      *)
(* forgets the timer and returns ECORE_CALLBACK_CANCEL, so ecore drops it. *)
(***************************************************************************)
TimerFires ==
    /\ InLoop
    /\ timers > 0
    /\ timers' = timers - 1
    /\ mftimer' = FALSE
    /\ FlushMemory
    /\ UNCHANGED <<coreVars, state, sysman, op, suspended, appVars, mainVars, winVars>>
-----------------------------------------------------------------------------
CheckVisible(nodes) == \E w \in Windows : nodes[w] = "visible"

ExistWin(w) == winnode[w] # "absent"

StoreNodeShown(w, obscured) ==   \* mutant: __update_win drops bfobscured
    winnode' = [winnode EXCEPT ![w] = "visible"]

(***************************************************************************)
(* __add_win and __update_win allocate a node, the latter after freeing    *)
(* the old one: when calloc fails the window is no longer in the list.     *)
(***************************************************************************)
StoreNode(w, obscured) ==
    \/ winnode' = [winnode EXCEPT ![w] = IF obscured THEN "obscured" ELSE "visible"]
    \/ AllocMayFail /\ winnode' = [winnode EXCEPT ![w] = "absent"]

Backgrounded == /\ ~CheckVisible(winnode') /\ b_active
                /\ b_active' = FALSE
                /\ DoAppPause

ForegroundedSilently ==   \* mutant: __do_app(AE_RESUME) left out
    /\ CheckVisible(winnode') /\ ~b_active
    /\ b_active' = TRUE
    /\ UNCHANGED <<doVars, appVars>>

Foregrounded == /\ CheckVisible(winnode') /\ ~b_active
                /\ b_active' = TRUE
                /\ DoAppResume

(***************************************************************************)
(* __show_cb for a window with a border parent; other windows are skipped. *)
(* It never resumes the application, that is left to the visibility event. *)
(***************************************************************************)
ShowCb(w) ==
    /\ InLoop /\ handlers
    /\ StoreNode(w, FALSE)
    /\ UNCHANGED <<b_active, coreVars, doVars, appVars, mainVars, cached>>

HideCbUnchecked(w) ==   \* mutant: no __check_visible after __delete_win
    /\ InLoop /\ handlers
    /\ ExistWin(w)
    /\ winnode' = [winnode EXCEPT ![w] = "absent"]
    /\ UNCHANGED <<b_active, doVars, appVars, coreVars, mainVars, cached>>

HideCbWithoutDelete(w) ==   \* mutant: the node is kept
    /\ InLoop /\ handlers
    /\ ExistWin(w)
    /\ UNCHANGED vars

HideCb(w) ==
    /\ InLoop /\ handlers
    /\ ExistWin(w)
    /\ winnode' = [winnode EXCEPT ![w] = "absent"]
    /\ \/ Backgrounded
       \/ /\ CheckVisible(winnode') \/ ~b_active
          /\ UNCHANGED <<b_active, doVars, appVars>>
    /\ UNCHANGED <<coreVars, mainVars, cached>>

(***************************************************************************)
(* __visibility_cb: __update_win ignores windows it has no node for (child *)
(* windows report too), but the check that follows runs all the same.      *)
(***************************************************************************)
VisibilityCb(w, obscured) ==
    /\ InLoop /\ handlers
    /\ IF ExistWin(w) THEN StoreNode(w, obscured) ELSE UNCHANGED winnode
    /\ \/ Backgrounded
       \/ Foregrounded
       \/ CheckVisible(winnode') = b_active /\ UNCHANGED <<b_active, doVars, appVars>>
    /\ UNCHANGED <<coreVars, mainVars, cached>>
-----------------------------------------------------------------------------
(***************************************************************************)
(* The application between callbacks.  Outside the loop it has no loop to  *)
(* stop.  What it draws fills the toolkit's caches.                        *)
(***************************************************************************)
AppEvent ==
    /\ AppCode
    /\ ~InLoop => quit' = quit
    /\ UNCHANGED <<coreVars, doVars, cached, mainVars, winVars>>

CachesChange ==
    /\ cached' = TRUE \/ FlushMemory
    /\ UNCHANGED <<coreVars, doVars, appVars, mainVars, winVars>>

SetCallback ==
    /\ \E e \in SysEvents, cb \in Cbs \cup {NULL} : SetEventCallback(e, cb)
    /\ UNCHANGED <<doVars, appVars, cached, mainVars, winVars>>

Main == \/ BeforeLoop
        \/ BeforeLoopFails
        \/ \E r \in CreateReturnValues \cup {0} : CreateReturns(r)
        \/ LeaveLoop
        \/ TerminateReturns

WindowEvent == \E w \in Windows : \/ ShowCb(w)
                                  \/ HideCb(w)
                                  \/ \E obscured \in BOOLEAN : VisibilityCb(w, obscured)

Dispatch == \/ FirstStart
            \/ Relaunch
            \/ AulTerminate
            \/ \E k \in VconfKeys : VconfChanged(k)
            \/ TimerFires

Next == Main \/ Dispatch \/ WindowEvent \/ AppEvent \/ CachesChange \/ SetCallback

Spec == Init /\ [][Next]_vars

(***************************************************************************)
(* The loop ends an iteration in which it was asked to stop, runs its      *)
(* idlers and its expired timers; the application's create and terminate   *)
(* callbacks return.  Nobody is obliged to launch, show or hide anything.  *)
(***************************************************************************)
Fairness ==
    /\ WF_vars(\E r \in CreateReturnValues \cup {0} : CreateReturns(r))
    /\ WF_vars(LeaveLoop)
    /\ WF_vars(TerminateReturns)
    /\ WF_vars(FirstStart)
    /\ WF_vars(TimerFires)

FairSpec == Spec /\ Fairness
-----------------------------------------------------------------------------
(***************************************************************************)
(* priv.mftimer and the timers of ecore agree (a timer that fires without  *)
(* being in priv would clear a newer one), and a flush timer only runs     *)
(* while the application is paused: __do_app deletes it on the way out of  *)
(* AS_PAUSED, whichever event that is.                                     *)
(***************************************************************************)
TimerDiscipline == /\ timers = Live(mftimer)
                   /\ mftimer => state = "AS_PAUSED"

(***************************************************************************)
(* Once appcore_efl_main has returned, on any path, nothing of it can call *)
(* back into the cleared priv: no timer, no X handler, no watched key, no  *)
(* toolkit in core, and the state machine is back at its start.            *)
(***************************************************************************)
CleanExit == pc = "idle" => /\ timers = 0
                            /\ ~handlers
                            /\ core.state = 0 /\ vconf = {}
                            /\ state = "AS_NONE" /\ ops = NULL

(***************************************************************************)
(* Whenever an event can reach __do_app, from X, AUL, a timer or the core, *)
(* priv.ops is set: the early return on ui->ops == NULL, which would drop  *)
(* a RESET or a PAUSE, is never taken, and ui->mfcb() is safe to call.     *)
(***************************************************************************)
HandlersNeedOps ==
    (handlers \/ timers > 0 \/ vconf # {} \/ core.ops # NULL) => ops # NULL

(***************************************************************************)
(* b_active decides whether a visibility event is passed on; it must never *)
(* say "active" for a paused application, or the RESUME would not come.    *)
(* The system manager is told of every change of it, in both directions.   *)
(***************************************************************************)
ActiveConsistent == /\ state = "AS_PAUSED" => ~b_active /\ suspended
                    /\ b_active <=> sysman = "foreground"

(***************************************************************************)
(* Every sequence of events drives the callbacks through the life cycle of *)
(* the programming guide: no PAUSE before the first RESET, no RESUME       *)
(* without its PAUSE, nothing after TERMINATE but a new CREATE.            *)
(***************************************************************************)
Life == INSTANCE AppLifecycle WITH op <- op

FollowsLifecycle == Life!Spec

(***************************************************************************)
(* Nothing the loop owes is forgotten, whatever is dispatched in between:  *)
(* a request to stop lasts until elm_run has returned, be the application  *)
(* relaunched, paused or resumed meanwhile, and AS_DYING never comes       *)
(* without one; until the first RESET, AUL still holds the start bundle.   *)
(***************************************************************************)
RequestsKept ==
    [][pc' = "loop" => /\ state' = "AS_DYING" \/ (InLoop /\ quit) => quit'
                       /\ state' = "AS_CREATED" => aul' /\ start']_vars

(***************************************************************************)
(* A terminate request is honoured: whatever is dispatched in the same     *)
(* iteration (a relaunch even sets the state back to AS_RUNNING), the loop *)
(* ends, terminate is called and appcore_efl_main returns.                 *)
(***************************************************************************)
TerminateHonoured == state = "AS_DYING" ~> pc = "idle"

(***************************************************************************)
(* A created application gets its first RESET, or is on its way out.       *)
(***************************************************************************)
GetsFirstReset == state = "AS_CREATED" ~> (op = "reset" \/ op = "terminate")

(***************************************************************************)
(* When the timer has been set, the memory of the application is flushed,  *)
(* unless it leaves the background or has reclaiming switched off first:   *)
(* memory running low, a change of the settings or another PAUSE meanwhile *)
(* does not get in the way.  Whether the flush is due once reclaiming is   *)
(* off is left open: appcore_set_system_resource_reclaiming does not touch *)
(* the timer that is already set.                                          *)
(***************************************************************************)
FlushHappens ==
    mftimer /\ resource_reclaiming
        ~> \/ ~cached
           \/ state # "AS_PAUSED"
           \/ ~resource_reclaiming
=============================================================================
