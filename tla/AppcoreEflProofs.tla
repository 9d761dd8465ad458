-------------------------- MODULE AppcoreEflProofs --------------------------
(***************************************************************************)
(* Theorems about AppcoreEfl for every set of windows, every choice of     *)
(* callbacks and return values, and every failure of vconf and calloc.     *)
(***************************************************************************)
EXTENDS AppcoreEfl, AppcoreProofs

-----------------------------------------------------------------------------
(***************************************************************************)
(* The inductive invariant.  MainInv says what is set up at each point of  *)
(* appcore_efl_main; OpInv relates priv.state to the callback reached      *)
(* last, which is what makes every step a step of the life cycle.          *)
(***************************************************************************)
MainInv ==
    /\ pc = "idle" => ops = NULL /\ ~handlers /\ core.state = 0 /\ state = "AS_NONE"
    /\ pc = "create" => ops # NULL /\ ~handlers /\ core.state = 1 /\ state = "AS_NONE"
    /\ pc = "loop" => ops # NULL /\ handlers /\ core.state = 1 /\ state # "AS_NONE"
    /\ pc = "terminate" => ops # NULL /\ core.state = 0

OpInv ==
    /\ pc = "idle" => op \in {"none", "create", "terminate"}
    /\ pc = "create" => op = "create"
    /\ pc = "terminate" => op = "terminate"
    /\ pc = "loop" => /\ op \in {"create", "reset", "pause", "resume"}
                      /\ state = "AS_RUNNING" => op \in {"reset", "resume"}
                      /\ state = "AS_PAUSED" => op = "pause"

(***************************************************************************)
(* What the loop still owes the application: a dying one is on its way     *)
(* out, and one without its first RESET has its start bundle waiting.      *)
(***************************************************************************)
OwedInv ==
    /\ pc = "create" => aul /\ start
    /\ pc = "loop" => /\ state = "AS_DYING" => quit
                      /\ state = "AS_CREATED" => aul /\ start

(***************************************************************************)
(* An application that runs in the background was started there: hiding a  *)
(* running one pauses it, and only becoming visible resumes it.            *)
(***************************************************************************)
BackgroundInv == pc = "loop" /\ ~b_active /\ state = "AS_RUNNING" => op = "reset"

IInv == /\ TypeOK
        /\ CoreInv
        /\ TimerDiscipline
        /\ MainInv
        /\ ActiveConsistent
        /\ OpInv
        /\ OwedInv
        /\ BackgroundInv
-----------------------------------------------------------------------------
(***************************************************************************)
(* appcore_efl_main and the handlers touch the state of appcore.c only     *)
(* through its operations.                                                 *)
(***************************************************************************)
LEMMA CoreSteps == [Next]_vars => [CoreNext]_coreVars
<1> SUFFICES ASSUME [Next]_vars PROVE [CoreNext]_coreVars
    OBVIOUS
<1>1. CASE Main
      BY <1>1, EflAssumption DEF Main, BeforeLoop, BeforeLoopFails, CreateReturns,
                                 LeaveLoop, TerminateReturns, CoreNext
<1>2. CASE Dispatch
      BY <1>2 DEF Dispatch, FirstStart, Relaunch, AulTerminate, VconfChanged, TimerFires,
                  CoreNext
<1>3. CASE WindowEvent
      BY <1>3 DEF WindowEvent, ShowCb, HideCb, VisibilityCb
<1>4. CASE AppEvent \/ CachesChange \/ SetCallback
      BY <1>4 DEF AppEvent, CachesChange, SetCallback, CoreNext
<1>5. CASE UNCHANGED vars
      BY <1>5 DEF vars
<1> QED BY <1>1, <1>2, <1>3, <1>4, <1>5 DEF Next

(***************************************************************************)
(* Deleting the timer, and setting another, leaves ecore with exactly the  *)
(* timer priv.mftimer says.                                                *)
(***************************************************************************)
LEMMA TimerPiece ==
  ASSUME TypeOK, TimerDiscipline, NEW add \in BOOLEAN, TimerDelThenAdd(add)
  PROVE  mftimer' = add /\ timers' = Live(add) /\ timers' \in Nat
BY DEF TypeOK, TimerDiscipline, TimerDelThenAdd, Live

(***************************************************************************)
(* Whatever the event, __do_app keeps the timers in step with priv.mftimer *)
(* and leaves none outside AS_PAUSED.                                      *)
(***************************************************************************)
LEMMA DoAppTimer ==
  ASSUME TypeOK, TimerDiscipline,
         DoAppTerminate \/ DoAppReset \/ DoAppPause \/ DoAppResume
  PROVE  TimerDiscipline' /\ mftimer' \in BOOLEAN /\ timers' \in Nat
<1>1. CASE DoAppTerminate
      BY <1>1, TimerPiece DEF DoAppTerminate, TimerDel, TimerDiscipline
<1>2. CASE DoAppReset
      BY <1>2, TimerPiece DEF DoAppReset, TimerDel, TimerDiscipline
<1>3. CASE DoAppPause
  <2>1. ASSUME NEW r \in (IF "pause" \in ops THEN PauseReturnValues ELSE {-1}),
               TimerDelThenAdd(r >= 0 /\ resource_reclaiming'), state' = "AS_PAUSED",
               resource_reclaiming' \in BOOLEAN
        PROVE  TimerDiscipline' /\ mftimer' \in BOOLEAN /\ timers' \in Nat
        BY <2>1, TimerPiece DEF TimerDiscipline
  <2> QED BY <1>3, <2>1, TimerPiece DEF DoAppPause, TimerDel, TimerDiscipline, RunSlot, AppCode,
                TypeOK
<1>4. CASE DoAppResume
      BY <1>4, TimerPiece DEF DoAppResume, TimerDel, TimerDiscipline
<1> QED BY <1>1, <1>2, <1>3, <1>4

(***************************************************************************)
(* The rest of what __do_app writes keeps its type.                        *)
(***************************************************************************)
LEMMA DoAppTypes ==
  ASSUME TypeOK, DoAppTerminate \/ DoAppReset \/ DoAppPause \/ DoAppResume
  PROVE  /\ state' \in AppStates
         /\ sysman' \in {"foreground", "background"}
         /\ op' \in OpSlots \cup {"none"}
         /\ quit' \in BOOLEAN
         /\ resource_reclaiming' \in BOOLEAN
         /\ suspended' \in BOOLEAN
<1>1. quit' \in BOOLEAN /\ resource_reclaiming' \in BOOLEAN
      BY DEF DoAppTerminate, DoAppReset, DoAppPause, DoAppResume, RunSlot, AppCode, appVars,
             TypeOK
<1>2. state' \in AppStates
      BY DEF DoAppTerminate, DoAppReset, DoAppPause, DoAppResume, TypeOK, AppStates
<1>3. sysman' \in {"foreground", "background"} /\ op' \in OpSlots \cup {"none"}
      BY DEF DoAppTerminate, DoAppReset, DoAppPause, DoAppResume, TypeOK, OpSlots
<1>4. suspended' \in BOOLEAN
      BY DEF DoAppTerminate, DoAppReset, DoAppPause, DoAppResume, TypeOK
<1> QED BY <1>1, <1>2, <1>3, <1>4

(***************************************************************************)
(* A window event either stays within the window list or goes through      *)
(* __do_app, with b_active switched.                                       *)
(***************************************************************************)
LEMMA WindowEventCases ==
  ASSUME TypeOK, WindowEvent
  PROVE  /\ InLoop /\ handlers
         /\ winnode' \in [Windows -> {"absent", "visible", "obscured"}]
         /\ UNCHANGED <<coreVars, mainVars>>
         /\ \/ UNCHANGED <<b_active, doVars, appVars>>
            \/ b_active /\ ~b_active' /\ DoAppPause
            \/ ~b_active /\ b_active' /\ DoAppResume
<1> DEFINE Nodes == [Windows -> {"absent", "visible", "obscured"}]
<1>1. ASSUME NEW w \in Windows, NEW obscured \in BOOLEAN, StoreNode(w, obscured)
      PROVE  winnode' \in Nodes
      BY <1>1 DEF StoreNode, TypeOK
<1>2. ASSUME NEW w \in Windows, ShowCb(w)
      PROVE  winnode' \in Nodes /\ UNCHANGED <<b_active, doVars, appVars>>
      BY <1>1, <1>2 DEF ShowCb
<1>3. ASSUME NEW w \in Windows, HideCb(w)
      PROVE  winnode' \in Nodes
      BY <1>3 DEF HideCb, TypeOK
<1>4. ASSUME NEW w \in Windows, NEW obscured \in BOOLEAN, VisibilityCb(w, obscured)
      PROVE  winnode' \in Nodes
      BY <1>1, <1>4 DEF VisibilityCb, TypeOK
<1>5. winnode' \in Nodes
      BY <1>2, <1>3, <1>4 DEF WindowEvent
<1>6. InLoop /\ handlers /\ UNCHANGED <<coreVars, mainVars>>
      BY DEF WindowEvent, ShowCb, HideCb, VisibilityCb
<1>7. \/ UNCHANGED <<b_active, doVars, appVars>>
      \/ b_active /\ ~b_active' /\ DoAppPause
      \/ ~b_active /\ b_active' /\ DoAppResume
      BY <1>2 DEF WindowEvent, HideCb, VisibilityCb, Backgrounded, Foregrounded
<1> QED BY <1>5, <1>6, <1>7

(***************************************************************************)
(* Flushing or filling the toolkit's caches is all that happens to them.   *)
(***************************************************************************)
LEMMA CachedTyped == ASSUME TypeOK, [Next]_vars PROVE cached' \in BOOLEAN
<1>0. cached \in BOOLEAN
      BY DEF TypeOK
<1>1. CASE UNCHANGED cached
      BY <1>0, <1>1
<1>2. CASE cached' = TRUE \/ FlushMemory
      BY <1>0, <1>2, Zenon DEF FlushMemory, DoAppMemFlush
<1>3. CASE Main
      BY <1>1, <1>3 DEF Main, BeforeLoop, BeforeLoopFails, CreateReturns, LeaveLoop,
                        TerminateReturns
<1>4. CASE Dispatch
      BY <1>1, <1>2, <1>4 DEF Dispatch, FirstStart, Relaunch, AulStart, AulTerminate,
                              VconfChanged, LowMemoryPost, DoAppLowMemPost, TimerFires
<1>5. CASE WindowEvent
      BY <1>1, <1>5 DEF WindowEvent, ShowCb, HideCb, VisibilityCb
<1>6. CASE AppEvent \/ CachesChange \/ SetCallback \/ UNCHANGED vars
      BY <1>1, <1>2, <1>6 DEF AppEvent, CachesChange, SetCallback, vars
<1> QED BY <1>3, <1>4, <1>5, <1>6 DEF Next

(***************************************************************************)
(* Types and timers, together: the number of timers only stays a natural   *)
(* number because a timer is deleted only when there is one.               *)
(***************************************************************************)
LEMMA TypeAndTimerStep ==
  ASSUME IInv, [Next]_vars
  PROVE  TypeOK' /\ TimerDiscipline'
<1> USE DEF IInv
<1>1. CoreInv' /\ cached' \in BOOLEAN
      BY CoreSteps, CoreStepInv, CachedTyped
<1>2. CASE BeforeLoop
      BY <1>1, <1>2 DEF BeforeLoop, TypeOK, CoreInv, TimerDiscipline, OpSlots,
                        appVars, winVars
<1>3. CASE BeforeLoopFails
      BY <1>1, <1>3 DEF BeforeLoopFails, TypeOK, CoreInv, TimerDiscipline, doVars,
                        appVars, mainVars, winVars
<1>4. ASSUME NEW r \in CreateReturnValues \cup {0}, CreateReturns(r)
      PROVE  TypeOK' /\ TimerDiscipline'
  <2>1. ~mftimer
        BY <1>4 DEF CreateReturns, MainInv, TimerDiscipline
  <2> QED BY <1>1, <1>4, <2>1 DEF CreateReturns, RunSlot, AppCode, appVars, winVars,
             TypeOK, CoreInv, TimerDiscipline, AppStates
<1>5. CASE LeaveLoop
      BY <1>1, <1>5 DEF LeaveLoop, TypeOK, CoreInv, TimerDiscipline, OpSlots, winVars
<1>6. CASE TerminateReturns
  <2>1. mftimer' = FALSE /\ timers' = Live(FALSE) /\ timers' \in Nat
        BY <1>6, TimerPiece DEF TerminateReturns, TimerDel
  <2> QED BY <1>1, <1>6, <2>1 DEF TerminateReturns, RunSlot, AppCode, appVars, winVars,
             TypeOK, CoreInv, TimerDiscipline, AppStates
<1>7. CASE FirstStart \/ Relaunch \/ AulTerminate
  <2>1. DoAppReset \/ DoAppTerminate
        BY <1>7 DEF FirstStart, Relaunch, AulStart, AulTerminate
  <2>2. UNCHANGED <<mainVars, winVars>>
        BY <1>7 DEF FirstStart, Relaunch, AulStart, AulTerminate
  <2> QED BY <1>1, <2>1, <2>2, DoAppTimer, DoAppTypes DEF TypeOK, CoreInv, mainVars, winVars
<1>8. ASSUME NEW k \in VconfKeys, VconfChanged(k)
      PROVE  TypeOK' /\ TimerDiscipline'
      BY <1>1, <1>8 DEF VconfChanged, AppCode, appVars, doVars, mainVars, winVars, TypeOK, CoreInv,
                        TimerDiscipline
<1>9. CASE TimerFires
  <2>1. mftimer /\ timers' = 0
        BY <1>9 DEF TimerFires, TimerDiscipline, TypeOK, Live
  <2>2. TimerDiscipline'
        BY <1>9, <2>1 DEF TimerFires, TimerDiscipline, Live
  <2>3. UNCHANGED <<state, sysman, op, suspended, appVars, mainVars, winVars>>
        /\ mftimer' = FALSE
        BY <1>9 DEF TimerFires
  <2> QED BY <1>1, <2>1, <2>2, <2>3 DEF appVars, mainVars, winVars, TypeOK, CoreInv
<1>10. CASE WindowEvent
  <2>1. UNCHANGED mainVars
        /\ winnode' \in [Windows -> {"absent", "visible", "obscured"}]
        BY <1>10, WindowEventCases
  <2>2. b_active' \in BOOLEAN
        BY <1>10, WindowEventCases DEF TypeOK, WindowEvent, ShowCb, HideCb, VisibilityCb,
                                       Backgrounded, Foregrounded
  <2>3. CASE UNCHANGED <<b_active, doVars, appVars>>
        BY <1>1, <2>1, <2>3 DEF TypeOK, CoreInv, TimerDiscipline, doVars, appVars, mainVars
  <2>4. CASE DoAppPause \/ DoAppResume
        BY <1>1, <2>1, <2>2, <2>4, DoAppTimer, DoAppTypes DEF TypeOK, CoreInv, mainVars
  <2> QED BY <1>10, <2>3, <2>4, WindowEventCases
<1>11. CASE AppEvent \/ CachesChange \/ SetCallback
  <2>1. quit' \in BOOLEAN /\ resource_reclaiming' \in BOOLEAN
        BY <1>11 DEF AppEvent, CachesChange, SetCallback, AppCode, appVars, TypeOK
  <2>2. UNCHANGED <<doVars, mainVars, winVars>>
        BY <1>11 DEF AppEvent, CachesChange, SetCallback
  <2> QED BY <1>1, <2>1, <2>2 DEF doVars, mainVars, winVars, TypeOK, CoreInv, TimerDiscipline
<1>12. CASE UNCHANGED vars
       BY <1>1, <1>12 DEF vars, doVars, appVars, mainVars, winVars, TypeOK, CoreInv,
                          TimerDiscipline
<1> QED BY <1>2, <1>3, <1>4, <1>5, <1>6, <1>7, <1>8, <1>9, <1>10, <1>11, <1>12
        DEF Next, Main, Dispatch
-----------------------------------------------------------------------------
(***************************************************************************)
(* What an event dispatched by the loop does to the life cycle: nothing,   *)
(* or exactly one call of __do_app.                                        *)
(***************************************************************************)
LEMMA LoopSteps ==
  ASSUME TypeOK, Dispatch \/ WindowEvent
  PROVE  /\ pc = "loop"
         /\ UNCHANGED <<mainVars, core>>
         /\ \/ UNCHANGED <<state, sysman, op, suspended, b_active>>
            \/ UNCHANGED b_active /\ DoAppReset
            \/ UNCHANGED b_active /\ DoAppTerminate
            \/ b_active /\ ~b_active' /\ DoAppPause
            \/ ~b_active /\ b_active' /\ DoAppResume
<1>1. CASE FirstStart \/ Relaunch
      BY <1>1 DEF FirstStart, Relaunch, InLoop, AulStart, TakeStartBundle, mainVars,
                  coreVars, winVars
<1>2. CASE AulTerminate
      BY <1>2 DEF AulTerminate, InLoop, mainVars, coreVars, winVars
<1>3. CASE TimerFires
      BY <1>3 DEF TimerFires, InLoop, mainVars, coreVars, winVars
<1>4. ASSUME NEW k \in VconfKeys, VconfChanged(k)
      PROVE  pc = "loop" /\ UNCHANGED <<mainVars, core>>
             /\ UNCHANGED <<state, sysman, op, suspended, b_active>>
      BY <1>4 DEF VconfChanged, InLoop, mainVars, coreVars, winVars, doVars
<1>5. CASE WindowEvent
      BY <1>5, WindowEventCases DEF InLoop, mainVars, coreVars, doVars
<1> QED BY <1>1, <1>2, <1>3, <1>4, <1>5 DEF Dispatch

(***************************************************************************)
(* Events that come from the application leave the life cycle alone.       *)
(***************************************************************************)
LEMMA AppSteps ==
  ASSUME AppEvent \/ CachesChange \/ SetCallback \/ UNCHANGED vars
  PROVE  /\ UNCHANGED <<pc, ops, handlers, state, sysman, op, suspended, b_active>>
         /\ core.state \in {0, 1} /\ CoreTypeOK => core.state' = core.state
BY DEF AppEvent, CachesChange, SetCallback, SetEventCallback, CoreTypeOK, vars, mainVars, doVars, winVars,
       coreVars

(***************************************************************************)
(* What is set up, at each point of appcore_efl_main.                      *)
(***************************************************************************)
LEMMA MainStep == ASSUME IInv, [Next]_vars PROVE MainInv'
<1> USE DEF IInv, MainInv
<1>1. CASE BeforeLoop
      BY <1>1, EflAssumption DEF BeforeLoop, AppcoreInit, AddVconf, TypeOK, CoreTypeOK
<1>2. CASE BeforeLoopFails
  <2>1. core.state' = 0
        BY <1>2, ClearedCore DEF BeforeLoopFails, AppcoreInitFails, I18nFails, coreVars,
                 AulLaunchInitFails, ArgvHandlerFails, InitError, DelVconf
  <2> QED BY <1>2, <2>1 DEF BeforeLoopFails, mainVars, doVars
<1>3. ASSUME NEW r \in CreateReturnValues \cup {0}, CreateReturns(r) PROVE MainInv'
  <2>1. CASE r = -1
        BY <1>3, <2>1, ClearedCore DEF CreateReturns, AppcoreExit, DelVconf
  <2>2. CASE r # -1
        BY <1>3, <2>2 DEF CreateReturns, coreVars
  <2> QED BY <2>1, <2>2
<1>4. CASE LeaveLoop
      BY <1>4, ClearedCore DEF LeaveLoop, AppcoreExit, DelVconf
<1>5. CASE TerminateReturns
      BY <1>5 DEF TerminateReturns, coreVars
<1>6. CASE Dispatch \/ WindowEvent
  <2>1. state' # "AS_NONE"
        BY <1>6, LoopSteps DEF DoAppReset, DoAppTerminate, DoAppPause, DoAppResume
  <2> QED BY <1>6, <2>1, LoopSteps DEF mainVars
<1>7. CASE AppEvent \/ CachesChange \/ SetCallback \/ UNCHANGED vars
      BY <1>7, AppSteps DEF TypeOK, CoreTypeOK
<1> QED BY <1>1, <1>2, <1>3, <1>4, <1>5, <1>6, <1>7 DEF Next, Main

(***************************************************************************)
(* b_active, the paused state and what the system manager was told.        *)
(***************************************************************************)
LEMMA ActiveStep == ASSUME IInv, [Next]_vars PROVE ActiveConsistent'
<1> USE DEF IInv, ActiveConsistent
<1>1. CASE BeforeLoop
      BY <1>1 DEF BeforeLoop, MainInv, winVars
<1>2. CASE BeforeLoopFails
      BY <1>2 DEF BeforeLoopFails, doVars, winVars
<1>3. ASSUME NEW r \in CreateReturnValues \cup {0}, CreateReturns(r)
      PROVE  ActiveConsistent'
  <2>1. state' # "AS_PAUSED"
        BY <1>3 DEF CreateReturns, MainInv
  <2> QED BY <1>3, <2>1 DEF CreateReturns, winVars
<1>4. CASE LeaveLoop \/ TerminateReturns
      BY <1>4 DEF LeaveLoop, TerminateReturns, winVars
<1>5. CASE Dispatch \/ WindowEvent
  <2>1. CASE UNCHANGED b_active /\ (DoAppReset \/ DoAppTerminate)
        BY <2>1 DEF DoAppReset, DoAppTerminate
  <2>2. CASE b_active /\ ~b_active' /\ DoAppPause
        BY <2>2 DEF DoAppPause
  <2>3. CASE ~b_active /\ b_active' /\ DoAppResume
        BY <2>3 DEF DoAppResume
  <2> QED BY <1>5, <2>1, <2>2, <2>3, LoopSteps
<1>6. CASE AppEvent \/ CachesChange \/ SetCallback \/ UNCHANGED vars
      BY <1>6, AppSteps
<1> QED BY <1>1, <1>2, <1>3, <1>4, <1>5, <1>6 DEF Next, Main

(***************************************************************************)
(* No event leaves a running application unseen without pausing it, and no *)
(* RESUME reaches one that stays unseen.                                   *)
(***************************************************************************)
LEMMA BackgroundStep == ASSUME IInv, [Next]_vars PROVE BackgroundInv'
<1> USE DEF IInv, BackgroundInv
<1>1. CASE BeforeLoop \/ LeaveLoop \/ TerminateReturns
      BY <1>1 DEF BeforeLoop, LeaveLoop, TerminateReturns
<1>2. CASE BeforeLoopFails
      BY <1>2 DEF BeforeLoopFails, doVars, mainVars, winVars
<1>3. ASSUME NEW r \in CreateReturnValues \cup {0}, CreateReturns(r)
      PROVE  BackgroundInv'
      BY <1>3 DEF CreateReturns
<1>4. CASE Dispatch \/ WindowEvent
  <2>1. CASE UNCHANGED b_active /\ (DoAppReset \/ DoAppTerminate)
        BY <2>1 DEF DoAppReset, DoAppTerminate
  <2>2. CASE b_active /\ ~b_active' /\ DoAppPause
        BY <2>2 DEF DoAppPause
  <2>3. CASE ~b_active /\ b_active'
        BY <2>3
  <2>4. CASE UNCHANGED <<state, sysman, op, suspended, b_active>>
        BY <1>4, <2>4, LoopSteps
  <2> QED BY <1>4, <2>1, <2>2, <2>3, <2>4, LoopSteps
<1>5. CASE AppEvent \/ CachesChange \/ SetCallback \/ UNCHANGED vars
      BY <1>5, AppSteps
<1> QED BY <1>1, <1>2, <1>3, <1>4, <1>5 DEF Next, Main

(***************************************************************************)
(* Every step is a step of the life cycle, and the relation between state  *)
(* and op that makes it one is kept.                                       *)
(***************************************************************************)
LEMMA LifeStep ==
  ASSUME IInv, [Next]_vars
  PROVE  OpInv' /\ [Life!Next]_op
<1> USE DEF IInv, MainInv, OpInv, Life!Next, Life!Create, Life!Reset, Life!Pause,
            Life!Resume, Life!Terminate
<1>1. CASE BeforeLoop
      BY <1>1 DEF BeforeLoop
<1>2. CASE BeforeLoopFails
      BY <1>2 DEF BeforeLoopFails, mainVars, doVars
<1>3. ASSUME NEW r \in CreateReturnValues \cup {0}, CreateReturns(r)
      PROVE  OpInv' /\ [Life!Next]_op
      BY <1>3 DEF CreateReturns
<1>4. CASE LeaveLoop \/ TerminateReturns
      BY <1>4 DEF LeaveLoop, TerminateReturns
<1>5. CASE Dispatch \/ WindowEvent
      BY <1>5, LoopSteps DEF DoAppReset, DoAppTerminate, DoAppPause, DoAppResume, mainVars
<1>6. CASE AppEvent \/ CachesChange \/ SetCallback \/ UNCHANGED vars
      BY <1>6, AppSteps
<1> QED BY <1>1, <1>2, <1>3, <1>4, <1>5, <1>6 DEF Next, Main

(***************************************************************************)
(* __do_app: a callback may ask the loop to stop, none can take it back,   *)
(* AS_DYING comes with the request, and AS_CREATED ends for good.          *)
(***************************************************************************)
LEMMA DoAppOwed ==
  ASSUME TypeOK, DoAppTerminate \/ DoAppReset \/ DoAppPause \/ DoAppResume
  PROVE  /\ quit => quit'
         /\ state' = "AS_DYING" => quit' \/ state = "AS_DYING"
         /\ state' = "AS_CREATED" => /\ state = "AS_CREATED"
                                     /\ DoAppPause \/ DoAppResume
BY DEF DoAppTerminate, DoAppReset, DoAppPause, DoAppResume, RunSlot, AppCode, appVars, TypeOK

(***************************************************************************)
(* Every event the loop dispatches keeps what is owed: only the bundle's   *)
(* own RESET takes the bundle.                                             *)
(***************************************************************************)
LEMMA LoopOwed ==
  ASSUME IInv, Dispatch \/ WindowEvent
  PROVE  /\ quit => quit'
         /\ state' = "AS_DYING" => quit'
         /\ state' = "AS_CREATED" => aul' /\ start'
<1> USE DEF IInv
<1>1. pc = "loop"
      BY LoopSteps
<1>2. (state = "AS_DYING" => quit) /\ (state = "AS_CREATED" => aul /\ start)
      BY <1>1 DEF OwedInv
<1>3. CASE FirstStart \/ Relaunch
      BY <1>2, <1>3 DEF FirstStart, Relaunch, AulStart, DoAppReset, RunSlot, AppCode, appVars,
                        TypeOK
<1>4. CASE AulTerminate
      BY <1>4 DEF AulTerminate, DoAppTerminate
<1>5. CASE TimerFires
      BY <1>2, <1>5 DEF TimerFires, coreVars, appVars
<1>6. ASSUME NEW k \in VconfKeys, VconfChanged(k)
      PROVE  /\ quit => quit'
             /\ state' = "AS_DYING" => quit'
             /\ state' = "AS_CREATED" => aul' /\ start'
      BY <1>2, <1>6 DEF VconfChanged, AppCode, coreVars, doVars, appVars, TypeOK
<1>7. CASE WindowEvent
  <2>1. UNCHANGED <<aul, start>>
        BY <1>7, WindowEventCases DEF coreVars
  <2>2. CASE UNCHANGED <<doVars, appVars>>
        BY <1>2, <2>1, <2>2 DEF doVars, appVars
  <2>3. CASE DoAppPause \/ DoAppResume
        BY <1>2, <2>1, <2>3, DoAppOwed
  <2> QED BY <1>7, <2>2, <2>3, WindowEventCases
<1> QED BY <1>3, <1>4, <1>5, <1>6, <1>7 DEF Dispatch

(***************************************************************************)
(* The application's own events leave what is owed alone, too.             *)
(***************************************************************************)
LEMMA AppOwed ==
  ASSUME TypeOK, AppEvent \/ CachesChange \/ SetCallback \/ UNCHANGED vars
  PROVE  (quit => quit') /\ UNCHANGED <<aul, start>>
BY DEF AppEvent, CachesChange, SetCallback, SetEventCallback, AppCode, vars, coreVars, appVars, TypeOK

(***************************************************************************)
(* What the loop owes, at each point of appcore_efl_main.                  *)
(***************************************************************************)
LEMMA OwedStep ==
  ASSUME IInv, [Next]_vars
  PROVE  OwedInv' /\ (pc = "loop" /\ quit => quit' \/ pc' # "loop")
<1> USE DEF IInv, OwedInv
<1>1. CASE BeforeLoop
      BY <1>1 DEF BeforeLoop, AppcoreInit
<1>2. CASE BeforeLoopFails
      BY <1>2 DEF BeforeLoopFails, mainVars
<1>3. ASSUME NEW r \in CreateReturnValues \cup {0}, CreateReturns(r)
      PROVE  OwedInv' /\ pc # "loop"
      BY <1>3 DEF CreateReturns, coreVars
<1>4. CASE LeaveLoop \/ TerminateReturns
      BY <1>4 DEF LeaveLoop, TerminateReturns
<1>5. CASE Dispatch \/ WindowEvent
      BY <1>5, LoopOwed, LoopSteps DEF mainVars
<1>6. CASE AppEvent \/ CachesChange \/ SetCallback \/ UNCHANGED vars
      BY <1>6, AppSteps, AppOwed
<1> QED BY <1>1, <1>2, <1>3, <1>4, <1>5, <1>6 DEF Next, Main
-----------------------------------------------------------------------------
(***************************************************************************)
(* The inductive invariant holds initially.                                *)
(***************************************************************************)
LEMMA InitInv == Init => IInv
<1> SUFFICES ASSUME Init PROVE IInv
    OBVIOUS
<1>1. CoreInv
      BY CoreInitInv DEF Init
<1>2. TypeOK
      BY <1>1 DEF Init, TypeOK, CoreInv, AppStates, OpSlots
<1>3. TimerDiscipline /\ ActiveConsistent
      BY DEF Init, TimerDiscipline, ActiveConsistent, Live
<1>4. MainInv /\ OpInv /\ OwedInv /\ BackgroundInv
      BY DEF Init, MainInv, OpInv, OwedInv, BackgroundInv, CoreInit, Cleared
<1> QED BY <1>1, <1>2, <1>3, <1>4 DEF IInv

(***************************************************************************)
(* Every step of app-core, of the loop and of the application keeps it.    *)
(***************************************************************************)
LEMMA StepInv == IInv /\ [Next]_vars => IInv'
BY TypeAndTimerStep, MainStep, ActiveStep, LifeStep, OwedStep, BackgroundStep, CoreSteps,
   CoreStepInv DEF IInv

(***************************************************************************)
(* So it holds always; the theorems below read their property off it.      *)
(***************************************************************************)
LEMMA Invariant == Spec => []IInv
BY InitInv, StepInv, PTL DEF Spec

(***************************************************************************)
(* Types, for any number of windows and any return values.                 *)
(***************************************************************************)
THEOREM TypeCorrect == Spec => []TypeOK
<1>1. IInv => TypeOK
      BY DEF IInv
<1> QED BY Invariant, <1>1, PTL

(***************************************************************************)
(* There is never a flush timer outside priv.mftimer, nor one outside the  *)
(* background.                                                             *)
(***************************************************************************)
THEOREM TimersCorrect == Spec => []TimerDiscipline
<1>1. IInv => TimerDiscipline
      BY DEF IInv
<1> QED BY Invariant, <1>1, PTL

(***************************************************************************)
(* When appcore_efl_main is not running nothing can call into it.          *)
(***************************************************************************)
THEOREM ExitsClean == Spec => []CleanExit
<1>1. IInv => CleanExit
      BY DEF IInv, CleanExit, MainInv, CoreInv, NothingLeftBehind, TimerDiscipline, Live
<1> QED BY Invariant, <1>1, PTL

(***************************************************************************)
(* No event finds priv.ops or core.ops missing.                            *)
(***************************************************************************)
THEOREM UpcallsCorrect == Spec => [](UpcallSafe /\ HandlersNeedOps)
<1>1. IInv => UpcallSafe
      BY DEF IInv, CoreInv
<1>2. IInv => HandlersNeedOps
      BY DEF IInv, HandlersNeedOps, MainInv, CoreInv, NothingLeftBehind, TimerDiscipline,
             Live, TypeOK
<1> QED BY Invariant, <1>1, <1>2, PTL

(***************************************************************************)
(* b_active, AS_PAUSED and the system manager agree.                       *)
(***************************************************************************)
THEOREM ActivityCorrect == Spec => []ActiveConsistent
<1>1. IInv => ActiveConsistent
      BY DEF IInv
<1> QED BY Invariant, <1>1, PTL

(***************************************************************************)
(* An application that runs unseen was started unseen (for XWindowsProofs).*)
(***************************************************************************)
LEMMA StartedUnseen == Spec => []BackgroundInv
<1>1. IInv => BackgroundInv
      BY DEF IInv
<1> QED BY Invariant, <1>1, PTL

(***************************************************************************)
(* A request to stop outlives everything but the loop, and the start       *)
(* bundle everything but the first RESET and the loop: the safety halves   *)
(* of TerminateHonoured and GetsFirstReset.                                *)
(***************************************************************************)
THEOREM RequestsNotLost == Spec => RequestsKept
<1>1. IInv /\ [Next]_vars =>
        [pc' = "loop" => /\ state' = "AS_DYING" \/ (InLoop /\ quit) => quit'
                         /\ state' = "AS_CREATED" => aul' /\ start']_vars
      BY OwedStep DEF OwedInv, InLoop
<1> QED BY <1>1, Invariant, PTL DEF Spec, RequestsKept

(***************************************************************************)
(* Refinement: whatever the X server, AUL, vconf and the application do,   *)
(* the callbacks follow the life cycle of the programming guide.           *)
(***************************************************************************)
THEOREM LifecycleCorrect == Spec => FollowsLifecycle
<1>1. Init => Life!Init
      BY DEF Init, Life!Init
<1>2. IInv /\ [Next]_vars => [Life!Next]_op
      BY LifeStep
<1> QED BY <1>1, <1>2, Invariant, PTL DEF Spec, FollowsLifecycle, Life!Spec
=============================================================================
