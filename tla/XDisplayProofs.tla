---------------------------- MODULE XDisplayProofs ----------------------------
(***************************************************************************)
(* The types of the composition with the X server, for every number of     *)
(* windows and every length of the event queue, and what AppcoreEflProofs  *)
(* proves carried over to it.                                              *)
(***************************************************************************)
EXTENDS XDisplay, AppcoreEflProofs, SequenceTheorems

(***************************************************************************)
(* Whatever event the loop takes from the queue, its handler is one of the *)
(* three that AppcoreEfl lets run at any time, or nothing.                 *)
(***************************************************************************)
LEMMA HandledByEfl == ASSUME DispatchX, XTypeOK PROVE [Next]_vars
<1>1. PICK e : e = Head(xq) /\ Handle(e)
      BY DEF DispatchX
<1>2. e.win \in Windows /\ e.obscured \in BOOLEAN
  <2> DEFINE Events == [type : {"show", "hide", "visibility"}, win : Windows,
                        obscured : BOOLEAN]
  <2>1. xq \in Seq(Events) /\ xq # <<>>
        BY DEF DispatchX, XTypeOK
  <2>2. e \in Events
    <3> HIDE DEF Events
    <3> QED BY <1>1, <2>1
  <2> QED BY <2>2
<1>3. CASE ShowCb(e.win)
      BY <1>2, <1>3 DEF Next, WindowEvent
<1>4. CASE HideCb(e.win)
      BY <1>2, <1>4 DEF Next, WindowEvent
<1>5. CASE VisibilityCb(e.win, e.obscured)
      BY <1>2, <1>5 DEF Next, WindowEvent
<1> QED BY <1>1, <1>3, <1>4, <1>5 DEF Handle

(***************************************************************************)
(* The sequences a server step appends.                                    *)
(***************************************************************************)
LEMMA ShortSeqs ==
  \A S : \A a, b \in S : <<a>> \in Seq(S) /\ <<a, b>> \in Seq(S)
OBVIOUS

(***************************************************************************)
(* Inside appcore_efl_main the toolkit is initialised and the bound on the *)
(* number of main loops is not used up.                                    *)
(***************************************************************************)
LaunchCounted == pc # "idle" => elm > 0 /\ mains < MaxMains

(***************************************************************************)
(* The queue holds events about windows; which steps put them there does   *)
(* not depend on what app-core does.                                       *)
(***************************************************************************)
LEMMA QueueTyped ==
  ASSUME XTypeOK, LaunchCounted, [XNext]_allVars PROVE XTypeOK'
<1> USE DisplayAssumption
<1> DEFINE Events == [type : {"show", "hide", "visibility"}, win : Windows, obscured : BOOLEAN]
<1>0. /\ xq \in Seq(Events) /\ Len(xq) <= MaxQueue
      /\ xwin \in [Windows -> {"unmapped", "visible", "obscured"}]
      /\ appeared \in BOOLEAN /\ mains \in 0..MaxMains /\ elm \in 0..MaxElm
      BY DEF XTypeOK
<1>1. \A w \in Windows, o \in BOOLEAN, t \in {"show", "hide", "visibility"} :
          Event(t, w, o) \in Events
      BY DEF Event
<1>2. ASSUME NEW w \in Windows, NEW o \in BOOLEAN, MapWindow(w, o) PROVE XTypeOK'
  <2>0. /\ Event("show", w, FALSE) \in Events
        /\ Event("visibility", w, o) \in Events
        BY <1>1
  <2>1. <<Event("show", w, FALSE), Event("visibility", w, o)>> \in Seq(Events)
    <3> HIDE DEF Events
    <3> QED BY <2>0, ShortSeqs
  <2>2. xq' \in Seq(Events) /\ Len(xq') <= MaxQueue
    <3> HIDE DEF Events
    <3> QED BY <1>0, <1>2, <2>1, ConcatProperties DEF MapWindow, Send
  <2>3. xwin' \in [Windows -> {"unmapped", "visible", "obscured"}]
        BY <1>0, <1>2 DEF MapWindow
  <2>4. appeared' \in BOOLEAN /\ mains' = mains /\ elm' = elm
        BY <1>2 DEF MapWindow
  <2> QED BY <1>0, <2>2, <2>3, <2>4 DEF XTypeOK
<1>3. ASSUME NEW w \in Windows, UnmapWindow(w) PROVE XTypeOK'
  <2>0. Event("hide", w, FALSE) \in Events
        BY <1>1
  <2>1. <<Event("hide", w, FALSE)>> \in Seq(Events)
    <3> HIDE DEF Events
    <3> QED BY <2>0, ShortSeqs
  <2>2. xq' \in Seq(Events) /\ Len(xq') <= MaxQueue
    <3> HIDE DEF Events
    <3> QED BY <1>0, <1>3, <2>1, ConcatProperties DEF UnmapWindow, Send
  <2>3. xwin' \in [Windows -> {"unmapped", "visible", "obscured"}]
        BY <1>0, <1>3 DEF UnmapWindow
  <2> QED BY <1>0, <1>3, <2>2, <2>3 DEF UnmapWindow, XTypeOK
<1>4. ASSUME NEW w \in Windows, ChangeVisibility(w) PROVE XTypeOK'
  <2>0. Event("visibility", w, xwin[w] = "visible") \in Events
        BY <1>1
  <2>1. <<Event("visibility", w, xwin[w] = "visible")>> \in Seq(Events)
    <3> HIDE DEF Events
    <3> QED BY <2>0, ShortSeqs
  <2>2. xq' \in Seq(Events) /\ Len(xq') <= MaxQueue
    <3> HIDE DEF Events
    <3> QED BY <1>0, <1>4, <2>1, ConcatProperties DEF ChangeVisibility, Send
  <2>3. xwin' \in [Windows -> {"unmapped", "visible", "obscured"}]
        BY <1>0, <1>4 DEF ChangeVisibility
  <2> QED BY <1>0, <1>4, <2>2, <2>3 DEF ChangeVisibility, XTypeOK
<1>5. CASE DispatchX
  <2>1. xq' \in Seq(Events) /\ Len(xq') <= MaxQueue
    <3> HIDE DEF Events
    <3> QED BY <1>0, <1>5 DEF DispatchX
  <2> QED BY <1>0, <1>5, <2>1 DEF DispatchX, XTypeOK
<1>6. CASE ElmInit
  <2>1. elm' \in 0..MaxElm
        BY <1>0, <1>6 DEF ElmInit
  <2> QED BY <1>0, <1>6, <2>1 DEF ElmInit, XTypeOK
<1>7. CASE EndMain
  <2>0. elm' \in 0..MaxElm /\ mains' \in 0..MaxMains
        BY <1>0, <1>7 DEF EndMain, TerminateReturns, LaunchCounted
  <2>1. <<>> \in Seq(Events) /\ Len(<<>>) <= MaxQueue
        OBVIOUS
  <2>2. NoWindows \in [Windows -> {"unmapped", "visible", "obscured"}]
        BY DEF NoWindows
  <2>3. CASE elm = 1
    <3> HIDE DEF Events
    <3>1. xwin' = NoWindows /\ xq' = <<>> /\ appeared' = FALSE
          BY <1>7, <2>3 DEF EndMain
    <3>2. xq' \in Seq(Events) /\ Len(xq') <= MaxQueue
          BY <2>1, <3>1
    <3>3. xwin' \in [Windows -> {"unmapped", "visible", "obscured"}] /\ appeared' \in BOOLEAN
          BY <2>2, <3>1
    <3> QED BY <2>0, <3>2, <3>3 DEF XTypeOK, Events
  <2>4. CASE elm # 1
        BY <1>0, <1>7, <2>0, <2>4 DEF EndMain, XTypeOK
  <2> QED BY <2>3, <2>4
<1>8. CASE UNCHANGED xVars
      BY <1>0, <1>8 DEF xVars, XTypeOK
<1> QED BY <1>2, <1>3, <1>4, <1>5, <1>6, <1>7, <1>8
       DEF XNext, Server, StartMain, FailedStart, OtherStep, allVars

(***************************************************************************)
(* Every step of the composition is a step of AppcoreEfl or changes        *)
(* nothing of it.                                                          *)
(***************************************************************************)
LEMMA StepOfEfl == ASSUME XTypeOK, [XNext]_allVars PROVE [Next]_vars
<1>1. CASE Server
      BY <1>1 DEF Server, MapWindow, UnmapWindow, ChangeVisibility
<1>2. CASE DispatchX
      BY <1>2, HandledByEfl
<1>3. CASE StartMain \/ FailedStart
      BY <1>3 DEF StartMain, FailedStart, Next, Main
<1>4. CASE EndMain
      BY <1>4 DEF EndMain, Next, Main
<1>5. CASE OtherStep
      BY <1>5 DEF OtherStep, Next, Main
<1>6. CASE UNCHANGED allVars
      BY <1>6 DEF allVars
<1> QED BY <1>1, <1>2, <1>3, <1>4, <1>5, <1>6 DEF XNext

(***************************************************************************)
(* Only StartMain enters appcore_efl_main.                                 *)
(***************************************************************************)
LEMMA LaunchesCounted ==
  ASSUME XTypeOK, LaunchCounted, [XNext]_allVars PROVE LaunchCounted'
<1> USE DisplayAssumption
<1>0. elm \in Nat /\ mains \in Nat
      BY DEF XTypeOK
<1>1. CASE Server
      BY <1>1 DEF Server, MapWindow, UnmapWindow, ChangeVisibility, LaunchCounted, vars, mainVars
<1>2. CASE DispatchX
  <2>1. pc' = pc
        BY <1>2 DEF DispatchX, Handle, ShowCb, HideCb, VisibilityCb, mainVars, vars
  <2> QED BY <1>2, <2>1 DEF DispatchX, LaunchCounted
<1>3. CASE StartMain
      BY <1>0, <1>3 DEF StartMain, ElmInit, LaunchCounted
<1>4. CASE FailedStart
      BY <1>4 DEF FailedStart, BeforeLoopFails, ElmInit, LaunchCounted, mainVars
<1>5. CASE EndMain
      BY <1>5 DEF EndMain, TerminateReturns, LaunchCounted
<1>6. CASE OtherStep
  <2>1. pc' # "idle" => pc # "idle"
        BY <1>6 DEF OtherStep, CreateReturns, LeaveLoop, Dispatch, FirstStart, Relaunch,
           AulStart, AulTerminate, VconfChanged, TimerFires, AppEvent, SetCallback, mainVars
  <2> QED BY <1>6, <2>1 DEF OtherStep, LaunchCounted, xVars
<1>7. CASE UNCHANGED allVars
      BY <1>7 DEF allVars, vars, mainVars, xVars, LaunchCounted
<1> QED BY <1>1, <1>2, <1>3, <1>4, <1>5, <1>6, <1>7 DEF XNext

(***************************************************************************)
(* Initially the queue is empty and nothing is mapped.                     *)
(***************************************************************************)
LEMMA XInitTypes == XInit => XTypeOK /\ LaunchCounted
<1> SUFFICES ASSUME XInit PROVE XTypeOK /\ LaunchCounted
    OBVIOUS
<1>1. xwin \in [Windows -> {"unmapped", "visible", "obscured"}]
      BY DEF XInit, NoWindows
<1>2. xq = <<>> /\ appeared = FALSE /\ mains = 0
      BY DEF XInit
<1>3. appeared \in BOOLEAN
      BY <1>2
<1>4. mains \in 0..MaxMains /\ elm \in 0..MaxElm
      BY <1>2, DisplayAssumption DEF XInit
<1>5. LaunchCounted
      BY DEF XInit, Init, LaunchCounted
<1> QED BY <1>1, <1>2, <1>3, <1>4, <1>5, DisplayAssumption DEF XTypeOK

(***************************************************************************)
(* So what AppcoreEflProofs shows for arbitrary window events may be cited *)
(* for events that come through the queue.                                 *)
(***************************************************************************)
LEMMA DisplayImplementsEfl == XSpec => Spec
<1>1. XInit => Init
      BY DEF XInit
<1>2. XTypeOK /\ LaunchCounted /\ [XNext]_allVars
        => XTypeOK' /\ LaunchCounted' /\ [Next]_vars
      BY QueueTyped, LaunchesCounted, StepOfEfl
<1> QED BY XInitTypes, <1>1, <1>2, PTL DEF XSpec, Spec

(***************************************************************************)
(* So the timer discipline, the clean exit and the call order hold behind  *)
(* the queue as well.                                                      *)
(***************************************************************************)
THEOREM DisplaySafe ==
  XSpec => [](XTypeOK /\ TimerDiscipline /\ CleanExit /\ ActiveConsistent) /\ FollowsLifecycle
<1>1. XTypeOK /\ LaunchCounted /\ [XNext]_allVars => XTypeOK' /\ LaunchCounted'
      BY QueueTyped, LaunchesCounted
<1> QED BY XInitTypes, <1>1, DisplayImplementsEfl, TimersCorrect, ExitsClean, ActivityCorrect,
           LifecycleCorrect, PTL DEF XSpec
=============================================================================
