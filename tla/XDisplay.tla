------------------------------ MODULE XDisplay ------------------------------
(***************************************************************************)
(* AppcoreEfl with an X server in front of it.  In AppcoreEfl any window   *)
(* event may come at any time; here the server has windows of its own      *)
(* (xwin, the truth) and reports what happens to them through one FIFO     *)
(* queue (xq), so that what app-core believes lags behind what is on the   *)
(* screen.  The window list, b_active and PAUSE / RESUME are judged        *)
(* against xwin, at the moments the queue is empty.                        *)
(***************************************************************************)
EXTENDS AppcoreEfl, Sequences

CONSTANTS
    Top,        \* the windows the window manager gave a border parent
    MaxQueue,   \* bound: events in flight
    MaxElm,     \* bound: calls of elm_init not undone
    MaxMains    \* bound: main loops run to their end

ASSUME DisplayAssumption == /\ Top \subseteq Windows
                            /\ MaxQueue \in Nat /\ MaxElm \in Nat /\ MaxMains \in Nat

VARIABLES
    xwin,       \* the server's windows
    xq,         \* events sent to this client and not yet dispatched
    elm,        \* how often elm_init was called and not undone by elm_shutdown
    appeared,   \* history: a top window was mapped since the display was opened
    mains       \* main loops that have run to their end

xVars == <<xwin, xq, elm, appeared, mains>>
allVars == <<vars, xVars>>

Event(type, w, obscured) == [type |-> type, win |-> w, obscured |-> obscured]

XTypeOK ==
    /\ xwin \in [Windows -> {"unmapped", "visible", "obscured"}]
    /\ xq \in Seq([type : {"show", "hide", "visibility"}, win : Windows, obscured : BOOLEAN])
    /\ Len(xq) <= MaxQueue
    /\ elm \in 0..MaxElm
    /\ appeared \in BOOLEAN
    /\ mains \in 0..MaxMains

NoWindows == [w \in Windows |-> "unmapped"]

XInit == /\ Init
         /\ xwin = NoWindows
         /\ xq = <<>>
         /\ elm = 0
         /\ appeared = FALSE
         /\ mains = 0
-----------------------------------------------------------------------------
(***************************************************************************)
(* The server.  It reports to a client that is connected and has windows,  *)
(* from the first elm_init to the last elm_shutdown: what happens outside  *)
(* the loop, windows made in the create callback for instance, is reported *)
(* once a loop runs.  A map is followed by the window's visibility; an     *)
(* unmap is not.                                                           *)
(***************************************************************************)
Connected == elm > 0

Send(events) == /\ Connected
                /\ Len(xq) + Len(events) <= MaxQueue
                /\ xq' = xq \o events

MapWindow(w, obscured) ==
    /\ xwin[w] = "unmapped"
    /\ xwin' = [xwin EXCEPT ![w] = IF obscured THEN "obscured" ELSE "visible"]
    /\ Send(<<Event("show", w, FALSE), Event("visibility", w, obscured)>>)
    /\ appeared' = (appeared \/ w \in Top)
    /\ UNCHANGED <<vars, elm, mains>>

UnmapWindow(w) ==
    /\ xwin[w] # "unmapped"
    /\ xwin' = [xwin EXCEPT ![w] = "unmapped"]
    /\ Send(<<Event("hide", w, FALSE)>>)
    /\ UNCHANGED <<vars, elm, appeared, mains>>

ChangeVisibility(w) ==
    /\ xwin[w] # "unmapped"
    /\ xwin' = [xwin EXCEPT ![w] = IF @ = "visible" THEN "obscured" ELSE "visible"]
    /\ Send(<<Event("visibility", w, xwin[w] = "visible")>>)
    /\ UNCHANGED <<vars, elm, appeared, mains>>

Server == \E w \in Windows : \/ \E obscured \in BOOLEAN : MapWindow(w, obscured)
                             \/ UnmapWindow(w)
                             \/ ChangeVisibility(w)
-----------------------------------------------------------------------------
(***************************************************************************)
(* The loop hands the oldest event to its handler.  __show_cb passes on    *)
(* windows without the _E_PARENT_BORDER_WINDOW property, __hide_cb windows *)
(* it has no node for.                                                     *)
(***************************************************************************)
Ignored(e) == \/ e.type = "show" /\ e.win \notin Top
              \/ e.type = "hide" /\ ~ExistWin(e.win)

Handle(e) == \/ e.type = "show" /\ e.win \in Top /\ ShowCb(e.win)
             \/ e.type = "hide" /\ HideCb(e.win)
             \/ e.type = "visibility" /\ VisibilityCb(e.win, e.obscured)
             \/ Ignored(e) /\ UNCHANGED vars

DispatchX == /\ InLoop
             /\ xq # <<>>
             /\ xq' = Tail(xq)
             /\ Handle(Head(xq))
             /\ UNCHANGED <<xwin, elm, appeared, mains>>

ElmInit == /\ elm < MaxElm
           /\ elm' = elm + 1
           /\ mains < MaxMains
           /\ UNCHANGED <<xwin, xq, appeared, mains>>

StartMain == BeforeLoop /\ ElmInit

(***************************************************************************)
(* A launch that fails in appcore_init, or in create (OtherStep), returns  *)
(* without elm_shutdown: the display stays open, with the windows and the  *)
(* undelivered events of the cancelled launch.                             *)
(***************************************************************************)
FailedStart == BeforeLoopFails /\ ElmInit

(***************************************************************************)
(* The last elm_shutdown closes the display: windows and undelivered       *)
(* events go.                                                              *)
(***************************************************************************)
EndMain == /\ TerminateReturns
           /\ elm' = elm - 1
           /\ IF elm = 1 THEN xwin' = NoWindows /\ xq' = <<>> /\ appeared' = FALSE
                         ELSE UNCHANGED <<xwin, xq, appeared>>
           /\ mains' = mains + 1

(***************************************************************************)
(* Everything else AppcoreEfl does, except that the caches, which no       *)
(* window event looks at, are left out.                                    *)
(***************************************************************************)
OtherStep == /\ \/ \E r \in CreateReturnValues \cup {0} : CreateReturns(r)
                \/ LeaveLoop
                \/ Dispatch
                \/ AppEvent
                \/ SetCallback
             /\ UNCHANGED xVars

XNext == Server \/ DispatchX \/ StartMain \/ FailedStart \/ EndMain \/ OtherStep

XSpec == XInit /\ [][XNext]_allVars

(***************************************************************************)
(* The loop keeps dispatching; the server and the user owe it nothing.     *)
(***************************************************************************)
XFairSpec == XSpec /\ WF_allVars(DispatchX)
-----------------------------------------------------------------------------
TopVisible == \E w \in Top : xwin[w] = "visible"

Settled == InLoop /\ xq = <<>>

NodeOf(x) == IF x = "unmapped" THEN "absent" ELSE x

(***************************************************************************)
(* When every event has been handled g_winnode_list holds exactly the      *)
(* mapped top windows, each with its true bfobscured, in whatever order    *)
(* they were mapped, obscured and hidden; child windows never get a node.  *)
(***************************************************************************)
ListMatchesScreen == Settled =>
    \A w \in Windows : winnode[w] = IF w \in Top THEN NodeOf(xwin[w]) ELSE "absent"

(***************************************************************************)
(* When a window of the application is on the screen and its events have   *)
(* been handled, the application is not left paused.                       *)
(***************************************************************************)
ResumedWhenVisible == Settled /\ TopVisible => b_active /\ state # "AS_PAUSED"

(***************************************************************************)
(* When the application had a window and none of them can be seen any      *)
(* more, it is in the background and the system manager was told so.  It   *)
(* has been paused, too, unless it has not had its first RESET, is dying,  *)
(* or was started in the background by the RESET that came last: one that  *)
(* runs unseen is never one that was brought back by a RESUME.             *)
(***************************************************************************)
PausedWhenInvisible == Settled /\ appeared /\ ~TopVisible =>
    /\ ~b_active
    /\ sysman = "background"
    /\ state = "AS_RUNNING" => op = "reset"

(***************************************************************************)
(* The list never shows a window that neither is on the screen nor has an  *)
(* event on its way that will correct it.                                  *)
(***************************************************************************)
NoGhostWindow == InLoop =>
    \A w \in Windows : winnode[w] # "absent" =>
        \/ xwin[w] # "unmapped"
        \/ \E i \in DOMAIN xq : xq[i].type = "hide" /\ xq[i].win = w

(***************************************************************************)
(* A window that stays visible ends up with an application that stays      *)
(* resumed, whatever the other windows do meanwhile.                       *)
(***************************************************************************)
VisibleMeansResumed ==
    \A w \in Top : <>[](InLoop /\ xwin[w] = "visible")
                       => <>[](b_active /\ state # "AS_PAUSED")
=============================================================================
