------------------------------ MODULE Rotation ------------------------------
(***************************************************************************)
(* appcore-rotation.c: one rotation callback per process, fed by the       *)
(* sensor framework, silenced by the user's rotation lock (a vconf key)    *)
(* and put off by the window manager's lock (the _E_ROTATION_LOCK property *)
(* of the root window).  The three sources reach the loop through queues   *)
(* of their own, so each of them may be behind the others.                 *)
(***************************************************************************)
EXTENDS Integers, Sequences, FiniteSets

CONSTANTS
    Clients,        \* a client stands for a callback with its cbdata
    NULL,
    Codes,          \* what the sensor may report
    Handles,        \* connections the sensor framework can give out
    SfMayFail,      \* calls of the sensor framework and vconf may fail
    WmLocks,        \* the window manager uses its lock
    PauseUsed,      \* somebody calls appcore_pause_rotation_cb: __do_app does
                    \*   not (its calls are commented out), an application can
    GarbageValues,  \* what the uninitialised val of __lock_cb may hold
    MaxEvents,      \* bound: sensor events in flight
    MaxProps,       \* bound: property events in flight
    MaxSets         \* bound: successful calls of appcore_set_rotation_cb

RmOf == [ROTATION_EVENT_0   |-> "PORTRAIT_NORMAL",
         ROTATION_EVENT_90  |-> "LANDSCAPE_NORMAL",
         ROTATION_EVENT_180 |-> "PORTRAIT_REVERSE",
         ROTATION_EVENT_270 |-> "LANDSCAPE_REVERSE"]

GetModeUnlisted(code) ==   \* mutant: r not initialised to APPCORE_RM_UNKNOWN
    IF code \in DOMAIN RmOf THEN RmOf[code] ELSE "ANYTHING"

(***************************************************************************)
(* __get_mode: codes that re_to_rm[] does not list are unknown modes.      *)
(***************************************************************************)
GetMode(code) == IF code \in DOMAIN RmOf THEN RmOf[code] ELSE "UNKNOWN"

Modes == {RmOf[c] : c \in DOMAIN RmOf} \cup {"UNKNOWN"}

ASSUME RotationAssumption ==
    /\ NULL \notin Clients
    /\ Handles \subseteq Nat
    /\ SfMayFail \in BOOLEAN /\ WmLocks \in BOOLEAN /\ PauseUsed \in BOOLEAN
    /\ GarbageValues \subseteq Int
    /\ MaxEvents \in Nat /\ MaxProps \in Nat /\ MaxSets \in Nat

VARIABLES
    rot,             \* static struct rot_s rot
    changed_m,
    changed_data,
    changed_handle,  \* a __property handler is installed
    (***********************************************************************)
    (* The services it uses.                                               *)
    (***********************************************************************)
    connected, registered, started,   \* sensor framework: sets of handles
    sfdata,          \* the data of the last sf_register_event
    orient,          \* how the device is held
    sfq,             \* sensor events not yet dispatched
    listening,       \* vconf: __lock_cb watches the user's lock
    lockdata,        \* the data of the last vconf_notify_key_changed
    setting,         \* vconf: the user's lock
    lockq,           \* vconf: a change of it is not yet dispatched
    selected,        \* X: property changes of the root are reported
    wmlock,          \* X: the window manager's lock
    propq,           \* X: property events not yet dispatched
    told,            \* history: the last call of a callback; nth alternates, so
                     \*   that a call is seen even if it repeats the one before
    toldnow,         \* history: this registration has been called
    sets             \* successful appcore_set_rotation_cb so far

rotVars == <<rot, changed_m, changed_data, changed_handle>>
sensorVars == <<connected, registered, started, sfdata>>
lockVars == <<listening, lockdata>>
toldVars == <<told, toldnow>>
envVars == <<orient, setting, wmlock>>
vars == <<rotVars, sensorVars, sfq, lockVars, lockq, selected, propq, toldVars, envVars, sets>>

NoHandle == -1

RotRecord == [handle : Handles \cup {NoHandle, 0}, callback : Clients \cup {NULL},
              mode : Modes, lock : BOOLEAN, cbdata : Clients \cup {NULL},
              cb_set : BOOLEAN, sf_started : BOOLEAN]

ToldRecord == [callback : Clients \cup {NULL}, data : Clients \cup {NULL}, mode : Modes,
               nth : {0, 1}]

DeferTypeOK == /\ changed_m \in Modes
               /\ changed_data \in Clients \cup {NULL}
               /\ changed_handle \in BOOLEAN

SensorTypeOK == /\ connected \subseteq Handles
                /\ registered \subseteq Handles
                /\ started \subseteq Handles
                /\ sfdata \in Clients \cup {NULL}

LockTypeOK == /\ listening \in BOOLEAN
              /\ lockdata \in Clients \cup {NULL}
              /\ lockq \in BOOLEAN

XTypeOK == selected \in BOOLEAN /\ propq \in 0..MaxProps

ToldTypeOK == told \in ToldRecord /\ toldnow \in BOOLEAN

EnvTypeOK == orient \in Codes /\ setting \in BOOLEAN /\ wmlock \in BOOLEAN

RotTypeOK == /\ rot \in RotRecord
             /\ DeferTypeOK
             /\ SensorTypeOK
             /\ sfq \in Seq(Codes)
             /\ LockTypeOK
             /\ XTypeOK
             /\ ToldTypeOK
             /\ EnvTypeOK
             /\ sets \in 0..MaxSets

Init ==
    /\ rot = [handle |-> 0, callback |-> NULL, mode |-> "UNKNOWN", lock |-> FALSE,
              cbdata |-> NULL, cb_set |-> FALSE, sf_started |-> FALSE]
    /\ changed_m = "UNKNOWN" /\ changed_data = NULL /\ changed_handle = FALSE
    /\ connected = {} /\ registered = {} /\ started = {} /\ sfdata = NULL
    /\ orient \in Codes /\ sfq = <<>>
    /\ listening = FALSE /\ lockdata = NULL /\ setting \in BOOLEAN /\ lockq = FALSE
    /\ selected = FALSE /\ wmlock = FALSE /\ propq = 0
    /\ told = [callback |-> NULL, data |-> NULL, mode |-> "UNKNOWN", nth |-> 0]
    /\ toldnow = FALSE
    /\ sets = 0
-----------------------------------------------------------------------------
(***************************************************************************)
(* Services.  Unregistering drops the events not yet dispatched,           *)
(* disconnecting the registration, ignoring a vconf key its pending        *)
(* change.                                                                 *)
(***************************************************************************)
SfRegister(h, data) == registered' = registered \cup {h} /\ sfdata' = data

SfUnregister(h) == registered' = registered \ {h} /\ sfq' = <<>>

SfDisconnect(h) == connected' = connected \ {h} /\ SfUnregister(h)

(***************************************************************************)
(* __add_rotlock and __del_rotlock.  When the key cannot be read the lock  *)
(* is taken to be off.  What vconf makes of the other two calls nobody     *)
(* looks at: __lock_cb may stay behind with the data of the last           *)
(* registration, and the next one replaces that data, or does not.         *)
(***************************************************************************)
LockRead == IF SfMayFail THEN {setting, FALSE} ELSE {setting}

AddRotlock(data) == \/ listening' = TRUE /\ lockdata' = data
                    \/ SfMayFail /\ UNCHANGED lockVars

DelRotlock == /\ \/ listening' = FALSE /\ lockq' = FALSE
                 \/ SfMayFail /\ UNCHANGED <<listening, lockq>>
              /\ UNCHANGED lockdata

(***************************************************************************)
(* What a call of the application's callback leaves behind.                *)
(***************************************************************************)
Call(m, data) ==
    /\ told' = [callback |-> rot.callback, data |-> data, mode |-> m, nth |-> 1 - told.nth]
    /\ toldnow' = TRUE
-----------------------------------------------------------------------------
(***************************************************************************)
(* appcore_set_rotation_cb.  A NULL callback, or one already set, is       *)
(* refused with nothing changed.  rot.mode keeps the value of the previous *)
(* registration and the new callback is not told the current mode.         *)
(***************************************************************************)
SetRotation(c) ==
    /\ rot.callback = NULL
    /\ sets < MaxSets
    /\ sets' = sets + 1
    /\ \E h \in Handles \ connected, lock \in LockRead :
         /\ connected' = connected \cup {h}
         /\ SfRegister(h, c)
         /\ started' = started \cup {h}
         /\ rot' = [rot EXCEPT !.handle = h, !.callback = c, !.cbdata = c, !.cb_set = TRUE,
                               !.sf_started = TRUE, !.lock = lock]
    /\ AddRotlock(c)
    /\ selected' = TRUE
    /\ toldnow' = FALSE
    /\ UNCHANGED <<changed_m, changed_data, changed_handle, sfq, lockq, propq, told, envVars>>

(***************************************************************************)
(* sf_register_event refused, or sf_start after it.  Nobody looks at what  *)
(* the undoing calls return: the new connection may stay behind, with or   *)
(* without its registration, but never started.  A refused sf_connect      *)
(* changes nothing.                                                        *)
(***************************************************************************)
SetRotationFails ==
    /\ SfMayFail
    /\ rot.callback = NULL
    /\ \E h \in Handles \ connected :
         /\ connected' \in {connected, connected \cup {h}}
         /\ \/ UNCHANGED <<registered, rot>>
            \/ /\ \/ UNCHANGED registered
                  \/ h \in connected' /\ registered' = registered \cup {h}
               /\ rot' = [rot EXCEPT !.callback = NULL, !.cbdata = NULL, !.cb_set = FALSE,
                                     !.sf_started = FALSE]
    /\ UNCHANGED <<changed_m, changed_data, changed_handle, started, sfdata, sfq, lockVars,
                   lockq, selected, propq, toldVars, envVars, sets>>

(***************************************************************************)
(* appcore_unset_rotation_cb.  It returns at the first call that fails,    *)
(* and by then the lock is no longer watched.  changed_handle, the mode    *)
(* and the selection of root events are left as they are.                  *)
(***************************************************************************)
UnregisterRefused ==
    /\ SfMayFail /\ rot.cb_set
    /\ rot' = [rot EXCEPT !.lock = FALSE]
    /\ UNCHANGED <<sensorVars, sfq>>

Unregister == IF rot.cb_set THEN SfUnregister(rot.handle) ELSE UNCHANGED <<registered, sfq>>

StopRefused == SfMayFail /\ rot.sf_started

StopForgotten == UNCHANGED started   \* mutant: no sf_stop

Stop == started' = started \ {rot.handle}

ForgottenButSet(running, h) ==   \* mutant: cb_set survives
    [rot EXCEPT !.lock = FALSE, !.callback = NULL, !.cbdata = NULL,
                !.sf_started = running, !.handle = h]

Forgotten(running, h) ==
    [rot EXCEPT !.lock = FALSE, !.cb_set = FALSE, !.callback = NULL, !.cbdata = NULL,
                !.sf_started = running, !.handle = h]

UnsetRotation ==
    /\ rot.callback # NULL
    /\ DelRotlock
    /\ \/ UnregisterRefused
       \/ /\ \/ /\ Unregister
                /\ \/ StopRefused /\ UNCHANGED started /\ rot' = Forgotten(TRUE, rot.handle)
                   \/ SfMayFail /\ Stop /\ rot' = Forgotten(FALSE, rot.handle)
                /\ UNCHANGED connected
             \/ /\ Stop
                /\ SfDisconnect(rot.handle)
                /\ rot' = Forgotten(FALSE, NoHandle)
          /\ UNCHANGED sfdata
    /\ UNCHANGED <<changed_m, changed_data, changed_handle, selected, propq, toldVars,
                   envVars, sets>>

(***************************************************************************)
(* appcore_pause_rotation_cb: the callback stays, its sources go.          *)
(***************************************************************************)
PauseRotation ==
    /\ PauseUsed
    /\ rot.callback # NULL
    /\ DelRotlock
    /\ \/ UnregisterRefused
       \/ /\ Unregister
          /\ \/ /\ StopRefused
                /\ rot' = [rot EXCEPT !.lock = FALSE, !.cb_set = FALSE]
                /\ UNCHANGED started
             \/ /\ Stop
                /\ rot' = [rot EXCEPT !.lock = FALSE, !.cb_set = FALSE, !.sf_started = FALSE]
          /\ UNCHANGED <<connected, sfdata>>
    /\ UNCHANGED <<changed_m, changed_data, changed_handle, selected, propq, toldVars,
                   envVars, sets>>

(***************************************************************************)
(* The end of appcore_resume_rotation_cb: the mode is asked for and told   *)
(* when it is new and the lock is off; the question may fail.              *)
(***************************************************************************)
Resumed(lock, m) == [rot EXCEPT !.cb_set = TRUE, !.sf_started = TRUE, !.lock = lock, !.mode = m]

TellMissed(lock) ==
    \/ /\ GetMode(orient) # rot.mode /\ ~lock
       /\ Call(GetMode(orient), rot.cbdata)
       /\ rot' = Resumed(lock, GetMode(orient))
    \/ /\ GetMode(orient) = rot.mode \/ lock \/ SfMayFail
       /\ rot' = Resumed(lock, rot.mode)
       /\ UNCHANGED toldVars

(***************************************************************************)
(* appcore_resume_rotation_cb: register and start what is missing, watch   *)
(* the lock again, and tell the callback the mode it missed.               *)
(***************************************************************************)
ResumeRotation ==
    /\ PauseUsed
    /\ rot.callback # NULL
    /\ IF rot.cb_set THEN UNCHANGED <<registered, sfdata>>
                     ELSE SfRegister(rot.handle, rot.cbdata)
    /\ started' = started \cup {rot.handle}
    /\ AddRotlock(rot.cbdata)
    /\ \E lock \in LockRead : TellMissed(lock)
    /\ UNCHANGED <<changed_m, changed_data, changed_handle, connected, sfq, lockq, selected,
                   propq, envVars, sets>>

(***************************************************************************)
(* sf_start refused: sf_register_event is undone, and whether that worked  *)
(* nobody asks.  A refused sf_register_event changes nothing.              *)
(***************************************************************************)
ResumeRotationFails ==
    /\ PauseUsed /\ SfMayFail
    /\ rot.callback # NULL /\ ~rot.sf_started
    /\ \/ SfUnregister(rot.handle)
       \/ registered' = registered \cup {rot.handle} /\ UNCHANGED sfq
    /\ rot' = [rot EXCEPT !.cb_set = FALSE]
    /\ sfdata' = IF rot.cb_set THEN sfdata ELSE rot.cbdata
    /\ UNCHANGED <<changed_m, changed_data, changed_handle, connected, started, lockVars,
                   lockq, selected, propq, toldVars, envVars, sets>>
-----------------------------------------------------------------------------
DeferNothing(data) == UNCHANGED <<changed_data, changed_handle>>   \* mutant: change dropped

(***************************************************************************)
(* Put a change off until the window manager touches its lock.             *)
(***************************************************************************)
Defer(data) == changed_data' = data /\ changed_handle' = TRUE

(***************************************************************************)
(* __changed_cb for the oldest sensor event.                               *)
(***************************************************************************)
ChangedCb(code, data) ==
    LET m == GetMode(code)
    IN  \/ /\ rot.lock \/ rot.callback = NULL
           /\ UNCHANGED <<rotVars, toldVars>>
        \/ /\ ~rot.lock /\ rot.callback # NULL
           /\ changed_m' = m
           /\ \/ /\ ~rot.cb_set \/ rot.mode = m
                 /\ UNCHANGED <<rot, changed_data, changed_handle, toldVars>>
              \/ /\ rot.cb_set /\ rot.mode # m /\ ~wmlock
                 /\ Call(m, data)
                 /\ rot' = [rot EXCEPT !.mode = m]
                 /\ UNCHANGED <<changed_data, changed_handle>>
              \/ /\ rot.cb_set /\ rot.mode # m /\ wmlock
                 /\ Defer(data)
                 /\ UNCHANGED <<rot, toldVars>>

DispatchSensor ==
    /\ sfq # <<>>
    /\ sfq' = Tail(sfq)
    /\ ChangedCb(Head(sfq), sfdata)
    /\ UNCHANGED <<sensorVars, lockVars, lockq, selected, propq, envVars, sets>>

LockCbOnlyNotes(data) ==   \* mutant: the sensor is not asked after an unlock
    /\ rot' = [rot EXCEPT !.lock = setting]
    /\ UNCHANGED <<changed_m, changed_data, changed_handle, toldVars>>

(***************************************************************************)
(* __lock_cb.  Once unlocked it asks the sensor for the mode missed; val   *)
(* is read without ever having been written, so which branch is taken is   *)
(* anyone's guess.                                                         *)
(***************************************************************************)
LockCb(data) ==
    LET m    == GetMode(orient)
        now  == [rot EXCEPT !.lock = setting]
        idle == rot' = now /\ UNCHANGED <<changed_data, changed_handle, toldVars>>
    IN  \/ /\ setting \/ ~rot.cb_set \/ rot.callback = NULL \/ SfMayFail
           /\ idle
           /\ UNCHANGED changed_m
        \/ /\ ~setting /\ rot.cb_set /\ rot.callback # NULL
           /\ changed_m' = m
           /\ \/ rot.mode = m /\ idle
              \/ /\ rot.mode # m /\ 0 \in GarbageValues
                 /\ Call(m, data)
                 /\ rot' = [now EXCEPT !.mode = m]
                 /\ UNCHANGED <<changed_data, changed_handle>>
              \/ /\ rot.mode # m /\ GarbageValues \ {0} # {}
                 /\ Defer(data)
                 /\ rot' = now
                 /\ UNCHANGED toldVars

DispatchLock ==
    /\ lockq
    /\ lockq' = FALSE
    /\ LockCb(lockdata)
    /\ UNCHANGED <<sensorVars, sfq, lockVars, selected, propq, envVars, sets>>

PropertyTellsAgain ==   \* mutant: rot.mode not compared before the call
    /\ changed_handle' = FALSE
    /\ IF changed_handle /\ rot.cb_set
       THEN Call(changed_m, changed_data) /\ rot' = [rot EXCEPT !.mode = changed_m]
       ELSE UNCHANGED <<rot, toldVars>>
    /\ UNCHANGED <<changed_m, changed_data>>

PropertyKeepsHandler ==   \* mutant: changed_handle is not deleted
    /\ IF changed_handle /\ rot.cb_set /\ rot.mode # changed_m
       THEN Call(changed_m, changed_data) /\ rot' = [rot EXCEPT !.mode = changed_m]
       ELSE UNCHANGED <<rot, toldVars>>
    /\ UNCHANGED <<changed_m, changed_data, changed_handle>>

(***************************************************************************)
(* __property, if it is installed: deliver what was put off, once.  It     *)
(* looks neither at the lock of the user nor at the new property value.    *)
(***************************************************************************)
Property ==
    /\ changed_handle' = FALSE
    /\ \/ /\ changed_handle /\ rot.cb_set /\ rot.mode # changed_m
          /\ Call(changed_m, changed_data)
          /\ rot' = [rot EXCEPT !.mode = changed_m]
       \/ /\ ~changed_handle \/ ~rot.cb_set \/ rot.mode = changed_m
          /\ UNCHANGED <<rot, toldVars>>
    /\ UNCHANGED <<changed_m, changed_data>>

DispatchProperty ==
    /\ propq > 0
    /\ propq' = propq - 1
    /\ Property
    /\ UNCHANGED <<sensorVars, sfq, lockVars, lockq, selected, envVars, sets>>
-----------------------------------------------------------------------------
(***************************************************************************)
(* The device is turned; the user and the window manager lock and unlock.  *)
(***************************************************************************)
Rotate(code) ==
    /\ code # orient
    /\ orient' = code
    /\ IF registered \cap started # {}
       THEN Len(sfq) < MaxEvents /\ sfq' = Append(sfq, code)
       ELSE UNCHANGED sfq
    /\ UNCHANGED <<rotVars, sensorVars, lockVars, lockq, selected, propq, toldVars, setting,
                   wmlock, sets>>

UserLocks ==
    /\ setting' = ~setting
    /\ lockq' = (lockq \/ listening)
    /\ UNCHANGED <<rotVars, sensorVars, sfq, lockVars, selected, propq, toldVars, orient,
                   wmlock, sets>>

WmChanges ==
    /\ WmLocks
    /\ wmlock' = ~wmlock
    /\ IF selected THEN propq < MaxProps /\ propq' = propq + 1 ELSE UNCHANGED propq
    /\ UNCHANGED <<rotVars, sensorVars, sfq, lockVars, lockq, selected, toldVars, orient,
                   setting, sets>>

Environment == (\E code \in Codes : Rotate(code)) \/ UserLocks \/ WmChanges

Api == \/ \E c \in Clients : SetRotation(c)
       \/ SetRotationFails
       \/ UnsetRotation
       \/ PauseRotation
       \/ ResumeRotation
       \/ ResumeRotationFails

Dispatch == DispatchSensor \/ DispatchLock \/ DispatchProperty

Next == Api \/ Dispatch \/ Environment

Spec == Init /\ [][Next]_vars

(***************************************************************************)
(* The main loop dispatches what is queued.                                *)
(***************************************************************************)
FairSpec == Spec /\ WF_vars(DispatchSensor) /\ WF_vars(DispatchLock) /\ WF_vars(DispatchProperty)
-----------------------------------------------------------------------------
(***************************************************************************)
(* cb_set is what guards the calls of rot.callback in __property: it is    *)
(* only set while there is a callback to call and the sensor knows it, on  *)
(* a connection that is rot's, whichever calls failed on the way.          *)
(***************************************************************************)
CallbackSafe == /\ rot.cb_set => rot.callback # NULL /\ rot.handle \in registered
                /\ rot.callback # NULL => rot.handle \in connected

(***************************************************************************)
(* When no call fails, a process without a rotation callback holds no      *)
(* sensor connection and watches no lock.                                  *)
(***************************************************************************)
ReleasedWhenUnset == ~SfMayFail /\ rot.callback = NULL =>
    /\ connected = {} /\ registered = {} /\ started = {}
    /\ ~listening /\ ~lockq

(***************************************************************************)
(* Once everything in flight is handled, nothing is locked or put off and  *)
(* the callback has been called at all, it has been told how the device is *)
(* held: turning the device while locked, while put off, or several times  *)
(* in a row loses no change.                                               *)
(***************************************************************************)
UpToDate ==
    sfq = <<>> /\ ~lockq /\ rot.cb_set /\ ~rot.lock /\ ~changed_handle /\ toldnow
        => told.mode = GetMode(orient)

(***************************************************************************)
(* A change that was put off is waiting for a property event that is on    *)
(* its way or still has to come.                                           *)
(***************************************************************************)
DeferralWillEnd == changed_handle => wmlock \/ propq > 0

(***************************************************************************)
(* Locks the rotation mode, the registered callback is not invoked: while  *)
(* the user's lock is on and app-core knows it, no call is made.           *)
(***************************************************************************)
LockedIsQuiet == [][setting /\ ~lockq /\ listening => UNCHANGED told]_vars

(***************************************************************************)
(* A device held still, with both locks off and the callback registered,   *)
(* is a device whose mode the application knows or was never told of.      *)
(***************************************************************************)
EventuallyTold ==
    \A code \in Codes :
        <>[](orient = code /\ rot.cb_set /\ ~setting /\ ~wmlock /\ toldnow)
            => <>[](told.mode = GetMode(code))

(***************************************************************************)
(* appcore_set_rotation_cb takes a callback and the data to call it with:  *)
(* a callback never gets the data of another registration.                 *)
(***************************************************************************)
OwnData == told.data = told.callback

(***************************************************************************)
(* The service keeps its promise: every call of a callback is one of the   *)
(* registered client, from its registration to its end, and with a mode    *)
(* that this registration was not told last, whichever calls fail, what    *)
(* was put off or left behind by an earlier registration, and whoever      *)
(* pauses, resumes, unsets or sets the callback in between.                *)
(***************************************************************************)
Promise == INSTANCE RotationPromise WITH
    client <- rot.callback,
    told   <- [callback |-> told.callback, mode |-> told.mode, nth |-> told.nth]

KeepsPromise == Promise!Spec
=============================================================================
