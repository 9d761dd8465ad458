--------------------------- MODULE RotationProofs ---------------------------
(***************************************************************************)
(* Theorems about Rotation for every number of clients and sensor handles, *)
(* every code the sensor may report and every bound on what is in flight.  *)
(***************************************************************************)
EXTENDS Rotation, SequenceTheorems, TLAPS

(***************************************************************************)
(* __get_mode always gives a mode.                                         *)
(***************************************************************************)
LEMMA ModeOfCode == \A code : GetMode(code) \in Modes
BY DEF GetMode, Modes

(***************************************************************************)
(* The initial state has the types.                                        *)
(***************************************************************************)
LEMMA TypeInit == Init => RotTypeOK
<1> SUFFICES ASSUME Init PROVE RotTypeOK
    OBVIOUS
<1>1. "UNKNOWN" \in Modes
      BY DEF Modes
<1>2. rot \in RotRecord
      BY <1>1 DEF Init, RotRecord
<1>3. DeferTypeOK /\ SensorTypeOK /\ LockTypeOK
      BY <1>1 DEF Init, DeferTypeOK, SensorTypeOK, LockTypeOK
<1>4. XTypeOK
  <2>1. selected \in BOOLEAN
        BY DEF Init
  <2>2. propq \in 0..MaxProps
        BY RotationAssumption DEF Init
  <2> QED BY <2>1, <2>2 DEF XTypeOK
<1>7. EnvTypeOK
      BY DEF Init, EnvTypeOK
<1>5. ToldTypeOK
      BY <1>1 DEF Init, ToldTypeOK, ToldRecord
<1>6. sfq \in Seq(Codes) /\ sets \in 0..MaxSets
      BY RotationAssumption DEF Init
<1> QED BY <1>2, <1>3, <1>4, <1>5, <1>6, <1>7 DEF RotTypeOK

(***************************************************************************)
(* What a step leaves alone keeps its type.                                *)
(***************************************************************************)
LEMMA UnchangedTypes ==
  ASSUME RotTypeOK
  PROVE  /\ UNCHANGED rot => rot' \in RotRecord
         /\ UNCHANGED <<changed_m, changed_data, changed_handle>> => DeferTypeOK'
         /\ UNCHANGED sensorVars => SensorTypeOK'
         /\ UNCHANGED sfq => sfq' \in Seq(Codes)
         /\ UNCHANGED <<lockVars, lockq>> => LockTypeOK'
         /\ UNCHANGED <<selected, propq>> => XTypeOK'
         /\ UNCHANGED toldVars => ToldTypeOK'
         /\ UNCHANGED envVars => EnvTypeOK'
         /\ UNCHANGED sets => sets' \in 0..MaxSets
BY DEF RotTypeOK, DeferTypeOK, SensorTypeOK, LockTypeOK, XTypeOK, ToldTypeOK, EnvTypeOK,
       sensorVars, lockVars, toldVars, envVars

(***************************************************************************)
(* A call of the callback.                                                 *)
(***************************************************************************)
LEMMA CallTypes ==
  ASSUME rot \in RotRecord, ToldTypeOK,
         NEW m \in Modes, NEW data \in Clients \cup {NULL}, Call(m, data)
  PROVE  ToldTypeOK'
BY DEF RotRecord, Call, ToldTypeOK, ToldRecord

(***************************************************************************)
(* __del_rotlock keeps the types of what vconf knows.                      *)
(***************************************************************************)
LEMMA DelRotlockTypes == ASSUME RotTypeOK, DelRotlock PROVE LockTypeOK'
BY DEF RotTypeOK, LockTypeOK, DelRotlock

(***************************************************************************)
(* Every operation of the API keeps the types.                             *)
(***************************************************************************)
LEMMA TypeApi == ASSUME RotTypeOK, CallbackSafe, Api PROVE RotTypeOK'
<1> USE DEF RotTypeOK
<1>1. ASSUME NEW c \in Clients, SetRotation(c) PROVE RotTypeOK'
  <2>1. rot' \in RotRecord
        BY <1>1 DEF SetRotation, RotRecord, LockRead, EnvTypeOK
  <2>2. SensorTypeOK'
        BY <1>1 DEF SetRotation, SfRegister, SensorTypeOK
  <2>3. LockTypeOK'
        BY <1>1 DEF SetRotation, AddRotlock, lockVars, LockTypeOK
  <2>4. XTypeOK' /\ ToldTypeOK'
        BY <1>1 DEF SetRotation, XTypeOK, ToldTypeOK
  <2>5. sets' \in 0..MaxSets
        BY <1>1, RotationAssumption DEF SetRotation
  <2> QED BY <1>1, <2>1, <2>2, <2>3, <2>4, <2>5, UnchangedTypes DEF SetRotation
<1>2. CASE SetRotationFails
  <2>1. rot' \in RotRecord
        BY <1>2 DEF SetRotationFails, RotRecord
  <2>2. SensorTypeOK'
        BY <1>2 DEF SetRotationFails, SensorTypeOK
  <2> QED BY <1>2, <2>1, <2>2, UnchangedTypes DEF SetRotationFails
<1>3. CASE UnsetRotation
  <2>1. rot' \in RotRecord
        BY <1>3 DEF UnsetRotation, UnregisterRefused, Forgotten, RotRecord
  <2>2. SensorTypeOK'
        BY <1>3 DEF UnsetRotation, UnregisterRefused, Unregister, SfUnregister, SfDisconnect,
                    Stop, sensorVars, SensorTypeOK
  <2>3. sfq' \in Seq(Codes)
    <3> <<>> \in Seq(Codes)
        OBVIOUS
    <3>1. CASE UnregisterRefused
          BY <3>1 DEF UnregisterRefused
    <3>2. CASE Unregister
          BY <3>2 DEF Unregister, SfUnregister
    <3>3. CASE SfDisconnect(rot.handle)
          BY <3>3 DEF SfDisconnect, SfUnregister
    <3> QED BY <1>3, <3>1, <3>2, <3>3 DEF UnsetRotation
  <2> QED BY <1>3, <2>1, <2>2, <2>3, UnchangedTypes, DelRotlockTypes DEF UnsetRotation
<1>4. CASE PauseRotation
  <2>1. rot' \in RotRecord
        BY <1>4 DEF PauseRotation, UnregisterRefused, RotRecord
  <2>2. SensorTypeOK'
        BY <1>4 DEF PauseRotation, UnregisterRefused, Unregister, SfUnregister, Stop,
                    sensorVars, SensorTypeOK
  <2>3. sfq' \in Seq(Codes)
    <3> <<>> \in Seq(Codes)
        OBVIOUS
    <3>1. CASE UnregisterRefused
          BY <3>1 DEF UnregisterRefused
    <3>2. CASE Unregister
          BY <3>2 DEF Unregister, SfUnregister
    <3> QED BY <1>4, <3>1, <3>2 DEF PauseRotation
  <2> QED BY <1>4, <2>1, <2>2, <2>3, UnchangedTypes, DelRotlockTypes DEF PauseRotation
<1>5. CASE ResumeRotation
  <2>1. rot' \in RotRecord
    <3>1. PICK lock \in LockRead : TellMissed(lock)
          BY <1>5 DEF ResumeRotation
    <3>2. lock \in BOOLEAN
          BY DEF LockRead, EnvTypeOK
    <3>3. \A m \in Modes : Resumed(lock, m) \in RotRecord
          BY <3>2 DEF Resumed, RotRecord
    <3>4. rot.mode \in Modes
          BY DEF RotRecord
    <3> QED BY <3>1, <3>3, <3>4, ModeOfCode DEF TellMissed
  <2>2. SensorTypeOK'
    <3>1. rot.handle \in Handles
          BY <1>5 DEF ResumeRotation, CallbackSafe, SensorTypeOK
    <3> QED BY <1>5, <3>1 DEF ResumeRotation, SfRegister, RotRecord, SensorTypeOK
  <2>3. LockTypeOK'
        BY <1>5 DEF ResumeRotation, AddRotlock, lockVars, LockTypeOK, RotRecord
  <2>4. ToldTypeOK'
        BY <1>5, ModeOfCode, CallTypes, UnchangedTypes DEF ResumeRotation, TellMissed, RotRecord
  <2> QED BY <1>5, <2>1, <2>2, <2>3, <2>4, UnchangedTypes DEF ResumeRotation
<1>6. CASE ResumeRotationFails
  <2>1. rot' \in RotRecord
        BY <1>6 DEF ResumeRotationFails, RotRecord
  <2>2. SensorTypeOK' /\ sfq' \in Seq(Codes)
    <3>1. rot.handle \in Handles /\ <<>> \in Seq(Codes)
          BY <1>6 DEF ResumeRotationFails, CallbackSafe, SensorTypeOK
    <3>2. sfq' \in Seq(Codes)
          BY <1>6, <3>1 DEF ResumeRotationFails, SfUnregister
    <3>3. registered' \subseteq Handles
          BY <1>6, <3>1 DEF ResumeRotationFails, SfUnregister, SensorTypeOK
    <3>4. sfdata' \in Clients \cup {NULL}
          BY <1>6 DEF ResumeRotationFails, RotRecord, SensorTypeOK
    <3> QED BY <1>6, <3>2, <3>3, <3>4 DEF ResumeRotationFails, SensorTypeOK
  <2> QED BY <1>6, <2>1, <2>2, UnchangedTypes DEF ResumeRotationFails
<1> QED BY <1>1, <1>2, <1>3, <1>4, <1>5, <1>6 DEF Api

(***************************************************************************)
(* So does every handler, and everything the services do.                  *)
(***************************************************************************)
LEMMA TypeDispatch == ASSUME RotTypeOK, Dispatch \/ Environment PROVE RotTypeOK'
<1> USE DEF RotTypeOK
<1>1. CASE DispatchSensor
  <2>1. Head(sfq) \in Codes /\ Tail(sfq) \in Seq(Codes)
        BY <1>1 DEF DispatchSensor
  <2>2. ChangedCb(Head(sfq), sfdata) /\ sfdata \in Clients \cup {NULL}
        BY <1>1 DEF DispatchSensor, SensorTypeOK
  <2>3. rot' \in RotRecord
        BY <2>2, ModeOfCode DEF ChangedCb, rotVars, RotRecord
  <2>4. DeferTypeOK'
        BY <2>2, ModeOfCode DEF ChangedCb, Defer, rotVars, DeferTypeOK
  <2>5. ToldTypeOK'
        BY <2>2, ModeOfCode, CallTypes, UnchangedTypes DEF ChangedCb
  <2> QED BY <1>1, <2>1, <2>3, <2>4, <2>5, UnchangedTypes DEF DispatchSensor
<1>2. CASE DispatchLock
  <2>1. LockCb(lockdata) /\ lockdata \in Clients \cup {NULL}
        BY <1>2 DEF DispatchLock, LockTypeOK
  <2>2. rot' \in RotRecord
    <3> DEFINE now == [rot EXCEPT !.lock = setting]
    <3>1. rot' = now \/ rot' = [now EXCEPT !.mode = GetMode(orient)]
          BY <2>1 DEF LockCb
    <3>2. now \in RotRecord
          BY DEF RotRecord, EnvTypeOK
    <3>3. \A m \in Modes : [now EXCEPT !.mode = m] \in RotRecord
          BY <3>2 DEF RotRecord
    <3> HIDE DEF now
    <3> QED BY <3>1, <3>2, <3>3, ModeOfCode
  <2>3. DeferTypeOK'
        BY <2>1, ModeOfCode DEF LockCb, Defer, DeferTypeOK
  <2>4. ToldTypeOK'
        BY <2>1, ModeOfCode, CallTypes, UnchangedTypes DEF LockCb
  <2>5. LockTypeOK'
        BY <1>2 DEF DispatchLock, lockVars, LockTypeOK
  <2> QED BY <1>2, <2>2, <2>3, <2>4, <2>5, UnchangedTypes DEF DispatchLock
<1>3. CASE DispatchProperty
  <2>1. rot' \in RotRecord
        BY <1>3 DEF DispatchProperty, Property, RotRecord, DeferTypeOK
  <2>2. DeferTypeOK'
        BY <1>3 DEF DispatchProperty, Property, DeferTypeOK
  <2>3. ToldTypeOK'
        BY <1>3, CallTypes, UnchangedTypes DEF DispatchProperty, Property, DeferTypeOK
  <2>4. XTypeOK'
        BY <1>3, RotationAssumption DEF DispatchProperty, XTypeOK
  <2> QED BY <1>3, <2>1, <2>2, <2>3, <2>4, UnchangedTypes DEF DispatchProperty
<1>4. ASSUME NEW code \in Codes, Rotate(code) PROVE RotTypeOK'
  <2>1. sfq' \in Seq(Codes)
        BY <1>4 DEF Rotate
  <2>2. EnvTypeOK'
        BY <1>4 DEF Rotate, EnvTypeOK
  <2> QED BY <1>4, <2>1, <2>2, UnchangedTypes DEF Rotate, rotVars
<1>5. CASE UserLocks
  <2>1. LockTypeOK'
    <3>1. lockq' \in BOOLEAN
          BY <1>5 DEF UserLocks
    <3>2. UNCHANGED lockVars
          BY <1>5 DEF UserLocks
    <3> QED BY <3>1, <3>2 DEF lockVars, LockTypeOK
  <2>2. EnvTypeOK'
        BY <1>5 DEF UserLocks, EnvTypeOK
  <2> QED BY <1>5, <2>1, <2>2, UnchangedTypes DEF UserLocks, rotVars
<1>6. CASE WmChanges
  <2>1. XTypeOK'
        BY <1>6, RotationAssumption DEF WmChanges, XTypeOK
  <2>2. EnvTypeOK'
        BY <1>6 DEF WmChanges, EnvTypeOK
  <2> QED BY <1>6, <2>1, <2>2, UnchangedTypes DEF WmChanges, rotVars
<1> QED BY <1>1, <1>2, <1>3, <1>4, <1>5, <1>6 DEF Dispatch, Environment
-----------------------------------------------------------------------------
(***************************************************************************)
(* CallbackSafe is inductive given the types: an operation that gives up   *)
(* the sensor clears cb_set with it, and the connection is only given up   *)
(* together with the callback.                                             *)
(***************************************************************************)
LEMMA SafeStep == ASSUME RotTypeOK, CallbackSafe, Next PROVE CallbackSafe'
<1> USE DEF CallbackSafe
<1>0. rot \in RotRecord
      BY DEF RotTypeOK
<1>1. ASSUME NEW c \in Clients, SetRotation(c) PROVE CallbackSafe'
      BY <1>0, <1>1, RotationAssumption DEF SetRotation, SfRegister, RotRecord
<1>2. CASE SetRotationFails
      BY <1>0, <1>2 DEF SetRotationFails, RotRecord
<1>3. CASE UnsetRotation
  <2>1. CASE UnregisterRefused
        BY <1>0, <2>1 DEF UnregisterRefused, sensorVars, RotRecord
  <2>2. CASE ~rot'.cb_set /\ rot'.callback = NULL
        BY <2>2
  <2> QED BY <1>0, <1>3, <2>1, <2>2 DEF UnsetRotation, Forgotten, RotRecord
<1>4. CASE PauseRotation
  <2>1. CASE UnregisterRefused
        BY <1>0, <2>1 DEF UnregisterRefused, sensorVars, RotRecord
  <2>2. CASE ~rot'.cb_set /\ UNCHANGED <<connected, rot.callback, rot.handle>>
        BY <2>2
  <2> QED BY <1>0, <1>4, <2>1, <2>2 DEF PauseRotation, RotRecord
<1>5. CASE ResumeRotation
  <2>1. rot'.callback = rot.callback /\ rot'.handle = rot.handle
        BY <1>0, <1>5 DEF ResumeRotation, TellMissed, Resumed, RotRecord
  <2>2. rot.handle \in registered'
        BY <1>5 DEF ResumeRotation, SfRegister
  <2>3. rot.callback # NULL /\ connected' = connected
        BY <1>5 DEF ResumeRotation
  <2> QED BY <2>1, <2>2, <2>3
<1>6. CASE ResumeRotationFails
      BY <1>0, <1>6 DEF ResumeRotationFails, RotRecord
<1>7. CASE Dispatch \/ Environment
  <2>1. UNCHANGED <<connected, registered, rot.cb_set, rot.callback, rot.handle>>
    <3>1. CASE DispatchSensor
          BY <1>0, <3>1 DEF DispatchSensor, ChangedCb, rotVars, sensorVars, RotRecord
    <3>2. CASE DispatchLock
          BY <1>0, <3>2 DEF DispatchLock, LockCb, sensorVars, RotRecord
    <3>3. CASE DispatchProperty
          BY <1>0, <3>3 DEF DispatchProperty, Property, sensorVars, RotRecord
    <3>4. CASE Environment
          BY <3>4 DEF Environment, Rotate, UserLocks, WmChanges, rotVars, sensorVars
    <3> QED BY <1>7, <3>1, <3>2, <3>3, <3>4 DEF Dispatch
  <2> QED BY <2>1
<1> QED BY <1>1, <1>2, <1>3, <1>4, <1>5, <1>6, <1>7 DEF Next, Api

(***************************************************************************)
(* A step that changes nothing of the model keeps both.                    *)
(***************************************************************************)
LEMMA UnchangedSafe ==
  ASSUME RotTypeOK, CallbackSafe, UNCHANGED vars PROVE RotTypeOK' /\ CallbackSafe'
<1>1. RotTypeOK'
      BY UnchangedTypes DEF vars, rotVars, RotTypeOK
<1>2. CallbackSafe'
      BY DEF vars, rotVars, sensorVars, CallbackSafe
<1> QED BY <1>1, <1>2

(***************************************************************************)
(* Types, and the safety of every call of the application's callback:      *)
(* whichever calls to the sensor framework fail, in set, unset, pause or   *)
(* resume, an event never finds cb_set without a callback, and rot never   *)
(* uses a connection it does not hold.                                     *)
(***************************************************************************)
THEOREM RotationSafe == Spec => [](RotTypeOK /\ CallbackSafe)
<1>1. Init => CallbackSafe
      BY DEF Init, CallbackSafe
<1>2. RotTypeOK /\ CallbackSafe /\ [Next]_vars => RotTypeOK' /\ CallbackSafe'
      BY TypeApi, TypeDispatch, SafeStep, UnchangedSafe DEF Next
<1> QED BY TypeInit, <1>1, <1>2, PTL DEF Spec

(***************************************************************************)
(* rot only ever holds what the code stores in it: a mode the table knows, *)
(* a callback the application gave, a lock value of vconf.                 *)
(***************************************************************************)
THEOREM RotationTyped == Spec => []RotTypeOK
<1> QED BY RotationSafe, PTL
-----------------------------------------------------------------------------
(***************************************************************************)
(* What rot holds of the sensor framework when no call fails: exactly one  *)
(* connection while there is a callback, registered while cb_set, and none *)
(* otherwise; a pending lock change needs a watched lock.                  *)
(***************************************************************************)
Holdings == ~SfMayFail =>
    /\ rot.callback = NULL => /\ connected = {} /\ registered = {} /\ started = {}
                              /\ ~listening
    /\ rot.callback # NULL => /\ connected = {rot.handle}
                              /\ registered = IF rot.cb_set THEN {rot.handle} ELSE {}
                              /\ started \subseteq {rot.handle}
    /\ lockq => listening

(***************************************************************************)
(* Every step keeps it: each call that takes something is undone by one    *)
(* call of unset, and pause and resume take and give in pairs.             *)
(***************************************************************************)
LEMMA HoldingsStep == ASSUME RotTypeOK, CallbackSafe, Holdings, Next PROVE Holdings'
<1> SUFFICES ASSUME ~SfMayFail PROVE Holdings'
    BY DEF Holdings
<1>0. rot \in RotRecord
      BY DEF RotTypeOK
<1>1. ASSUME NEW c \in Clients, SetRotation(c) PROVE Holdings'
      BY <1>0, <1>1, RotationAssumption
      DEF SetRotation, SfRegister, AddRotlock, RotRecord, Holdings
<1>h. rot.callback # NULL => /\ connected = {rot.handle}
                             /\ registered = IF rot.cb_set THEN {rot.handle} ELSE {}
                             /\ started \subseteq {rot.handle}
      BY DEF Holdings
<1>2. ASSUME UnsetRotation PROVE Holdings'
  <2>1. rot' = Forgotten(FALSE, NoHandle) /\ registered' = registered \ {rot.handle}
        /\ started' = started \ {rot.handle} /\ connected' = connected \ {rot.handle}
        BY <1>2 DEF UnsetRotation, UnregisterRefused, StopRefused, Stop, SfDisconnect,
                    SfUnregister
  <2>2. rot'.callback = NULL
        BY <1>0, <2>1 DEF Forgotten, RotRecord
  <2>3. rot.callback # NULL /\ ~listening' /\ ~lockq'
        BY <1>2 DEF UnsetRotation, DelRotlock
  <2>4. connected' = {} /\ started' = {} /\ registered' = {}
        BY <1>h, <2>1, <2>3
  <2> QED BY <2>2, <2>3, <2>4 DEF Holdings
<1>3. ASSUME PauseRotation PROVE Holdings'
  <2>1. rot' = [rot EXCEPT !.lock = FALSE, !.cb_set = FALSE, !.sf_started = FALSE]
        /\ Unregister /\ started' = started \ {rot.handle} /\ connected' = connected
        BY <1>3 DEF PauseRotation, UnregisterRefused, StopRefused, Stop
  <2>2. rot'.callback = rot.callback /\ rot'.handle = rot.handle /\ ~rot'.cb_set
        BY <1>0, <2>1 DEF RotRecord
  <2>3. rot.callback # NULL /\ ~lockq'
        BY <1>3 DEF PauseRotation, DelRotlock
  <2>4. registered' = {}
    <3>1. CASE rot.cb_set
          BY <1>h, <2>1, <2>3, <3>1 DEF Unregister, SfUnregister
    <3>2. CASE ~rot.cb_set
          BY <1>h, <2>1, <2>3, <3>2 DEF Unregister
    <3> QED BY <3>1, <3>2
  <2>5. connected' = {rot.handle} /\ started' \subseteq {rot.handle}
        BY <1>h, <2>1, <2>3
  <2> QED BY <2>2, <2>3, <2>4, <2>5 DEF Holdings
<1>4. ASSUME ResumeRotation PROVE Holdings'
  <2>1. rot'.callback = rot.callback /\ rot'.handle = rot.handle /\ rot'.cb_set
        BY <1>0, <1>4 DEF ResumeRotation, TellMissed, Resumed, RotRecord
  <2>2. connected' = connected /\ started' = started \cup {rot.handle}
        BY <1>4 DEF ResumeRotation
  <2>3. rot.callback # NULL /\ listening'
        BY <1>4 DEF ResumeRotation, AddRotlock
  <2>4. registered' = {rot.handle}
    <3>1. CASE rot.cb_set
          BY <1>4, <1>h, <2>3, <3>1 DEF ResumeRotation
    <3>2. CASE ~rot.cb_set
          BY <1>4, <1>h, <2>3, <3>2 DEF ResumeRotation, SfRegister
    <3> QED BY <3>1, <3>2
  <2>5. started' \subseteq {rot.handle}
        BY <1>h, <2>2, <2>3
  <2> QED BY <1>h, <2>1, <2>2, <2>3, <2>4, <2>5 DEF Holdings
<1>5. ASSUME Dispatch \/ Environment PROVE Holdings'
  <2>1. UNCHANGED <<connected, registered, started, listening, rot.cb_set, rot.callback,
                    rot.handle>>
    <3>1. CASE DispatchSensor
          BY <1>0, <3>1 DEF DispatchSensor, ChangedCb, rotVars, sensorVars, lockVars, RotRecord
    <3>2. CASE DispatchLock
          BY <1>0, <3>2 DEF DispatchLock, LockCb, sensorVars, lockVars, RotRecord
    <3>3. CASE DispatchProperty
          BY <1>0, <3>3 DEF DispatchProperty, Property, sensorVars, lockVars, RotRecord
    <3>4. CASE Environment
          BY <3>4 DEF Environment, Rotate, UserLocks, WmChanges, rotVars, sensorVars, lockVars
    <3> QED BY <1>5, <3>1, <3>2, <3>3, <3>4 DEF Dispatch
  <2>2. lockq' => lockq \/ listening
        BY <1>5 DEF Dispatch, DispatchSensor, DispatchLock, DispatchProperty, Environment,
                    Rotate, UserLocks, WmChanges
  <2> QED BY <2>1, <2>2 DEF Holdings
<1> QED BY <1>1, <1>2, <1>3, <1>4, <1>5
        DEF Next, Api, SetRotationFails, ResumeRotationFails

LEMMA HoldingsHold == Spec => []Holdings
<1>1. Init => Holdings
  <2> SUFFICES ASSUME Init PROVE Holdings
      OBVIOUS
  <2>1. rot.callback = NULL /\ connected = {} /\ registered = {} /\ started = {}
        /\ ~listening /\ ~lockq
        BY DEF Init
  <2> QED BY <2>1 DEF Holdings
<1>2. RotTypeOK /\ CallbackSafe /\ Holdings /\ [Next]_vars => Holdings'
  <2> SUFFICES ASSUME RotTypeOK, CallbackSafe, Holdings, [Next]_vars PROVE Holdings'
      OBVIOUS
  <2>1. CASE UNCHANGED vars
    <3>1. UNCHANGED <<rot, connected, registered, started, listening, lockq>>
          BY <2>1 DEF vars, rotVars, sensorVars, lockVars
    <3> QED BY <3>1 DEF Holdings
  <2> QED BY <2>1, HoldingsStep
<1> QED BY RotationSafe, <1>1, <1>2, PTL DEF Spec

(***************************************************************************)
(* Unsetting the rotation callback gives everything back, provided no call *)
(* to the sensor framework fails.                                          *)
(***************************************************************************)
THEOREM RotationReleased == Spec => []ReleasedWhenUnset
<1>1. Holdings => ReleasedWhenUnset
      BY DEF Holdings, ReleasedWhenUnset
<1> QED BY HoldingsHold, <1>1, PTL
-----------------------------------------------------------------------------
(***************************************************************************)
(* Why a change that was put off cannot be forgotten: it is only put off   *)
(* while the window manager's lock is on, by then its changes are reported *)
(* (selected), and the event of its release is the one waited for.         *)
(***************************************************************************)
DeferInv == /\ rot.callback # NULL => selected
            /\ changed_handle => selected /\ (wmlock \/ propq > 0)

(***************************************************************************)
(* Every step keeps it, if __lock_cb never defers.                         *)
(***************************************************************************)
LEMMA DeferStep ==
  ASSUME GarbageValues = {0}, RotTypeOK, CallbackSafe, DeferInv, Next PROVE DeferInv'
<1>0. rot \in RotRecord /\ propq \in Nat
      BY RotationAssumption DEF RotTypeOK, XTypeOK
<1>1. CASE Api
  <2>1. UNCHANGED <<changed_handle, wmlock, propq>>
        BY <1>1 DEF Api, SetRotation, SetRotationFails, UnsetRotation, PauseRotation,
                    ResumeRotation, ResumeRotationFails, envVars
  <2>2. rot'.callback # NULL => selected'
    <3>1. ASSUME NEW c \in Clients, SetRotation(c) PROVE selected'
          BY <3>1 DEF SetRotation
    <3>2. CASE SetRotationFails
          BY <1>0, <3>2 DEF SetRotationFails, RotRecord
    <3>3. CASE UnsetRotation
          BY <3>3 DEF UnsetRotation, DeferInv
    <3>4. CASE PauseRotation
          BY <3>4 DEF PauseRotation, DeferInv
    <3>5. CASE ResumeRotation
          BY <3>5 DEF ResumeRotation, DeferInv
    <3>6. CASE ResumeRotationFails
          BY <3>6 DEF ResumeRotationFails, DeferInv
    <3> QED BY <1>1, <3>1, <3>2, <3>3, <3>4, <3>5, <3>6 DEF Api
  <2>3. selected => selected'
        BY <1>1 DEF Api, SetRotation, SetRotationFails, UnsetRotation, PauseRotation,
                    ResumeRotation, ResumeRotationFails
  <2> QED BY <2>1, <2>2, <2>3 DEF DeferInv
<1>2. CASE DispatchSensor
  <2>1. UNCHANGED <<selected, wmlock, propq>>
        BY <1>2 DEF DispatchSensor, envVars
  <2>2. rot'.callback = rot.callback
        BY <1>0, <1>2 DEF DispatchSensor, ChangedCb, rotVars, RotRecord
  <2>3. changed_handle' => changed_handle \/ (rot.callback # NULL /\ wmlock)
        BY <1>2 DEF DispatchSensor, ChangedCb, rotVars, Defer
  <2> QED BY <2>1, <2>2, <2>3 DEF DeferInv
<1>3. CASE DispatchLock
  <2>1. UNCHANGED <<selected, wmlock, propq>>
        BY <1>3 DEF DispatchLock, envVars
  <2>2. rot'.callback = rot.callback
        BY <1>0, <1>3 DEF DispatchLock, LockCb, RotRecord
  <2>3. changed_handle' = changed_handle
        BY <1>3 DEF DispatchLock, LockCb
  <2> QED BY <2>1, <2>2, <2>3 DEF DeferInv
<1>4. CASE DispatchProperty
      BY <1>0, <1>4 DEF DispatchProperty, Property, RotRecord, DeferInv
<1>5. CASE Environment
  <2>1. UNCHANGED <<rot, changed_handle, selected>>
        BY <1>5 DEF Environment, Rotate, UserLocks, WmChanges, rotVars
  <2>2. (wmlock \/ propq > 0) /\ selected => (wmlock' \/ propq' > 0)
    <3>1. CASE WmChanges
          BY <1>0, <3>1 DEF WmChanges
    <3>2. CASE UNCHANGED <<wmlock, propq>>
          BY <3>2
    <3> QED BY <1>5, <3>1, <3>2 DEF Environment, Rotate, UserLocks
  <2> QED BY <2>1, <2>2 DEF DeferInv
<1> QED BY <1>1, <1>2, <1>3, <1>4, <1>5 DEF Next, Dispatch

(***************************************************************************)
(* A change that was put off has its end on the way: never is a __property *)
(* handler installed that no event is going to run.  This needs the lucky  *)
(* value of val in __lock_cb: with any other, the run ClaimLockCallback    *)
(* shows it fail.                                                          *)
(***************************************************************************)
THEOREM DeferralEnds == ASSUME GarbageValues = {0} PROVE Spec => []DeferralWillEnd
<1>1. Init => DeferInv
      BY DEF Init, DeferInv
<1>2. RotTypeOK /\ CallbackSafe /\ DeferInv /\ [Next]_vars => DeferInv'
  <2> SUFFICES ASSUME RotTypeOK, CallbackSafe, DeferInv, [Next]_vars PROVE DeferInv'
      OBVIOUS
  <2>1. CASE UNCHANGED vars
        BY <2>1 DEF vars, rotVars, envVars, DeferInv
  <2> QED BY <2>1, DeferStep
<1>3. DeferInv => DeferralWillEnd
      BY DEF DeferInv, DeferralWillEnd
<1> QED BY RotationSafe, <1>1, <1>2, <1>3, PTL DEF Spec
-----------------------------------------------------------------------------
(***************************************************************************)
(* What a step means to the callback: nothing, or a call with a mode other *)
(* than rot.mode, which remembers it.  Whose data goes with the call       *)
(* depends on the handler.                                                 *)
(***************************************************************************)
Quiet == UNCHANGED <<told, toldnow, rot.mode>>

Tells(m, data) == rot.callback # NULL /\ rot.mode # m /\ Call(m, data) /\ rot'.mode = m

SameClient == UNCHANGED <<rot.callback, rot.cbdata>>

(***************************************************************************)
(* __changed_cb.                                                           *)
(***************************************************************************)
LEMMA SensorEffect ==
  ASSUME RotTypeOK, DispatchSensor
  PROVE  SameClient /\ (Quiet \/ \E m \in Modes : Tells(m, sfdata))
<1> DEFINE m == GetMode(Head(sfq))
<1>0. rot \in RotRecord /\ m \in Modes
      BY ModeOfCode DEF RotTypeOK
<1>1. ChangedCb(Head(sfq), sfdata)
      BY DEF DispatchSensor
<1>2. SameClient
      BY <1>0, <1>1 DEF ChangedCb, rotVars, SameClient, RotRecord
<1>3. Quiet \/ Tells(m, sfdata)
  <2>1. CASE UNCHANGED <<rot, toldVars>>
        BY <2>1 DEF Quiet, toldVars
  <2>2. CASE rot.callback # NULL /\ rot.mode # m /\ Call(m, sfdata)
             /\ rot' = [rot EXCEPT !.mode = m]
    <3> HIDE DEF m
    <3> QED BY <1>0, <2>2 DEF Tells, RotRecord
  <2> QED BY <1>1, <2>1, <2>2 DEF ChangedCb, rotVars
<1> HIDE DEF m
<1> QED BY <1>0, <1>2, <1>3

(***************************************************************************)
(* __lock_cb.                                                              *)
(***************************************************************************)
LEMMA LockEffect ==
  ASSUME RotTypeOK, DispatchLock
  PROVE  SameClient /\ (Quiet \/ \E m \in Modes : Tells(m, lockdata))
<1> DEFINE m == GetMode(orient)
           now == [rot EXCEPT !.lock = setting]
<1>0. rot \in RotRecord /\ m \in Modes
      BY ModeOfCode DEF RotTypeOK
<1>1. LockCb(lockdata)
      BY DEF DispatchLock
<1>2. SameClient
      BY <1>0, <1>1 DEF LockCb, SameClient, RotRecord
<1>3. Quiet \/ Tells(m, lockdata)
  <2>0. now.mode = rot.mode
        BY <1>0 DEF RotRecord
  <2>1. CASE rot' = now /\ UNCHANGED toldVars
    <3> HIDE DEF now
    <3> QED BY <2>0, <2>1 DEF Quiet, toldVars
  <2>2. CASE rot.callback # NULL /\ rot.mode # m /\ Call(m, lockdata)
             /\ rot' = [now EXCEPT !.mode = m]
    <3> HIDE DEF m
    <3>1. rot'.mode = m
          BY <1>0, <2>2 DEF RotRecord
    <3> QED BY <2>2, <3>1 DEF Tells
  <2> QED BY <1>1, <2>1, <2>2 DEF LockCb
<1> HIDE DEF m, now
<1> QED BY <1>0, <1>2, <1>3

(***************************************************************************)
(* __property.                                                             *)
(***************************************************************************)
LEMMA PropertyEffect ==
  ASSUME RotTypeOK, CallbackSafe, DispatchProperty
  PROVE  /\ SameClient
         /\ Quiet \/ (changed_handle /\ \E m \in Modes : Tells(m, changed_data))
<1>0. rot \in RotRecord /\ changed_m \in Modes
      BY DEF RotTypeOK, DeferTypeOK
<1>1. Property
      BY DEF DispatchProperty
<1>2. SameClient
      BY <1>0, <1>1 DEF Property, SameClient, RotRecord
<1>3. Quiet \/ (changed_handle /\ Tells(changed_m, changed_data))
      BY <1>0, <1>1 DEF Property, CallbackSafe, Quiet, Tells, toldVars, RotRecord
<1> QED BY <1>0, <1>2, <1>3

(***************************************************************************)
(* The end of appcore_resume_rotation_cb.                                  *)
(***************************************************************************)
LEMMA ResumeEffect ==
  ASSUME RotTypeOK, ResumeRotation
  PROVE  SameClient /\ (Quiet \/ \E m \in Modes : Tells(m, rot.cbdata))
<1>1. PICK lock \in LockRead : TellMissed(lock)
      BY DEF ResumeRotation
<1>2. \A m : /\ Resumed(lock, m).mode = m
             /\ Resumed(lock, m).callback = rot.callback
             /\ Resumed(lock, m).cbdata = rot.cbdata
      BY DEF RotTypeOK, Resumed, RotRecord
<1>3. SameClient
      BY <1>1, <1>2 DEF TellMissed, SameClient
<1>4. Quiet \/ Tells(GetMode(orient), rot.cbdata)
      BY <1>1, <1>2 DEF ResumeRotation, TellMissed, Quiet, Tells, toldVars
<1> QED BY <1>3, <1>4, ModeOfCode

(***************************************************************************)
(* The rest of the API calls nobody; nor do the device, the user and the   *)
(* window manager.                                                         *)
(***************************************************************************)
LEMMA ApiEffect ==
  ASSUME RotTypeOK, UnsetRotation \/ PauseRotation \/ SetRotationFails \/ ResumeRotationFails
  PROVE  /\ Quiet
         /\ SameClient \/ (UnsetRotation /\ rot'.callback = NULL)
                       \/ (SetRotationFails /\ rot'.callback = NULL)
<1>0. rot \in RotRecord
      BY DEF RotTypeOK
<1>1. CASE UnsetRotation
      BY <1>0, <1>1 DEF UnsetRotation, UnregisterRefused, Forgotten, Quiet, SameClient,
                        toldVars, RotRecord
<1>2. CASE PauseRotation
      BY <1>0, <1>2 DEF PauseRotation, UnregisterRefused, Quiet, SameClient, toldVars, RotRecord
<1>3. CASE SetRotationFails
      BY <1>0, <1>3 DEF SetRotationFails, Quiet, SameClient, toldVars, RotRecord
<1>4. CASE ResumeRotationFails
      BY <1>0, <1>4 DEF ResumeRotationFails, Quiet, SameClient, toldVars, RotRecord
<1> QED BY <1>1, <1>2, <1>3, <1>4

LEMMA EnvironmentEffect ==
  ASSUME Environment
  PROVE  SameClient /\ Quiet /\ UNCHANGED <<sfdata, listening, lockdata>>
<1>1. UNCHANGED <<rotVars, toldVars, sensorVars, lockVars>>
      BY DEF Environment, Rotate, UserLocks, WmChanges
<1> QED BY <1>1 DEF SameClient, Quiet, rotVars, toldVars, sensorVars, lockVars

(***************************************************************************)
(* So every step but a new registration is quiet or a call, and a new      *)
(* registration has not been called.                                       *)
(***************************************************************************)
LEMMA QuietOrTells ==
  ASSUME RotTypeOK, CallbackSafe, Next, ~\E c \in Clients : SetRotation(c)
  PROVE  Quiet \/ (SameClient /\ \E m \in Modes, data \in Clients \cup {NULL} : Tells(m, data))
<1>0. {sfdata, lockdata, changed_data, rot.cbdata} \subseteq Clients \cup {NULL}
      BY DEF RotTypeOK, RotRecord, DeferTypeOK, SensorTypeOK, LockTypeOK
<1>1. CASE UnsetRotation \/ PauseRotation \/ SetRotationFails \/ ResumeRotationFails
      BY <1>1, ApiEffect
<1>2. CASE ResumeRotation
      BY <1>0, <1>2, ResumeEffect
<1>3. CASE DispatchSensor
      BY <1>0, <1>3, SensorEffect
<1>4. CASE DispatchLock
      BY <1>0, <1>4, LockEffect
<1>5. CASE DispatchProperty
      BY <1>0, <1>5, PropertyEffect
<1>6. CASE Environment
      BY <1>6, EnvironmentEffect
<1> QED BY <1>1, <1>2, <1>3, <1>4, <1>5, <1>6 DEF Next, Api, Dispatch

(***************************************************************************)
(* rot.mode is what the registration was told last, if it was told         *)
(* anything: every call stores its mode there, and nothing else does.      *)
(***************************************************************************)
ToldIsMode == toldnow => told.mode = rot.mode

LEMMA ToldIsModeHolds == Spec => []ToldIsMode
<1>1. Init => ToldIsMode
      BY DEF Init, ToldIsMode
<1>2. RotTypeOK /\ CallbackSafe /\ ToldIsMode /\ [Next]_vars => ToldIsMode'
  <2> SUFFICES ASSUME RotTypeOK, CallbackSafe, ToldIsMode, [Next]_vars PROVE ToldIsMode'
      OBVIOUS
  <2>1. CASE UNCHANGED vars
        BY <2>1 DEF vars, rotVars, toldVars, ToldIsMode
  <2>2. ASSUME NEW c \in Clients, SetRotation(c) PROVE ToldIsMode'
        BY <2>2 DEF SetRotation, ToldIsMode
  <2>3. CASE Quiet
        BY <2>3 DEF Quiet, ToldIsMode
  <2>4. ASSUME NEW m \in Modes, NEW data, Tells(m, data) PROVE ToldIsMode'
        BY <2>4 DEF Tells, Call, ToldIsMode
  <2> QED BY <2>1, <2>2, <2>3, <2>4, QuietOrTells
<1> QED BY RotationSafe, <1>1, <1>2, PTL DEF Spec

(***************************************************************************)
(* Every step is a step of the promise, or one it does not see.            *)
(***************************************************************************)
LEMMA PromiseStep ==
  ASSUME RotTypeOK, CallbackSafe, ToldIsMode, Next
  PROVE  [Promise!Next]_(Promise!promiseVars)
<1>0. rot \in RotRecord
      BY DEF RotTypeOK
<1>1. ASSUME NEW c \in Clients, SetRotation(c) PROVE Promise!Register(c)
  <2>1. rot.callback = NULL /\ rot'.callback = c
        BY <1>0, <1>1 DEF SetRotation, RotRecord
  <2> QED BY <1>1, <2>1 DEF SetRotation, Promise!Register
<1>2. ASSUME UNCHANGED <<told, toldnow, rot.callback>> PROVE UNCHANGED Promise!promiseVars
      BY <1>2 DEF Promise!promiseVars
<1>3. CASE Quiet
  <2>1. CASE rot'.callback = rot.callback
        BY <1>2, <1>3, <2>1 DEF Quiet
  <2>2. CASE rot'.callback = NULL /\ rot.callback # NULL
        BY <1>3, <2>2 DEF Quiet, Promise!Unregister, Promise!Next
  <2>3. (\E c \in Clients : SetRotation(c)) \/ SameClient \/ rot'.callback = NULL
        BY ApiEffect, ResumeEffect, SensorEffect, LockEffect, PropertyEffect,
           EnvironmentEffect DEF Next, Api, Dispatch
  <2> QED BY <1>1, <2>1, <2>2, <2>3 DEF SameClient, Promise!Next
<1>4. ASSUME NEW m \in Modes, NEW data, SameClient, Tells(m, data) PROVE Promise!Tell(m)
  <2>1. toldnow => told.mode # m
        BY <1>4 DEF Tells, ToldIsMode
  <2> QED BY <1>4, <2>1 DEF Tells, Call, SameClient, Promise!Tell
<1> QED BY <1>1, <1>3, <1>4, QuietOrTells DEF Promise!Next

(***************************************************************************)
(* The rotation service implements RotationPromise, for any clients, codes *)
(* and handles, any bound on what is in flight, any call failing at any    *)
(* time, __lock_cb outliving its registration and any value of val         *)
(* included, with and without pause and the window manager's lock: a       *)
(* callback is called while it is registered and not otherwise, and never  *)
(* again with the mode it was told last.                                   *)
(***************************************************************************)
THEOREM RotationKeepsPromise == Spec => KeepsPromise
<1>1. Init => Promise!Init
      BY DEF Init, Promise!Init
<1>2. RotTypeOK /\ CallbackSafe /\ ToldIsMode /\ [Next]_vars
          => [Promise!Next]_(Promise!promiseVars)
  <2> SUFFICES ASSUME RotTypeOK, CallbackSafe, ToldIsMode, [Next]_vars
               PROVE  [Promise!Next]_(Promise!promiseVars)
      OBVIOUS
  <2>1. CASE UNCHANGED vars
        BY <2>1 DEF vars, rotVars, toldVars, Promise!promiseVars
  <2> QED BY <2>1, PromiseStep
<1> QED BY RotationSafe, ToldIsModeHolds, <1>1, <1>2, PTL DEF Spec, KeepsPromise, Promise!Spec
-----------------------------------------------------------------------------
(***************************************************************************)
(* Why no change is lost.  While registered, rot.mode is how the device is *)
(* held unless that is still in flight: as the last of the sensor's        *)
(* events, in the unlocking that makes __lock_cb ask the sensor, or in     *)
(* changed_m.  While not registered, nothing is in flight.                 *)
(***************************************************************************)
Following ==
    /\ sfq # <<>> => sfq[Len(sfq)] = orient
    /\ sfq = <<>> /\ ~rot.lock /\ ~lockq =>
          /\ changed_handle => changed_m = GetMode(orient)
          /\ toldnow => rot.mode = GetMode(orient) \/ changed_handle

Sources == rot.handle \in started /\ listening /\ (rot.lock # setting => lockq)

NothingInFlight == sfq = <<>> /\ ~lockq /\ ~listening

(***************************************************************************)
(* A change is only put off for the window manager's lock, and not before  *)
(* the first registration.                                                 *)
(***************************************************************************)
NoneLeft == /\ ~WmLocks => ~wmlock /\ ~changed_handle
            /\ sets = 0 => rot.callback = NULL /\ ~changed_handle

Pursuit == /\ rot.cb_set => Sources /\ Following
           /\ ~rot.cb_set => NothingInFlight
           /\ NoneLeft

(***************************************************************************)
(* What may be left of a change that was put off is the one thing a new    *)
(* registration, and a resume, do not set right: either there is none of   *)
(* them, or the window manager does not use its lock.                      *)
(***************************************************************************)
NoLeftovers == (MaxSets = 1 /\ ~PauseUsed) \/ ~WmLocks

(***************************************************************************)
(* The operations of the API: a registration finds nothing in flight and   *)
(* nothing put off, unset and pause leave nothing in flight, and resume    *)
(* asks for the mode.                                                      *)
(***************************************************************************)
LEMMA PursuitApi ==
  ASSUME NoLeftovers, ~SfMayFail, RotTypeOK, CallbackSafe, Pursuit, Api
  PROVE  Pursuit'
<1>0. rot \in RotRecord /\ sets \in 0..MaxSets /\ MaxSets \in Nat /\ NULL \notin Clients
      BY RotationAssumption DEF RotTypeOK
<1>1. ASSUME NEW c \in Clients, SetRotation(c) PROVE Pursuit'
  <2>1. rot.callback = NULL /\ ~rot.cb_set /\ sets' = sets + 1
        BY <1>1 DEF SetRotation, CallbackSafe
  <2>2. PICK h \in Handles \ connected :
          /\ started' = started \cup {h}
          /\ rot' = [rot EXCEPT !.handle = h, !.callback = c, !.cbdata = c, !.cb_set = TRUE,
                                !.sf_started = TRUE, !.lock = setting]
        BY <1>1 DEF SetRotation, LockRead
  <2>3. rot'.cb_set /\ rot'.callback = c /\ rot'.handle = h /\ rot'.lock = setting
        BY <1>0, <2>2 DEF RotRecord
  <2>4. listening' /\ UNCHANGED <<setting, wmlock>>
        BY <1>1 DEF SetRotation, AddRotlock, envVars
  <2>5. sfq' = <<>> /\ ~toldnow'
        BY <1>1, <2>1 DEF SetRotation, Pursuit, NothingInFlight
  <2>6. ~changed_handle' /\ sets' # 0
        BY <1>0, <1>1 DEF SetRotation, Pursuit, NoneLeft, NoLeftovers
  <2>7. Sources' /\ Following'
        BY <2>2, <2>3, <2>4, <2>5, <2>6 DEF Sources, Following
  <2> QED BY <2>3, <2>4, <2>6, <2>7 DEF Pursuit, NoneLeft
<1>2. CASE UnsetRotation \/ PauseRotation
  <2>1. ~rot'.cb_set
        BY <1>0, <1>2
        DEF UnsetRotation, PauseRotation, UnregisterRefused, Forgotten, RotRecord
  <2>2. ~listening' /\ ~lockq'
        BY <1>2 DEF UnsetRotation, PauseRotation, DelRotlock
  <2>3. sfq' = <<>>
    <3>1. Unregister \/ SfDisconnect(rot.handle)
          BY <1>2 DEF UnsetRotation, PauseRotation, UnregisterRefused
    <3> QED BY <3>1 DEF Unregister, SfDisconnect, SfUnregister, Pursuit, NothingInFlight
  <2>4. UNCHANGED <<wmlock, changed_handle, sets>> /\ rot.callback # NULL
        BY <1>2 DEF UnsetRotation, PauseRotation, envVars
  <2> QED BY <2>1, <2>2, <2>3, <2>4 DEF Pursuit, NothingInFlight, NoneLeft
<1>3. CASE ResumeRotation
  <2>1. ~WmLocks /\ rot.callback # NULL /\ ~changed_handle
        BY <1>3 DEF ResumeRotation, NoLeftovers, Pursuit, NoneLeft
  <2>2. TellMissed(setting)
        BY <1>3 DEF ResumeRotation, LockRead
  <2>3. /\ UNCHANGED <<changed_handle, sfq, lockq, sets, orient, setting, wmlock>>
        /\ rot.handle \in started' /\ listening'
        BY <1>3 DEF ResumeRotation, AddRotlock, envVars
  <2>4. \A m : /\ Resumed(setting, m).cb_set /\ Resumed(setting, m).lock = setting
               /\ Resumed(setting, m).mode = m
               /\ Resumed(setting, m).handle = rot.handle
        BY <1>0 DEF Resumed, RotRecord
  <2>5. \E m : rot' = Resumed(setting, m) /\ (~setting => m = GetMode(orient))
        BY <2>2 DEF TellMissed
  <2>6. rot'.cb_set /\ rot'.lock = setting /\ rot'.handle = rot.handle
        /\ (~setting => rot'.mode = GetMode(orient))
        BY <2>4, <2>5
  <2>7. sfq # <<>> => sfq[Len(sfq)] = orient
        BY DEF Pursuit, Following, NothingInFlight
  <2>8. Sources' /\ Following'
        BY <2>1, <2>3, <2>6, <2>7 DEF Sources, Following
  <2> QED BY <2>1, <2>3, <2>6, <2>8 DEF Pursuit, NoneLeft
<1> QED BY <1>1, <1>2, <1>3 DEF Api, SetRotationFails, ResumeRotationFails

(***************************************************************************)
(* Taking the oldest of several events leaves the newest.                  *)
(***************************************************************************)
LEMMA TailKeepsLast ==
  ASSUME NEW S, NEW s \in Seq(S), s # <<>>
  PROVE  /\ Tail(s) # <<>> => Tail(s)[Len(Tail(s))] = s[Len(s)]
         /\ Tail(s) = <<>> => Head(s) = s[Len(s)]
<1>1. Len(s) \in Nat \ {0} /\ Len(Tail(s)) = Len(s) - 1 /\ Tail(s) \in Seq(S)
      OBVIOUS
<1>2. CASE Tail(s) # <<>>
  <2>1. Len(Tail(s)) \in 1..Len(Tail(s))
        BY <1>1, <1>2
  <2> QED BY <1>1, <1>2, <2>1
<1>3. Len(Tail(s)) = 0 => Head(s) = s[Len(s)]
  <2>0. \A n \in Nat : n - 1 = 0 => n = 1
        OBVIOUS
  <2>1. Len(Tail(s)) = 0 => Len(s) = 1
        BY <1>1, <2>0, Zenon
  <2>2. Head(s) = s[1]
        OBVIOUS
  <2> QED BY <2>1, <2>2
<1>4. Tail(s) = <<>> => Len(Tail(s)) = 0
      BY EmptySeq
<1> QED BY <1>2, <1>3, <1>4

(***************************************************************************)
(* A callback that has just been told the mode of the device, or has no    *)
(* call put off, follows it.                                               *)
(***************************************************************************)
LEMMA PursuitSensor ==
  ASSUME RotTypeOK, CallbackSafe, Pursuit, DispatchSensor PROVE Pursuit'
<1>0. rot \in RotRecord /\ sfq \in Seq(Codes)
      BY DEF RotTypeOK
<1>1. /\ UNCHANGED <<started, listening, lockq, setting, orient, wmlock, sets>>
      /\ sfq' = Tail(sfq)
      BY DEF DispatchSensor, sensorVars, lockVars, envVars
<1>2. UNCHANGED <<rot.cb_set, rot.callback, rot.handle, rot.lock>>
      BY <1>0 DEF DispatchSensor, ChangedCb, rotVars, RotRecord
<1>3. rot.cb_set /\ rot.callback # NULL /\ sets # 0
      BY DEF DispatchSensor, CallbackSafe, Pursuit, NothingInFlight, NoneLeft
<1>4. Following'
  <2> DEFINE m == GetMode(Head(sfq))
  <2>0. sfq # <<>> /\ sfq[Len(sfq)] = orient
        BY <1>3 DEF DispatchSensor, Pursuit, Following
  <2>1. sfq' # <<>> => sfq'[Len(sfq')] = orient
        BY <1>0, <1>1, <2>0, TailKeepsLast
  <2>2. sfq' = <<>> => Head(sfq) = orient
        BY <1>0, <1>1, <2>0, TailKeepsLast
  <2>3. CASE rot.lock
        BY <1>1, <1>2, <2>1, <2>3 DEF Following
  <2>4. CASE ~rot.lock
    <3>1. changed_m' = m
          BY <1>3, <2>4 DEF DispatchSensor, ChangedCb
    <3>2. rot'.mode = m \/ changed_handle'
          BY <1>0, <1>3, <2>4 DEF DispatchSensor, ChangedCb, Defer, RotRecord
    <3> HIDE DEF m
    <3>3. sfq' = <<>> => m = GetMode(orient')
          BY <1>1, <2>2 DEF m
    <3> QED BY <1>1, <2>1, <3>1, <3>2, <3>3 DEF Following
  <2> QED BY <2>3, <2>4
<1>5. Sources'
      BY <1>1, <1>2, <1>3 DEF Pursuit, Sources
<1>6. ~wmlock => UNCHANGED changed_handle
      BY DEF DispatchSensor, ChangedCb, rotVars
<1> QED BY <1>1, <1>2, <1>3, <1>4, <1>5, <1>6 DEF Pursuit, NoneLeft

(***************************************************************************)
(* The unlocked sensor is asked, and the change is told at once.           *)
(***************************************************************************)
LEMMA PursuitLock ==
  ASSUME ~SfMayFail, GarbageValues = {0}, RotTypeOK, CallbackSafe, Pursuit, DispatchLock
  PROVE  Pursuit'
<1>0. rot \in RotRecord /\ setting \in BOOLEAN
      BY DEF RotTypeOK, EnvTypeOK
<1>1. UNCHANGED <<started, listening, sfq, setting, orient, wmlock, sets>> /\ ~lockq'
      BY DEF DispatchLock, sensorVars, lockVars, envVars
<1>2. UNCHANGED <<rot.cb_set, rot.callback, rot.handle>> /\ rot'.lock = setting
      BY <1>0 DEF DispatchLock, LockCb, RotRecord
<1>3. rot.cb_set /\ rot.callback # NULL /\ sets # 0
      BY DEF DispatchLock, CallbackSafe, Pursuit, NothingInFlight, NoneLeft
<1>4. changed_handle' = changed_handle
      BY DEF DispatchLock, LockCb
<1>5. Following'
  <2> DEFINE m == GetMode(orient)
  <2>1. CASE setting
        BY <1>1, <1>2, <1>3, <2>1 DEF Pursuit, Following
  <2>2. CASE ~setting
    <3>1. changed_m' = m
          BY <1>3, <2>2 DEF DispatchLock, LockCb
    <3>2. rot'.mode = m
      <4>1. GarbageValues \ {0} = {}
            OBVIOUS
      <4>2. \/ rot.mode = m /\ rot' = [rot EXCEPT !.lock = setting]
            \/ rot' = [[rot EXCEPT !.lock = setting] EXCEPT !.mode = m]
            BY <1>3, <2>2, <4>1 DEF DispatchLock, LockCb
      <4> HIDE DEF m
      <4> QED BY <1>0, <4>2 DEF RotRecord
    <3> HIDE DEF m
    <3>3. m = GetMode(orient')
          BY <1>1 DEF m
    <3> QED BY <1>1, <1>3, <3>1, <3>2, <3>3 DEF Following, Pursuit
  <2> QED BY <2>1, <2>2
<1>6. Sources'
      BY <1>1, <1>2, <1>3 DEF Pursuit, Sources
<1> QED BY <1>1, <1>2, <1>3, <1>4, <1>5, <1>6 DEF Pursuit, NoneLeft

(***************************************************************************)
(* What was put off is what the device is held like, if nothing newer is   *)
(* on its way.                                                             *)
(***************************************************************************)
LEMMA PursuitProperty ==
  ASSUME RotTypeOK, Pursuit, DispatchProperty PROVE Pursuit'
<1>0. rot \in RotRecord
      BY DEF RotTypeOK
<1>1. /\ UNCHANGED <<started, listening, lockq, sfq, setting, orient, wmlock, sets, changed_m>>
      /\ ~changed_handle'
      BY DEF DispatchProperty, Property, sensorVars, lockVars, envVars
<1>2. UNCHANGED <<rot.cb_set, rot.callback, rot.handle, rot.lock>>
      BY <1>0 DEF DispatchProperty, Property, RotRecord
<1>3. ASSUME rot.cb_set PROVE Following'
  <2>1. CASE changed_handle
    <3>1. rot'.mode = changed_m
          BY <1>0, <1>3, <2>1 DEF DispatchProperty, Property, RotRecord
    <3> QED BY <1>1, <1>2, <1>3, <2>1, <3>1 DEF Following, Pursuit
  <2>2. CASE ~changed_handle
    <3>1. UNCHANGED <<rot, toldnow>>
          BY <2>2 DEF DispatchProperty, Property, toldVars
    <3> QED BY <1>1, <1>3, <2>2, <3>1 DEF Following, Pursuit
  <2> QED BY <2>1, <2>2
<1>4. rot.cb_set => Sources'
      BY <1>1, <1>2 DEF Pursuit, Sources
<1> QED BY <1>1, <1>2, <1>3, <1>4 DEF Pursuit, NothingInFlight, NoneLeft

(***************************************************************************)
(* Turning a device that is listened to queues an event, as does touching  *)
(* the user's lock.                                                        *)
(***************************************************************************)
LEMMA PursuitEnvironment ==
  ASSUME ~SfMayFail, RotTypeOK, CallbackSafe, Holdings, Pursuit, Environment PROVE Pursuit'
<1>0. sfq \in Seq(Codes) /\ setting \in BOOLEAN
      BY DEF RotTypeOK, EnvTypeOK
<1>1. UNCHANGED <<rot, changed_m, changed_handle, started, listening, toldnow, sets>>
      BY DEF Environment, Rotate, UserLocks, WmChanges, rotVars, sensorVars, lockVars, toldVars
<1>2. ~rot.cb_set => registered = {}
      BY DEF Holdings
<1>3. ASSUME NEW code \in Codes, Rotate(code) PROVE Pursuit'
  <2>1. UNCHANGED <<setting, lockq, wmlock>> /\ orient' = code
        BY <1>3 DEF Rotate
  <2>2. ~rot.cb_set => UNCHANGED sfq
        BY <1>2, <1>3 DEF Rotate
  <2>3. ASSUME rot.cb_set PROVE Sources' /\ Following'
    <3>1. sfq' = Append(sfq, code)
          BY <1>3, <2>3 DEF Rotate, CallbackSafe, Pursuit, Sources
    <3>2. sfq' # <<>> /\ sfq'[Len(sfq')] = code
          BY <1>0, <3>1
    <3> QED BY <1>1, <2>1, <2>3, <3>2 DEF Pursuit, Sources, Following
  <2> QED BY <1>1, <2>1, <2>2, <2>3 DEF Pursuit, NothingInFlight, NoneLeft
<1>4. CASE UserLocks
  <2>1. UNCHANGED <<sfq, orient, wmlock>> /\ lockq' = (lockq \/ listening)
        BY <1>4 DEF UserLocks
  <2>2. rot.cb_set => lockq' /\ Sources'
        BY <1>1, <2>1 DEF Pursuit, Sources
  <2> QED BY <1>1, <2>1, <2>2 DEF Pursuit, NothingInFlight, NoneLeft, Following
<1>5. CASE WmChanges
  <2>1. UNCHANGED <<sfq, orient, lockq, setting>> /\ WmLocks
        BY <1>5 DEF WmChanges
  <2> QED BY <1>1, <2>1 DEF Pursuit, NothingInFlight, NoneLeft, Sources, Following
<1> QED BY <1>3, <1>4, <1>5 DEF Environment

(***************************************************************************)
(* So nothing gets lost on the way to the callback.                        *)
(***************************************************************************)
LEMMA PursuitHolds ==
  ASSUME NoLeftovers, ~SfMayFail, GarbageValues = {0} PROVE Spec => []Pursuit
<1>1. Init => Pursuit
      BY DEF Init, Pursuit, NothingInFlight, NoneLeft
<1>2. RotTypeOK /\ CallbackSafe /\ Holdings /\ Pursuit /\ [Next]_vars => Pursuit'
  <2> SUFFICES ASSUME RotTypeOK, CallbackSafe, Holdings, Pursuit, [Next]_vars
               PROVE  Pursuit'
      OBVIOUS
  <2>1. CASE UNCHANGED vars
        BY <2>1 DEF vars, rotVars, sensorVars, lockVars, toldVars, envVars, Pursuit,
                    NothingInFlight, NoneLeft, Sources, Following
  <2>2. CASE Next
        BY <2>2, PursuitApi, PursuitSensor, PursuitLock, PursuitProperty,
           PursuitEnvironment DEF Next, Dispatch
  <2> QED BY <2>1, <2>2
<1> QED BY RotationSafe, HoldingsHold, <1>1, <1>2, PTL DEF Spec

(***************************************************************************)
(* With calls that do not fail and the lucky value of val: whatever the    *)
(* order in which the user, the window manager and the device are heard,   *)
(* the callback has been told how the device is held once they all have    *)
(* been.  This is so for one registration that is never paused, and, where *)
(* the window manager does not use its lock, for any number of             *)
(* registrations, pauses and resumes.                                      *)
(***************************************************************************)
THEOREM RotationUpToDate ==
    ASSUME (MaxSets = 1 /\ ~PauseUsed) \/ ~WmLocks, ~SfMayFail, GarbageValues = {0}
    PROVE  Spec => []UpToDate
<1>1. Spec => []Pursuit
      BY PursuitHolds DEF NoLeftovers
<1>2. Pursuit /\ ToldIsMode => UpToDate
      BY DEF Pursuit, Following, ToldIsMode, UpToDate
<1> QED BY <1>1, ToldIsModeHolds, <1>2, PTL
-----------------------------------------------------------------------------
(***************************************************************************)
(* Why a call carries the data of the client it is made to: the sensor     *)
(* framework and vconf were given the data of the registered callback,     *)
(* vconf has nothing to dispatch once nobody watches it, and nothing was   *)
(* put off.                                                                *)
(***************************************************************************)
OwnDataInv == /\ rot.callback # NULL => rot.cbdata = rot.callback /\ sfdata = rot.callback
              /\ listening => lockdata = rot.callback
              /\ OwnData

LEMMA OwnDataStep ==
  ASSUME ~SfMayFail, RotTypeOK, CallbackSafe, Holdings, ~changed_handle, OwnDataInv, Next
  PROVE  OwnDataInv'
<1>0. rot \in RotRecord /\ NULL \notin Clients
      BY RotationAssumption DEF RotTypeOK
<1>1. ASSUME NEW data, rot.callback # NULL => data = rot.callback,
             Quiet \/ \E m \in Modes : Tells(m, data)
      PROVE  OwnData'
      BY <1>1 DEF OwnDataInv, OwnData, Quiet, Tells, Call
<1>2. ASSUME NEW c \in Clients, SetRotation(c) PROVE OwnDataInv'
  <2>1. sfdata' = c /\ listening' /\ lockdata' = c /\ UNCHANGED told
        BY <1>2 DEF SetRotation, SfRegister, AddRotlock
  <2>2. rot'.callback = c /\ rot'.cbdata = c
        BY <1>0, <1>2 DEF SetRotation, RotRecord
  <2> QED BY <2>1, <2>2 DEF OwnDataInv, OwnData
<1>3. CASE UnsetRotation \/ PauseRotation
  <2>1. ~listening' /\ UNCHANGED sfdata
        BY <1>3 DEF UnsetRotation, PauseRotation, UnregisterRefused, DelRotlock
  <2>2. Quiet /\ (SameClient \/ rot'.callback = NULL)
        BY <1>3, ApiEffect
  <2> QED BY <2>1, <2>2 DEF Quiet, SameClient, OwnDataInv, OwnData
<1>4. CASE ResumeRotation
  <2>1. listening' /\ lockdata' = rot.cbdata /\ sfdata' \in {sfdata, rot.cbdata}
        /\ rot.callback # NULL
        BY <1>4 DEF ResumeRotation, AddRotlock, SfRegister
  <2>2. SameClient /\ OwnData'
        BY <1>1, <1>4, ResumeEffect DEF OwnDataInv
  <2> QED BY <2>1, <2>2 DEF SameClient, OwnDataInv
<1>5. CASE Dispatch \/ Environment
  <2>1. SameClient
        BY <1>5, SensorEffect, LockEffect, PropertyEffect, EnvironmentEffect DEF Dispatch
  <2>2. UNCHANGED <<sfdata, listening, lockdata>>
        BY <1>5, EnvironmentEffect
        DEF Dispatch, DispatchSensor, DispatchLock, DispatchProperty, sensorVars, lockVars
  <2>3. OwnData'
    <3>1. CASE DispatchSensor
          BY <1>1, <3>1, SensorEffect DEF OwnDataInv
    <3>2. CASE DispatchLock
      <4>1. lockdata = rot.callback
            BY <3>2 DEF DispatchLock, Holdings, OwnDataInv
      <4> QED BY <1>1, <3>2, <4>1, LockEffect
    <3>3. CASE DispatchProperty \/ Environment
      <4>1. Quiet
            BY <3>3, PropertyEffect, EnvironmentEffect
      <4> QED BY <4>1 DEF Quiet, OwnDataInv, OwnData
    <3> QED BY <1>5, <3>1, <3>2, <3>3 DEF Dispatch
  <2> QED BY <2>1, <2>2, <2>3 DEF SameClient, OwnDataInv
<1> QED BY <1>2, <1>3, <1>4, <1>5 DEF Next, Api, SetRotationFails, ResumeRotationFails

(***************************************************************************)
(* A callback never gets the data of another registration, provided that   *)
(* no call fails, val is 0 and the window manager does not use its lock;   *)
(* any number of registrations, pauses and resumes.  The last condition is *)
(* needed: with the lock, the run claim_rotation_data shows it fail.       *)
(***************************************************************************)
THEOREM RotationOwnData ==
    ASSUME ~SfMayFail, ~WmLocks, GarbageValues = {0}
    PROVE  Spec => []OwnData
<1>1. Spec => []Pursuit
      BY PursuitHolds DEF NoLeftovers
<1>2. Pursuit => ~changed_handle
      BY DEF Pursuit, NoneLeft
<1>3. Init => OwnDataInv
      BY DEF Init, OwnDataInv, OwnData
<1>4. RotTypeOK /\ CallbackSafe /\ Holdings /\ ~changed_handle /\ OwnDataInv /\ [Next]_vars
          => OwnDataInv'
  <2> SUFFICES ASSUME RotTypeOK, CallbackSafe, Holdings, ~changed_handle, OwnDataInv, [Next]_vars
               PROVE  OwnDataInv'
      OBVIOUS
  <2>1. CASE UNCHANGED vars
        BY <2>1 DEF vars, rotVars, sensorVars, lockVars, toldVars, OwnDataInv, OwnData
  <2> QED BY <2>1, OwnDataStep
<1>5. OwnDataInv => OwnData
      BY DEF OwnDataInv
<1> QED BY RotationSafe, HoldingsHold, <1>1, <1>2, <1>3, <1>4, <1>5, PTL DEF Spec
=============================================================================
