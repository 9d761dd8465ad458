------------------------------ MODULE SysEvents ------------------------------
(***************************************************************************)
(* System settings on their way to the application: vconf, whose keys      *)
(* other processes change; __vconf_cb of appcore.c with its pre, callback  *)
(* and post steps; and appcore-i18n.c, which turns the language and the    *)
(* region into the environment and the locale of the process.              *)
(*                                                                         *)
(* A change reaches the process later, as a notification (pending), and    *)
(* only if its key was watched when it happened.  appcore_init reads the   *)
(* settings first (set_i18n) and watches the keys afterwards               *)
(* (__add_vconf), so it is two actions here; so is a handler, because the  *)
(* application's callback runs in the middle of it and may call back.      *)
(***************************************************************************)
EXTENDS Appcore, Sequences, Functions

CONSTANTS
    Langs,          \* values of the key LANGSET
    Regions,        \* values of the key REGIONFORMAT
    Installed,      \* the locales setlocale knows
    BatteryLevels,  \* values of the key BATTERY_STATUS_LOW
    Registrable,    \* the events applications register callbacks for
    MaxPending      \* bound: notifications under way

BatCriticalLow == 2

ASSUME SysAssumption ==
    /\ NULL \notin Langs \cup Regions
    /\ "C" \notin Langs \cup Regions \cup {NULL}
    /\ Installed \subseteq Langs \cup Regions
    /\ BatteryLevels \subseteq Int
    /\ Registrable \subseteq SysEvents
    /\ MaxPending \in Nat

VARIABLES
    setting,   \* vconf: the value of each key that has one of interest
    pending,   \* notifications under way: the watched keys that changed, in order
    at,        \* "idle", "starting" (inside appcore_init), or the key whose
               \*   callback is running
    locale,    \* environment variables and setlocale categories, see below
    domain,    \* the domain of textdomain
    preset,    \* _set: appcore_set_i18n has succeeded
    slipped,   \* history: keys changed without the process being told, not read since
    drawn      \* history: the language of the texts the application shows

sysVars == <<setting, pending, at, locale, domain, preset, slipped, drawn>>
vars == <<coreVars, sysVars>>

I18nKeys == {"LANGSET", "REGIONFORMAT"}

Settings == [LANGSET : Langs \cup {NULL}, REGIONFORMAT : Regions \cup {NULL},
             BATTERY_STATUS_LOW : BatteryLevels]

Names == Langs \cup Regions \cup {"C"}

(***************************************************************************)
(* lang is LANG and LC_MESSAGES, region the eleven other LC_ variables     *)
(* update_region sets (NULL: not set); messages and formats are the        *)
(* categories setlocale gave the process.  seen is a history: the region   *)
(* setlocale found when it last succeeded, NULL for none or one it does    *)
(* not know.                                                               *)
(***************************************************************************)
Locales == [lang : Langs \cup {NULL}, region : Regions \cup {NULL},
            messages : Names, formats : Names, seen : Regions \cup {NULL}]

SysTypeOK ==
    /\ CoreTypeOK
    /\ setting \in Settings
    /\ pending \in Seq(VconfKeys)
    /\ Len(pending) <= MaxPending
    /\ at \in {"idle", "starting"} \cup VconfKeys
    /\ locale \in Locales
    /\ domain \in {"default", "name", "own"}
    /\ preset \in BOOLEAN
    /\ slipped \subseteq I18nKeys
    /\ drawn \in Names

(***************************************************************************)
(* A process starts in the C locale, whatever the settings are; it may     *)
(* start before they have ever been set.                                   *)
(***************************************************************************)
SysInit ==
    /\ CoreInit
    /\ setting \in Settings
    /\ pending = <<>>
    /\ at = "idle"
    /\ locale = [lang |-> NULL, region |-> NULL, messages |-> "C", formats |-> "C",
                 seen |-> NULL]
    /\ domain = "default"
    /\ preset = FALSE
    /\ slipped = I18nKeys
    /\ drawn = "C"
-----------------------------------------------------------------------------
(***************************************************************************)
(* setlocale(LC_ALL, "") takes each category from its variable, LANG when  *)
(* that is not set, and changes nothing if it does not know one of the     *)
(* names.                                                                  *)
(***************************************************************************)
Known(name) == name \in Installed \cup {"C"}

OrC(name) == IF name = NULL THEN "C" ELSE name

MessagesOf(l) == OrC(l.lang)

FormatsOf(l) == IF l.region = NULL THEN OrC(l.lang) ELSE l.region

EnvironmentKnown(l) == Known(MessagesOf(l)) /\ Known(FormatsOf(l))

Seen(l) == [l EXCEPT !.seen = IF l.region \in Installed THEN l.region ELSE NULL]

FromEnvironment(l) == [Seen(l) EXCEPT !.messages = MessagesOf(l), !.formats = FormatsOf(l)]

FromLanguage(l) ==
    [Seen(l) EXCEPT !.messages = setting.LANGSET, !.formats = setting.LANGSET]

SetLocaleWithoutRetry(l) ==   \* mutant: no second setlocale
    IF EnvironmentKnown(l) THEN FromEnvironment(l) ELSE l

SetLocaleUnchecked(l) ==   \* mutant: the second setlocale is taken to succeed
    IF EnvironmentKnown(l) THEN FromEnvironment(l) ELSE FromLanguage(l)

(***************************************************************************)
(* The two calls update_lang and __set_i18n both make: the environment     *)
(* first, and when that fails every category in the language setting.      *)
(***************************************************************************)
SetLocale(l) == CASE EnvironmentKnown(l) -> FromEnvironment(l)
                  [] ~EnvironmentKnown(l) /\ setting.LANGSET \in Installed -> FromLanguage(l)
                  [] OTHER -> l

(***************************************************************************)
(* setlocale(LC_ALL, NULL) only asks for the locale, and never fails.      *)
(***************************************************************************)
SetLocaleFails(l) == /\ ~EnvironmentKnown(l)
                     /\ setting.LANGSET \notin Installed \cup {NULL}

UpdateLang(l) == IF setting.LANGSET = NULL THEN l
                 ELSE SetLocale([l EXCEPT !.lang = setting.LANGSET])

(***************************************************************************)
(* update_region sets the variables and leaves the locale alone: the       *)
(* formats follow at the next call of setlocale, whoever makes it.         *)
(***************************************************************************)
UpdateRegion(l) == IF setting.REGIONFORMAT = NULL THEN l
                   ELSE [l EXCEPT !.region = setting.REGIONFORMAT]

Updated(l) == UpdateRegion(UpdateLang(l))

(***************************************************************************)
(* __set_i18n(d) on top of both updates.  bindtextdomain and textdomain    *)
(* may fail as well (no memory); the locale has changed by then.           *)
(***************************************************************************)
SetI18n(d) == /\ locale' = SetLocale(Updated(locale))
              /\ ~SetLocaleFails(Updated(locale))
              /\ domain' = d
              /\ slipped' = {}

SetI18nFails == /\ locale' = SetLocale(Updated(locale))
                /\ UNCHANGED domain
                /\ slipped' = {}
-----------------------------------------------------------------------------
(***************************************************************************)
(* Another process sets a key.  vconf tells us if we watch it; a change    *)
(* right after another one of the same key may be told together with it.   *)
(***************************************************************************)
UnderWay == Range(pending)

Tell(k) ==
    \/ k \in vconf /\ pending' = Append(pending, k) /\ UNCHANGED slipped
    \/ pending # <<>> /\ pending[Len(pending)] = k /\ UNCHANGED <<pending, slipped>>
    \/ /\ k \notin vconf
       /\ slipped' = slipped \cup ({k} \cap I18nKeys)
       /\ UNCHANGED pending

SettingChanges(k) ==
    /\ IF k \in DOMAIN setting
       THEN \E v \in {s[k] : s \in Settings} \ {setting[k], NULL} :
                setting' = [setting EXCEPT ![k] = v]
       ELSE UNCHANGED setting
    /\ Tell(k)
    /\ Len(pending') <= MaxPending
    /\ UNCHANGED <<coreVars, at, locale, domain, preset, drawn>>
-----------------------------------------------------------------------------
InitReadsAlways ==   \* mutant: set_i18n does not look at _set
    /\ at = "idle" /\ core.state = 0
    /\ SetI18n("name")
    /\ at' = "starting"
    /\ UNCHANGED <<coreVars, setting, pending, preset, drawn>>

(***************************************************************************)
(* appcore_init, first part: set_i18n(name, dir) does nothing, not even    *)
(* read the settings, when the application called appcore_set_i18n before. *)
(***************************************************************************)
InitReads ==
    /\ at = "idle"
    /\ core.state = 0
    /\ IF preset THEN UNCHANGED <<locale, domain, slipped>> ELSE SetI18n("name")
    /\ at' = "starting"
    /\ UNCHANGED <<coreVars, setting, pending, preset, drawn>>

InitReadsFails ==
    /\ at = "idle"
    /\ core.state = 0
    /\ ~preset
    /\ SetI18nFails
    /\ I18nFails
    /\ UNCHANGED <<setting, pending, at, preset, drawn>>

(***************************************************************************)
(* The rest of it, from __add_vconf on.  The application builds its        *)
(* windows afterwards, in the language the process has then.               *)
(***************************************************************************)
InitWatches ==
    /\ at = "starting"
    /\ \E o \in UiOps : AppcoreInit(o)
    /\ at' = "idle"
    /\ drawn' = locale.messages
    /\ UNCHANGED <<setting, pending, locale, domain, preset, slipped>>

InitWatchesFails ==
    /\ at = "starting"
    /\ AulLaunchInitFails \/ ArgvHandlerFails
    /\ at' = "idle"
    /\ UNCHANGED <<setting, pending, locale, domain, preset, slipped, drawn>>

(***************************************************************************)
(* appcore_exit, after the loop.  vconf forgets what it had to tell us.    *)
(***************************************************************************)
SysExit == /\ at = "idle"
           /\ AppcoreExit
           /\ IF core.state = 1
              THEN pending' = <<>> /\ slipped' = slipped \cup (UnderWay \cap I18nKeys)
              ELSE UNCHANGED <<pending, slipped>>
           /\ UNCHANGED <<setting, at, locale, domain, preset, drawn>>
-----------------------------------------------------------------------------
PreSwapped(k, l) ==   \* mutant: the pre steps of the two keys are mixed up
    CASE k = "LANGSET"      -> UpdateRegion(l)
      [] k = "REGIONFORMAT" -> UpdateLang(l)
      [] OTHER              -> l

(***************************************************************************)
(* __vconf_cb for key k, up to the application's callback: the value is    *)
(* read now, not when it changed.  A battery that is low but not critical  *)
(* reaches nobody, and without a callback __sys_do_default does nothing.   *)
(***************************************************************************)
Pre(k, l) == CASE k = "LANGSET"      -> UpdateLang(l)
               [] k = "REGIONFORMAT" -> UpdateRegion(l)
               [] OTHER              -> l

Called(k) == /\ Delivered(k)
             /\ k = "BATTERY_STATUS_LOW" => setting[k] <= BatCriticalLow

DispatchCallbackFirst(k) ==   \* mutant: vcb is called before vcb_pre
    /\ at = "idle"
    /\ pending # <<>> /\ k = Head(pending)
    /\ pending' = Tail(pending)
    /\ locale' = Pre(k, locale)
    /\ slipped' = slipped \ {k}
    /\ IF Called(k)
       THEN at' = k /\ drawn' = (IF k = "LANGSET" THEN locale.messages ELSE drawn)
       ELSE UNCHANGED <<at, drawn>>
    /\ UNCHANGED <<coreVars, setting, domain, preset>>

DispatchEndsSilently(k) ==   \* mutant: no __sys_do
    /\ at = "idle"
    /\ pending # <<>> /\ k = Head(pending)
    /\ pending' = Tail(pending)
    /\ locale' = Pre(k, locale)
    /\ slipped' = slipped \ {k}
    /\ UNCHANGED <<coreVars, setting, domain, preset, at, drawn>>

DispatchSys(k) ==
    /\ at = "idle"
    /\ pending # <<>> /\ k = Head(pending)
    /\ pending' = Tail(pending)
    /\ locale' = Pre(k, locale)
    /\ slipped' = slipped \ {k}
    /\ IF Called(k)
       THEN /\ at' = k
            /\ drawn' = IF k = "LANGSET" THEN locale'.messages ELSE drawn
       ELSE UNCHANGED <<at, drawn>>
    /\ UNCHANGED <<coreVars, setting, domain, preset>>

(***************************************************************************)
(* The callback returns, and __sys_lowmem_post runs if the key has one: it *)
(* goes through core.ops (UpcallSafe) and changes nothing here.            *)
(***************************************************************************)
CallbackReturns ==
    /\ at \in VconfKeys
    /\ at' = "idle"
    /\ UNCHANGED <<coreVars, setting, pending, locale, domain, preset, slipped, drawn>>
-----------------------------------------------------------------------------
(***************************************************************************)
(* The application, from a callback of its own or from its main function.  *)
(* Whoever registers for the language, or sets it up himself, draws in the *)
(* language the process has at that moment.                                *)
(***************************************************************************)
Register(e, cb) ==
    /\ at # "starting"
    /\ SetEventCallback(e, cb)
    /\ drawn' = IF e = "LANGCHG" /\ cb # NULL THEN locale.messages ELSE drawn
    /\ UNCHANGED <<setting, pending, at, locale, domain, preset, slipped>>

AppcoreSetI18n ==
    /\ at # "starting"
    /\ \/ SetI18n("own") /\ preset' = TRUE
       \/ SetI18nFails /\ UNCHANGED preset
    /\ drawn' = locale'.messages
    /\ UNCHANGED <<coreVars, setting, pending, at>>

(***************************************************************************)
(* Without a domain name __set_i18n gives up before setlocale, when        *)
(* appcore_set_i18n has already read the settings.                         *)
(***************************************************************************)
AppcoreSetI18nNoDomain ==
    /\ at # "starting"
    /\ locale' = Updated(locale)
    /\ slipped' = {}
    /\ drawn' = locale'.messages
    /\ UNCHANGED <<coreVars, setting, pending, at, domain, preset>>

Application == \/ \E e \in Registrable, cb \in Cbs \cup {NULL} : Register(e, cb)
               \/ AppcoreSetI18n
               \/ AppcoreSetI18nNoDomain

AulTakesStartBundle == TakeStartBundle /\ UNCHANGED sysVars

Initialisation == InitReads \/ InitReadsFails \/ InitWatches \/ InitWatchesFails

SysNext == \/ \E k \in VconfKeys : SettingChanges(k) \/ DispatchSys(k)
           \/ Initialisation
           \/ CallbackReturns
           \/ SysExit
           \/ Application
           \/ AulTakesStartBundle

SysSpec == SysInit /\ [][SysNext]_vars

(***************************************************************************)
(* The loop dispatches the notifications there are, and callbacks return.  *)
(* Nobody has to change a setting, to initialise or to exit.               *)
(***************************************************************************)
SysFairSpec == /\ SysSpec
               /\ WF_vars(\E k \in VconfKeys : DispatchSys(k))
               /\ WF_vars(CallbackReturns)
-----------------------------------------------------------------------------
(***************************************************************************)
(* Between notifications the process has the settings: the language in its *)
(* environment and its messages, the region in its environment, each       *)
(* whether or not the other names an installed locale.  The formats are    *)
(* those of the region the last successful setlocale found, or of the      *)
(* language if it found none it knew.  update_region calls no setlocale:   *)
(* after a change of the region the formats stay behind until the next     *)
(* call, which this does not hide (seen is not region).                    *)
(* Not covered are changes the process is not told of (slipped): of a key  *)
(* vconf refused to watch, made between the reading of a key and the       *)
(* watching of it, or still under way at appcore_exit.                     *)
(***************************************************************************)
InStep(k) == k \notin UnderWay \cup slipped

SettingsInEffect ==
    /\ InStep("LANGSET") /\ setting.LANGSET \in Installed =>
          /\ locale.lang = setting.LANGSET
          /\ locale.messages = setting.LANGSET
          /\ locale.formats = IF locale.seen = NULL THEN setting.LANGSET ELSE locale.seen
    /\ InStep("REGIONFORMAT") /\ setting.REGIONFORMAT # NULL =>
          locale.region = setting.REGIONFORMAT

(***************************************************************************)
(* The language of the process never changes behind the application's      *)
(* back: with a callback for LANGCHG registered, what it has drawn is in   *)
(* the language gettext uses now, whatever else changed in between.        *)
(***************************************************************************)
DrawnInLanguage ==
    core.state = 1 /\ core.sops["LANGCHG"] # NULL => drawn = locale.messages

(***************************************************************************)
(* Texts come from the domain the application chose: neither a later       *)
(* appcore_init nor a failed second appcore_set_i18n takes it away.        *)
(***************************************************************************)
DomainKept == preset => domain = "own"

(***************************************************************************)
(* A change of the language gets through to the process, unless it exits.  *)
(***************************************************************************)
LanguageArrives ==
    "LANGSET" \in UnderWay ~>
        \/ "LANGSET" \notin vconf
        \/ setting.LANGSET \in Installed => locale.messages = setting.LANGSET

(***************************************************************************)
(* A change of a watched key reaches the callback registered for its       *)
(* event, unless that is withdrawn, the battery recovers first, or the     *)
(* process exits.                                                          *)
(***************************************************************************)
ChangeReachesCallback == \A k \in VconfKeys :
    k \in UnderWay ~> at = k \/ ~Called(k)
=============================================================================
