--------------------------- MODULE SysEventsProofs ---------------------------
(***************************************************************************)
(* Theorems about system events and i18n, for every set of languages,      *)
(* regions, installed locales and callbacks, and any number of             *)
(* notifications under way.                                                *)
(***************************************************************************)
EXTENDS SysEvents, AppcoreProofs, SequenceTheorems

(***************************************************************************)
(* Only watched keys are under way, and appcore_init runs with core not in *)
(* use: the middle of it is not a state other code takes for initialised.  *)
(***************************************************************************)
OnlyWatched == /\ UnderWay \subseteq vconf
               /\ core.state = 0 => pending = <<>>
               /\ at = "starting" => core.state = 0

SysInv == /\ SysTypeOK /\ CoreInv /\ OnlyWatched
          /\ SettingsInEffect /\ DrawnInLanguage /\ DomainKept

(***************************************************************************)
(* What a queue of notifications holds after one is added at its end, and  *)
(* after the first is taken out.                                           *)
(***************************************************************************)
LEMMA AppendRange ==
  ASSUME NEW S, NEW s \in Seq(S), NEW e \in S
  PROVE  Append(s, e) \in Seq(S) /\ Range(Append(s, e)) = Range(s) \cup {e}
<1>1. Append(s, e) = s \o <<e>>
      OBVIOUS
<1>2. <<e>> \in Seq(S) /\ Range(<<e>>) = {e}
      BY DEF Range
<1>3. Range(s \o <<e>>) = Range(s) \cup Range(<<e>>)
      BY <1>2, RangeConcatenation
<1>4. Append(s, e) \in Seq(S)
      OBVIOUS
<1> QED BY <1>1, <1>2, <1>3, <1>4

LEMMA TailRange ==
  ASSUME NEW S, NEW s \in Seq(S), s # <<>>
  PROVE  /\ Tail(s) \in Seq(S) /\ Head(s) \in S
         /\ Len(Tail(s)) <= Len(s)
         /\ Range(s) = {Head(s)} \cup Range(Tail(s))
<1>1. Tail(s) \in Seq(S) /\ Head(s) \in S /\ Len(Tail(s)) <= Len(s)
      BY HeadTailProperties
<1>2. s = <<Head(s)>> \o Tail(s)
      OBVIOUS
<1>3. <<Head(s)>> \in Seq(S) /\ Range(<<Head(s)>>) = {Head(s)}
      BY <1>1 DEF Range
<1>4. Range(<<Head(s)>> \o Tail(s)) = Range(<<Head(s)>>) \cup Range(Tail(s))
  <2>1. \A a, b \in Seq(S) : Range(a \o b) = Range(a) \cup Range(b)
        BY RangeConcatenation
  <2> DEFINE h == <<Head(s)>>
             t == Tail(s)
  <2>2. h \in Seq(S) /\ t \in Seq(S)
        BY <1>1, <1>3
  <2> HIDE DEF h, t
  <2>3. Range(h \o t) = Range(h) \cup Range(t)
        BY <2>1, <2>2, Zenon
  <2> QED BY <2>3 DEF h, t
<1>5. Range(s) = {Head(s)} \cup Range(Tail(s))
      BY <1>2, <1>3, <1>4
<1> QED BY <1>1, <1>5

LEMMA EmptyRange == Range(<<>>) = {}
BY DEF Range

(***************************************************************************)
(* update_lang, update_region and the setlocale calls return locales.      *)
(***************************************************************************)
LEMMA LocaleTyped ==
  ASSUME SysTypeOK, NEW l \in Locales
  PROVE  /\ SetLocale(l) \in Locales
         /\ UpdateLang(l) \in Locales
         /\ UpdateRegion(l) \in Locales
         /\ Updated(l) \in Locales
<1> USE SysAssumption
<1>1. setting.LANGSET \in Langs \cup {NULL} /\ setting.REGIONFORMAT \in Regions \cup {NULL}
      BY DEF SysTypeOK, Settings
<1>2. \A m \in Locales : MessagesOf(m) \in Names /\ FormatsOf(m) \in Names
      BY DEF Locales, Names, MessagesOf, FormatsOf, OrC
<1>3. \A m \in Locales : SetLocale(m) \in Locales
      BY <1>1, <1>2 DEF SetLocale, FromEnvironment, FromLanguage, Seen, Locales, Names
<1>4. \A m \in Locales : UpdateRegion(m) \in Locales
      BY <1>1 DEF UpdateRegion, Locales
<1>5. \A m \in Locales : UpdateLang(m) \in Locales
      BY <1>1, <1>3 DEF UpdateLang, Locales
<1> QED BY <1>3, <1>4, <1>5 DEF Updated

(***************************************************************************)
(* The language is in effect after update_lang whatever the region names,  *)
(* the formats are what that setlocale made of them, and neither           *)
(* update_region nor another setlocale undoes that.                        *)
(***************************************************************************)
InLanguage(l) == setting.LANGSET \in Installed =>
    /\ l.lang = setting.LANGSET
    /\ l.messages = setting.LANGSET
    /\ l.formats = IF l.seen = NULL THEN setting.LANGSET ELSE l.seen

LEMMA LanguageSet ==
  ASSUME SysTypeOK, NEW l \in Locales
  PROVE  /\ InLanguage(UpdateLang(l))
         /\ InLanguage(l) => InLanguage(UpdateRegion(l))
         /\ InLanguage(l) => InLanguage(SetLocale(l))
<1> USE SysAssumption
<1>1. setting.LANGSET \in Installed => setting.LANGSET # NULL
      OBVIOUS
<1>2. ASSUME NEW m \in Locales, setting.LANGSET \in Installed, m.lang = setting.LANGSET
      PROVE  InLanguage(SetLocale(m))
  <2>1. MessagesOf(m) = setting.LANGSET
        BY <1>1, <1>2 DEF MessagesOf, OrC
  <2>2. CASE EnvironmentKnown(m)
    <3>1. SetLocale(m) = FromEnvironment(m)
          BY <2>2 DEF SetLocale
    <3>2. FormatsOf(m) = IF Seen(m).seen = NULL THEN setting.LANGSET ELSE Seen(m).seen
          BY <1>1, <1>2, <2>2 DEF FormatsOf, OrC, Seen, EnvironmentKnown, Known, Locales
    <3> QED BY <1>2, <2>1, <3>1, <3>2 DEF FromEnvironment, Seen, InLanguage, Locales
  <2>3. CASE ~EnvironmentKnown(m)
    <3>1. SetLocale(m) = FromLanguage(m)
          BY <1>2, <2>3 DEF SetLocale
    <3>2. m.region \notin Installed
          BY <1>1, <1>2, <2>1, <2>3 DEF FormatsOf, OrC, EnvironmentKnown, Known
    <3> QED BY <1>2, <3>1, <3>2 DEF FromLanguage, Seen, InLanguage, Locales
  <2> QED BY <2>2, <2>3
<1>3. InLanguage(UpdateLang(l))
  <2> SUFFICES ASSUME setting.LANGSET \in Installed PROVE InLanguage(UpdateLang(l))
      BY DEF InLanguage
  <2> DEFINE m == [l EXCEPT !.lang = setting.LANGSET]
  <2>1. m \in Locales /\ m.lang = setting.LANGSET
        BY DEF SysTypeOK, Settings, Locales
  <2>2. UpdateLang(l) = SetLocale(m)
        BY <1>1 DEF UpdateLang
  <2> HIDE DEF m
  <2> QED BY <1>2, <2>1, <2>2
<1>4. InLanguage(l) => InLanguage(UpdateRegion(l))
      BY DEF InLanguage, UpdateRegion, Locales
<1>5. InLanguage(l) => InLanguage(SetLocale(l))
      BY <1>2 DEF InLanguage
<1> QED BY <1>3, <1>4, <1>5

(***************************************************************************)
(* update_region puts the region into the environment, and only there:     *)
(* the language of the texts stays.  setlocale leaves the environment      *)
(* alone.                                                                  *)
(***************************************************************************)
InRegion(l) == setting.REGIONFORMAT # NULL => l.region = setting.REGIONFORMAT

LEMMA RegionSet ==
  ASSUME NEW l \in Locales
  PROVE  /\ InRegion(UpdateRegion(l))
         /\ UpdateRegion(l).messages = l.messages
         /\ UpdateLang(l).region = l.region
         /\ SetLocale(l).region = l.region
BY DEF InRegion, UpdateRegion, UpdateLang, SetLocale, FromEnvironment,
   FromLanguage, Seen, Locales

(***************************************************************************)
(* Both forms of set_i18n leave the language in effect, and the region in  *)
(* the environment.                                                        *)
(***************************************************************************)
LEMMA ReadInEffect ==
  ASSUME SysTypeOK
  PROVE  /\ InLanguage(Updated(locale)) /\ InRegion(Updated(locale))
         /\ InLanguage(SetLocale(Updated(locale))) /\ InRegion(SetLocale(Updated(locale)))
<1>1. locale \in Locales /\ UpdateLang(locale) \in Locales /\ Updated(locale) \in Locales
      BY LocaleTyped DEF SysTypeOK
<1>2. InLanguage(Updated(locale)) /\ InRegion(Updated(locale))
      BY <1>1, LanguageSet, RegionSet DEF Updated
<1> QED BY <1>1, <1>2, LanguageSet, RegionSet DEF InRegion

(***************************************************************************)
(* Every step goes through an operation of appcore.c or leaves core alone; *)
(* the err label of appcore_init is only reached with core not in use.     *)
(***************************************************************************)
LEMMA SysStepsOfCore == ASSUME OnlyWatched, [SysNext]_vars PROVE [CoreNext]_coreVars
<1>1. CASE Initialisation
      BY <1>1 DEF Initialisation, InitReads, InitReadsFails, InitWatches, InitWatchesFails,
         I18nFails, OnlyWatched, AppcoreInitFails, CoreNext
<1>2. CASE \E k \in VconfKeys : SettingChanges(k) \/ DispatchSys(k)
      BY <1>2 DEF SettingChanges, DispatchSys
<1>3. CASE CallbackReturns
      BY <1>3 DEF CallbackReturns
<1>4. CASE SysExit
      BY <1>4 DEF SysExit, CoreNext
<1>5. CASE Application
      BY <1>5, SysAssumption DEF Application, Register, AppcoreSetI18n,
         AppcoreSetI18nNoDomain, CoreNext
<1>6. CASE AulTakesStartBundle
      BY <1>6 DEF AulTakesStartBundle, CoreNext
<1>7. CASE UNCHANGED vars
      BY <1>7 DEF vars
<1> QED BY <1>1, <1>2, <1>3, <1>4, <1>5, <1>6, <1>7 DEF SysNext

(***************************************************************************)
(* Every variable keeps its type.                                          *)
(***************************************************************************)
LEMMA SysTypeStep ==
  ASSUME SysTypeOK, CoreTypeOK', [SysNext]_vars PROVE SysTypeOK'
<1> USE SysAssumption
<1>0. /\ setting \in Settings /\ pending \in Seq(VconfKeys) /\ Len(pending) <= MaxPending
      /\ at \in {"idle", "starting"} \cup VconfKeys
      /\ locale \in Locales /\ domain \in {"default", "name", "own"} /\ preset \in BOOLEAN
      /\ slipped \subseteq I18nKeys /\ drawn \in Names
      BY DEF SysTypeOK
<1>1. /\ Updated(locale) \in Locales /\ SetLocale(Updated(locale)) \in Locales
      /\ \A k \in VconfKeys : Pre(k, locale) \in Locales
      BY <1>0, LocaleTyped DEF Pre
<1>2. ASSUME NEW k \in VconfKeys, SettingChanges(k) PROVE SysTypeOK'
  <2>1. setting' \in Settings
    <3>1. DOMAIN setting = {"LANGSET", "REGIONFORMAT", "BATTERY_STATUS_LOW"}
          BY <1>0 DEF Settings
    <3>2. CASE k \notin DOMAIN setting
          BY <1>0, <1>2, <3>2 DEF SettingChanges
    <3>3. ASSUME k \in DOMAIN setting
          PROVE  \E s \in Settings : setting' = [setting EXCEPT ![k] = s[k]]
          BY <1>2, <3>3 DEF SettingChanges
    <3>4. CASE k = "LANGSET"
      <4>1. PICK s \in Settings : setting' = [setting EXCEPT !["LANGSET"] = s["LANGSET"]]
            BY <3>1, <3>3, <3>4
      <4> QED BY <1>0, <4>1 DEF Settings
    <3>5. CASE k = "REGIONFORMAT"
      <4>1. PICK s \in Settings :
                setting' = [setting EXCEPT !["REGIONFORMAT"] = s["REGIONFORMAT"]]
            BY <3>1, <3>3, <3>5
      <4> QED BY <1>0, <4>1 DEF Settings
    <3>6. CASE k = "BATTERY_STATUS_LOW"
      <4>1. PICK s \in Settings :
                setting' = [setting EXCEPT !["BATTERY_STATUS_LOW"] = s["BATTERY_STATUS_LOW"]]
            BY <3>1, <3>3, <3>6
      <4> QED BY <1>0, <4>1 DEF Settings
    <3> QED BY <3>1, <3>2, <3>4, <3>5, <3>6
  <2>2. pending' \in Seq(VconfKeys) /\ slipped' \subseteq I18nKeys
        BY <1>0, <1>2, AppendRange DEF SettingChanges, Tell
  <2> QED BY <1>0, <1>2, <2>1, <2>2 DEF SettingChanges, SysTypeOK
<1>3. ASSUME NEW k \in VconfKeys, DispatchSys(k) PROVE SysTypeOK'
  <2>1. pending' \in Seq(VconfKeys) /\ Len(pending') <= MaxPending
        BY <1>0, <1>3 DEF DispatchSys
  <2>2. locale' \in Locales
        BY <1>1, <1>3 DEF DispatchSys
  <2>3. drawn' \in Names /\ at' \in {"idle", "starting"} \cup VconfKeys
        BY <1>0, <1>3, <2>2 DEF DispatchSys, Locales
  <2> QED BY <1>0, <1>3, <2>1, <2>2, <2>3 DEF DispatchSys, SysTypeOK
<1>4. CASE Initialisation
      BY <1>0, <1>1, <1>4 DEF Initialisation, InitReads, InitReadsFails, InitWatches,
         InitWatchesFails, SetI18n, SetI18nFails, SysTypeOK, Locales
<1>5. CASE SysExit
  <2>1. pending' \in Seq(VconfKeys) /\ Len(pending') <= MaxPending /\ slipped' \subseteq I18nKeys
    <3>1. <<>> \in Seq(VconfKeys) /\ Len(<<>>) <= MaxPending
          OBVIOUS
    <3> QED BY <1>0, <1>5, <3>1 DEF SysExit
  <2> QED BY <1>0, <1>5, <2>1 DEF SysExit, SysTypeOK
<1>6. CASE Application
  <2>1. locale' \in Locales /\ domain' \in {"default", "name", "own"} /\ preset' \in BOOLEAN
        /\ slipped' \subseteq I18nKeys
        BY <1>0, <1>1, <1>6 DEF Application, Register, AppcoreSetI18n, AppcoreSetI18nNoDomain,
           SetI18n, SetI18nFails
  <2>2. drawn' \in Names
        BY <1>0, <1>6, <2>1 DEF Application, Register, AppcoreSetI18n,
           AppcoreSetI18nNoDomain, Locales
  <2> QED BY <1>0, <1>6, <2>1, <2>2 DEF Application, Register, AppcoreSetI18n,
             AppcoreSetI18nNoDomain, SysTypeOK
<1>7. CASE CallbackReturns \/ AulTakesStartBundle \/ UNCHANGED vars
      BY <1>0, <1>7 DEF CallbackReturns, AulTakesStartBundle, vars, sysVars, SysTypeOK
<1> QED BY <1>2, <1>3, <1>4, <1>5, <1>6, <1>7 DEF SysNext

(***************************************************************************)
(* Watching starts with nothing under way, and ends with it.               *)
(***************************************************************************)
LEMMA WatchedStep ==
  ASSUME SysTypeOK, CoreInv, OnlyWatched, [SysNext]_vars PROVE OnlyWatched'
<1>0. /\ pending \in Seq(VconfKeys) /\ core.state \in {0, 1}
      /\ core.state = 0 => vconf = {} /\ pending = <<>>
      /\ UnderWay \subseteq vconf
      BY DEF SysTypeOK, CoreTypeOK, CoreInv, NothingLeftBehind, OnlyWatched
<1>1. ASSUME NEW k \in VconfKeys, SettingChanges(k) PROVE OnlyWatched'
  <2>1. CASE pending' = pending
        BY <1>1, <2>1 DEF SettingChanges, OnlyWatched, UnderWay, coreVars
  <2>2. CASE k \in vconf /\ pending' = Append(pending, k)
    <3>1. Range(pending') = Range(pending) \cup {k}
          BY <1>0, <2>2, AppendRange
    <3> QED BY <1>0, <1>1, <2>2, <3>1 DEF SettingChanges, OnlyWatched, UnderWay, coreVars
  <2> QED BY <1>1, <2>1, <2>2 DEF SettingChanges, Tell
<1>2. ASSUME NEW k \in VconfKeys, DispatchSys(k) PROVE OnlyWatched'
  <2>1. Range(pending') \subseteq Range(pending)
        BY <1>0, <1>2, TailRange DEF DispatchSys
  <2>2. core.state # 0
        BY <1>0, <1>2 DEF DispatchSys
  <2>3. at' # "starting"
        BY <1>2 DEF DispatchSys, VconfKeys
  <2> QED BY <1>0, <1>2, <2>1, <2>2, <2>3 DEF DispatchSys, OnlyWatched, UnderWay, coreVars
<1>3. CASE InitReads \/ InitReadsFails
      BY <1>3 DEF InitReads, InitReadsFails, I18nFails, OnlyWatched, UnderWay, coreVars
<1>4. CASE InitWatches
      BY <1>0, <1>4, EmptyRange DEF InitWatches, AppcoreInit, OnlyWatched, UnderWay,
         CoreTypeOK, CoreInv
<1>5. CASE InitWatchesFails
      BY <1>0, <1>5, EmptyRange, ClearedCore DEF InitWatchesFails, AulLaunchInitFails,
         ArgvHandlerFails, InitError, DelVconf, OnlyWatched, UnderWay
<1>6. CASE SysExit
      BY <1>0, <1>6, EmptyRange, ClearedCore DEF SysExit, AppcoreExit, DelVconf, OnlyWatched,
         UnderWay
<1>7. CASE Application
  <2>1. core'.state = core.state /\ UNCHANGED <<vconf, pending, at>>
        BY <1>7 DEF Application, Register, SetEventCallback, AppcoreSetI18n,
           AppcoreSetI18nNoDomain, coreVars, CoreInv, CoreTypeOK
  <2> QED BY <2>1 DEF OnlyWatched, UnderWay
<1>8. CASE CallbackReturns
      BY <1>8 DEF CallbackReturns, OnlyWatched, UnderWay, coreVars
<1>9. CASE AulTakesStartBundle \/ UNCHANGED vars
      BY <1>9 DEF AulTakesStartBundle, TakeStartBundle, vars, sysVars, coreVars, OnlyWatched,
         UnderWay
<1> QED BY <1>1, <1>2, <1>3, <1>4, <1>5, <1>6, <1>7, <1>8, <1>9 DEF SysNext, Initialisation

(***************************************************************************)
(* A change is under way or has slipped until the process has read it, and *)
(* every reading puts both settings, or the one it is about, into effect.  *)
(***************************************************************************)
LEMMA EffectIs == SettingsInEffect <=> /\ InStep("LANGSET") => InLanguage(locale)
                                       /\ InStep("REGIONFORMAT") => InRegion(locale)
BY DEF SettingsInEffect, InLanguage, InRegion

LEMMA EffectStep ==
  ASSUME SysTypeOK, OnlyWatched, SettingsInEffect, [SysNext]_vars PROVE SettingsInEffect'
<1> USE SysAssumption DEF InStep, UnderWay
<1>0. /\ InStep("LANGSET") => InLanguage(locale)
      /\ InStep("REGIONFORMAT") => InRegion(locale)
      /\ pending \in Seq(VconfKeys) /\ locale \in Locales
      BY EffectIs DEF SysTypeOK
<1>e. /\ (InStep("LANGSET") => InLanguage(locale))'
      /\ (InStep("REGIONFORMAT") => InRegion(locale))'
      => SettingsInEffect'
      BY DEF SettingsInEffect, InLanguage, InRegion
<1>1. ASSUME NEW k \in VconfKeys, SettingChanges(k) PROVE SettingsInEffect'
  <2>1. Range(pending) \cup slipped \subseteq Range(pending') \cup slipped'
    <3>1. CASE pending' = Append(pending, k) /\ slipped' = slipped
      <4>1. Range(pending') = Range(pending) \cup {k}
            BY <1>0, <3>1, AppendRange
      <4> QED BY <3>1, <4>1
    <3>2. CASE pending' = pending /\ slipped \subseteq slipped'
          BY <3>2
    <3> QED BY <1>1, <3>1, <3>2 DEF SettingChanges, Tell
  <2>2. k \in I18nKeys => k \in Range(pending') \cup slipped'
    <3>1. CASE pending' = Append(pending, k)
          BY <1>0, <3>1, AppendRange
    <3>2. CASE pending # <<>> /\ pending[Len(pending)] = k /\ pending' = pending
          BY <1>0, <3>2 DEF Range
    <3>3. CASE slipped' = slipped \cup ({k} \cap I18nKeys)
          BY <3>3
    <3> QED BY <1>1, <3>1, <3>2, <3>3 DEF SettingChanges, Tell
  <2>3. /\ k # "LANGSET" => setting'.LANGSET = setting.LANGSET
        /\ k # "REGIONFORMAT" => setting'.REGIONFORMAT = setting.REGIONFORMAT
        BY <1>1 DEF SettingChanges, SysTypeOK, Settings
  <2>4. locale' = locale
        BY <1>1 DEF SettingChanges
  <2>5. (InStep("LANGSET") => InLanguage(locale))'
        BY <1>0, <2>1, <2>2, <2>3, <2>4 DEF InLanguage, I18nKeys
  <2>6. (InStep("REGIONFORMAT") => InRegion(locale))'
        BY <1>0, <2>1, <2>2, <2>3, <2>4 DEF InRegion, I18nKeys
  <2> QED BY <1>e, <2>5, <2>6
<1>2. ASSUME NEW k \in VconfKeys, DispatchSys(k) PROVE SettingsInEffect'
  <2>1. Range(pending) = {k} \cup Range(pending')
        BY <1>0, <1>2, TailRange DEF DispatchSys
  <2>2. slipped' = slipped \ {k} /\ locale' = Pre(k, locale) /\ setting' = setting
        BY <1>2 DEF DispatchSys
  <2>3. CASE k = "LANGSET"
    <3>1. InLanguage(locale')
          BY <1>0, <2>2, <2>3, LanguageSet DEF Pre
    <3>2. locale'.region = locale.region
          BY <1>0, <2>2, <2>3, RegionSet DEF Pre
    <3> QED BY <1>0, <1>e, <2>1, <2>2, <2>3, <3>1, <3>2 DEF InLanguage, InRegion
  <2>4. CASE k = "REGIONFORMAT"
    <3>1. InRegion(locale')
          BY <1>0, <2>2, <2>4, RegionSet DEF Pre
    <3>2. InLanguage(locale) => InLanguage(locale')
          BY <1>0, <2>2, <2>4, LanguageSet DEF Pre
    <3> QED BY <1>0, <1>e, <2>1, <2>2, <2>4, <3>1, <3>2 DEF InLanguage, InRegion
  <2>5. CASE k \notin I18nKeys
    <3>1. locale' = locale
          BY <2>2, <2>5 DEF Pre, I18nKeys
    <3> QED BY <1>0, <1>e, <2>1, <2>2, <2>5, <3>1 DEF InLanguage, InRegion, I18nKeys
  <2> QED BY <2>3, <2>4, <2>5 DEF I18nKeys
<1>3. ASSUME SetI18n("name") \/ SetI18n("own") \/ SetI18nFails
             \/ (locale' = Updated(locale) /\ slipped' = {}),
             UNCHANGED <<setting, pending>>
      PROVE  SettingsInEffect'
      BY <1>3, <1>e, ReadInEffect DEF SetI18n, SetI18nFails, InLanguage, InRegion
<1>4. ASSUME UNCHANGED <<setting, pending, locale, slipped>> PROVE SettingsInEffect'
      BY <1>0, <1>4, <1>e DEF InLanguage, InRegion
<1>5. CASE Initialisation
      BY <1>3, <1>4, <1>5 DEF Initialisation, InitReads, InitReadsFails, InitWatches,
         InitWatchesFails
<1>6. CASE SysExit
      BY <1>0, <1>6, <1>e, EmptyRange DEF SysExit, InLanguage, InRegion, I18nKeys
<1>7. CASE Application
      BY <1>3, <1>4, <1>7 DEF Application, Register, AppcoreSetI18n, AppcoreSetI18nNoDomain
<1>8. CASE CallbackReturns \/ AulTakesStartBundle \/ UNCHANGED vars
      BY <1>4, <1>8 DEF CallbackReturns, AulTakesStartBundle, vars, sysVars
<1> QED BY <1>1, <1>2, <1>5, <1>6, <1>7, <1>8 DEF SysNext

(***************************************************************************)
(* The messages category only changes in steps that tell the application,  *)
(* or while core is not in use, or with no callback for LANGCHG.           *)
(***************************************************************************)
LEMMA DrawnStep ==
  ASSUME SysTypeOK, CoreInv, OnlyWatched, DrawnInLanguage, [SysNext]_vars
  PROVE  DrawnInLanguage'
<1> USE CoreAssumption
<1>0. /\ locale \in Locales /\ pending \in Seq(VconfKeys)
      /\ core.state \in {0, 1} /\ core.sops \in [SysEvents -> Cbs \cup {NULL}]
      BY DEF SysTypeOK, CoreInv, CoreTypeOK
<1>1. ASSUME UNCHANGED <<core, drawn>>, locale'.messages = locale.messages
      PROVE  DrawnInLanguage'
      BY <1>1 DEF DrawnInLanguage
<1>2. ASSUME drawn' = locale'.messages \/ core'.state = 0 \/ core'.sops["LANGCHG"] = NULL
      PROVE  DrawnInLanguage'
      BY <1>2, <1>0 DEF DrawnInLanguage
<1>3. ASSUME NEW k \in VconfKeys, DispatchSys(k) PROVE DrawnInLanguage'
  <2>1. core' = core
        BY <1>3 DEF DispatchSys, coreVars
  <2>2. CASE k = "LANGSET"
    <3>1. k \in vconf
      <4>1. Head(pending) \in Range(pending)
            BY <1>0, <1>3, TailRange DEF DispatchSys
      <4> QED BY <1>3, <4>1 DEF DispatchSys, OnlyWatched, UnderWay
    <3>2. Called(k) <=> core.sops["LANGCHG"] # NULL
          BY <2>2, <3>1 DEF Called, Delivered, EventOf
    <3>3. CASE Called(k)
          BY <1>2, <1>3, <2>2, <3>3 DEF DispatchSys
    <3>4. CASE ~Called(k)
          BY <1>2, <2>1, <3>2, <3>4
    <3> QED BY <3>3, <3>4
  <2>3. CASE k # "LANGSET"
    <3>1. locale'.messages = locale.messages
          BY <1>0, <1>3, <2>3, RegionSet DEF DispatchSys, Pre
    <3>2. drawn' = drawn
          BY <1>3, <2>3 DEF DispatchSys
    <3> QED BY <1>1, <2>1, <3>1, <3>2
  <2> QED BY <2>2, <2>3
<1>4. CASE InitReads \/ InitReadsFails
      BY <1>2, <1>4 DEF InitReads, InitReadsFails, I18nFails, coreVars
<1>5. CASE InitWatches
      BY <1>2, <1>5 DEF InitWatches
<1>6. CASE InitWatchesFails
      BY <1>2, <1>6, ClearedCore DEF InitWatchesFails, AulLaunchInitFails, ArgvHandlerFails,
         InitError
<1>7. CASE SysExit
      BY <1>0, <1>1, <1>2, <1>7, ClearedCore DEF SysExit, AppcoreExit
<1>8. ASSUME NEW e \in SysEvents, NEW cb \in Cbs \cup {NULL}, Register(e, cb)
      PROVE  DrawnInLanguage'
  <2>1. /\ core'.state = core.state /\ locale' = locale
        /\ core'.sops = [core.sops EXCEPT ![e] = cb]
        BY <1>8 DEF Register, SetEventCallback, CoreInv, CoreTypeOK
  <2>2. CASE e = "LANGCHG"
        BY <1>0, <1>2, <1>8, <2>1, <2>2 DEF Register, SysEvents
  <2>3. CASE e # "LANGCHG"
        BY <1>0, <1>8, <2>1, <2>3 DEF Register, DrawnInLanguage, SysEvents
  <2> QED BY <2>2, <2>3
<1>9. CASE AppcoreSetI18n \/ AppcoreSetI18nNoDomain
      BY <1>2, <1>9 DEF AppcoreSetI18n, AppcoreSetI18nNoDomain
<1>10. CASE \E k \in VconfKeys : SettingChanges(k)
      BY <1>1, <1>10 DEF SettingChanges, coreVars
<1>11. CASE CallbackReturns \/ AulTakesStartBundle \/ UNCHANGED vars
      BY <1>1, <1>11 DEF CallbackReturns, AulTakesStartBundle, TakeStartBundle, vars, sysVars,
         coreVars
<1> QED BY <1>3, <1>4, <1>5, <1>6, <1>7, <1>8, <1>9, <1>10, <1>11, SysAssumption
       DEF SysNext, Initialisation, Application

(***************************************************************************)
(* set_i18n only binds the name of the application while _set is not set.  *)
(***************************************************************************)
LEMMA DomainStep == ASSUME DomainKept, [SysNext]_vars PROVE DomainKept'
BY DEF SysNext, Initialisation, InitReads, InitReadsFails, InitWatches, InitWatchesFails,
       SettingChanges, DispatchSys, CallbackReturns, SysExit, Application, Register,
       AppcoreSetI18n, AppcoreSetI18nNoDomain, AulTakesStartBundle, SetI18n, SetI18nFails,
       DomainKept, vars, sysVars

(***************************************************************************)
(* A process that has read nothing is not in step with anything.           *)
(***************************************************************************)
LEMMA SysInitInv == SysInit => SysInv
<1> SUFFICES ASSUME SysInit PROVE SysInv
    OBVIOUS
<1>1. CoreInv
      BY CoreInitInv DEF SysInit
<1>2. SysTypeOK
  <2>1. <<>> \in Seq(VconfKeys) /\ Len(<<>>) <= MaxPending
        BY SysAssumption
  <2>2. locale \in Locales /\ drawn \in Names
        BY DEF SysInit, Locales, Names
  <2> QED BY <1>1, <2>1, <2>2 DEF SysInit, SysTypeOK, CoreInv
<1>3. OnlyWatched
      BY EmptyRange DEF SysInit, OnlyWatched, UnderWay
<1>4. SettingsInEffect
      BY DEF SysInit, SettingsInEffect, InStep, I18nKeys
<1>5. DrawnInLanguage /\ DomainKept
      BY DEF SysInit, DrawnInLanguage, DomainKept
<1> QED BY <1>1, <1>2, <1>3, <1>4, <1>5 DEF SysInv

(***************************************************************************)
(* SysInv is inductive.                                                    *)
(***************************************************************************)
LEMMA SysInvariant == SysSpec => []SysInv
<1>1. SysInv /\ [SysNext]_vars => SysInv'
  <2> SUFFICES ASSUME SysInv, [SysNext]_vars PROVE SysInv'
      OBVIOUS
  <2>1. CoreInv'
        BY SysStepsOfCore, CoreStepInv DEF SysInv
  <2>2. SysTypeOK'
        BY <2>1, SysTypeStep DEF SysInv, CoreInv
  <2> QED BY <2>1, <2>2, WatchedStep, EffectStep, DrawnStep, DomainStep DEF SysInv
<1> QED BY SysInitInv, <1>1, PTL DEF SysSpec

(***************************************************************************)
(* Whatever the settings do, whenever appcore_init reads and watches them, *)
(* and whichever locales are installed: a setting that is neither under    *)
(* way nor slipped is where SettingsInEffect says: the language in the     *)
(* environment and the messages, the region in the environment only, and   *)
(* the formats as the last successful setlocale left them.                 *)
(***************************************************************************)
THEOREM SettingsCorrect == SysSpec => [](SysTypeOK /\ SettingsInEffect)
<1>1. SysInv => SysTypeOK /\ SettingsInEffect
      BY DEF SysInv
<1> QED BY SysInvariant, <1>1, PTL

(***************************************************************************)
(* Types: the second setlocale of update_lang and __set_i18n, which reads  *)
(* the language again, never leaves the process in a locale without name,  *)
(* even when the language has never been set.                              *)
(***************************************************************************)
THEOREM SettingsTyped == SysSpec => []SysTypeOK
<1> QED BY SettingsCorrect, PTL

(***************************************************************************)
(* An application with a callback for LANGCHG is never left with texts in  *)
(* another language than the process's.                                    *)
(***************************************************************************)
THEOREM DrawnCorrect == SysSpec => []DrawnInLanguage
<1>1. SysInv => DrawnInLanguage
      BY DEF SysInv
<1> QED BY SysInvariant, <1>1, PTL

(***************************************************************************)
(* No appcore_init and no failed appcore_set_i18n takes the domain of      *)
(* texts away that the application chose.                                  *)
(***************************************************************************)
THEOREM DomainCorrect == SysSpec => []DomainKept
<1>1. SysInv => DomainKept
      BY DEF SysInv
<1> QED BY SysInvariant, <1>1, PTL

(***************************************************************************)
(* The split of appcore_init in two and of the handlers around their       *)
(* callbacks is still an Appcore, so what a vconf callback dereferences    *)
(* after the application's callback has run (core.ops) is there.           *)
(***************************************************************************)
THEOREM SysUsesAppcore == SysSpec => CoreSpec /\ []UpcallSafe
<1>1. SysInit => CoreInit
      BY DEF SysInit
<1>2. SysInv /\ [SysNext]_vars => [CoreNext]_coreVars
      BY SysStepsOfCore DEF SysInv
<1>3. SysInv => UpcallSafe
      BY DEF SysInv, CoreInv
<1> QED BY SysInvariant, <1>1, <1>2, <1>3, PTL DEF SysSpec, CoreSpec
=============================================================================
