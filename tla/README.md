# A TLA+ model of app-core

app-core is the application core of the Tizen platform: a C library that an
application hands its life-cycle callbacks to and that calls them back as
windows appear and disappear, as the launcher sends messages, as system
settings change and as the device is turned. This directory models the library
in TLA+, checks the models with TLC and proves the main results with TLAPS.

Paths below are relative to the repository: `src/appcore-efl.c:146` is line 146
of that file.

## 1. The system

| component | source | state | operations | interacts with |
|---|---|---|---|---|
| appcore | `src/appcore.c`, `include/appcore-internal.h` | `core` (state, ops, sops[]), `open` | `appcore_init`, `appcore_exit`, `appcore_set_event_callback`, `appcore_set_open_cb`, `appcore_flush_memory`; handlers `__vconf_cb`, `__aul_handler` | vconf (five watched keys), AUL (START, RESUME, TERMINATE), the toolkit through `ops->cb_app` |
| appcore-efl, life cycle | `src/appcore-efl.c:40-226, 449-575` | `priv` (state, ops, three event handlers, mftimer), `resource_reclaiming` | `appcore_efl_main`, `appcore_set_system_resource_reclaiming`; `__do_app` | appcore, ecore's timers, elm_run / elm_exit, sysman, the application's five callbacks |
| appcore-efl, windows | `src/appcore-efl.c:77-90, 233-447` | `g_winnode_list`, `b_active` | `__show_cb`, `__hide_cb`, `__visibility_cb` | X events, `__do_app` (PAUSE and RESUME) |
| rotation | `src/appcore-rotation.c` | `rot`, `changed_m`, `changed_data`, `changed_handle` | set, unset, pause, resume, get_rotation_state; handlers `__changed_cb`, `__lock_cb`, `__property` | sensor framework, vconf (the user's lock), a property of the root window (the window manager's lock) |
| i18n | `src/appcore-i18n.c` | `_set`, the process's environment and locale | `appcore_set_i18n`, `set_i18n`, `update_lang`, `update_region` | appcore_init, `__vconf_cb` |
| raise | `src/appcore-X.c` | two atoms | `x_raise_win` | AUL_RESUME, the X window tree |
| measure | `src/appcore-measure.c` | `tv_s` | three functions of the clock | none |
| noti, pmcontrol, util | `src/appcore-noti.c` and others | | | not built: commented out in `CMakeLists.txt:25-29` |

Everything runs on the thread of the main loop. The only concurrency is that
of an event-driven program: which handler the loop runs next, what the outside
world did since the event it handles was sent, and what a handler left behind
for a later one. So one handler, from the loop calling it to its return, is one
action; the `create` and `terminate` callbacks of the application run outside
the loop and get states of their own.

What is hard about the code, and what makes each component correct:

* **Life cycle.** `priv.state`, the flush timer and the system manager have to
  stay in step over every sequence of AUL messages, window events and timer
  events, terminations and relaunches in the same loop iteration included. On
  every path out of `appcore_efl_main` nothing may be left that can call back
  into the cleared `priv`. The callbacks must come in the order the programming
  guide gives.
* **Windows.** The list lags behind the screen. Once the queue of X events is
  empty it must be exact, and PAUSE and RESUME must fit it.
* **appcore.** Initialisation can fail half-way; registered keys without a
  toolkit would crash at the next change.
* **Settings.** A change of language is a notification that arrives later, and
  the first reading of the settings is not the watching of them. Environment,
  messages, the callbacks and what is drawn must agree all the same; the formats
  follow the region only at the next `setlocale`.
* **Raise.** The window tree changes while it is being searched.
* **Rotation.** Three sources with queues of their own, two locks, and a
  delivery that is put off. The application must end up with the mode of the
  device, and a failing call in any operation must not leave a callback that is
  called after it was forgotten.

`PROJECT.json` lists the hazards one by one, at the line where each bites.

## 2. Modules

| module | models | built on |
|---|---|---|
| `AppLifecycle` | what the application is promised: the order of its five callbacks | |
| `Appcore` | `appcore.c`: one action per exported operation, each failure of `appcore_init` | |
| `AppcoreEfl` | `appcore-efl.c`: `appcore_efl_main`, `__do_app`, timer, window list, handlers | EXTENDS `Appcore`, INSTANCE `AppLifecycle` |
| `XDisplay` | `AppcoreEfl` behind an X server with windows of its own and a FIFO queue of events | EXTENDS `AppcoreEfl` |
| `RotationPromise` | what a client of the rotation service is promised: who is called, when, and not twice with the same mode | |
| `Rotation` | `appcore-rotation.c` with the three services it listens to | INSTANCE `RotationPromise` |
| `SysEvents` | `__vconf_cb` and `appcore-i18n.c`: settings on their way to the application | EXTENDS `Appcore` |
| `XRaise` | AUL_RESUME, the open callback, `appcore-X.c` on a window tree that changes | |
| `Measure` | `appcore-measure.c`, as operators, with their theorems | |
| `MCAppcoreEfl`, `MCAppcoreEflClaims`, `MCXDisplay`, `MCRotation`, `MCSysEvents`, `MCXRaise` | constants for TLC; claims of the documentation that the code does not keep | |
| `AppcoreProofs`, `AppcoreEflProofs`, `XDisplayProofs`, `RotationProofs`, `SysEventsProofs`, `XRaiseProofs` | theorems | the module each is named after |
| `XWindowsProofs` | theorems about the window list against the screen | EXTENDS `XDisplayProofs` |

### How the state corresponds to the code

`Appcore`: `core` is `static struct appcore core` (state, ops, sops);
`vconf` is the set of keys vconf watches for us (`AddVconf`, `DelVconf`), `aul` says that
`aul_launch_init` installed `__aul_handler`, `start` that AUL still holds the
bundle of the command line, which it hands over at the first idler.

`AppcoreEfl`: `ops`, `state` and `mftimer` are the members of `priv`;
`handlers` stands for its three event handlers, which are only ever added and
deleted together. `timers` counts the timers ecore really holds, so that a
timer `priv` forgot is visible. `pc` says where `appcore_efl_main` is. `quit` is
set by `elm_exit`; after it the iteration in progress may still dispatch what is
queued, so it guards nothing but `LeaveLoop`. `winnode` gives for each window
whether `g_winnode_list` has a node for it and its `bfobscured`. `sysman` is
what the system manager was told last. `op`, `suspended` and `cret` are
history: no action looks at them.

`cached` says that the toolkit's caches hold something: drawing fills them
(`CachesChange`), a flush empties them.

`DoAppTerminate`, `DoAppReset`, `DoAppPause` and `DoAppResume` are the events of
`__do_app`'s switch; the timer deletion before it is part of each of them
(`TimerDelThenAdd`). `DoAppMemFlush` and `DoAppLowMemPost` are the two events
that return before the timer is looked at. `FlushMemory` is
`appcore_flush_memory`, reached from the timer, from `LowMemoryPost` after the
callback of the low-memory key, and from the application.
`Backgrounded` and `Foregrounded` are the two decisions of the window handlers.
The application's callbacks may call `elm_exit` and
`appcore_set_system_resource_reclaiming` (`AppCode`), and may register event
callbacks at any time (`SetCallback`).

`XDisplay` adds `xwin`, the truth on the screen, and `xq`, the events in
flight. `MapWindow` sends a show event and the window's visibility, as a server
does; unmapping sends a hide event and no visibility event. `elm` is the count
of `elm_init`: the display is open while it is positive, and `FailedStart` and a
cancelled create raise it without an `elm_shutdown`, so that the next launch
meets the windows and the events of the one before.

`SysEvents`: `setting` is vconf's side, `pending` the notifications on their
way, `at` the place in a handler or in `appcore_init` where other code may run:
`__vconf_cb` is split at the application's callback (`DispatchSys`,
`CallbackReturns`), `appcore_init` between `set_i18n` and `__add_vconf`
(`InitReads`, `InitWatches`). `locale` holds the environment variables
`update_lang` and `update_region` set and the categories `setlocale` gave;
`preset` is `_set`. `slipped`, `drawn` and `locale.seen`, the region the last
successful `setlocale` found, are history.

`XRaise`: `parent`, `rank`, `own` and `netpid` are the server's window tree,
stacking order and `_NET_WM_PID` properties, which the other clients may change
before every request. `todo` is the recursion of `__find_win`: the windows still
to be visited, the children of the current one put in front of what was left of
the levels above. `CheckPid` is `__get_win_pid`, `QueryTree` is `XQueryTree`; a
match ends all levels at once. `goal` and `route` are history: a window chosen
when the search starts, with the windows above it, forgotten when another client
touches one of them.

`RotationPromise` keeps of all this the registered client and the last call:
whose callback, which mode, and whether this registration has been called
before. `Rotation!Promise` maps the client to `rot.callback`; `told.nth`
alternates, so that a call repeated with the same mode is a step and not a
stutter. The data of a call is not part of the promise: that is `OwnData`, which
the code does not always keep (`claim_rotation_data`).

`Measure` has no state but `tv_s`, so it is operators only: `Msec` is
`__get_msec` with the division of C, `ToInt` its result type.

`Rotation`: `rot`, `changed_m`, `changed_data` and `changed_handle` as in the
code (`changed_handle` is a boolean: there is at most one handler). `connected`, `registered`
and `started` are what the sensor framework believes, `sfq`, `lockq` and
`propq` what has not been dispatched yet: sensor events in order, one pending
change of the vconf key, a count of property events. A client stands for a
callback together with its data. With `SfMayFail` every call to the sensor
framework or vconf may fail, those whose result nobody looks at too:
`DelRotlock` may leave `__lock_cb` with vconf (`src/appcore-rotation.c:226`),
and what undoes half a set or resume may leave a connection or a registration
behind. `val` in `__lock_cb` is read before anything
was stored in it; `GarbageValues` is what it may hold.

## 3. What TLC checks

| run | distinct states | shows |
|---|---|---|
| `efl` | 316,928 | `TimerDiscipline`, `CleanExit`, `UpcallSafe`, `HandlersNeedOps`, `ActiveConsistent`; the refinement `FollowsLifecycle`; `RequestsKept`; liveness `TerminateHonoured`, `GetsFirstReset`, `FlushHappens` |
| `xdisplay` | 378,984 | `ListMatchesScreen`, `ResumedWhenVisible`, `PausedWhenInvisible`, `NoGhostWindow`; liveness `VisibleMeansResumed` |
| `rotation` | 7,752 | `ReleasedWhenUnset`, `UpToDate`, `DeferralWillEnd`; liveness `EventuallyTold` |
| `rotation_failures` | 1,111,052 | `CallbackSafe` with every call failing at will; the refinement `KeepsPromise` |
| `sysevents` | 564,944 | `SettingsInEffect`, `DrawnInLanguage`, `DomainKept`; liveness `LanguageArrives`, `ChangeReachesCallback` |
| `xraise` | 583,536 | `StableFound`; `QuietSearch`, the exact answer when nobody interferes; `SearchAdvances`, every request leaves less to do; liveness `ResumeAnswered` |

Each run but `xdisplay` and `rotation_failures` also checks the type invariant of
its module; `rotation` checks that of `Rotation`.

The runs that end in a violation compare a sentence of the documentation with
the code:

| run | the documentation | the code |
|---|---|---|
| `claim_create` | a non-zero result of create means no main loop (`include/appcore-common.h:113`, `include/appcore-efl.h:78`) | only -1 does (`src/appcore-efl.c:468`) |
| `claim_resume` | RESUME is called when a window is visible (`include/SLP_Appcore_PG.h:87`) | not after a relaunch in the background: RESET has already set AS_RUNNING (`src/appcore-efl.c:185, 206`) |
| `claim_restart` | PAUSE is called when all windows are invisible (`include/SLP_Appcore_PG.h:83`) | not in a second `appcore_efl_main` whose predecessor left a node in `g_winnode_list` |
| `claim_rotation_lock` | while rotation is locked the callback is not invoked (`include/appcore-common.h:220`) | `__property` does not look at `rot.lock` |
| `claim_lock_callback` | the callback is invoked every time the mode changes (`include/appcore-common.h:211`) | `__lock_cb` decides on an uninitialised variable whether to wait for an event that may never come (`src/appcore-rotation.c:172, 188`) |
| `claim_rotation_data` | the callback is called with the data it was set with (`include/appcore-common.h:223`) | a change put off survives unset with its data, and `__property` hands that to the next callback (`src/appcore-rotation.c:112`) |

### Bounds

* `efl`: two windows are enough for one to be visible while the other is
  hidden, obscured or unknown, which is all `__check_visible` tells apart. The
  application fills in all five slots, all but pause, or none; create returns
  -1, 0 or another error, pause an error or success; one event callback; vconf
  refuses nothing or the low-memory key; calloc may fail. There is no bound on
  the number of events or of calls of `appcore_efl_main`: the state space is
  finite as it is.
* `xdisplay`: two top windows and one child window, three events in flight
  (`MaxQueue`), so that a window's show, its visibility and another window's
  event can be waiting together; `elm_init` twice (`MaxElm`), so that one launch
  may fail or be cancelled before the one that runs; one main loop
  (`MaxMains`), because a second one inherits `g_winnode_list` and `b_active`:
  that is the run `claim_restart`, with two. calloc succeeds: a node lost to a failed
  calloc breaks `ListMatchesScreen` by its nature.
* `rotation`: three codes, one of them not in `re_to_rm[]`, two sensor events
  and two property events in flight (`MaxEvents`, `MaxProps`), one client and
  one successful `appcore_set_rotation_cb` (`MaxSets`) with unsetting at any
  moment.
* `rotation_failures`: two clients, two handles and two registrations, so that
  a connection leaked by the first can meet the second; one event of each kind.
  The clients are symmetric (`MCSymmetry`): nothing tells one from another, and
  the properties of this run are safety properties.
* `sysevents`: a language and a region that are installed, one each that is not,
  a battery that is low or critical, two notifications in flight
  (`MaxPending`); vconf watches every key or refuses the language. Settings may
  change without end. With "C", where the process starts, there is an old and a
  new language; the installed region makes the formats differ from it, the other
  one makes `setlocale` fail and need the second call, and the other language
  makes that one fail too.
* `xraise`: three windows, one not eligible (`Odd`), in all trees and stacking
  orders, with two changes by others during a search (`MaxChanges`): enough to
  move a window from before the search to behind it, or to take one away and put
  another in its place. Before and after a search changes are unlimited, and so
  is the number of AUL_RESUME.

### Fairness

Only the loop is fair: `AppcoreEfl!Fairness` has weak fairness on leaving the
loop after `elm_exit`, on the idler that hands over the start bundle, on an
expired timer, and on create and terminate returning. ecore's main loop runs
its idlers and timers in every iteration and ends when `do_quit` is set; the
rest says that the application's callbacks do not hang. The properties never
rely on a message or a window event coming. `XDisplay` and `Rotation` have weak
fairness on dispatching what is queued and none on the server, the user, the
device or the window manager. `SysEvents` is fair to `DispatchSys` and to the
return of callbacks, `XRaise` to the steps of the search, which wait for nothing
but an answer of the server, and to the return of the open callback.

`TerminateHonoured` is about AS_DYING, not about a termination request that is
never dispatched. `FlushHappens` says that a set timer ends in empty caches, in
an application that has left the background, or in reclaiming switched off. `ChangeReachesCallback` has to
except a callback withdrawn meanwhile and a battery that recovered, because the
value is read when the notification is dispatched.

## 4. What is proved

The proofs hold for every value of the constants allowed by the assumptions
`CoreAssumption`, `EflAssumption`, `DisplayAssumption`, `RotationAssumption`,
`SysAssumption` and `RaiseAssumption`, which only state types and that `NULL`,
`"C"` and `Gone` are none of the values they stand beside.

**appcore.c** (`AppcoreProofs`). `CoreSafe`: `CoreSpec` implies the types,
`UpcallSafe` and `NothingLeftBehind`. Their conjunction `CoreInv` is inductive,
because every failure path of `appcore_init` that registered something ends in
`__del_vconf` and `__clear`.

**appcore-efl.c** (`AppcoreEflProofs`). One inductive invariant, `IInv`,
carries all theorems. `TimerDiscipline` alone is not inductive: that the timer
is only set while paused needs the types, and that a return from
`appcore_efl_main` leaves no timer needs to know where it is. `MainInv` says
what is set up at each `pc`: ops, handlers, core and state. `OpInv` relates
`priv.state` to the callback reached last (AS_PAUSED means it was pause,
AS_RUNNING that it was reset or resume), which turns every step of `__do_app`
into a step of `AppLifecycle`. `ActiveConsistent` is needed for `OpInv` no more
than the other way round, but both need `MainInv`. From `IInv` follow
`TypeCorrect`, `TimersCorrect`, `ExitsClean`, `UpcallsCorrect`,
`ActivityCorrect`, and the refinement `LifecycleCorrect`. `BackgroundInv`, that
an application running in the background was started there, is needed by
`PausedCorrect` below. `RequestsNotLost` needs `OwedInv`: a dying application is on
its way out of the loop, and one that has not had its first RESET still has its
start bundle with AUL, from `appcore_init` on; it is the safety half of
`TerminateHonoured` and of `GetsFirstReset`. Steps that go through `appcore.c` are discharged by
`CoreStepInv` of `AppcoreProofs`: `CoreSteps` shows that every step of
`AppcoreEfl` is a step of `Appcore` or leaves it alone.

**The composition** (`XDisplayProofs`). The lemma `DisplayImplementsEfl` carries
what is proved of `AppcoreEfl` for arbitrary window events over to events that
come through the queue; it needs the type of the queue, and that launches are
counted. `DisplaySafe` states what holds by it.

**The windows** (`XWindowsProofs`). That the list is exact when the queue is
empty says nothing of the states in between, so it is not inductive. What is, is
`ListCatchesUp`: handling the events still in the queue, one after the other,
turns each node into what the screen shows (`Leads`, with the nodes on the way
as its witness). A change of the screen appends one event and changes the end of
that walk, a dispatch takes its first step away. The end of a main loop may take the
events away and leave the nodes, so in a later loop the walk may end wrongly for
a window that is not mapped (`Exact`); mapping one puts its node right. Hence
`ListKeepsUp`, for any number of main loops and a `calloc` that does not fail:
every mapped window has its true node. `ListExact` is the same for one loop,
without the exception (a second one finds nodes left behind, which
`claim_restart` shows). `NoGhosts` needs no such `calloc`: its `GhostsGo` only
says that a window in the list, or about to be, is on the screen or has its hide
event behind that. `ResumedCorrect`, for any number of loops, and
`PausedCorrect`, for one (with `BackgroundInv` for whether it was paused), rest on `ActiveCatchesUp`: either `b_active` agrees
with what can be seen (in the first loop with the list), or a visibility event is
still to come, as every show event has one behind it. When the last visibility
event is handled only hide events are left, and these make no node
(`LeadsQuietly`, an induction along the walk): a window that can be seen already
has the node that says so.

**Rotation** (`RotationProofs`). `RotationSafe`: `RotTypeOK /\ CallbackSafe` is
inductive. The two need each other, since resume uses `rot.handle` and only
`CallbackSafe` knows that it is a real one. `RotationReleased` needs the
stronger `Holdings`, which says for every moment, and not only after unset, what
is held of the sensor framework. `DeferralEnds` assumes `GarbageValues = {0}`;
its invariant `DeferInv` adds that root window events are selected by the time
anything can be put off. `RotationUpToDate` assumes calls that do not fail, the
same value of `val`, and either one registration that is never paused or a
window manager that does not use its lock (then for any number of registrations,
pauses and resumes); its invariant `Pursuit` says where a change not yet told
is: it is the last of the sensor's events, or an unlocking not yet dispatched,
or `changed_m`. With both, a new registration or a resume finds the `changed_m`
of an earlier time, and no invariant of this kind holds.

`RotationKeepsPromise` shows that `Rotation` implements `RotationPromise`,
without any of these assumptions, whichever calls fail. One lemma for each
handler and for the API (`SensorEffect`, `LockEffect`, `PropertyEffect`,
`ResumeEffect`, `ApiEffect`, `EnvironmentEffect`) says that a step either is
`Quiet` or `Tells`: it calls the registered callback with a mode other than
`rot.mode`, and stores that mode. With the invariant `ToldIsMode`, that
`rot.mode` is what the registration was told last, each becomes a step of the
promise (`PromiseStep`).

`RotationOwnData` is about the data of the calls. It assumes calls that do not
fail, `GarbageValues = {0}` and a window manager that does not use its lock:
under these nothing is ever put off (`Pursuit`), what vconf still has to
dispatch belongs to a listener (`Holdings`), and sensor framework and vconf were
given the data of the registered callback (`OwnDataInv`). Without the third it
is false, which is `claim_rotation_data`; without the first, too, since a
`__lock_cb` that was not removed brings its old data.

**Settings** (`SysEventsProofs`). `SysInv` joins the three safety invariants with
`CoreInv` and `OnlyWatched`: nothing is under way of a key that is not watched,
so what a change is told through survives until it is dispatched, and
`appcore_init` is half-way only while core is not in use, so that what the
invariants say of a core in use is not asked of its middle. The lemmas about `SetLocale` carry the rest:
after `update_lang` an installed language is in effect whatever the region names,
and the formats are those of the region that `setlocale` found, or the language's.
`SysUsesAppcore` shows that the finer actions still implement `Appcore`.

**Raise** (`XRaiseProofs`). `StableWindowFound` rests on `RouteAhead`: as long as
nobody touches the windows from the root down to the goal, one of them is still
ahead in `todo`, and not only the goal after it was asked for. Each of them but
the goal has a child among them, so the `QueryTree` that takes one out of `todo`
puts the next one in. `PidInterned` says that the atom exists once a window has
our process id, so the goal is recognised when its turn comes. `QuietCorrect`
needs two more facts. The windows form a tree: no set of them holds the parents
of all its members (`Rooted`), which every move of a window keeps because none
goes below itself. And the search is `Orderly` while nobody changes anything:
the windows in `todo` stand in the order of the tree, and every window of ours
is below one of them. `BelowChild` is the step of the recursion, that what is
below a window is below one of its children; it is proved by exhibiting the set
of ancestors that would otherwise contradict `Rooted`.
`SearchTerminates` is the safety half of `ResumeAnswered`, for every tree: the
number of places the recursion still has to come to (`RequestsLeft`, counting a
window once for each window of `todo` it is below) goes down with every request.
A `QueryTree` replaces a window by its children, and what is below one of them
was below the window; nothing is below two of them (`SiblingsApart`) and the
window itself below none (`NotBelowChild`), both from `Rooted`, so what is ahead
afterwards maps injectively into what was ahead before, without the window
(`PendingShrinks`).

**Measure**. `MsecError` bounds the rounding of `__get_msec`. "+ 500" is meant to
round to the nearest millisecond, and does while the microseconds of the end are
not behind those of the start by more than 500; else the division cuts off
upwards and the result is up to one and a half milliseconds long. `MsecMonotone`
shows that this never makes a later time print as an earlier one.
`MeasureTimeCorrect` adds the int.

## 5. What is only model-checked, or not modelled

* Liveness stays with TLC: `TerminateHonoured`, `GetsFirstReset`,
  `FlushHappens`, `VisibleMeansResumed`, `EventuallyTold`, `LanguageArrives`,
  `ChangeReachesCallback`, `ResumeAnswered`. The prover has no
  rules for fairness and ENABLED here. Of the first two
  `RequestsKept`, and of the last `SearchAdvances`, is what can be proved.
* The library's induction theorems take an operator as a parameter, which the
  provers cannot instantiate. Induction is done on a set instead
  (`SetInduction` in `XWindowsProofs`, from the well-foundedness of the natural
  numbers).
* Every invariant and every safety property that the passing runs check is also
  proved, some under the assumptions named with the theorem.
* `UpToDate` holds with `PauseUsed` FALSE, as the code uses the module: the
  calls of pause and resume in `__do_app` are commented out
  (`src/appcore-efl.c:199, 216`). With an application that calls them itself,
  under a window manager that uses its lock, it does not: resume tells the
  current mode without updating `changed_m`, and a change put off earlier is
  delivered afterwards.
* `OwnData` is checked only where it fails (`claim_rotation_data`) and proved
  where it holds (`RotationOwnData`). `KeepsPromise` says nothing of the data.
* Two sentences of the documentation that the code does not keep have no run of
  their own. `include/appcore-common.h:635` says that memory is flushed
  when the application enters the pause state; the timer is only set after a
  pause callback that returned 0 or more (`src/appcore-efl.c:195`: `r` starts at
  -1). And `include/appcore-efl.h:128` says that an application for which
  reclaiming is not enabled does not reclaim; switching it off does not touch a
  timer that is already set, which will still flush. `FlushHappens` asks for
  neither: it is about a timer that has been set while reclaiming stays enabled.
* `PausedWhenInvisible` does not say that a PAUSE was delivered in every case: an
  application hidden before its first RESET, or started in the background by it,
  gets none (`src/appcore-efl.c:185, 190`).
* `SettingsInEffect` says of the formats only what the code does:
  `update_region` (`src/appcore-i18n.c:52-71`) sets the environment and calls no
  `setlocale`, so after a change of the region numbers and dates keep their old
  format until the language changes or the application calls `appcore_set_i18n`.
* The rotation callback calling the rotation API from inside is not modelled.
  `appcore_unset_rotation_cb` at the start of `__after_loop` is `UnsetRotation`;
  the two modules share no state, so they are not composed.
* Settings are modelled for the three keys somebody reads, the other two only as
  notifications. `update_lang` reads the language twice when `setlocale` fails;
  a change between the two readings is left out, because its notification
  follows at once. `appcore_get_timeformat` is a pure reading of vconf.
* The default of the low-battery event, "quit the main loop", that the
  programming guide names (`include/SLP_Appcore_PG.h:135`) is not in the code:
  `__sys_do_default` does nothing (`src/appcore.c:201-216`), so the model does
  nothing either.
* `XRaise` presumes an X error handler that does not end the process when a
  request names a window that is gone meanwhile, as ecore is taken to install: the
  request fails and the search goes on. The handler Xlib has by itself would exit.
* `XRaise` does not model that the root window might carry our process id, nor
  `kill`, which cannot fail for the own process.
* `Measure`: overflow of the 32-bit long in `(sec) * 1000` is taken as that of the
  int result; what `sscanf` leaves in the upper halves of a 64-bit long is not
  modelled.
* `XDisplay` leaves `CachesChange` out: no window event looks at the caches.
* noti, pmcontrol and util are not built, so there is nothing that could call
  them.
* Names, log output, errno values and the bundle's contents are left out.

## 6. Plan

Done, in this order: `Appcore`, `AppcoreEfl` with `AppLifecycle`, `XDisplay`,
`Rotation`, the flushes and low memory in `AppcoreEfl`, cancelled launches in
`XDisplay`, `SysEvents`, `XRaise`, `Measure`, and the proofs of each;
`RotationPromise` and its refinement, the windows for any number of main loops,
and the end of the search.

What would come next:

1. `WinList`: `g_winnode_list` as the sequence it is, refining the function
   `winnode`.
2. The safety halves of the other liveness properties, as variants like
   `RequestsLeft`.

## 7. Running

    tlc -workers 2 -config MCAppcoreEfl.cfg MCAppcoreEfl.tla
    tlapm AppcoreEflProofs.tla

`PROJECT.json` names for each run its module, configuration and properties, for
each property a mutant of the model that it catches, and for each definition
the lines of the source it models. The mutants are operators marked as such,
next to the definition they replace.
