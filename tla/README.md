# TLA+ models of plasma-desktop

plasma-desktop is the user interface of a desktop shell: containments and
applets, the settings pages, and a few daemons. Most of its code is presentation,
or passes a call on to a library. The parts below keep state across events and
decide things from it, and those are the parts modelled.

The first part is the desktop's own: **which icon is shown on which screen, and
in which cell of the grid**. It is the code in
`src/containments/desktop/plugins/folder/`, called *D* below. The second is what
the daemons and panels of a session remember and decide: **layouts, touchpads,
devices, activities, badges and input methods**, each a process or a plugin of its
own, driven by X11 or D-Bus events that arrive late.

## 1. Inventory

### 1.1 Screen mapper (`D/screenmapper.cpp`)

One object in the process. *State*: `m_screenItemMap` (the screen of every
file), `m_itemsOnDisabledScreensMap` (the files parked for screens that are
away), `m_screensPerPath` (the screens showing a folder), `m_availableScreens`,
and a 100 ms timer. *Operations*: `addScreen`, `removeScreen`, `addMapping`,
`removeFromMap`, `removeItemFromDisabledScreen`, the two queries
`screenForItem` and `firstAvailableScreen`, and the reading and saving of
both maps. *Interactions*: the corona's `screenAdded` and `screenRemoved`; direct
calls by every folder view; the signals `screensChanged` (at once) and
`screenMappingChanged` (when the timer fires) to every folder view; the corona's
configuration. *Hard*: the two maps are saved by different steps; a file may
pass through several screens' lists; the views hear of a change late.
*Correct if* a file has one home, screens coming and going do not change it, and
a crash forgets none once the timer is idle.

### 1.2 Folder views (`D/foldermodel.cpp`)

One `FolderModel` for each desktop containment. *State* modelled: the screen
and whether the containment has one now (`m_screen`, `m_screenUsed`), the url, the
rows the lister delivered, and the rows its filter accepted when it last ran.
*Operations*: creation and destruction, `setUrl`, `setScreen`, the filter,
deletion of a file, and the three ways a file is claimed for a screen (a drop
within the desktop, a copy, the "create new" menu). *Interactions*: all through
the mapper; the filter is not a pure function, it *assigns* files without a screen.
*Hard*: verdicts are cached while the mapping changes; who adopts a file depends
on the order of filters; `setUrl` changes the mapper in two steps.
*Correct if* with the timer idle a file is on one screen and not hidden, only
the user moves a file that is placed, and a drop is shown in the end.

### 1.3 Positioner (`D/positioner.cpp`) and drag handler (`FolderView.qml`)

A proxy model between the folder model and the grid. *State*:
`m_proxyToSource` and `m_sourceToProxy`, the saved positions, the number of
icons in a stripe, what waits for the listing (`m_deferApplyPositions`,
`m_deferMovePositions`) and a 0 ms timer. *Operations*: `move`, rows inserted and
removed, `setPerStripe`, `setEnabled`, `reset`, `applyPositions`,
`updatePositions`, the end of a listing. *Interactions*: the folder model's
signals, the view's drops and its width, the configuration.
*Hard*: source rows are renumbered under the maps; several icons move in one
call, one after another; much is postponed until the folder is listed.
*Correct if* the maps are each other's inverse, every file has a cell, icons stay
where they are unless moved, and the saved layout is the one shown and restores it.

### 1.4 Keyboard daemon and layout memory (`kcms/keyboard`)

*State*: the configuration, the layouts and the group of the X server, the map from
window, application or desktop to a list of layouts and the current one, the key
that was current before, the file that outlives the session. *Operations*: the slots
for a changed group, changed layouts, window and desktop; the applet's and the
shortcuts' calls; `configureKeyboard`; saving and restoring. *Interactions*: the X
server changes at once and is read again when an event is handled; the window
manager reports focus. *Hard*: three kinds of events in one queue; the daemon's own
restoring causes more of them; policies change under the map; spare layouts replace
the last one of the loop. *Correct if* every container has a layout of its own.

### 1.5 Touchpad daemon and backend (`kcms/touchpad`)

*State*: what the user asked for, what the daemon believes, whether a mouse keeps
the pad off, keyboard activity and its timer, services it still waits for; in the
backend the handle of the device, and the keyboard monitor. *Operations*: `toggle`,
`enable`, `disable`, `reloadSettings`, the start and end of activity, `timerElapsed`,
`mousePlugged`, `handleReset`, `lateInit`. *Interactions*: X events of devices,
replies of XRecord with several keys at once. *Hard*: devices change first and are
reported later; two switches with two owners. *Correct if* the user has the last
word while no mouse is in, and typing does not leave the pad off.

### 1.6 The other parts of a session

| Component | State and operations | Hard behaviour | What makes it correct |
|---|---|---|---|
| Device automounter, `solid-device-automounter` | a group of entries per device in one file; daemon and settings page with a copy each | one writes what the other deletes; login, attach, and switching the daemon off | a record is lost only where the code means to; no mount when mounting is off |
| Activity switcher, `imports/activitymanager` | the walk of Meta+Tab, times of last use, rows | single shots against the polling of the keys; changes that come late | a walk is committed, the last activity is one press away, the switcher hides |
| Smart launchers, `applets/taskmanager` | entries per launcher, one item's copy | badges hidden and shown while updates arrive | an item shows what is allowed and wanted |
| Accessibility daemon, `kaccess` | requested and active features, dialog, shortcut | more changes and a rereading under the dialog | Yes is for what the dialog names, and nothing happens without it |
| Input methods, `applets/kimpanel/backend/ibus` | engines, an engine per context, history, walk | focus and engine changes during a grab; one engine for all | a walk chooses what it shows; what is remembered can be forgotten |
| Pager, `applets/pager` | window models per desktop | rows of another repository's task model | a row is one of its desktop's windows |

The scim backend, settings pages, runners, trash, the QML packages and scripts are
wrappers around libraries and services, or layout; `PROJECT.json` lists them with
the reason they are left out.

## 2. Modules

| Module | Models |
|---|---|
| `ScreenMaps` | the mapper's maps, and its operations as functions on them |
| `ScreenMapper` | the mapper as a component: calls in any order, timer, configuration in memory and on disk, crash and restart |
| `ScreenMapperProofs` | theorems about `ScreenMapper` |
| `DesktopViews` | folder views composed with the mapper (both use `ScreenMaps`) |
| `DesktopViewsProofs` | theorems about `DesktopViews` |
| `GridMaps` | the grid's two maps, and the positioner's algorithms as functions on them |
| `GridMapsProofs` | lemmas about the algorithms in `GridMaps` |
| `Positioner` | the positioner with its folder model, drag handler and configuration |
| `PositionerProofs` | theorems about `Positioner` |
| `OwnLayouts` | abstract: every container has a layout of its own |
| `Keyboard` | X server, events, layout memory, daemon and persister; implements `OwnLayouts` |
| `KeyboardProofs` | theorems about `Keyboard` |
| `Touchpad` | touchpad daemon, X11 backend, devices and the queue of their events |
| `TouchpadProofs` | theorems about `Touchpad` |
| `Automounter` | the daemon, the settings page and kded over one settings file, for one device |
| `KAccess` | the features of the keyboard, the dialog and the settings |
| `ActivitySwitcher` | the walk through the activities, its timers, the rows' order |
| `SmartLaunchers` | one launcher entry and the item that shows it |
| `InputMethods` | the engine manager, the panel on the bus, the trigger keys |
| `Session` | composes these six (`Touchpad` to `InputMethods`), and states their properties |
| `SessionProofs` | theorems about the five of them that are not `Touchpad` |
| `SessionTypeProofs` | the ranges of all six, and the rows of the activity switcher |
| `MCScreenMapper`, `MCDesktopViews`, `MCPositioner`, `MCKeyboard`, `MCSession`, `MCAutomounter`, `MCInputMethods` | the instances TLC checks |

### How they correspond to the code

**Mapper.** `mapper` is a record of the four maps, and of the keys of the parked
lists (`entries`), because a key whose list is empty is saved, and misread. Urls are
opaque: `Below[p]` says which ones pass the code's `startsWith` test for folder
p. An action is one call, with everything it saves. `Readings` is the reader of
the saved lists, a flat "screen, size, urls...", which never leaves a list of
size 0: what follows it joins that list, and the numbers become the url `Junk`. The
order of a `QHash` is arbitrary, so every reading it allows is a behaviour.

**Views.** `Refilter` is `invalidateFilter` of all views: `AfterFilter` are the maps
after the filters have adopted what they may, `Filtered` their new verdicts. Two
views adopt the same file only if both are on the first screen of the folder, so the
order of views does not matter to the result. An early return in the mapper emits
no signal, and nobody filters (`FilterIfChanged`). A deleted file is a row
removed at once; a created one is listed later by each view on its own.

**Positioner.** `p2s` and `s2p` are partial functions. Loops that give out one free
cell after another are written as the set of cells they end with (`NextCells`).
Saved positions are a set of records: the code writes and reads a list in `QHash`
order, and applies the first entry that claims a cell (`Claims`). Moves are applied
in the code's order, by a recursive function (`Moved`), since later ones see what
earlier ones changed.

**Keyboard.** `x` is the server's list and group, which `Locked` wraps; `events` has
"group", "map", "window" and "desktop" notices, oldest first, and `seenWindow` and
`seenDesktop` are what KWindowSystem has heard, since the map's key is made from
those. `Handle` takes one notice and runs its slot with everything it calls;
`SetCurrentLayoutFromMap` may change the server, which adds notices. `RestoredMap`
and `Saved` are the persister's filters of policies and default layouts, without
XML. `OwnLayouts` is the promise the policies' names make; it is implemented with
`own` = the map or, while a change of the group waits to be handled, what the server
shows, and `kept` = what restoring the file would give. Its `lapsed` holds while the
layouts loaded are not the configured ones, and when the user was faster than the
daemon: nothing is promised then.

**Touchpad.** `pad` is the device with its two switches, `handle` the backend's
pointer to it, which may be to a device that is gone: calls on that change nothing
and read FALSE. `Reply` is one XRecord reply, with the counts between two events in
it. `mousePlugged` is used by four handlers and is written once, on the state they
leave.

**Automounter.** A settings file and two copies, each with the KConfig rule that
`load` reads and `save` writes the changed entries. kded obeys the page's order
(load or unload) later than the page gives it.

**Others.** `KAccess` keeps the server's controls and the events on their way,
`label` what the dialog was last made to say: the features it names, of which
`NamedOff` has the one question that does not name what Yes turns off. `ActivitySwitcher` keeps the times of
last use as the pairs of activities of which the first was used in a later second, since
they are saved in whole seconds. A row is the activity that has as many above it. `SmartLaunchers` has the backend's entry and the item's, and every
signal between them; what hides badges is read again by the getters, and an item reads
it when `ChangeSettings` (`Backend::reload`) tells it to. In `InputMethods` `selected` is the engine walked to, `logo`
the one the panel shows.

### What is assumed

* A view is used by a containment before it gets a url or a screen, as the QML
  and all tests do; there is one containment per screen; `sharedDesktops` is off.
* A screen that is plugged in again is one a view has had: the corona, which
  numbers screens, is outside the repository. When it is unplugged, its
  containments report the screen -1.
* Only the signals and calls this code makes or connects to are modelled of Qt,
  KIO and the corona; their actions (`FileCreated`, `CoronaSync`, `Crash`,
  `CleanRestart`) are marked external in the map.

* Keyboard: a configured list and one of another program are not empty; a window is a
  normal one, the desktop or a panel; writing the configuration and reloading
  it is one step; `setxkbmap` keeps the group or resets it, and the server wraps it; a
  desktop or panel window has no key; no list of the server has more than the four
  groups of XKB (`GroupsAssumption`), as the settings page keeps the loop, so that
  `X11Helper::setLayout` never refuses an index for its size. The user acts when the daemon has caught up
  (`MaxPending = 0`): otherwise a change is stored under the window that is current
  when its event is handled, which is the hazard at `layout_memory.cpp:147`, and the
  abstract specification excludes it by `lapsed`.
* Touchpad: a pad plugged in again has the id it had; one pad; X11.
* Automounter: one device; another one is only a reason for the daemon to save.
* Switcher: X11, a fixed finite set of running activities with any times from earlier
  sessions; the activities model reports all
  of them when the current one changes, after the backend's own commit.
* Badges: one application and one item. That an application inhibits notifications has
  a signal of its own in the notification library, which is outside the repository, and
  is not announced by `settingsChanged`: nothing here connects to it
  (`smartlauncherbackend.cpp:46`), so that `Inhibit` changes what the getters answer and
  tells nobody. The same holds for the end of the quiet time.
* Input methods: configured engines are
  installed, distinct and not none; `Threshold` 1 stands for 256.
* kaccess starts after its first reading of the settings.

## 3. What is checked

| Run | Instance | Result |
|---|---|---|
| `screen_mapper` | screens, a file and `Junk`, two folders (one the empty url) | 49,290 states, holds |
| `desktop_views` | 2 views on 2 screens, 2 folders with a file each | 12,884 states, holds |
| `hotplug` | the same with one file, screens come and go | 20,810 states, holds |
| `positioner` | 3 files, widths 0, 1 and 2, drops on cells 0 and 1 or on none, drags of 2 icons, one late icon | 501,937 states, holds |
| `keyboard` | 2 applications, the desktop and a panel, 2 desktops, 6 configurations, 1 foreign list | 256,724 states, holds |
| `session` | touchpad with a letter, a modifier, a mouse and a service; one device; 2 features; 3 activities; one badge; 2 engines and 2 contexts | 498,387 states, holds |
| `replug` | as `desktop_views`, screens come and go | violated, finding 1 |
| `over_edge` | 3 files, drags past the end of a stripe | violated, finding 2 |
| `waiting` | 2 files, restarts | violated, finding 3 |
| `assertion` | 2 engines, 2 contexts, room for one | violated, finding 4 |
| `forgotten` | one device, two settings | violated, finding 5 |
| `question` | 4 features | violated, finding 6 |

* `screen_mapper`: `ParkedForOneScreen`, `HomesSurviveScreenChanges` and
  `NothingForgottenWhenIdle`, with crashes at any point and every misreading.
* `desktop_views`: `OneScreenPerFile`, `NoFileHidden`, `PlacedFilesStay`,
  `AttachedViewsRegistered`, and the liveness property `PlacedFilesGetShown`. With
  screens that come and go (`hotplug`) `AttachedViewsRegistered` fails, and with
  it `NoFileHidden`; the others survive.
* `positioner`: `MapsAgree`, `EveryFileHasAPlace`, `SavedWhenIdle`,
  `SavedLayoutRestores`, in which the files are listed in any other order, and
  `OthersStay` and `FittingIconsStay`. There are three icons so that one may be in the
  way of two others, and a grid of width 1, which cuts places off when it is made
  narrower.
* `keyboard`: `OwnLayoutsSpec`, the refinement; `QuitKeepsLayouts`, for a daemon that
  is stopped and started; `AppletChoosesWhatItShows`, for the index the applet sends
  while a spare layout is in use, also with a layout that is configured twice.
* `session`: for the touchpad `BelievedIsReal`, `MouseNoticed`, `UserDecides` and the
  liveness property `TouchpadComesBack`; for the automounter `ListedIsRemembered`,
  which says what remains of finding 5, and `NoMountWhenDisabled`; for kaccess
  `AskedFeaturesOnly` and `YesIsForWhatIsNamed`; for the switcher
  `CommittedWhenHidden`, `BackIsOnePressAway` and the liveness property
  `SwitcherHides`; for badges `ShownAsAllowed`, which is about the user's settings, and
  `BadgesStayRight`, which is about everything that hides a badge; for input methods
  `RememberedAreInHistory` and `WalkShowsItsChoice`.

**Why the session is one instance.** The six parts are different processes or
plugins and share no variable, so an interleaving of two shows nothing that each
alone does not, and their product is beyond TLC. `part` picks one, and the others
rest in an initial state. This changes no behaviour of a part and no property.

**Bounds.** Everything in the mapper is finite by nature; one file is enough for
the properties of a single file there, and `Junk` is the second member of every
list. In `DesktopViews` two screens give a first and another one; two folders
let a view leave one for the other. The filter decides file by file, and with
hotplug one file is enough (with two the same properties hold in 232,752 states,
checked once). In the grid, `MaxCell` bounds drops and `MaxGrid` bounds the
widths an icon may be carried to: width 2 makes the second icon end a stripe and
the third start the next. `MaxDrag` is how many icons are dragged at once,
`MaxLate` how many while the folder is listed, `NewRows` how many rows one
signal inserts. `Sort` is not taken with moves still waiting: see the hazard at
`positioner.cpp:411`. The runs of the positioner use symmetry between files,
which is sound there as they check no liveness.

In `Keyboard`, `Changes` are the pairs of configurations the user goes between:
one changes the policy, one removes a layout; the loop of two and three layouts
leaves one and two spare. `MaxEvents`, `MaxNotices`, `MaxChanges` and `MaxWaiting`
bound what waits in queues and guard only the steps that add to them from outside;
two are enough to reorder a notice against the one that makes it stale. `MaxReads`
bounds how often kaccess reads its settings, of which only the parity matters. With the
two features of `session` there is no question about two to turn on and two to turn off;
`question` has all four, where every question can be asked.
`MaxHistory` bounds the history when one engine is used for all.

**Fairness.** `WF_vars(MappingTimeout)`, `WF_vars(TimerElapsed)`, `WF_vars(Poll)` and
`WF_vars(HiderOver)`: a `QTimer` that was started fires while the event loop runs.
`WF_vars(ProcessEvent)`: what the X server reported is read. No user, lister, device
or screen is fair. `PlacedFilesGetShown` and `SwitcherHides` need nothing else.
`TouchpadComesBack` supposes a user who goes on to type and to rest, and a daemon
that is not restarted for ever: after a reload in the middle of a key press the pad
stays off until the next typing (`kded.cpp:156`).

**Deadlock** is checked in the runs of the desktop. In `keyboard`, `session`,
`assertion`, `forgotten` and `question` it is not: with all bounds used up the user has nothing
left to do. Each property of a passing run is shown to
fail for a changed definition (the operators commented *Mutant*).

## 4. What is proved

`ScreenMapperProofs` proves, for any set of screens, files and folders and any
`Below`:

| Theorem | States |
|---|---|
| `MapperTypeCorrect` | `MapperSpec => []MapperTypeOK` |
| `OneParkingPlace` | `MapperSpec => []ParkedForOneScreen` |
| `IdleMeansSaved` | `MapperSpec => []NothingForgottenWhenIdle` |
| `HomesAreStable` | `MapperSpec => HomesSurviveScreenChanges` |

from `ScreensAssumption`, `PathsAssumption` and `JunkAssumption` (screen numbers
are natural, the empty url is a prefix of everything, junk lies below no folder).

The inductive invariant is `MapperIInv`. The properties are not inductive by
themselves, for two reasons. A crash reads the *saved* lists, and a list without a
key is skipped by the reader, so `AllEntriesCover` says in memory, in the
configuration and on disk that a list with files has its key. And
`NothingForgottenWhenIdle` speaks of the disk, which is written from the
configuration: `ConfigKnowsHomes` says that the configuration always knows every
parked file, and the mapping whenever the timer is idle. The latter is why a drop
that does not save the lists is harmless to it: the lists in memory only shrink.
The lemmas `ScreenRemovedSound`, `ScreenAddedSound`, `RemappingSound` and
`ReadingsSound` state once what each operation preserves; `StepIInv` has one step
per action. `HomesAreStable` follows from the invariant and the first two lemmas:
a home is unique only because lists are disjoint.

`TouchpadProofs` proves, for any set of keys, modifiers, mice, services and settings
and any number of waiting events:

| Theorem | States |
|---|---|
| `TypeCorrect` | `Spec => []TypeOK` |
| `KnowsThePad` | `Spec => []BelievedIsReal` |
| `NoticesMice` | `Spec => []MouseNoticed` |
| `UserHasTheLastWord` | `Spec => []UserDecides` |

from `SettingsAssumption`, `NoPadAssumption`, `ServicesAssumption` (there is a service
to wait for) and `MaxEventsAssumption`. The inductive invariant is `Knows`: the three
properties and `HandleMeansPad`, that a handle to a pad that is gone is kept only
until its removal is reported. None is inductive alone: `mousePlugged` leaves a pad
alone that is *believed* right, so that `UserDecides` needs `BelievedIsReal`, and a
pad that is reset is compared with the mice the daemon knows. `MousePluggedSound` is
what that function does wherever it is called, `QuietStep` a step that touches only
the "off" switch, `PendingAppend` and `PendingTail` the queue; `KnowsStep` has one
step per action.

`DesktopViewsProofs` proves, for any views, screens, folders and files:

| Theorem | States | Under |
|---|---|---|
| `DesktopTypeCorrect` | `Spec => []TypeOK` | |
| `PlacedFilesStayPut` | `Spec => PlacedFilesStay` | |
| `FilesOnOneScreen` | `Spec => []OneScreenPerFile` | `OneViewPerScreen` |
| `ScreensFollowViews` | `Spec => []AttachedViewsRegistered` | `FixedScreens` |
| `FilesStayVisible` | `Spec => []NoFileHidden` | `FixedScreens` |

`OneViewPerScreen` says that no two views are for one screen, as the containments
of one activity are. `FixedScreens` adds that screens are not unplugged and that no
folder is below another. Without them the properties fail, in the ways the hazards
at `screenmapper.cpp:108` (two activities), `screenmapper.cpp:119` (folders whose
urls are prefixes of each other) and finding 1 (a screen that returns) describe.
`PlacedFilesStay` needs none of this.

A view's rows are verdicts of earlier filters, so that nothing is inductive which
looks at the rows alone. `AgreedWhenIdle` says that with the timer idle a shown row
is mapped to the view's own screen, and `Settled` the converse: a row that is mapped
there is shown, and the view that adopts files has adopted its rows. `Steady` is what
holds while filters are still to run: an attached view's screen is available and
registered for its folder and for no other, and a mapped file is mapped to the screen
of a view for its folder. In the middle of `setUrl` and of a view's end the view is
between two folders; `Steady` takes the set of views it makes an exception of, which
is how `SetUrlSteady` passes from one half of `setUrl` to the other.

`PositionerProofs` proves, for any files, widths, folders and sizes of drops, under
`MovesInside`:

| Theorem | States |
|---|---|
| `PositionerTypeCorrect` | `Spec => []TypeOK` |
| `MapsStayInverse` | `Spec => []MapsAgree` |
| `EveryFileIsPlaced` | `Spec => []EveryFileHasAPlace` |
| `IdleMeansSaved` | `Spec => []SavedWhenIdle` |
| `SavedIsRestored` | `Spec => []SavedLayoutRestores` |
| `NeighboursStay` | `Spec => OthersStay` |
| `WidthKeepsFitting` | `Spec => FittingIconsStay` |

`MovesInside` is `~OverEdge /\ MaxLate <= 1`: no icon is dragged over the end of its
stripe together with others, and at most one is dropped while the folder is listed.
Otherwise the maps do go wrong: that is finding 2, and the hazard at
`positioner.cpp:493`. The run `positioner` makes the same choice.
The inductive invariant is `BaseIInv`: well-formed fields, maps that are each other's
inverse, `EveryFileHasAPlace`, a kept move of at most one icon (`MoveKept`), and saved
positions of which no two claim the same cell or file (`Distinct`), without which a
restored layout would depend on the order of a hash. `SavedIInv` adds to it, for
`SavedWhenIdle`, that a disabled positioner forgets its positions.

What the operations do to the maps is proved apart, in `GridMapsProofs`: the free cells
that new items get (`NextCellsFree`), insertion and removal (`InsertedSound`,
`RemovedSound`), moves (`SeveralMoves`), restoring (`AppliedGrants`, `AppliedKeeps`) and
saving (`EncodedSound`). `Moved` is a recursive function of the number of moves, so
that `SeveralMoves`, for a drop of any number of icons, needs an induction. It is made
without an induction theorem, as the least number of moves after which the invariant
`Midway` does not hold (`FirstExists`). `Midway` says of the first i icons that their
targets are cells of their own, held by nobody who stays.

`SessionProofs` proves, for any values of the constants:

| Theorem | States |
|---|---|
| `OnlyAskedFeatures` | `SessionSpec => []AskedFeaturesOnly` |
| `YesMeansWhatItSays` | `SessionSpec => []YesIsForWhatIsNamed` |
| `BadgesAsAllowed` | `SessionSpec => []ShownAsAllowed` |
| `OnlyInhibitionLeavesBadges` | `SessionSpec => BadgesStayRight` |
| `HiddenMeansCommitted` | `SessionSpec => []CommittedWhenHidden` |
| `SwitchedOffMeansOff` | `SessionSpec => NoMountWhenDisabled` |
| `ListedStaysRecorded` | `SessionSpec => ListedIsRemembered` |
| `RememberedCanBeForgotten` | `SessionSpec => []RememberedAreInHistory` |
| `WalksShowTheirChoice` | `SessionSpec => WalkShowsItsChoice` |

from the assumptions of the parts, which `Session` repeats. In `AccessIInv` the last
event that waits is what the server has (`FeaturesFollow`), and the features are the
configured ones for a user who is asked (`FeaturesAsConfigured`), since a gesture is
taken back before the user is asked. `YesIsForWhatIsNamed` leaves out, for any features,
the half of the question that names the wrong one (`TwoForTwo`, finding 6), and no more.
`BadgesIInv` says that the item's progress follows the entry while the item is for the
launcher, that its badge is one the user's settings allow, and that an application that
sent nothing is answered nothing. It does not say that the badge is the entry's:
that is `BadgeRight`, which an inhibition breaks and a later message need not restore.
`BadgesStayRight` is proved step by step (`RightStep`): no other step breaks it. `CommittedWhenHidden` is inductive. `SwitchedOff` says when the
daemon runs although mounting is off: until kded obeys. `MemoryIInv` needs the current
context in the queue's type only.

`SessionTypeProofs` proves, for any values of the constants:

| Theorem | States |
|---|---|
| `SessionTypeCorrect` | `SessionSpec => []SessionTypeOK` |
| `OnePressBack` | `SessionSpec => BackIsOnePressAway` |

from the same assumptions; activities and engines are finite sets. The invariant is
`SessionIInv`: the ranges of the parts, and with them `AccessIInv`, `BadgesIInv` and
`MemoryIInv`, since a context is taken off a history that must not be empty. The rows
of the switcher need an argument of their own, as the sort is in Qt: `lessThan` is a
strict order that compares any two activities (`BeforeIsAnOrder`), whatever times were
saved, so that of two activities the later one has more above it. The numbers of
activities above each are therefore different, they are less than the number of all,
and as there are as many numbers as activities each number is that of one
(`OneForEveryRow`): the rows hold every activity once (`RowsAreSorted`). After a commit
only the current activity is above the one that was left (`FirstTwoRows`). `setOrder`
of the engines is a recursion over the saved names; as with `Moved`, that it keeps a list
without repetition is shown by the least number of names after which it would not
(`OrderIsLastStep`, `OrderSound`).

`KeyboardProofs` proves, for any windows, desktops and configurations, any lists other
programs load and any number of waiting events:

| Theorem | States |
|---|---|
| `KeyboardTypeCorrect` | `Spec => []TypeOK` |
| `StoppedAndStartedAgain` | `Spec => QuitKeepsLayouts` |
| `AppletChooses` | `Spec => []AppletChoosesWhatItShows` |
| `ContainersHaveTheirOwnLayouts` | `Spec => OwnLayoutsSpec` |

from `KindAssumption`, `ConfigsAssumption`, `ChangesAssumption`, `ForeignAssumption`,
`NoKeyAssumption` and `MaxPendingAssumption` (no proof needs `GroupsAssumption`, which
is what lets `SetLayout` leave a refusal out). `TypeOK` says more than ranges: whatever is
remembered or in the file is a list with its current layout in it, so that setting it is
never refused.

The inductive invariant is `IInv`, which adds two parts to `TypeOK`. `Heard`: the list the
daemon knows is the server's, or a notice of a list waits. `Prompt`: unless the user was
faster than the daemon, what waits is one step of the user or the notices of one change
of the server. TLC finds both true on the instance of `keyboard`. `Tells` says which
notices a change of the server must leave in the queue, and is proved of each change
(`GroupNoticeTells`, `LoadNoticeTells`) and of one after another (`TellsInTurn`).

The refinement maps a container's own layout to the remembered one, or the default one, or,
while a notice that will remember it waits, to the server's. `NextIsOwn` shows that each
action is, in those terms, one of five things: `Unseen` (a step the abstract specification
does not see), `Changed` (the layout of the current container and of no other), `Followed`
(the own layout of the container the user went to is set), `Begun` and `BegunAfterACrash`.
`StepsOfOwnLayouts` shows that each of these is a step of `OwnLayouts`, or none. The two
cases that need `IInv` are those where the daemon reads the server again after the user
acted. `LayoutSlot` must not store the layout under another key than the one it was chosen
for, which is what `Prompt` gives; and the notice of a list must not be missed by
`LayoutMapSlot`'s early return, which is what `Heard` gives. Nothing is shown of the steps
at which the abstract specification has `lapsed`: the user was faster than the daemon, or
layouts are loaded or remembered that are not configured (`Unconfigured`).

`AppletChooses` assumes nothing of the configured lists. The loop comes first in the
applet's list, whatever is configured (`TheLoopComesFirst`), and a layout in it is found
by its name. For a spare layout the property has a condition, that the layout whose
place it takes is configured once (`ConfiguredOnce`). Nothing in the code keeps a user
from configuring it twice, and then the index need not mean the same on both sides: with
us, de, fr, de and a loop of two, the applet's list shows fr at the index 2, while
`setLayout`, which asks for the last place of de, takes the index for a shifted one and
sets de. Other layouts may stand twice. The run has such a configuration (`Twice` in
`MCKeyboard`), and fails in its first state without the condition.

Only model-checked:

* liveness under fairness (`PlacedFilesGetShown`, `TouchpadComesBack`, `SwitcherHides`),
  which is out of the prover's reach;
* what the runs of section 5 show to be violated.

## 5. Findings

1. **A screen plugged in again is registered for no folder** (`replug`).
   `FolderModel::setScreen` (`foldermodel.cpp:657`) returns early because the view
   still has that screen's number, and the corona's `addScreen` passes an empty
   url. New files are then never adopted by the view on that screen.
2. **Two icons in one cell** (`over_edge`). In `Positioner::move` a cell that
   holds an icon of the same drag counts as blank, also when it was given to that
   icon a moment ago (`positioner.cpp:407`).
3. **Saved positions wiped while they wait** (`waiting`). `sourceRowsRemoved`
   starts the saving timer without the test that `sourceRowsInserted` makes
   (`positioner.cpp:703` against `672`).

4. **The history of contexts is not cleared with the map** (`assertion`).
   `setUseGlobalEngine` clears the engines of the contexts and leaves the history
   (`enginemanager.cpp:64`); the assertion on their sizes (`enginemanager.cpp:93`)
   fails when a context is forgotten next.
5. **A mounted device is forgotten by a page that does not list it** (`forgotten`).
   Saving the page deletes the groups of all devices it has no row for
   (`DeviceAutomounterKCM.cpp:159`), also of one the daemon recorded meanwhile.

6. **A question that names the wrong feature** (`question`). For two features to
   activate and two to deactivate `xkbControlsNotify` prints `enabledFeatures[0]` where
   `disabledFeatures[0]` belongs (`kaccess.cpp:806`): Yes deactivates a feature the user
   was not asked about.

`PROJECT.json` lists further hazards, some of them behaviour no document
describes either way: a width that is one too large counts as fitting
(`positioner.cpp:833`), moves of several icons that are replayed late, the
screen reader's shortcut that is connected anew by every reading
(`kaccess.cpp:344`), the attach box read into the login box (`DeviceModel.cpp:123`),
times of last use that are equal within a second (`switcherbackend.cpp:385`), a badge
that stays while an application inhibits notifications, and is not withdrawn then
(`smartlauncherbackend.cpp:67`).
Some more were met that no action can say: `contains` in `panel.cpp:455` tests the
list's address for its end, and never stops for a name that is not in it (the model
has `Crash` there); `m_useGlobalEngine` has no initial value
(`enginemanager.cpp:24`), so that the model lets a new panel have either;
`Backend::onServiceUnregistered` is connected to nothing (`smartlauncherbackend.cpp:249`),
so that the badge of an application that died stays.

## 6. Plan

Done: the modules of section 2. In this order:

1. Activities in `DesktopViews`: two views on one screen number.
2. Changes of the set of running activities in `ActivitySwitcher`: rows that come and go
   while the switcher is shown.

## 7. Not modelled

* **Painting and input**: all QML, delegates, labels, previews, the rubber band.
* **Tables and parsers**: the names and codes of keys in the ibus backend, XKB rules,
  geometry of keyboards; they are data, or pure functions of files outside.
* **Settings pages**: load, edit, save of single values. The automounter's is modelled,
  since its daemon reads and writes the same file.
* **scim backend**, **kimpanel plugin**: they translate messages one to one.
* **Pager, task manager**: their rows are those of models in another repository, whose
  signals decide what is correct.
* **File operations** in the folder view: copying, renaming, the selection, sorting;
  they are KIO's jobs, and only their results (rows, drops) are steps here.
* Wayland sessions, where the touchpad daemon and the polling of keys do not run.

These make up most of the repository, so that the share of its lines the models
stand for stays small, although the parts that keep state across events, but for
those named here, have a module.
