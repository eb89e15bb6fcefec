------------------------------ MODULE Keyboard ------------------------------
(***************************************************************************)
(* The keyboard daemon and its layout memory (kcms/keyboard): the layouts  *)
(* the X server has, the layouts remembered for every window, application  *)
(* or desktop, and the file that keeps them between sessions.  The X       *)
(* server changes at once; the daemon hears of it, and of the window or    *)
(* desktop the user went to, from events in a queue, and reads the server  *)
(* again when it handles one.                                              *)
(***************************************************************************)
EXTENDS Naturals, Sequences, SequencesExt

CONSTANTS
    Windows,
    Kind,           \* what sort of window it is: "normal", "desktop" or "panel"
    Class,          \* the application of every window
    Desktops,
    Configs,        \* configurations of the keyboard page
    Changes,        \* bound: the changes of configuration considered, as pairs
    Foreign,        \* layout lists other programs may load
    NoKey,          \* the empty map key
    NoLayout,       \* no layout
    MaxPending      \* bound: events that wait when the user acts

NoLooping == 0      \* NO_LOOPING, -1 in the code

Normal == {w \in Windows : Kind[w] = "normal"}

MapKeys == Normal \cup {Class[w] : w \in Normal} \cup Desktops

LayoutsIn(k) == {k.layouts[i] : i \in 1 .. Len(k.layouts)}

ASSUME KindAssumption == Kind \in [Windows -> {"normal", "desktop", "panel"}]
ASSUME ConfigsAssumption ==
    \A k \in Configs :
        /\ k.policy \in {"Global", "Desktop", "WinClass", "Window"}
        /\ k.layouts \in Seq(LayoutsIn(k)) /\ k.layouts # <<>>
        /\ k.loop = NoLooping \/ k.loop \in 2 .. Len(k.layouts)
ASSUME ChangesAssumption == Changes \subseteq Configs \X Configs
ASSUME ForeignAssumption ==
    \A f \in Foreign : f \in Seq({f[i] : i \in 1 .. Len(f)}) /\ f # <<>>
ASSUME NoKeyAssumption == NoKey \notin MapKeys
ASSUME MaxPendingAssumption == MaxPending \in Nat

VARIABLES
    keyboardConfig,
    x,              \* the X server: its list of layouts and its group, from 0
    window,         \* the active window
    desktop,        \* the current desktop
    seenWindow,     \* KWindowSystem's activeWindow
    seenDesktop,    \* KWindowSystem's currentDesktop
    layoutMap,      \* map key -> list of layouts and current layout
    previousLayoutMapKey,
    prevLayoutList,
    events,         \* what the X server sent and the daemon has not handled
    file,           \* the session file
    lapsed          \* history: the user was faster than the daemon

memoryVars == <<layoutMap, previousLayoutMapKey, prevLayoutList>>
userVars == <<window, desktop>>
seenVars == <<seenWindow, seenDesktop>>
vars == <<keyboardConfig, x, userVars, seenVars, memoryVars, events, file, lapsed>>

-----------------------------------------------------------------------------
(***************************************************************************)
(* The X server.  A group outside the list wraps around.  setxkbmap loads  *)
(* a list and keeps the group or goes back to the first.                   *)
(***************************************************************************)
Current(y) == y.list[y.group + 1]

CurrentLayouts == [layouts |-> x.list, current |-> Current(x)]

Locked(y, group) == [y EXCEPT !.group = group % Len(y.list)]

FirstPlace(list, layout) == SelectInSeq(list, LAMBDA l : l = layout)

\* X11Helper::setLayout: a layout that is not in the list is refused.  So is a
\* place of four or more, which no list considered has (GroupsAssumption).
SetLayout(y, layout) ==
    IF Contains(y.list, layout)
    THEN Locked(y, FirstPlace(y.list, layout) - 1)
    ELSE y

Loaded(y, list) == {[list |-> list, group |-> g] : g \in {0, y.group % Len(list)}}

\* The events that tell of a changed group and of a loaded list.
GroupNotice(y, z) == IF y.group = z.group THEN <<>> ELSE <<"layout">>

LoadNotice(y, z) == <<"map">> \o GroupNotice(y, z)

-----------------------------------------------------------------------------
(***************************************************************************)
(* The configuration, the list the applet is given and the index it sends  *)
(* back.                                                                   *)
(***************************************************************************)
DefaultLayouts(k) ==
    IF k.loop = NoLooping THEN k.layouts ELSE SubSeq(k.layouts, 1, k.loop)

DefaultLayout(k) == Head(k.layouts)

\* Four groups are all that XKB has.  The page keeps the loop within them
\* (updateLoopCount in kcm_keyboard_widget.cpp).
MaxGroups == 4

ASSUME GroupsAssumption ==
    /\ \A k \in Configs : Len(DefaultLayouts(k)) <= MaxGroups
    /\ \A f \in Foreign : Len(f) <= MaxGroups

\* getLayoutsList: the X server's list and the spare layouts not in it.  What
\* was the last of the loop is a spare layout while another has its place.
LayoutsList(k, list) ==
    IF k.loop = NoLooping
    THEN list
    ELSE list \o RemoveFirst(SubSeq(k.layouts, k.loop, Len(k.layouts)), Last(list))

LastIndexOf(s, e) == SelectLastInSeq(s, LAMBDA l : l = e) - 1

\* Mutant: the index is taken for one of the configuration.
SpareIndexUnshifted(k, list, index) == index

\* The place of a spare layout in the configuration, from its place in the
\* applet's list (both from 0).
SpareIndex(k, list, index) ==
    IF index <= LastIndexOf(k.layouts, Last(list)) THEN index - 1 ELSE index

IsSpare(k, index) == k.loop # NoLooping /\ index >= k.loop

\* A spare layout takes the place of the last one.
SpareList(k, list, index) ==
    Append(Front(list), k.layouts[SpareIndex(k, list, index) + 1])

\* setLayout(uint): the states the X server may be left in, the events with each.
\* There is none when layouts.at(index) is read out of range: that ends in Crash.
Selected(k, y, index) ==
    IF ~IsSpare(k, index)
    THEN {<<Locked(y, index), GroupNotice(y, Locked(y, index))>>}
    ELSE IF SpareIndex(k, y.list, index) >= Len(k.layouts)
    THEN {}
    ELSE LET list == SpareList(k, y.list, index)
         IN  {<<Locked(z, Len(list) - 1), LoadNotice(y, z) \o GroupNotice(z, Locked(z, Len(list) - 1))>> :
                 z \in Loaded(y, list)}

-----------------------------------------------------------------------------
(***************************************************************************)
(* The layout memory.                                                      *)
(***************************************************************************)
\* getCurrentMapKey, when w and d are active and "previous" is the last key
CurrentMapKey(k, w, d, previous) ==
    IF k.policy = "Global" THEN NoKey
    ELSE IF k.policy = "Desktop" THEN d
    ELSE IF Kind[w] = "desktop" THEN previous
    ELSE IF Kind[w] = "panel" THEN NoKey
    ELSE IF k.policy = "Window" THEN w ELSE Class[w]

Key == CurrentMapKey(keyboardConfig, seenWindow, seenDesktop, previousLayoutMapKey)

IsExtraSubset(all, list) ==
    Head(all) = Head(list) /\ \A i \in 1 .. Len(list) : Contains(all, list[i])

Remembering(key, set) == [c \in DOMAIN layoutMap \cup {key} |-> IF c = key THEN set ELSE layoutMap[c]]

Forgotten == [c \in {} |-> CurrentLayouts]

\* Mutant: a layout is remembered for the empty key.
LayoutChangedAnyKey == layoutMap' = Remembering(Key, CurrentLayouts)

\* LayoutMemory::layoutChanged
LayoutChanged == layoutMap' = IF Key = NoKey THEN layoutMap ELSE Remembering(Key, CurrentLayouts)

\* LayoutMemory::layoutMapChanged
LayoutMapChanged ==
    /\ prevLayoutList' = x.list
    /\ IF prevLayoutList = x.list
       THEN UNCHANGED layoutMap
       ELSE IF IsExtraSubset(keyboardConfig.layouts, x.list)
            THEN LayoutChanged
            ELSE layoutMap' = IF x.list = DefaultLayouts(keyboardConfig)
                              THEN layoutMap ELSE Forgotten

\* The list is loaded if it is another one, then the layout is set.
Show(list, layout, waiting) ==
    IF list = x.list
    THEN /\ x' = SetLayout(x, layout)
         /\ events' = waiting \o GroupNotice(x, x')
    ELSE \E y \in Loaded(x, list) :
         /\ x' = SetLayout(y, layout)
         /\ events' = waiting \o (LoadNotice(x, y) \o GroupNotice(y, x'))

\* Mutant: the layout of a container without an entry is left alone.
SetCurrentLayoutFromMapOnly(key, waiting) ==
    /\ previousLayoutMapKey' = IF key = NoKey THEN previousLayoutMapKey ELSE key
    /\ IF key \in DOMAIN layoutMap
       THEN Show(layoutMap[key].layouts, layoutMap[key].current, waiting)
       ELSE UNCHANGED x /\ events' = waiting

\* setCurrentLayoutFromMap, after an event that left the others "waiting"
SetCurrentLayoutFromMap(key, waiting) ==
    /\ previousLayoutMapKey' = IF key = NoKey THEN previousLayoutMapKey ELSE key
    /\ IF key \in DOMAIN layoutMap
       THEN Show(layoutMap[key].layouts, layoutMap[key].current, waiting)
       ELSE IF key = NoKey \/ x.group = 0
            THEN UNCHANGED x /\ events' = waiting
            ELSE Show(DefaultLayouts(keyboardConfig), Head(DefaultLayouts(keyboardConfig)), waiting)

-----------------------------------------------------------------------------
(***************************************************************************)
(* The session file.  A file of another policy is refused as a whole.      *)
(***************************************************************************)
NoFile == [policy |-> "none"]

CanPersist(k) == k.policy # "Window"

\* Mutant: the current layout of an entry is not looked at.
IsDefaultLayoutConfigListOnly(k, set) == set.layouts = DefaultLayouts(k)

IsDefaultLayoutConfig(k, set) ==
    set = [layouts |-> DefaultLayouts(k), current |-> DefaultLayout(k)]

\* getLayoutMapAsString and saveToFile
Saved(k) ==
    IF ~CanPersist(k) THEN file
    ELSE IF k.policy = "Global" THEN [policy |-> "Global", layout |-> Current(x)]
    ELSE [policy |-> k.policy,
          items |-> [c \in {c \in DOMAIN layoutMap : ~IsDefaultLayoutConfig(k, layoutMap[c])}
                         |-> layoutMap[c]]]

RestoredGlobalLayout(k, f) ==
    IF k.policy = "Global" /\ f.policy = "Global" /\ f.layout \in LayoutsIn(k)
    THEN f.layout ELSE NoLayout

RestoredMap(k, f) ==
    IF k.policy \in {"Global", "Window"} \/ f.policy # k.policy
    THEN Forgotten
    ELSE [c \in {c \in DOMAIN f.items :
                    \A i \in 1 .. Len(f.items[c].layouts) : f.items[c].layouts[i] \in LayoutsIn(k)}
              |-> f.items[c]]

-----------------------------------------------------------------------------
(***************************************************************************)
(* The session begins with some list of layouts and no file, or with what  *)
(* a session before left.                                                  *)
(***************************************************************************)
Init ==
    /\ keyboardConfig \in Configs
    /\ x = [list |-> DefaultLayouts(keyboardConfig), group |-> 0]
    /\ window \in Windows /\ seenWindow = window
    /\ desktop \in Desktops /\ seenDesktop = desktop
    /\ layoutMap = Forgotten
    /\ previousLayoutMapKey = NoKey
    /\ prevLayoutList = x.list
    /\ events = <<>>
    /\ file = NoFile
    /\ lapsed = FALSE

\* The user, or another program, acts whether or not the daemon has caught up.
Acts ==
    /\ Len(events) <= MaxPending
    /\ lapsed' = (lapsed \/ events # <<>>)

GoToWindow(w) ==
    /\ Acts
    /\ w # window
    /\ window' = w
    /\ events' = Append(events, "window")
    /\ UNCHANGED <<keyboardConfig, x, desktop, seenVars, memoryVars, file>>

GoToDesktop(d) ==
    /\ Acts
    /\ d # desktop
    /\ desktop' = d
    /\ events' = Append(events, "desktop")
    /\ UNCHANGED <<keyboardConfig, x, window, seenVars, memoryVars, file>>

\* switchToNextLayout and switchToPreviousLayout
ScrollLayouts(delta) ==
    /\ Acts
    /\ LET size == Len(x.list)
       IN  x' = Locked(x, (x.group + size + delta) % size)
    /\ events' = events \o GroupNotice(x, x')
    /\ UNCHANGED <<keyboardConfig, userVars, seenVars, memoryVars, file>>

SwitchToNextLayout == ScrollLayouts(1)
SwitchToPreviousLayout == ScrollLayouts(0 - 1)

\* setLayout(uint), called by the applet with an index of the list it was given
SetLayoutFromApplet(index) ==
    /\ Acts
    /\ index < Len(LayoutsList(keyboardConfig, x.list))
    /\ \E s \in Selected(keyboardConfig, x, index) : x' = s[1] /\ events' = events \o s[2]
    /\ UNCHANGED <<keyboardConfig, userVars, seenVars, memoryVars, file>>

\* setLayout(QAction*): a shortcut carries the index its layout is configured at
SetLayoutFromShortcut(index) ==
    /\ Acts
    /\ index < Len(keyboardConfig.layouts)
    /\ \E s \in Selected(keyboardConfig, x, index) : x' = s[1] /\ events' = events \o s[2]
    /\ UNCHANGED <<keyboardConfig, userVars, seenVars, memoryVars, file>>

\* configureKeyboard: the default list is loaded, the memory stays
ConfigureKeyboard(k) ==
    /\ Len(events) <= MaxPending
    /\ keyboardConfig' = k
    /\ x' \in Loaded(x, DefaultLayouts(k))
    /\ events' = events \o LoadNotice(x, x')
    /\ UNCHANGED <<userVars, seenVars, memoryVars, file>>

NewKeyboardDevice == ConfigureKeyboard(keyboardConfig) /\ lapsed' = (lapsed \/ events # <<>>)

\* The page saved a configuration and sent its reload message.
ReloadConfig(k) ==
    /\ <<keyboardConfig, k>> \in Changes
    /\ ConfigureKeyboard(k)
    /\ lapsed' = TRUE

\* Another program loads a list: the daemon clears its memory when it hears.
ForeignList(list) ==
    /\ Len(events) <= MaxPending
    /\ lapsed' = TRUE
    /\ x' \in Loaded(x, list)
    /\ events' = events \o LoadNotice(x, x')
    /\ UNCHANGED <<keyboardConfig, userVars, seenVars, memoryVars, file>>

-----------------------------------------------------------------------------
(***************************************************************************)
(* The events.                                                             *)
(***************************************************************************)
Handle(e) ==
    /\ events # <<>> /\ Head(events) = e
    /\ UNCHANGED <<keyboardConfig, userVars, file>>

CaughtUp == lapsed' = (lapsed /\ events' # <<>>)

LayoutSlot ==
    /\ Handle("layout")
    /\ LayoutChanged
    /\ events' = Tail(events)
    /\ CaughtUp
    /\ UNCHANGED <<x, seenVars, previousLayoutMapKey, prevLayoutList>>

LayoutMapSlot ==
    /\ Handle("map")
    /\ LayoutMapChanged
    /\ events' = Tail(events)
    /\ CaughtUp
    /\ UNCHANGED <<x, seenVars, previousLayoutMapKey>>

\* The connection exists for the policies that follow windows, or desktops;
\* KWindowSystem reports a change only, against what it reported last.
WindowSlot ==
    /\ Handle("window")
    /\ seenWindow' = window
    /\ UNCHANGED <<seenDesktop, layoutMap, prevLayoutList>>
    /\ IF window # seenWindow /\ keyboardConfig.policy \in {"Window", "WinClass"}
       THEN SetCurrentLayoutFromMap(
                CurrentMapKey(keyboardConfig, window, seenDesktop, previousLayoutMapKey), Tail(events))
       ELSE UNCHANGED <<x, previousLayoutMapKey>> /\ events' = Tail(events)
    /\ CaughtUp

DesktopSlot ==
    /\ Handle("desktop")
    /\ seenDesktop' = desktop
    /\ UNCHANGED <<seenWindow, layoutMap, prevLayoutList>>
    /\ IF desktop # seenDesktop /\ keyboardConfig.policy = "Desktop"
       THEN SetCurrentLayoutFromMap(desktop, Tail(events))
       ELSE UNCHANGED <<x, previousLayoutMapKey>> /\ events' = Tail(events)
    /\ CaughtUp

-----------------------------------------------------------------------------
(***************************************************************************)
(* The daemon ends and begins again.  The constructor takes the X server's *)
(* list for the list before, loads the default one and restores the file.  *)
(***************************************************************************)
Begin ==
    /\ \E y \in Loaded(x, DefaultLayouts(keyboardConfig)) :
           /\ x' = SetLayout(y, RestoredGlobalLayout(keyboardConfig, file'))
           /\ events' = LoadNotice(x, y) \o GroupNotice(y, x')
    /\ layoutMap' = RestoredMap(keyboardConfig, file')
    /\ previousLayoutMapKey' = NoKey
    /\ prevLayoutList' = x.list
    /\ seenWindow' = window
    /\ seenDesktop' = desktop
    /\ lapsed' = (lapsed \/ events # <<>>)
    /\ UNCHANGED <<keyboardConfig, userVars>>

\* The destructor saves the map, the constructor restores it.
Restart ==
    /\ file' = Saved(keyboardConfig)
    /\ Begin

Crash ==
    /\ file' = file
    /\ Begin

-----------------------------------------------------------------------------
Next ==
    \/ \E w \in Windows : GoToWindow(w)
    \/ \E d \in Desktops : GoToDesktop(d)
    \/ SwitchToNextLayout \/ SwitchToPreviousLayout
    \/ \E i \in 0 .. Len(LayoutsList(keyboardConfig, x.list)) - 1 : SetLayoutFromApplet(i)
    \/ \E i \in 0 .. Len(keyboardConfig.layouts) - 1 : SetLayoutFromShortcut(i)
    \/ NewKeyboardDevice
    \/ \E k \in Configs : ReloadConfig(k)
    \/ \E list \in Foreign : ForeignList(list)
    \/ LayoutSlot \/ LayoutMapSlot \/ WindowSlot \/ DesktopSlot
    \/ Restart \/ Crash

Spec == Init /\ [][Next]_vars

-----------------------------------------------------------------------------
(***************************************************************************)
(* Properties.                                                             *)
(***************************************************************************)
AllLayouts ==
    (UNION {LayoutsIn(k) : k \in Configs}) \cup (UNION {{f[i] : i \in 1 .. Len(f)} : f \in Foreign})

LayoutSets == [layouts : Seq(AllLayouts), current : AllLayouts]

IsMemory(m) ==
    /\ DOMAIN m \subseteq MapKeys
    /\ \A c \in DOMAIN m : m[c] \in LayoutSets /\ Contains(m[c].layouts, m[c].current)

\* The X server has a layout, and its group is one of its list.
Servers == {y \in [list : Seq(AllLayouts), group : Nat] : y.group < Len(y.list)}

\* The variables stay in range; whatever is remembered, or kept in the file, is
\* a list with its current layout in it, so that setting it cannot be refused.
TypeOK ==
    /\ keyboardConfig \in Configs
    /\ x \in Servers
    /\ window \in Windows /\ seenWindow \in Windows
    /\ desktop \in Desktops /\ seenDesktop \in Desktops
    /\ IsMemory(layoutMap)
    /\ previousLayoutMapKey \in MapKeys \cup {NoKey}
    /\ prevLayoutList \in Seq(AllLayouts)
    /\ events \in Seq({"layout", "map", "window", "desktop"})
    /\ file.policy \in {"Desktop", "WinClass"} => IsMemory(file.items)
    /\ lapsed \in BOOLEAN

\* A list the daemon itself loads: the default one, a spare layout in it or not.
OwnList(k, list) ==
    LET default == DefaultLayouts(k)
    IN  /\ Len(list) = Len(default) /\ Front(list) = Front(default)
        /\ Last(list) \in LayoutsIn(k) \ {default[i] : i \in 1 .. Len(default) - 1}

\* The layout is configured at one place only.
ConfiguredOnce(k, layout) ==
    \A i, j \in 1 .. Len(k.layouts) : k.layouts[i] = layout /\ k.layouts[j] = layout => i = j

\* A layout chosen in the applet is the one that is set: the index the applet
\* sends back means the same in setLayout as in getLayoutsList, after any
\* sequence of spare layouts, although setLayout computes it another way.  For a
\* spare layout it does so if the one whose place it takes is configured once:
\* setLayout looks for that one's last place, where getLayoutsList leaves out
\* the first.  Any other layout may be configured twice.
AppletChoosesWhatItShows ==
    OwnList(keyboardConfig, x.list) =>
        LET shown == LayoutsList(keyboardConfig, x.list)
        IN  \A i \in 1 .. Len(shown) :
                ~IsSpare(keyboardConfig, i - 1) \/ ConfiguredOnce(keyboardConfig, Last(x.list))
                    => /\ Selected(keyboardConfig, x, i - 1) # {}
                       /\ \A s \in Selected(keyboardConfig, x, i - 1) : Current(s[1]) = shown[i]

-----------------------------------------------------------------------------
(***************************************************************************)
(* The refinement.  A container's own layout is the remembered one, or the *)
(* default; that of the current container is the layout in the X server    *)
(* while an event that will remember it is still to be handled.            *)
(***************************************************************************)
RemembersLater ==
    \/ Contains(events, "layout")
    \/ Contains(events, "map") /\ prevLayoutList # x.list

CurrentOf(memory, c) ==
    IF c \in DOMAIN memory THEN memory[c].current ELSE DefaultLayout(keyboardConfig)

OwnLayout(c) == IF c = Key /\ RemembersLater THEN Current(x) ELSE CurrentOf(layoutMap, c)

\* A list, loaded or remembered, that the configuration does not have: another
\* program's, or one from before the configuration was changed.  The memory is
\* cleared when it is loaded, and the daemon says nothing of what comes then.
Unconfigured ==
    \/ ~IsExtraSubset(keyboardConfig.layouts, x.list)
    \/ \E c \in DOMAIN layoutMap : ~IsExtraSubset(keyboardConfig.layouts, layoutMap[c].layouts)

\* A daemon that is stopped and started again gives every application or desktop
\* but the current one the layout it had, although the file leaves out those
\* that have the default and those whose layouts are not configured.
QuitKeepsLayouts ==
    [][Restart /\ events = <<>> /\ ~Unconfigured /\ keyboardConfig.policy \in {"Desktop", "WinClass"}
       => \A c \in MapKeys \ {Key'} : CurrentOf(layoutMap, c)' = CurrentOf(layoutMap, c)]_vars

Own == INSTANCE OwnLayouts
    WITH Containers <- MapKeys,
         Layouts <- AllLayouts,
         None <- NoKey,
         focus <- Key,
         shown <- Current(x),
         own <- [c \in MapKeys |-> OwnLayout(c)],
         kept <- LET restored == RestoredMap(keyboardConfig, file)
                 IN  [c \in MapKeys |-> CurrentOf(restored, c)],
         lasting <- keyboardConfig.policy \in {"Desktop", "WinClass"},
         lapsed <- (lapsed \/ Unconfigured)

\* A change of layout affects the current window, application or desktop only,
\* each gets its own layout back when the user returns to it, and those that
\* outlive the session after the daemon was stopped, or killed, as well.
OwnLayoutsSpec == Own!Spec
=============================================================================
