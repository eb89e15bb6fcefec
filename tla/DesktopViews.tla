---------------------------- MODULE DesktopViews ----------------------------
(***************************************************************************)
(* The folder views of the desktop and the screen mapper they share.       *)
(*                                                                         *)
(* Every containment has a FolderModel (foldermodel.cpp) that lists a      *)
(* folder and filters the rows by the screen the mapper gives each file.   *)
(* The filter itself assigns unmapped files, and its verdicts are cached   *)
(* until the mapper says screensChanged or screenMappingChanged, the       *)
(* latter only when the mapper's timer fires.  The corona announces        *)
(* screens on its own; a containment may also lose its screen and get it   *)
(* back (external: only the signals this code connects to are modelled).   *)
(***************************************************************************)
EXTENDS ScreenMaps

CONSTANTS
    Views,      \* folder views used as a containment, one per containment
    ScreenOf,   \* the screen each containment is on while it has one
    FolderOf,   \* the folder that directly contains each file
    Hotplug     \* screens may be unplugged and plugged in again

ASSUME ViewsAssumption ==
    /\ ScreenOf \in [Views -> Screens]
    /\ FolderOf \in [Files -> Paths \ {NoPath}]
    /\ Hotplug \in BOOLEAN

VARIABLES
    mapper,         \* the ScreenMapper instance
    mappingTimer,   \* m_screenMappingChangedTimer is running
    exists,         \* the files on disk
    view            \* the folder views

vars == <<mapper, mappingTimer, exists, view>>

Folders == Paths \ {NoPath}

\* m_screen, m_screenUsed, the resolved url, and the rows listed and shown
View ==
    [alive  : BOOLEAN,
     screen : Screens \cup {Unmapped},
     used   : BOOLEAN,
     folder : Paths,
     listed : SUBSET Files,
     shown  : SUBSET Files]

NoView == [alive |-> FALSE, screen |-> Unmapped, used |-> FALSE, folder |-> NoPath,
           listed |-> {}, shown |-> {}]

-----------------------------------------------------------------------------
(***************************************************************************)
(* filterAcceptsRow, over all the rows of all the views vs.                *)
(***************************************************************************)

\* Mutant: the first screen of all adopts, whatever folder it shows.
AdoptsOnFirstScreen(m, v, u) ==
    /\ v.used
    /\ ScreenForItem(m, u) = Unmapped
    /\ \A s \in m.available : v.screen <= s

\* Mutant: the first view of the folder adopts every file it lists.
AdoptsMapped(m, v, u) ==
    /\ v.used
    /\ v.screen = FirstAvailableScreen(m, v.folder)

\* The view takes a file without a screen, being the first one of its folder.
Adopts(m, v, u) ==
    /\ v.used
    /\ ScreenForItem(m, u) = Unmapped
    /\ v.screen = FirstAvailableScreen(m, v.folder)

Accepts(m, v, u) ==
    IF v.used /\ ScreenForItem(m, u) = Unmapped
    THEN Adopts(m, v, u)
    ELSE v.screen = ScreenForItem(m, u)

\* The maps once every view has filtered its rows.
AfterFilter(m, vs) ==
    [m EXCEPT !.map = [u \in Urls |->
        IF \E v \in Views : u \in vs[v].listed /\ Adopts(m, vs[v], u)
        THEN vs[CHOOSE v \in Views : u \in vs[v].listed /\ Adopts(m, vs[v], u)].screen
        ELSE @[u]]]

\* The views once every one of them has filtered its rows.
Filtered(m, vs) ==
    [v \in Views |->
        [vs[v] EXCEPT !.shown = {u \in vs[v].listed : Accepts(m, vs[v], u)}]]

Refilter(m, vs) ==
    /\ mapper' = AfterFilter(m, vs)
    /\ view' = Filtered(m, vs)

\* Mapping a file, by a caller or by a filter, starts the timer.
TimerAfter(m) == mappingTimer \/ m.map # mapper'.map

-----------------------------------------------------------------------------
Init ==
    /\ mapper = [map       |-> [u \in Urls |-> Unmapped],
                 parked    |-> [s \in Screens |-> {}],
                 entries   |-> {},
                 perPath   |-> [p \in Paths |-> {}],
                 available |-> {}]
    /\ mappingTimer = FALSE
    /\ exists = {}
    /\ view = [v \in Views |-> NoView]

(***************************************************************************)
(* The mapper's screen operations, with the early returns of the code.     *)
(***************************************************************************)
AfterAdd(m, s, p) == IF s \in Screens \ m.available THEN ScreenAdded(m, s, p) ELSE m
AfterRemove(m, s, p) == IF s \in m.available THEN ScreenRemoved(m, s, p) ELSE m

\* A screen operation that changes nothing emits no screensChanged.
FilterIfChanged(before, after, vs) ==
    IF before.available = after.available
    THEN mapper' = after /\ view' = vs
    ELSE Refilter(after, vs)

\* A containment's view is created: used by a containment, no url, no screen yet.
CreateView(v) ==
    /\ ~view[v].alive
    /\ view' = [view EXCEPT ![v] = [NoView EXCEPT !.alive = TRUE]]
    /\ UNCHANGED <<mapper, mappingTimer, exists>>

\* Mutant: the screen joins the folder it left.
SetUrlRegistersOld(v, p) ==
    /\ view[v].alive
    /\ view[v].folder # p
    /\ LET vs == [view EXCEPT ![v].folder = p, ![v].listed = {}, ![v].shown = {}]
           m1 == AfterRemove(mapper, view[v].screen, view[v].folder)
           m2 == AfterAdd(m1, view[v].screen, view[v].folder)
       IN  FilterIfChanged(m1, m2, vs)
    /\ mappingTimer' = TimerAfter(mapper)
    /\ UNCHANGED exists

\* setUrl: the screen leaves the old folder and joins the new one, and every
\* other view filters after each of the two.
SetUrl(v, p) ==
    /\ view[v].alive
    /\ view[v].folder # p
    /\ LET vs  == [view EXCEPT ![v].folder = p, ![v].listed = {}, ![v].shown = {}]
           m1  == AfterRemove(mapper, view[v].screen, view[v].folder)
           m2  == IF m1.available = mapper.available THEN m1 ELSE AfterFilter(m1, vs)
           vs2 == IF m1.available = mapper.available THEN vs ELSE Filtered(m1, vs)
           m3  == AfterAdd(m2, view[v].screen, p)
       IN  FilterIfChanged(m2, m3, vs2)
    /\ mappingTimer' = TimerAfter(mapper)
    /\ UNCHANGED exists

\* The lister delivers a file of the folder: its row is inserted and filtered.
RowInserted(v, u) ==
    /\ view[v].alive
    /\ u \in exists \ view[v].listed
    /\ FolderOf[u] = view[v].folder
    /\ LET row == [w \in Views |-> IF w = v THEN [view[v] EXCEPT !.listed = {u}] ELSE NoView]
       IN  /\ mapper' = AfterFilter(mapper, row)
           /\ view' = [view EXCEPT ![v].listed = @ \cup {u},
                                   ![v].shown  = @ \cup Filtered(mapper, row)[v].shown]
    /\ mappingTimer' = TimerAfter(mapper)
    /\ UNCHANGED exists

\* setScreen, when the containment gets its screen
SetScreen(v) ==
    /\ view[v].alive
    /\ ~view[v].used
    /\ LET s  == ScreenOf[v]
           vs == [view EXCEPT ![v].used = TRUE, ![v].screen = s]
       IN  IF view[v].screen = s
           THEN mapper' = mapper /\ view' = vs
           ELSE FilterIfChanged(mapper, AfterAdd(mapper, s, view[v].folder), vs)
    /\ mappingTimer' = TimerAfter(mapper)
    /\ UNCHANGED exists

\* ~FolderModel: disconnected first, so only the other views filter.
DestroyView(v) ==
    /\ view[v].alive
    /\ LET vs == [view EXCEPT ![v] = NoView]
       IN  FilterIfChanged(mapper, AfterRemove(mapper, view[v].screen, view[v].folder), vs)
    /\ mappingTimer' = TimerAfter(mapper)
    /\ UNCHANGED exists

\* A screen comes back: the corona announces it, which is addScreen with an
\* empty url and registers the screen for no folder.  Its containment is there
\* already and reports its screen again afterwards.
ScreenPlugged(s) ==
    /\ Hotplug
    /\ s \notin mapper.available
    /\ \E v \in Views : view[v].screen = s
    /\ Refilter(ScreenAdded(mapper, s, NoPath), view)
    /\ mappingTimer' = TimerAfter(mapper)
    /\ UNCHANGED exists

\* The corona loses a screen: its containments report screen -1, and
\* removeScreen is called with an empty url.
ScreenUnplugged(s) ==
    /\ Hotplug
    /\ s \in mapper.available
    /\ Refilter(ScreenRemoved(mapper, s, NoPath),
                [v \in Views |-> IF view[v].screen = s
                                 THEN [view[v] EXCEPT !.used = FALSE] ELSE view[v]])
    /\ mappingTimer' = TimerAfter(mapper)
    /\ UNCHANGED exists

-----------------------------------------------------------------------------
(***************************************************************************)
(* Files.                                                                  *)
(***************************************************************************)
\* A file appears on disk (external); RowInserted is how a view learns of it.
FileCreated(u) ==
    /\ u \notin exists
    /\ exists' = exists \cup {u}
    /\ UNCHANGED <<mapper, mappingTimer, view>>

\* Mutant: the proxy keeps the row.
FileDeletedKeepsRow(u) ==
    /\ u \in exists
    /\ exists' = exists \ {u}
    /\ mapper' = Mapped(mapper, u, Unmapped)
    /\ mappingTimer' = TRUE
    /\ view' = [v \in Views |-> [view[v] EXCEPT !.listed = @ \ {u}]]

\* evictFromIsDirCache: every view that lists the file removes it from the map.
FileDeleted(u) ==
    /\ u \in exists
    /\ exists' = exists \ {u}
    /\ IF \E v \in Views : u \in view[v].listed
       THEN mapper' = Mapped(mapper, u, Unmapped) /\ mappingTimer' = TRUE
       ELSE UNCHANGED <<mapper, mappingTimer>>
    /\ view' = [v \in Views |-> [view[v] EXCEPT !.listed = @ \ {u}, !.shown = @ \ {u}]]

\* Mutant: the timer is not started.
DropFileSilently(v, u) ==
    /\ view[v].used
    /\ u \in exists /\ FolderOf[u] = view[v].folder
    /\ mapper' = Unparked(Mapped(mapper, u, view[v].screen), u)
    /\ UNCHANGED <<mappingTimer, exists, view>>

\* drop of a file of the shown folder, from this view or from another screen's:
\* addMapping and removeItemFromDisabledScreen; nobody filters before the timer.
DropFile(v, u) ==
    /\ view[v].used
    /\ u \in exists /\ FolderOf[u] = view[v].folder
    /\ mapper' = Unparked(Mapped(mapper, u, view[v].screen), u)
    /\ mappingTimer' = TRUE
    /\ UNCHANGED <<exists, view>>

\* A copy onto the view, or its "create new" menu, claims a file for the view's
\* screen; the lister may have delivered the file already, or not yet.
ClaimNewFile(v, u) ==
    /\ view[v].used
    /\ FolderOf[u] = view[v].folder
    /\ mapper' = Mapped(mapper, u, view[v].screen)
    /\ mappingTimer' = TRUE
    /\ UNCHANGED <<exists, view>>

\* Mutant: the views are not connected to screenMappingChanged.
MappingTimeoutUnheard ==
    /\ mappingTimer
    /\ mappingTimer' = FALSE
    /\ UNCHANGED <<mapper, exists, view>>

\* The mapper's timer fires: screenMappingChanged makes every view filter.
MappingTimeout ==
    /\ mappingTimer
    /\ Refilter(mapper, view)
    /\ mappingTimer' = (mapper'.map # mapper.map)
    /\ UNCHANGED exists

Next ==
    \/ \E v \in Views :
         \/ CreateView(v)
         \/ \E p \in Folders : SetUrl(v, p)
         \/ SetScreen(v)
         \/ DestroyView(v)
         \/ \E u \in Files : RowInserted(v, u) \/ DropFile(v, u) \/ ClaimNewFile(v, u)
    \/ \E s \in Screens : ScreenPlugged(s) \/ ScreenUnplugged(s)
    \/ \E u \in Files : FileCreated(u) \/ FileDeleted(u)
    \/ MappingTimeout

Spec == Init /\ [][Next]_vars

\* A started single-shot timer fires; nothing else is bound to happen.
FairSpec == Spec /\ WF_vars(MappingTimeout)

-----------------------------------------------------------------------------
\* The mapper's maps and the views' rows stay well formed; a view shows only
\* rows its lister delivered.
TypeOK ==
    /\ mapper \in Mapper
    /\ mappingTimer \in BOOLEAN
    /\ exists \in SUBSET Files
    /\ view \in [Views -> View]
    /\ \A v \in Views : view[v].shown \subseteq view[v].listed

\* With the mapping timer idle no file is on two screens: the cached verdicts
\* of the attached views agree, although a drop changes the mapping while all
\* views still show what they showed.
OneScreenPerFile ==
    ~mappingTimer =>
        \A v, w \in {x \in Views : view[x].used} :
            view[v].screen # view[w].screen => view[v].shown \cap view[w].shown = {}

Listers(u) == {v \in Views : view[v].alive /\ view[v].folder = FolderOf[u]}

\* No attached view is still waiting for its url, or for the corona to
\* announce its screen.
Configured ==
    \A v \in Views :
        view[v].used => view[v].folder # NoPath /\ view[v].screen \in mapper.available

\* The screen of an attached view is registered for the folder it shows: who
\* gets a new file is decided among the registered screens.  ("path is empty
\* when a new screen appears that has no folderview base path associated with")
AttachedViewsRegistered ==
    Configured =>
        \A v \in Views : view[v].used => view[v].screen \in mapper.perPath[view[v].folder]

\* With the mapping timer idle, a file that every view of its folder lists is
\* shown by one of them ("Associated with this folderview if the view is on the
\* first available screen"), whatever views opened, closed, or moved to
\* another folder since it was placed.
NoFileHidden ==
    ~mappingTimer /\ Configured =>
        \A u \in exists :
            /\ \E v \in Listers(u) : view[v].used
            /\ \A v \in Listers(u) : u \in view[v].listed
            => \E v \in Listers(u) : u \in view[v].shown

\* Only the user moves a file off a screen that stays: filters, other views'
\* urls and other screens never take it away, and a file that waits for its
\* first screen is the only one that may leave for it.
UserMoves(u) == FileDeleted(u) \/ \E v \in Views : DropFile(v, u) \/ ClaimNewFile(v, u)

PlacedFilesStay ==
    [][\A u \in Files :
         LET s == ScreenForItem(mapper, u)
             leaves == \E v \in Views : view[v].screen = s
                          /\ \/ view'[v].folder # view[v].folder
                             \/ view'[v].screen # s
         IN  (/\ s # Unmapped
              /\ s \in mapper'.available
              /\ u \notin AllParked(mapper.parked)
              /\ ~leaves
              /\ ~UserMoves(u))
             => ScreenForItem(mapper', u) = s]_vars

\* A file mapped to the screen of an attached view that lists it gets shown
\* there, unless the mapping changes first: a drop is not lost on the view.
PlacedFilesGetShown ==
    \A v \in Views, u \in Files :
        (/\ view[v].used
         /\ u \in view[v].listed
         /\ ScreenForItem(mapper, u) = view[v].screen)
        ~> (\/ u \in view[v].shown
            \/ ~view[v].used
            \/ u \notin view[v].listed
            \/ ScreenForItem(mapper, u) # view[v].screen)
=============================================================================
