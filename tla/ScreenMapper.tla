---------------------------- MODULE ScreenMapper ----------------------------
(***************************************************************************)
(* The screen mapper as a component: the calls of its clients in any       *)
(* order, its persistence, crashes and restarts.  The mapper writes the    *)
(* parked lists to the corona's configuration as soon as a screen comes or *)
(* goes, but the mapping only when a 100 ms timer fires.                   *)
(***************************************************************************)
EXTENDS ScreenMaps

VARIABLES
    mapper,         \* the in-memory maps of the ScreenMapper instance
    mappingTimer,   \* m_screenMappingChangedTimer is running
    config,         \* the ScreenMapping group of the corona's KConfig, in memory
    disk            \* the same group as last synced to its file

mapperVars == <<mapper, mappingTimer, config, disk>>

-----------------------------------------------------------------------------
(***************************************************************************)
(* The steps: one per call the folder views and the corona make.           *)
(***************************************************************************)
MapperInit ==
    /\ mapper = [map       |-> [u \in Urls |-> Unmapped],
                 parked    |-> [s \in Screens |-> {}],
                 entries   |-> {},
                 perPath   |-> [p \in Paths |-> {}],
                 available |-> {}]
    /\ mappingTimer = FALSE
    /\ config = EmptySaved
    /\ disk = EmptySaved

\* removeScreen saves the lists between filling them and clearing the map.
RemoveScreen(s, p) ==
    /\ s \in mapper.available
    /\ mapper' = ScreenRemoved(mapper, s, p)
    /\ config' = ParkedSaved(config, mapper')
    /\ mappingTimer' = (mappingTimer \/ Displaced(mapper, s, p) # {})
    /\ UNCHANGED disk

AddScreen(s, p) ==
    /\ s \notin mapper.available
    /\ mapper' = ScreenAdded(mapper, s, p)
    /\ config' = ParkedSaved(config, mapper')
    /\ mappingTimer' = (mappingTimer \/ Returning(mapper, s, p) # {})
    /\ UNCHANGED disk

\* addMapping with DelayedSignal, the way every caller in the folder views uses it
AddMapping(u, s) ==
    /\ mapper' = Mapped(mapper, u, s)
    /\ mappingTimer' = TRUE
    /\ UNCHANGED <<config, disk>>

\* A drop on screen s: addMapping, then removeItemFromDisabledScreen, which
\* does not save the lists it changes.
DropItem(u, s) ==
    /\ mapper' = Unparked(Mapped(mapper, u, s), u)
    /\ mappingTimer' = TRUE
    /\ UNCHANGED <<config, disk>>

\* The file is deleted: removeFromMap, which leaves the parked lists alone.
RemoveFromMap(u) ==
    /\ mapper' = Mapped(mapper, u, Unmapped)
    /\ mappingTimer' = TRUE
    /\ UNCHANGED <<config, disk>>

\* The timer fires: screenMappingChanged writes the mapping and syncs the group.
SaveMapping ==
    /\ mappingTimer
    /\ mappingTimer' = FALSE
    /\ config' = [config EXCEPT !.map = mapper.map]
    /\ disk' = config'
    /\ UNCHANGED mapper

\* The corona syncs its configuration for reasons of its own.
CoronaSync ==
    /\ disk' = config
    /\ UNCHANGED <<mapper, mappingTimer, config>>

\* The shell is started again on the saved group c: setCorona reads it.
StartFrom(c) ==
    /\ \E r \in Readings(c) :
         mapper' = [map       |-> c.map,
                    parked    |-> r.parked,
                    entries   |-> r.entries,
                    perPath   |-> [p \in Paths |-> {}],
                    available |-> {}]
    /\ mappingTimer' = FALSE
    /\ config' = c
    /\ disk' = c

\* A crash loses what was not synced; a clean exit syncs the configuration
\* but not the mapping a pending timer still owed it.
Crash == StartFrom(disk)
CleanRestart == StartFrom(config)

MapperNext ==
    \/ \E s \in Screens, p \in Paths : RemoveScreen(s, p) \/ AddScreen(s, p)
    \/ \E u \in Files, s \in Screens : AddMapping(u, s) \/ DropItem(u, s)
    \/ \E u \in Files : RemoveFromMap(u)
    \/ SaveMapping
    \/ CoronaSync
    \/ Crash
    \/ CleanRestart

MapperSpec == MapperInit /\ [][MapperNext]_mapperVars

-----------------------------------------------------------------------------
(***************************************************************************)
(* Properties.                                                             *)
(***************************************************************************)

\* The maps, the configuration and its file stay well formed.
MapperTypeOK ==
    /\ mapper \in Mapper
    /\ mappingTimer \in BOOLEAN
    /\ config \in Saved
    /\ disk \in Saved

Disjoint(parked) ==
    \A s, t \in Screens : s # t => parked[s] \cap parked[t] \subseteq {Junk}

\* A file waits for one screen at most: removeScreen's search through every
\* list keeps the first home, so two returning screens never claim one file.
\* It holds of the saved lists too, and a misread of them preserves it.
ParkedForOneScreen ==
    /\ Disjoint(mapper.parked)
    /\ Disjoint(config.parked)
    /\ Disjoint(disk.parked)

\* The screen a file belongs to: the one it waits for, or else its mapping.
HomeIn(parked, map, u) ==
    IF \E s \in Screens : u \in parked[s]
    THEN CHOOSE s \in Screens : u \in parked[s]
    ELSE map[u]

Home(u) == HomeIn(mapper.parked, mapper.map, u)

\* Screens coming and going never change the screen a file belongs to
\* (removeScreen "store the original location", addScreen "restore the stored
\* locations"), whatever other screens, drops and remappings came between.
ScreensComeAndGo ==
    \E s \in Screens, p \in Paths : RemoveScreen(s, p) \/ AddScreen(s, p)

HomesSurviveScreenChanges ==
    [][ScreensComeAndGo => \A u \in Files : Home(u)' = Home(u)]_mapperVars

\* Once the mapping timer is idle a crash forgets no file: every file with a
\* home in memory is mapped or parked in the synced configuration, although
\* the lists and the mapping are written by different steps.
NothingForgottenWhenIdle ==
    ~mappingTimer =>
        /\ disk.map = mapper.map
        /\ AllParked(mapper.parked) \ {Junk} \subseteq AllParked(disk.parked)

-----------------------------------------------------------------------------
(***************************************************************************)
(* The inductive invariant the proofs use.  A list that is not empty has   *)
(* an entry, or a reader of the saved lists would skip it; and the         *)
(* configuration in memory knows every parked file, and the mapping unless *)
(* the timer still owes it.                                                *)
(***************************************************************************)
EntriesCover(parked, entries) ==
    \A s \in Screens : parked[s] # {} => s \in entries

AllEntriesCover ==
    /\ EntriesCover(mapper.parked, mapper.entries)
    /\ EntriesCover(config.parked, config.entries)
    /\ EntriesCover(disk.parked, disk.entries)

ConfigKnowsHomes ==
    /\ AllParked(mapper.parked) \ {Junk} \subseteq AllParked(config.parked)
    /\ ~mappingTimer => config.map = mapper.map

MapperIInv ==
    /\ MapperTypeOK
    /\ ParkedForOneScreen
    /\ AllEntriesCover
    /\ ConfigKnowsHomes
    /\ NothingForgottenWhenIdle
=============================================================================
