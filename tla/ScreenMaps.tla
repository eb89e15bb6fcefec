----------------------------- MODULE ScreenMaps -----------------------------
(***************************************************************************)
(* The maps of the desktop's screen mapper, and its operations as          *)
(* functions of them (containments/desktop/plugins/folder/screenmapper.cpp).*)
(*                                                                         *)
(* One process-wide object decides on which screen a file of the desktop   *)
(* folder is shown.  It remembers the screen of every file, parks the      *)
(* files of a screen that goes away, and gives them back when it returns.  *)
(*                                                                         *)
(* A url is an opaque value: only the folder it lies below matters.  The   *)
(* order inside QVectors and QHashes is abstracted to sets; where the code *)
(* iterates a QHash, whose order is arbitrary, every order is allowed.     *)
(***************************************************************************)
EXTENDS Integers, FiniteSets

CONSTANTS
    Screens,    \* screen ids, as the corona numbers them
    Urls,       \* files, and Junk
    Junk,       \* what a misread number becomes when it is taken for a url
    Paths,      \* folders shown as a desktop, and NoPath
    NoPath,     \* the empty QUrl the corona's own signals pass
    Below       \* Below[p]: the urls whose string starts with folder p's

ASSUME ScreensAssumption == Screens \subseteq Nat
ASSUME PathsAssumption ==
    /\ NoPath \in Paths
    /\ Below \in [Paths -> SUBSET Urls]
    /\ Below[NoPath] = Urls
ASSUME JunkAssumption ==
    /\ Junk \in Urls
    /\ \A p \in Paths : Junk \in Below[p] => p = NoPath

Unmapped == -1

Files == Urls \ {Junk}

(***************************************************************************)
(* The maps.  parked[s] is m_itemsOnDisabledScreensMap[s]; entries are the *)
(* keys of that hash, which may hold an empty list.                        *)
(***************************************************************************)
Mapper ==
    [map       : [Urls -> Screens \cup {Unmapped}],
     parked    : [Screens -> SUBSET Urls],
     entries   : SUBSET Screens,
     perPath   : [Paths -> SUBSET Screens],
     available : SUBSET Screens]

Saved ==
    [map     : [Urls -> Screens \cup {Unmapped}],
     parked  : [Screens -> SUBSET Urls],
     entries : SUBSET Screens]

EmptySaved ==
    [map     |-> [u \in Urls |-> Unmapped],
     parked  |-> [s \in Screens |-> {}],
     entries |-> {}]

AllParked(parked) == UNION {parked[s] : s \in Screens}

-----------------------------------------------------------------------------
(***************************************************************************)
(* The operations, as functions of the maps they change.                   *)
(***************************************************************************)

\* screenForItem: a mapping to a screen that is away counts as none.
ScreenForItem(m, u) == IF m.map[u] \in m.available THEN m.map[u] ELSE Unmapped

\* firstAvailableScreen: the lowest screen registered for the folder.
FirstAvailableScreen(m, p) ==
    IF m.perPath[p] = {} THEN Unmapped
    ELSE CHOOSE s \in m.perPath[p] : \A t \in m.perPath[p] : s <= t

\* Mutant: the screen is stored one too low, as if ids started at 1.
MappedOffByOne(m, u, s) == [m EXCEPT !.map = [@ EXCEPT ![u] = s - 1]]

\* addMapping
Mapped(m, u, s) == [m EXCEPT !.map = [@ EXCEPT ![u] = s]]

\* removeItemFromDisabledScreen: the url leaves every list, the lists stay.
Unparked(m, u) == [m EXCEPT !.parked = [s \in Screens |-> @[s] \ {u}]]

\* The files that leave the map when screen s stops showing folder p.
Displaced(m, s, p) == {u \in Below[p] : m.map[u] = s}

\* Mutant: removeScreen without the search for a list that has the file already.
ParkedTwice(m, s, p) == [m.parked EXCEPT ![s] = @ \cup Displaced(m, s, p)]

\* The lists after removeScreen: a file already parked keeps its first home.
ParkedAfterRemove(m, s, p) ==
    [m.parked EXCEPT ![s] = @ \cup (Displaced(m, s, p) \ AllParked(m.parked))]

\* The registration of screens per folder after removeScreen: the empty url
\* clears the screen everywhere, any other url only its own folder.
PerPathAfterRemove(m, s, p) ==
    [q \in Paths |-> IF p \in {q, NoPath} THEN m.perPath[q] \ {s} ELSE m.perPath[q]]

\* removeScreen, past its early return
ScreenRemoved(m, s, p) ==
    [map       |-> [u \in Urls |-> IF u \in Displaced(m, s, p) THEN Unmapped ELSE m.map[u]],
     parked    |-> ParkedAfterRemove(m, s, p),
     entries   |-> IF Displaced(m, s, p) \subseteq AllParked(m.parked)
                   THEN m.entries ELSE m.entries \cup {s},
     perPath   |-> PerPathAfterRemove(m, s, p),
     available |-> m.available \ {s}]

\* Mutant: every parked file leaves the list, only those of the folder are mapped.
ReturningKeepsMap(m, s, p) == {u \in m.parked[s] \cap Below[p] : m.map[u] = Unmapped}

\* The parked files addScreen gives back to screen s showing folder p.
Returning(m, s, p) == m.parked[s] \cap Below[p]

\* addScreen, past its early return
ScreenAdded(m, s, p) ==
    [map       |-> [u \in Urls |-> IF u \in Returning(m, s, p) THEN s ELSE m.map[u]],
     parked    |-> [m.parked EXCEPT ![s] = @ \ Below[p]],
     entries   |-> IF m.parked[s] \subseteq Below[p] THEN m.entries \ {s} ELSE m.entries,
     perPath   |-> IF p = NoPath THEN m.perPath ELSE [m.perPath EXCEPT ![p] = @ \cup {s}],
     available |-> m.available \cup {s}]

\* Mutant: the lists are not written when they change.
ParkedNotSaved(c, m) == c

\* saveDisabledScreensMap: the lists reach the configuration, the mapping not.
ParkedSaved(c, m) == [c EXCEPT !.parked = m.parked, !.entries = m.entries]

(***************************************************************************)
(* readDisabledScreensMap.  The lists are saved as "screen, size, urls..." *)
(* in an arbitrary order of screens.  The reader never leaves the url      *)
(* state for a list of size 0: every string after it, the numbers          *)
(* included, joins that list.  "before" are the lists read until then.     *)
(***************************************************************************)
EmptyEntries(c) == {s \in c.entries : c.parked[s] = {}}

Misread(c, e, before) ==
    LET after == c.entries \ (before \cup {e})
    IN  [parked  |-> [s \in Screens |->
                        IF s \in before THEN c.parked[s]
                        ELSE IF s = e /\ after # {}
                        THEN {Junk} \cup UNION {c.parked[t] : t \in after}
                        ELSE {}],
         entries |-> IF after = {} THEN before ELSE before \cup {e}]

Readings(c) ==
    IF EmptyEntries(c) = {}
    THEN {[parked |-> c.parked, entries |-> c.entries]}
    ELSE {Misread(c, e, before) :
            e \in EmptyEntries(c), before \in SUBSET (c.entries \ EmptyEntries(c))}
=============================================================================
