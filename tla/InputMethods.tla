---------------------------- MODULE InputMethods ----------------------------
(***************************************************************************)
(* The input method panel's IBus backend                                   *)
(* (applets/kimpanel/backend/ibus/ibus15): which engine each input context *)
(* uses, the walk through the engines while a trigger key's modifiers are  *)
(* held, and the order of the engines that is kept for the next session.   *)
(* The bus, its daemon and its settings are outside.                       *)
(***************************************************************************)
EXTENDS Naturals, Sequences, FiniteSets, SequencesExt

CONSTANTS
    Engines,        \* the engines the bus has
    Contexts,       \* input contexts
    Preloads,       \* lists of engines the user may configure
    NoEngine, NoContext,
    Threshold,      \* contexts whose engine is remembered (256)
    MaxHistory      \* bound: length of the history when one engine for all is chosen

EnginesAssumption ==
    /\ IsFiniteSet(Engines) /\ Preloads \subseteq Seq(Engines) \ {<<>>}
    /\ \A p \in Preloads : IsInjective(p)
    /\ NoEngine \notin Engines /\ NoContext \notin Contexts
    /\ Threshold \in Nat \ {0} /\ MaxHistory \in Nat

VARIABLES
    preload, savedOrder, useGlobal,     \* the settings
    bus,            \* the engine of the bus
    panel,          \* "none", "new" (m_impanel is set) or "ready" (its name is owned)
    engines,        \* m_engines
    global,         \* m_useGlobalEngine
    context,        \* m_currentContext
    map, history,   \* m_engineMap, m_history
    selected,       \* the index of the engine walked to, counted from 1, and 0 for none
    doGrab,         \* the trigger keys are grabbed
    grabbed,        \* m_keyboardGrabbed
    logo            \* the engine the panel shows

settingsVars == <<preload, savedOrder, useGlobal>>
memoryVars == <<global, context, map, history>>
keyVars == <<selected, doGrab, grabbed>>
vars == <<settingsVars, bus, panel, engines, memoryVars, keyVars, logo>>

-----------------------------------------------------------------------------
(***************************************************************************)
(* The engine manager.                                                     *)
(***************************************************************************)
NoMap == [c \in {} |-> NoEngine]

Index(list, e) == CHOOSE i \in 1..Len(list) : list[i] = e

CurrentEngine == IF context' \in DOMAIN map THEN map[context'] ELSE engines[1]

\* setCurrentEngine; the oldest context is forgotten when there are too many.
SetCurrentEngine(c, e) ==
    IF global \/ c = NoContext THEN UNCHANGED <<map, history>>
    ELSE LET with == [x \in DOMAIN map \cup {c} |-> IF x = c THEN e ELSE map[x]]
             queue == IF c \in DOMAIN map THEN history ELSE Append(history, c)
         IN  IF Cardinality(DOMAIN with) > Threshold
             THEN map' = [x \in DOMAIN with \ {Head(queue)} |-> with[x]] /\ history' = Tail(queue)
             ELSE map' = with /\ history' = queue

Navigate(e, forward) ==
    LET i == IF e \in ToSet(engines) THEN Index(engines, e) - 1 ELSE Len(engines)
        n == Len(engines)
    IN  ((i + (IF forward THEN 1 ELSE n - 1)) % n) + 1

\* The engines before it make room.
MoveToFirst(e) ==
    IF e \notin ToSet(engines) THEN engines
    ELSE [j \in 1..Len(engines) |->
             IF j = 1 THEN e ELSE engines[IF j <= Index(engines, e) THEN j - 1 ELSE j]]

\* A name that stands behind the ones placed so far is swapped with the engine
\* at the next place.
Place(acc, name) ==
    IF name \in ToSet(acc.list) /\ Index(acc.list, name) >= acc.next
    THEN LET j == Index(acc.list, name)
         IN  [list |-> [acc.list EXCEPT ![acc.next] = name, ![j] = acc.list[acc.next]],
              next |-> acc.next + 1]
    ELSE acc

SetOrder(list, names) ==
    LET placed[n \in 0..Len(names)] ==
            IF n = 0 THEN [list |-> list, next |-> 1] ELSE Place(placed[n - 1], names[n])
    IN  placed[Len(names)].list

-----------------------------------------------------------------------------
(***************************************************************************)
(* The panel.                                                              *)
(***************************************************************************)
\* impanel_set_engine for the context c; the bus may refuse.
SetEngine(c, e) ==
    \/ bus' = e /\ SetCurrentEngine(c, e)
    \/ UNCHANGED <<bus, map, history>>

\* real_register_properties, in the new state: the engine walked to is shown,
\* and the one of the bus when there is none.
Registered == IF selected' \in 1..Len(engines') THEN engines'[selected'] ELSE bus'

\* A bus without an engine is given the first one, and may refuse it.
OfferedFirst(names) == IF bus = NoEngine THEN {NoEngine, names[1]} ELSE {bus}

\* impanel_update_engines.  contains() has no end of its own: for an engine
\* that is not in the list it runs into what lies behind, and it either finds
\* something it takes for the engine or crashes.  It never says no.
Loads(names) ==
    /\ engines' = names
    /\ map' = NoMap /\ history' = <<>>
    /\ bus' \in OfferedFirst(names)
    /\ doGrab' = (Len(names) > 1)

Crash ==
    /\ panel' = "none"
    /\ engines' = <<>> /\ global' = FALSE /\ context' = NoContext
    /\ map' = NoMap /\ history' = <<>>
    /\ selected' = 0 /\ doGrab' = FALSE /\ grabbed' = FALSE
    /\ logo' = NoEngine
    /\ bus' = bus

Init ==
    /\ preload \in Preloads /\ savedOrder \in {<<>>, preload} /\ useGlobal \in BOOLEAN
    /\ bus = NoEngine
    /\ panel = "none"
    /\ engines = <<>> /\ global = FALSE /\ context = NoContext
    /\ map = NoMap /\ history = <<>>
    /\ selected = 0 /\ doGrab = FALSE /\ grabbed = FALSE
    /\ logo = NoEngine

\* nameAcquired: a new panel.  m_useGlobalEngine is not initialized.
NameAcquired ==
    /\ panel = "none"
    /\ panel' = "new"
    /\ engines' = <<>> /\ global' \in BOOLEAN /\ context' = NoContext
    /\ map' = NoMap /\ history' = <<>>
    /\ selected' = 0
    /\ UNCHANGED <<settingsVars, bus, doGrab, grabbed, logo>>

\* nameLost: the trigger keys are let go, a grabbed keyboard is not.
NameLost ==
    /\ panel # "none"
    /\ panel' = "none"
    /\ doGrab' = FALSE
    /\ engines' = <<>> /\ global' = FALSE /\ context' = NoContext
    /\ map' = NoMap /\ history' = <<>>
    /\ selected' = 0 /\ logo' = NoEngine
    /\ UNCHANGED <<settingsVars, bus, grabbed>>

\* on_bus_acquired: the engines, in the order of the last session, and the
\* first of them for the bus, unless it refuses.
BusAcquired ==
    /\ panel = "new"
    /\ \/ /\ panel' = "ready"
          /\ engines' = SetOrder(preload, savedOrder)
          /\ \/ bus' \in OfferedFirst(preload)
             \/ savedOrder # <<>> /\ bus' = engines'[1]
          /\ map' = NoMap /\ history' = <<>>
          /\ global' = useGlobal
          /\ doGrab' = (Len(preload) > 1)
          /\ UNCHANGED <<context, selected, grabbed>>
          /\ logo' = Registered
       \/ bus \notin ToSet(preload) \cup {NoEngine} /\ Crash
    /\ UNCHANGED settingsVars

-----------------------------------------------------------------------------
\* The settings change; the panel hears of it.
ConfigureEngines(names) ==
    /\ names # preload
    /\ preload' = names
    /\ UNCHANGED <<savedOrder, useGlobal>>
    /\ IF panel = "none"
       THEN UNCHANGED <<bus, panel, engines, memoryVars, keyVars, logo>>
       ELSE \/ /\ Loads(names)
               /\ UNCHANGED <<panel, global, context, selected, grabbed, logo>>
            \/ bus \notin ToSet(names) \cup {NoEngine} /\ Crash

\* Mutant: one engine for all clears the history and keeps the map.
UseOneForAllSwapped(value) ==
    /\ value # useGlobal /\ Len(history) <= MaxHistory
    /\ useGlobal' = value
    /\ global' = IF panel = "none" THEN global ELSE value
    /\ history' = IF panel # "none" /\ value THEN <<>> ELSE history
    /\ UNCHANGED <<preload, savedOrder, bus, panel, engines, context, map, keyVars, logo>>

\* setUseGlobalEngine: the map is cleared, the history is not.
UseOneForAll(value) ==
    /\ value # useGlobal /\ Len(history) <= MaxHistory
    /\ useGlobal' = value
    /\ global' = IF panel = "none" THEN global ELSE value
    /\ map' = IF panel # "none" /\ value THEN NoMap ELSE map
    /\ UNCHANGED <<preload, savedOrder, bus, panel, engines, context, history, keyVars, logo>>

\* Somebody else sets the engine of the bus.
AnotherEngine(e) ==
    /\ e # bus
    /\ bus' = e
    /\ UNCHANGED <<settingsVars, panel, engines, memoryVars, keyVars, logo>>

-----------------------------------------------------------------------------
(***************************************************************************)
(* What the bus reports.  While the keyboard is grabbed it is ignored.     *)
(***************************************************************************)
FocusIn(c) ==
    /\ panel # "none" /\ ~grabbed
    /\ context' = c
    /\ logo' = IF panel = "ready" /\ bus # NoEngine THEN bus ELSE logo
    /\ IF global \/ engines = <<>> THEN UNCHANGED <<bus, map, history>>
       ELSE SetEngine(c, CurrentEngine)
    /\ UNCHANGED <<settingsVars, panel, engines, global, keyVars>>

FocusOut ==
    /\ panel # "none" /\ ~grabbed /\ ~global
    /\ context' = NoContext
    /\ UNCHANGED <<settingsVars, bus, panel, engines, global, map, history, keyVars, logo>>

\* Mutant: the engines are sorted during a walk.
StateChangedAlways ==
    /\ panel = "ready" /\ bus # NoEngine
    /\ logo' = IF grabbed THEN logo ELSE bus
    /\ engines' = MoveToFirst(bus)
    /\ savedOrder' = engines'
    /\ UNCHANGED <<preload, useGlobal, bus, panel, memoryVars, keyVars>>

StateChanged ==
    /\ panel = "ready" /\ ~grabbed /\ bus # NoEngine
    /\ logo' = bus
    /\ engines' = MoveToFirst(bus)
    /\ savedOrder' = engines'
    /\ UNCHANGED <<preload, useGlobal, bus, panel, memoryVars, keyVars>>

\* register_properties, and a panel applet that was created.
RegisterProperties ==
    /\ panel = "ready"
    /\ UNCHANGED <<settingsVars, bus, panel, engines, memoryVars, keyVars>>
    /\ logo' = Registered

-----------------------------------------------------------------------------
(***************************************************************************)
(* The keyboard and the menu.                                              *)
(***************************************************************************)
\* ibus_panel_impanel_navigate from the engine walked to, 0 for none.
WalkFrom(from, forward) ==
    IF Len(engines) < 2 THEN selected' = from /\ UNCHANGED logo
    ELSE LET e == IF from \in 1..Len(engines) THEN engines[from]
                  ELSE IF from = 0 /\ bus # NoEngine THEN bus ELSE engines[1]
         IN  /\ selected' = Navigate(e, forward)
             /\ logo' = IF panel = "ready" THEN Registered ELSE logo

FirstPress(forward) ==
    /\ panel # "none" /\ doGrab /\ ~grabbed
    /\ grabbed' = TRUE
    /\ UNCHANGED <<settingsVars, bus, panel, engines, memoryVars, doGrab>>
    /\ WalkFrom(0, forward)

NextPress(forward) ==
    /\ panel # "none" /\ doGrab /\ grabbed
    /\ UNCHANGED <<settingsVars, bus, panel, engines, memoryVars, doGrab, grabbed>>
    /\ WalkFrom(selected, forward)

\* The keyboard could not be grabbed: move_next.
PressWithoutGrab ==
    /\ panel # "none" /\ doGrab /\ ~grabbed
    /\ Len(engines) >= 2
    /\ SetEngine(context, engines[2])
    /\ UNCHANGED <<settingsVars, panel, engines, global, context, keyVars, logo>>

\* The bus, or the panel of the desktop, is gone: finalize, and on_name_lost.
Finalize ==
    /\ panel # "none" \/ grabbed
    /\ Crash
    /\ UNCHANGED settingsVars

\* accept.  Without a panel it uses the null pointer.
ModifiersReleased ==
    /\ grabbed
    /\ UNCHANGED settingsVars
    /\ IF panel = "none" THEN Crash
       ELSE /\ grabbed' = FALSE
            /\ IF selected \in 1..Len(engines)
               THEN selected' = 0 /\ SetEngine(context, engines[selected])
               ELSE UNCHANGED <<selected, bus, map, history>>
            /\ UNCHANGED <<panel, engines, global, context, doGrab, logo>>

ChooseFromMenu(e) ==
    /\ panel = "ready" /\ e \in ToSet(engines)
    /\ SetEngine(context, e)
    /\ UNCHANGED <<settingsVars, panel, engines, global, context, keyVars, logo>>

Next ==
    \/ NameAcquired \/ NameLost \/ BusAcquired
    \/ \E names \in Preloads : ConfigureEngines(names)
    \/ \E value \in BOOLEAN : UseOneForAll(value)
    \/ \E e \in Engines : AnotherEngine(e) \/ ChooseFromMenu(e)
    \/ \E c \in Contexts : FocusIn(c)
    \/ FocusOut \/ StateChanged \/ RegisterProperties
    \/ \E forward \in BOOLEAN : FirstPress(forward) \/ NextPress(forward)
    \/ PressWithoutGrab \/ ModifiersReleased \/ Finalize

Spec == Init /\ [][Next]_vars

TypeOK ==
    /\ preload \in Preloads /\ savedOrder \in Seq(Engines) /\ useGlobal \in BOOLEAN
    /\ bus \in Engines \cup {NoEngine}
    /\ panel \in {"none", "new", "ready"}
    /\ engines \in Seq(Engines) /\ IsInjective(engines)
    /\ {global, doGrab, grabbed} \subseteq BOOLEAN
    /\ context \in Contexts \cup {NoContext}
    /\ DOMAIN map \subseteq Contexts /\ \A c \in DOMAIN map : map[c] \in Engines
    /\ history \in Seq(Contexts)
    /\ selected \in 0 .. Cardinality(Engines)
    /\ logo \in Engines \cup {NoEngine}

(***************************************************************************)
(* Every context whose engine is remembered is in the history, so that it  *)
(* is forgotten when newer ones push it out, also after one engine for all *)
(* was chosen and the map was cleared without the history.                 *)
(***************************************************************************)
RememberedAreInHistory == DOMAIN map \subseteq ToSet(history)

(***************************************************************************)
(* "Q_ASSERT(m_engineMap.size() == m_history.size())" (enginemanager.cpp), *)
(* when a context is forgotten.  The code breaks it.                       *)
(***************************************************************************)
Forgets == Len(history') = Len(history) /\ history' # history

HistoryIsOfMap == [][Forgets => Cardinality(DOMAIN map') = Len(history')]_vars

(***************************************************************************)
(* During a walk the panel shows the engine that letting the keys go will  *)
(* choose, whatever the bus reports meanwhile and however the walk goes on,*)
(* as long as the list of engines is not configured then.                  *)
(***************************************************************************)
Shows ==
    grabbed /\ panel = "ready" /\ selected \in 1..Len(engines) => logo = engines[selected]

WalkShowsItsChoice == [][Shows => Shows' \/ preload' # preload]_vars
=============================================================================
