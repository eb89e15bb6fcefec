------------------------------ MODULE Session ------------------------------
(***************************************************************************)
(* The small parts of a session, each a process or a module of its own:    *)
(* the touchpad daemon, the automounter and its page, the accessibility    *)
(* daemon, the activity switcher, the badges of the task manager and the   *)
(* input methods.  They share no state, so that an interleaving of two of  *)
(* them shows nothing that one does not: a behaviour picks one part and    *)
(* runs it while the others rest in an initial state.                      *)
(***************************************************************************)
EXTENDS Touchpad

CONSTANTS
    Options, MaxNotices,                \* of the automounter
    Features, MaxChanges, MaxReads,     \* of the accessibility daemon
    Activities, MaxWaiting,             \* of the activity switcher
    Values,                             \* of the badges
    Engines, Preloads,                  \* of the input methods
    Contexts, NoEngine, NoContext, Threshold, MaxHistory

VARIABLES
    part,       \* the part that runs
    options, file, daemonCopy, pageCopy, running, watched, order, pageOpen, row,
    boxes, plugged, mounted, mounting, toDaemon, toPage,
    controls, notices, config, features, wanted, dialog, label, readerOn, connections,
    meta, shown, invoked, dropMode, hider, shots, current, changes, previous, lastUsed, thisSecond, rows,
    known, entry, badges, jobs, blacklisted, quiet, inhibited, itsOwn, item,
    preload, savedOrder, useGlobal, bus, panel, engines, global, context, map, history,
    selected, doGrab, grabbed, logo

Automount == INSTANCE Automounter
Access == INSTANCE KAccess WITH MaxEvents <- MaxChanges, events <- notices, requested <- wanted
Switcher == INSTANCE ActivitySwitcher WITH order <- rows
Badges == INSTANCE SmartLaunchers
Inputs == INSTANCE InputMethods

ASSUME AutomountAssumption == Automount!OptionsAssumption /\ Automount!MaxNoticesAssumption
ASSUME AccessAssumption == Access!FeaturesAssumption /\ Access!BoundsAssumption
ASSUME SwitcherAssumption == Switcher!BoundsAssumption
ASSUME BadgesAssumption == Badges!ValuesAssumption
ASSUME InputsAssumption == Inputs!EnginesAssumption

-----------------------------------------------------------------------------
Parts == {"touchpad", "automounter", "access", "switcher", "badges", "inputs"}

SessionInit ==
    /\ part \in Parts
    /\ Init
    /\ part = "touchpad" \/ (pad = NoPad /\ mice = {} /\ settings = CHOOSE s \in Settings : TRUE)
    /\ Automount!Init
    /\ part = "automounter" \/ options = CHOOSE o \in Options : TRUE
    /\ Access!Init
    /\ part = "access" \/ config = [on |-> {}, gestures |-> FALSE, confirm |-> FALSE, reader |-> FALSE]
    /\ Switcher!Init
    /\ part = "switcher" \/ (current = (CHOOSE a \in Activities : TRUE) /\ lastUsed = {})
    /\ Badges!Init
    /\ part = "badges" \/ ~(badges \/ jobs \/ blacklisted \/ itsOwn \/ quiet \/ inhibited)
    /\ Inputs!Init
    /\ part = "inputs" \/ (preload = (CHOOSE p \in Preloads : TRUE) /\ savedOrder = <<>> /\ ~useGlobal)

automountVars == <<options, file, daemonCopy, pageCopy, running, watched, order, pageOpen,
                   row, boxes, plugged, mounted, mounting, toDaemon, toPage>>
accessVars == <<controls, notices, config, features, wanted, dialog, label, readerOn, connections>>
switcherVars == <<meta, shown, invoked, dropMode, hider, shots, current, changes, previous,
                  lastUsed, thisSecond, rows>>
badgesVars == <<known, entry, badges, jobs, blacklisted, quiet, inhibited, itsOwn, item>>
inputsVars == <<preload, savedOrder, useGlobal, bus, panel, engines, global, context, map,
                history, selected, doGrab, grabbed, logo>>
sessionVars == <<part, vars, automountVars, accessVars, switcherVars, badgesVars, inputsVars>>

SessionNext ==
    \/ /\ part = "touchpad" /\ Next
       /\ UNCHANGED <<part, automountVars, accessVars, switcherVars, badgesVars, inputsVars>>
    \/ /\ part = "automounter" /\ Automount!Next
       /\ UNCHANGED <<part, vars, accessVars, switcherVars, badgesVars, inputsVars>>
    \/ /\ part = "access" /\ Access!Next
       /\ UNCHANGED <<part, vars, automountVars, switcherVars, badgesVars, inputsVars>>
    \/ /\ part = "switcher" /\ Switcher!Next
       /\ UNCHANGED <<part, vars, automountVars, accessVars, badgesVars, inputsVars>>
    \/ /\ part = "badges" /\ Badges!Next
       /\ UNCHANGED <<part, vars, automountVars, accessVars, switcherVars, inputsVars>>
    \/ /\ part = "inputs" /\ Inputs!Next
       /\ UNCHANGED <<part, vars, automountVars, accessVars, switcherVars, badgesVars>>

SessionSpec == SessionInit /\ [][SessionNext]_sessionVars /\ Fairness /\ Switcher!Fairness

-----------------------------------------------------------------------------
\* Every part's variables stay in range; its own properties are stated where
\* the part is.  Those of the touchpad have their own names.
SessionTypeOK ==
    /\ part = "touchpad" => TypeOK
    /\ part = "automounter" => Automount!TypeOK
    /\ part = "access" => Access!TypeOK
    /\ part = "switcher" => Switcher!TypeOK
    /\ part = "badges" => Badges!TypeOK
    /\ part = "inputs" => Inputs!TypeOK

\* The automounter: a device the page lists is not forgotten.
ListedIsRemembered == Automount!ListedIsRemembered

\* The automounter: no mount is asked for when mounting is switched off.
NoMountWhenDisabled == Automount!NoMountWhenDisabled

\* kaccess: what was not agreed to is taken back.
AskedFeaturesOnly == Access!AskedFeaturesOnly

\* kaccess: Yes is for what the dialog names.
YesIsForWhatIsNamed == Access!YesIsForWhatIsNamed

\* The switcher: when it is hidden the change of activity is committed.
CommittedWhenHidden == Switcher!CommittedWhenHidden

\* The switcher: the activity before this one is one press away.
BackIsOnePressAway == Switcher!BackIsOnePressAway

\* The switcher: it hides once the keys are released.
SwitcherHides == Switcher!SwitcherHides

\* The task manager: badges and progress bars are shown as the settings allow.
ShownAsAllowed == Badges!ShownAsAllowed

\* The task manager: nothing but an inhibition makes a badge wrong.
BadgesStayRight == Badges!BadgesStayRight

\* The input methods: a context whose engine is remembered can be forgotten.
RememberedAreInHistory == Inputs!RememberedAreInHistory

\* The input methods: a walk chooses the engine it shows.
WalkShowsItsChoice == Inputs!WalkShowsItsChoice
=============================================================================
