------------------------------ MODULE KAccess ------------------------------
(***************************************************************************)
(* The accessibility daemon (kaccess).  The X server turns keyboard        *)
(* features (slow, bounce, sticky and mouse keys) on and off for gestures  *)
(* and for applications; kaccess hears of it by events, and if the user    *)
(* wants to be asked takes the change back, asks, and applies it when the  *)
(* answer is yes.  The state starts after the first readSettings.          *)
(***************************************************************************)
EXTENDS Naturals, Sequences, FiniteSets

CONSTANTS
    Features,       \* the features it may turn on and off, numbered as kaccess lists them
    MaxEvents,      \* bound: events that wait while more changes come
    MaxReads        \* bound: times the settings are read

Configs == [on : SUBSET Features, gestures : BOOLEAN, confirm : BOOLEAN, reader : BOOLEAN]
Modes == {"just do it", "ask", "deactivate all"}    \* the dialog's combo box, 0 to 2
Labels == [on : SUBSET Features, off : SUBSET Features, fresh : BOOLEAN]
NoLabel == [on |-> {}, off |-> {}, fresh |-> FALSE]

\* Slow, bounce, sticky and mouse keys.
FeaturesAssumption == Features \subseteq 1 .. 4

BoundsAssumption == MaxEvents \in Nat \ {0} /\ MaxReads \in Nat \ {0}

VARIABLES
    controls,       \* the features that are on in the X server
    events,         \* ControlsNotify events on their way: the features each reports
    config,         \* kaccessrc, as kaccess has it
    features, requested,
    dialog,         \* the dialog is open
    label,          \* what it says will be turned on and off; the page saved nothing since
    readerOn,       \* the screen reader is on
    connections     \* how often the shortcut is connected to toggleScreenReader

keyboardVars == <<controls, events, features, requested>>
dialogVars == <<dialog, label>>
readerVars == <<readerOn, connections>>
vars == <<keyboardVars, config, dialogVars, readerVars>>

-----------------------------------------------------------------------------
Odd(n) == n % 2 = 1

\* XkbSetControls: the server reports what changes.
SetControls(on, queue) ==
    /\ controls' = on
    /\ events' = IF on = controls THEN queue ELSE Append(queue, on)

\* readSettings with the configuration c, the events of queue still waiting.
\* Each call connects the shortcut once more.
ReadSettings(c, queue) ==
    /\ SetControls(c.on, queue)
    /\ features' = c.on
    /\ readerOn' = c.reader
    /\ connections' = connections + 1

Init ==
    /\ config \in Configs
    /\ controls = config.on /\ features = config.on /\ requested = config.on
    /\ events = <<>>
    /\ dialog = FALSE /\ label = NoLabel
    /\ readerOn = config.reader /\ connections = 1

\* A gesture or an application changes the server's controls.
ControlsChange(on) ==
    /\ on # controls /\ Len(events) < MaxEvents
    /\ SetControls(on, events)
    /\ UNCHANGED <<features, requested, config, dialogVars, readerVars>>

(***************************************************************************)
(* xkbControlsNotify, with reported the features of its event.             *)
(***************************************************************************)
Requested(reported, before) == (reported \ features) \cup (before \ (features \ reported))

NothingNew ==
    /\ events # <<>> /\ Head(events) = features
    /\ events' = Tail(events)
    /\ UNCHANGED <<controls, features, requested, config, dialogVars, readerVars>>

FollowControls ==
    /\ events # <<>> /\ Head(events) # features /\ ~config.confirm
    /\ events' = Tail(events)
    /\ requested' = Requested(Head(events), requested)
    /\ features' = Head(events)
    /\ UNCHANGED <<controls, config, dialogVars, readerVars>>

\* Mutant: the question names the change just reported, not all that wait.
LabelOfEvent ==
    [on |-> Head(events) \ features, off |-> features \ Head(events), fresh |-> TRUE]

FirstListed(set) == {f \in set : \A g \in set : f <= g}
LastListed(set) == {f \in set : \A g \in set : g <= f}

\* Two features to turn on and two to turn off.
TwoForTwo(on, off) == Cardinality(on) = 2 /\ Cardinality(off) = 2

\* The features the question says it will turn off.  For two and two it prints
\* the first of those to turn on where the first of those to turn off belongs.
NamedOff(on, off) ==
    IF TwoForTwo(on, off) THEN FirstListed(on) \cup LastListed(off) ELSE off

\* The question is about what the features, read again, differ in from the request.
LabelFor ==
    LET on == requested' \ features'
        off == features' \ requested'
    IN  [on |-> on, off |-> NamedOff(on, off), fresh |-> TRUE]

AskFirst ==
    /\ events # <<>> /\ Head(events) # features /\ config.confirm
    /\ connections < MaxReads
    /\ ReadSettings(config, Tail(events))
    /\ requested' = Requested(Head(events), IF dialog THEN requested ELSE config.on)
    /\ dialog' = TRUE
    /\ label' = LabelFor
    /\ UNCHANGED config

-----------------------------------------------------------------------------
\* What the answer writes besides the features.
Answered(mode) ==
    [config EXCEPT !.gestures = mode # "deactivate all", !.confirm = mode # "just do it"]

\* applyChanges writes the features that differ, and readSettings sets them.
Apply(mode, wanted) ==
    LET c == [Answered(mode) EXCEPT !.on = (config.on \ (features \ wanted)) \cup (wanted \ features)]
    IN  /\ connections < MaxReads
        /\ config' = c
        /\ ReadSettings(c, events)
        /\ requested' = c.on
        /\ dialog' = FALSE /\ label' = NoLabel

\* yesClicked.
YesClicked(mode) ==
    /\ dialog
    /\ Apply(mode, IF mode = "deactivate all" THEN {} ELSE requested)

\* noClicked, and the dialog closed: No with "deactivate all" deactivates too.
NoClicked(mode) ==
    /\ dialog
    /\ Apply(mode, IF mode = "deactivate all" THEN {} ELSE features)

\* Mutant: settings written by the page are read but not set.
NewInstanceUnset(c) ==
    /\ connections < MaxReads /\ Len(events) < MaxEvents
    /\ config' = c
    /\ features' = c.on /\ readerOn' = c.reader /\ connections' = connections + 1
    /\ requested' = IF dialog THEN requested ELSE c.on
    /\ label' = [label EXCEPT !.fresh = FALSE]
    /\ UNCHANGED <<controls, events, dialog>>

\* newInstance: the settings page wrote c and started kaccess once more.
NewInstance(c) ==
    /\ connections < MaxReads /\ Len(events) < MaxEvents
    /\ config' = c
    /\ ReadSettings(c, events)
    /\ requested' = IF dialog THEN requested ELSE c.on
    /\ label' = [label EXCEPT !.fresh = FALSE]
    /\ UNCHANGED dialog

\* The shortcut: toggleScreenReader runs once for each connection.
ToggleScreenReader ==
    /\ config' = [config EXCEPT !.reader = (@ # Odd(connections))]
    /\ readerOn' = config'.reader
    /\ UNCHANGED <<keyboardVars, dialogVars, connections>>

Next ==
    \/ \E on \in SUBSET Features : ControlsChange(on)
    \/ NothingNew \/ FollowControls \/ AskFirst
    \/ \E mode \in Modes : YesClicked(mode) \/ NoClicked(mode)
    \/ \E c \in Configs : NewInstance(c)
    \/ ToggleScreenReader

Spec == Init /\ [][Next]_vars

TypeOK ==
    /\ config \in Configs
    /\ {controls, features, requested} \subseteq SUBSET Features
    /\ events \in Seq(SUBSET Features)
    /\ dialog \in BOOLEAN /\ label \in Labels
    /\ readerOn \in BOOLEAN /\ connections \in 1..MaxReads

(***************************************************************************)
(* A user who wants to be asked has, when all events are handled, exactly  *)
(* the features the settings say: what a gesture or an application changed *)
(* is taken back until the answer is yes, however the changes, the answers *)
(* and the settings page follow each other.                                *)
(***************************************************************************)
AskedFeaturesOnly == config.confirm /\ events = <<>> => controls = config.on

(***************************************************************************)
(* The dialog keeps up with the changes that come while it is open: it     *)
(* names what Yes will turn on and off, and nothing else, unless the       *)
(* settings page saves then.  With two features to turn on and two to turn *)
(* off only the first half is so: see EveryChangeIsNamed.                  *)
(***************************************************************************)
YesIsForWhatIsNamed ==
    dialog /\ label.fresh =>
        /\ label.on = requested \ features
        /\ \/ label.off = features \ requested
           \/ TwoForTwo(requested \ features, features \ requested)

(***************************************************************************)
(* "We will apply the changes later if the user allows us to do that"      *)
(* (kaccess.cpp:713): the user is asked about every change that Yes makes. *)
(***************************************************************************)
EveryChangeIsNamed ==
    dialog /\ label.fresh =>
        requested \ features \subseteq label.on /\ features \ requested \subseteq label.off
=============================================================================
