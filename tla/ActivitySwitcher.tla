-------------------------- MODULE ActivitySwitcher --------------------------
(***************************************************************************)
(* Walking through the activities with Meta+Tab                            *)
(* (imports/activitymanager): the switcher changes the activity with every *)
(* press, shows itself when Meta is still held 90 ms later, and remembers  *)
(* when an activity was used, to the second, once the walk is over.  On    *)
(* X11, where keys can be polled, with a fixed set of running activities.  *)
(***************************************************************************)
EXTENDS Integers, Sequences, FiniteSets, SequencesExt

CONSTANTS
    Activities,     \* the running activities, as their ids, which are ordered
    MaxWaiting      \* bound: changes of activity on their way, and 90 ms timers

BoundsAssumption ==
    /\ MaxWaiting \in Nat \ {0}
    /\ Activities # {} /\ Activities \subseteq Nat /\ IsFiniteSet(Activities)

VARIABLES
    meta,           \* the Meta key is held
    shown,          \* m_shouldShowSwitcher; the polling timer runs as long
    invoked,        \* m_lastInvokedAction is set
    dropMode, hider,    \* m_dropModeActive, and m_dropModeHider runs
    shots,          \* 90 ms timers not yet over
    current,        \* the current activity, as this process knows it
    changes,        \* changes of activity on their way, oldest first
    previous,       \* m_previousActivity
    lastUsed,       \* LastUsed: <<a, b>> is in it if a was used in a later second than b
    thisSecond,     \* the activities used in a second that is not over, the newest
    order           \* the rows of m_runningActivitiesModel

showVars == <<meta, shown, invoked, dropMode, hider, shots>>
activityVars == <<current, changes, previous, lastUsed, thisSecond, order>>
vars == <<showVars, activityVars>>

-----------------------------------------------------------------------------
\* Times of use, to the second, as an order of what was used.
Times(used) ==
    /\ used \subseteq Activities \X Activities
    /\ \A a, b, c \in Activities :
           <<a, b>> \in used => <<b, a>> \notin used /\ (<<a, c>> \in used \/ <<c, b>> \in used)

\* lessThan, descending: the current activity first, then the last used ones,
\* and those of the same second by their ids.
Before(cur, used, a, b) ==
    /\ b # cur
    /\ \/ a = cur
       \/ <<a, b>> \in used
       \/ <<b, a>> \notin used /\ a > b

\* In its row an activity has those above it that come before it.
Above(cur, used, a) == {b \in Activities : Before(cur, used, b, a)}

Sorted(cur, used) ==
    [i \in 1..Cardinality(Activities) |->
        CHOOSE a \in Activities : Cardinality(Above(cur, used, a)) = i - 1]

\* relativeActivity.
Relative(step) ==
    LET n == Len(order)
        row == CHOOSE i \in 1..n : order[i] = current
    IN  order[((row - 1 + step + n) % n) + 1]

\* Both activities get the time it is.
Stamped(both) ==
    LET newest == thisSecond \cup both
    IN  {p \in Activities \X Activities :
            p[2] \notin newest /\ (p[1] \in newest \/ p \in lastUsed)}

\* onCurrentActivityChanged when the switcher is hidden.
Commit(id) ==
    IF previous = id THEN UNCHANGED <<previous, lastUsed, thisSecond>>
    ELSE /\ previous' = id
         /\ lastUsed' = Stamped({previous, id})
         /\ thisSecond' = thisSecond \cup {previous, id}

\* Mutant: what changed while the switcher was shown is not committed.
SetShownUncommitted(value) ==
    /\ shown' = value
    /\ IF shown /\ ~value THEN order' = Sorted(current, lastUsed) ELSE UNCHANGED order
    /\ UNCHANGED <<previous, lastUsed, thisSecond>>

\* Mutant: the rows stay as they are when the switcher hides.
SetShownUnsorted(value) ==
    /\ shown' = value
    /\ IF shown /\ ~value THEN Commit(current) ELSE UNCHANGED <<previous, lastUsed, thisSecond>>
    /\ UNCHANGED order

\* setShouldShowSwitcher; the rows are not sorted while it is shown.
SetShown(value) ==
    /\ shown' = value
    /\ IF shown /\ ~value THEN Commit(current) /\ order' = Sorted(current, lastUsed')
       ELSE UNCHANGED <<previous, lastUsed, thisSecond, order>>

Init ==
    /\ meta = FALSE /\ shown = FALSE /\ invoked = FALSE
    /\ dropMode = FALSE /\ hider = FALSE /\ shots = 0
    /\ current \in Activities /\ changes = <<>> /\ previous = current
    /\ lastUsed \in SUBSET (Activities \X Activities) /\ Times(lastUsed) /\ thisSecond = {}
    /\ order = Sorted(current, lastUsed)

-----------------------------------------------------------------------------
PressMeta ==
    /\ ~meta
    /\ meta' = TRUE
    /\ UNCHANGED <<shown, invoked, dropMode, hider, shots, activityVars>>

ReleaseMeta ==
    /\ meta
    /\ meta' = FALSE
    /\ UNCHANGED <<shown, invoked, dropMode, hider, shots, activityVars>>

\* switchToActivity and keybdSwitchedToAnotherActivity.
Walk(step) ==
    /\ meta
    /\ Len(changes) < MaxWaiting /\ shots < MaxWaiting
    /\ changes' = Append(changes, Relative(step))
    /\ invoked' = TRUE
    /\ shots' = shots + 1
    /\ UNCHANGED <<meta, shown, dropMode, hider, current, previous, lastUsed, thisSecond, order>>

\* Another part of the desktop asks for an activity.
AskFor(a) ==
    /\ Len(changes) < MaxWaiting
    /\ changes' = Append(changes, a)
    /\ UNCHANGED <<showVars, current, previous, lastUsed, thisSecond, order>>

\* The activity manager changes the activity and says so.
ActivityChanges ==
    /\ changes # <<>>
    /\ current' = Head(changes)
    /\ changes' = Tail(changes)
    /\ IF shown THEN UNCHANGED <<previous, lastUsed, thisSecond, order>>
       ELSE Commit(current') /\ order' = Sorted(current', lastUsed')
    /\ UNCHANGED showVars

\* showActivitySwitcherIfNeeded.
ShowIfNeeded ==
    IF ~invoked \/ dropMode THEN UNCHANGED <<invoked, shown, previous, lastUsed, thisSecond, order>>
    ELSE invoked' = meta /\ SetShown(meta)

ShotOver ==
    /\ shots > 0
    /\ shots' = shots - 1
    /\ ShowIfNeeded
    /\ UNCHANGED <<meta, dropMode, hider, current, changes>>

Poll ==
    /\ shown
    /\ ShowIfNeeded
    /\ UNCHANGED <<meta, dropMode, hider, shots, current, changes>>

\* Mutant: the end of a drag leaves the hiding to the polling.
SetDropModeNoHider(value) ==
    /\ dropMode # value
    /\ dropMode' = value
    /\ hider' = (hider /\ ~value)
    /\ IF value THEN SetShown(TRUE) ELSE UNCHANGED <<shown, previous, lastUsed, thisSecond, order>>
    /\ UNCHANGED <<meta, invoked, shots, current, changes>>

\* setDropMode, from drags of windows over the activity button and the list.
SetDropMode(value) ==
    /\ dropMode # value
    /\ dropMode' = value
    /\ hider' = ~value
    /\ IF value THEN SetShown(TRUE) ELSE UNCHANGED <<shown, previous, lastUsed, thisSecond, order>>
    /\ UNCHANGED <<meta, invoked, shots, current, changes>>

HiderOver ==
    /\ hider
    /\ hider' = FALSE
    /\ SetShown(FALSE)
    /\ UNCHANGED <<meta, invoked, dropMode, shots, current, changes>>

\* The user closes the sidebar (Desktop.qml).
CloseSidebar ==
    /\ shown
    /\ SetShown(FALSE)
    /\ UNCHANGED <<meta, invoked, dropMode, hider, shots, current, changes>>

SecondPasses ==
    /\ thisSecond # {}
    /\ thisSecond' = {}
    /\ UNCHANGED <<showVars, current, changes, previous, lastUsed, order>>

Next ==
    \/ PressMeta \/ ReleaseMeta
    \/ \E step \in {-1, 1} : Walk(step)
    \/ \E a \in Activities : AskFor(a)
    \/ ActivityChanges
    \/ ShotOver \/ Poll
    \/ \E value \in BOOLEAN : SetDropMode(value)
    \/ HiderOver \/ CloseSidebar
    \/ SecondPasses

\* The event loop serves its timers.
Fairness == WF_vars(Poll) /\ WF_vars(HiderOver)

Spec == Init /\ [][Next]_vars /\ Fairness

TypeOK ==
    /\ {meta, shown, invoked, dropMode, hider} \subseteq BOOLEAN
    /\ shots \in 0..MaxWaiting
    /\ {current, previous} \subseteq Activities /\ changes \in Seq(Activities)
    /\ Times(lastUsed) /\ thisSecond \subseteq Activities
    /\ order \in Seq(Activities) /\ ToSet(order) = Activities /\ IsInjective(order)

(***************************************************************************)
(* While the switcher is hidden the change of activity is committed, also  *)
(* one that came while it was shown: "We might have an unprocessed         *)
(* onCurrentActivityChanged" (switcherbackend.cpp).                        *)
(***************************************************************************)
CommittedWhenHidden == ~shown => previous = current

(***************************************************************************)
(* Walks of any length, their ends, and changes that come late leave the   *)
(* rows such that the activity committed before the current one is one     *)
(* press away: "When leaving an activity, say goodbye and fondly remember  *)
(* the last time we saw it" (switcherbackend.cpp).  Not so for two changes *)
(* within one second, which their times do not tell apart.                 *)
(***************************************************************************)
BackIsOnePressAway ==
    [][previous' # previous /\ thisSecond = {} => order'[1] = previous' /\ order'[2] = previous]_vars

(***************************************************************************)
(* The switcher does not stay on the screen: once Meta is released and no  *)
(* drag is going on it is hidden, whatever mix of walks and drags came     *)
(* before.                                                                 *)
(***************************************************************************)
SwitcherHides == (shown /\ ~meta /\ ~dropMode) ~> (~shown \/ meta \/ dropMode)
=============================================================================
