--------------------------- MODULE SmartLaunchers ---------------------------
(***************************************************************************)
(* The badges and progress bars that applications send to their entry in   *)
(* the task manager (applets/taskmanager/plugin/smartlaunchers).  The      *)
(* backend keeps what an application sent and answers through what the     *)
(* settings allow; an item keeps a copy, and follows the signals.  One     *)
(* application, and one item that may be its own or another's.             *)
(***************************************************************************)
EXTENDS Naturals

CONSTANTS Values        \* numbers an application sends for count and progress

Flags == {"countVisible", "progressVisible", "urgent"}
Entry == [count : Values, progress : Values, countVisible : BOOLEAN,
          progressVisible : BOOLEAN, urgent : BOOLEAN]
Fields == DOMAIN [count |-> 0, progress |-> 0, countVisible |-> 0, progressVisible |-> 0, urgent |-> 0]
NoEntry == [count |-> 0, progress |-> 0, countVisible |-> FALSE,
            progressVisible |-> FALSE, urgent |-> FALSE]
ValuesAssumption == Values \subseteq Nat /\ 0 \in Values

VARIABLES
    known,          \* the application has an entry in m_launchers
    entry,          \* that entry
    badges, jobs,   \* badgesInTaskManager, jobsInTaskManager
    blacklisted,    \* the application is in m_badgeBlacklist
    quiet,          \* do not disturb, set until a time to come
    inhibited,      \* notificationsInhibitedByApplication
    itsOwn,         \* the item shows the application, is connected and populated
    item            \* what the item says

settingsVars == <<badges, jobs, blacklisted, quiet, inhibited>>
vars == <<known, entry, settingsVars, itsOwn, item>>

-----------------------------------------------------------------------------
\* The getters, for an entry e.
BadgesAllowed == badges /\ ~quiet /\ ~inhibited /\ ~blacklisted

Allowed(f) == CASE f \in {"count", "countVisible"}       -> BadgesAllowed
                [] f \in {"progress", "progressVisible"} -> jobs
                [] OTHER                                 -> TRUE

Answer(e, f) == IF Allowed(f) THEN e[f] ELSE NoEntry[f]

\* Mutant: what the settings allowed before is taken over.
PopulatedBefore == [f \in Fields |-> Answer(entry, f)]

\* populate, under the settings and for the entry of the new state.
Populated == [f \in Fields |-> (Answer(entry, f))']

Init ==
    /\ known = FALSE /\ entry = NoEntry
    /\ badges \in BOOLEAN /\ jobs \in BOOLEAN /\ blacklisted \in BOOLEAN
    /\ quiet \in BOOLEAN /\ inhibited \in BOOLEAN
    /\ itsOwn \in BOOLEAN /\ item = NoEntry

-----------------------------------------------------------------------------
\* Mutant: every change is passed on as it was sent.
ToldRaw(f, value) == {value}

\* The values the backend signals for field f set to value, in their order: a
\* count is signalled first as it was sent, whatever the settings allow.
Told(f, value) ==
    LET sent == [entry EXCEPT ![f] = value]
        answers == IF Answer(sent, f) # Answer(entry, f) THEN {Answer(sent, f)} ELSE {}
    IN  IF f = "count" /\ value # entry.count THEN {value} ELSE answers

\* update, for one property of it; each is handled on its own.
Update(f, value) ==
    /\ known' = TRUE
    /\ entry' = [entry EXCEPT ![f] = value]
    /\ item' = IF itsOwn /\ Told(f, value) # {}
               THEN [item EXCEPT ![f] = CHOOSE v \in Told(f, value) : TRUE] ELSE item
    /\ UNCHANGED <<settingsVars, itsOwn>>

\* reload; an item whose application never sent anything stays as it is.
ChangeSettings(b, j, l, q) ==
    /\ badges' = b /\ jobs' = j /\ blacklisted' = l /\ quiet' = q
    /\ UNCHANGED <<inhibited, known, entry, itsOwn>>
    /\ item' = IF itsOwn /\ known THEN Populated ELSE item

\* The time of "do not disturb until" comes; nobody is told.
QuietTimeOver ==
    /\ quiet
    /\ quiet' = FALSE
    /\ UNCHANGED <<known, entry, badges, jobs, blacklisted, inhibited, itsOwn, item>>

\* An application inhibits the notifications, or the last one lets them go on.
\* That is no change of the settings: nobody is told, and the getters answer
\* otherwise from now on.
Inhibit ==
    /\ inhibited' = ~inhibited
    /\ UNCHANGED <<known, entry, badges, jobs, blacklisted, quiet, itsOwn, item>>

\* setLauncherUrl: clear, then populate if it is the application's own.
SetLauncherUrl(own) ==
    /\ own # itsOwn
    /\ itsOwn' = own
    /\ UNCHANGED <<known, entry, settingsVars>>
    /\ item' = IF own /\ known THEN Populated ELSE NoEntry

Next ==
    \/ \E f \in Flags, value \in BOOLEAN : Update(f, value)
    \/ \E f \in {"count", "progress"}, value \in Values : Update(f, value)
    \/ \E b, j, l, q \in BOOLEAN : ChangeSettings(b, j, l, q)
    \/ QuietTimeOver \/ Inhibit
    \/ \E own \in BOOLEAN : SetLauncherUrl(own)

Spec == Init /\ [][Next]_vars

TypeOK ==
    /\ known \in BOOLEAN /\ itsOwn \in BOOLEAN
    /\ {badges, jobs, blacklisted, quiet, inhibited} \subseteq BOOLEAN
    /\ entry \in Entry /\ item \in Entry

(***************************************************************************)
(* An item shows a badge or a progress bar only while the user's settings  *)
(* allow it, whatever was sent while they did not; and a progress bar only *)
(* while the application wants it, where the application said last.        *)
(***************************************************************************)
ShownAsAllowed ==
    /\ item.countVisible => itsOwn /\ badges /\ ~blacklisted /\ ~quiet
    /\ item.progressVisible => itsOwn /\ jobs /\ entry.progressVisible /\ item.progress = entry.progress

\* The item shows no badge that the backend would not answer now.
BadgeRight == item.countVisible => itsOwn /\ BadgesAllowed /\ entry.countVisible

(***************************************************************************)
(* Only an inhibition by an application leaves a badge where none should   *)
(* be (Backend::reload is connected to settingsChanged alone): no message  *)
(* of the application, change of the settings or of the item, and no end   *)
(* of the quiet time or of the inhibition makes a right badge wrong.       *)
(***************************************************************************)
BadgesStayRight == [][BadgeRight /\ ~(inhibited' /\ ~inhibited) => BadgeRight']_vars
=============================================================================
