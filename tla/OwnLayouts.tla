----------------------------- MODULE OwnLayouts -----------------------------
(***************************************************************************)
(* What the keyboard page promises of a switching policy: every container  *)
(* (a window, an application, a desktop) has a layout of its own, and a    *)
(* change of layout affects the current container only.  What it does not  *)
(* promise is when: the daemon follows the user, so nothing is said while  *)
(* "lapsed", until the daemon has caught up.                               *)
(***************************************************************************)
CONSTANTS
    Containers,
    Layouts,
    None            \* no container is current

VARIABLES
    focus,          \* the current container, or None
    shown,          \* the layout that is active
    own,            \* the layout of every container
    kept,           \* the layouts of the containers in the session's file
    lasting,        \* the containers outlive the session
    lapsed          \* the daemon has lost track

vars == <<focus, shown, own, kept, lasting, lapsed>>

Init ==
    /\ focus \in Containers \cup {None}
    /\ shown \in Layouts
    /\ own \in [Containers -> Layouts]
    /\ kept \in [Containers -> Layouts]
    /\ lasting \in BOOLEAN
    /\ lapsed \in BOOLEAN

\* Another container becomes current, and so does its own layout.
Focus(c) ==
    /\ focus' = c
    /\ shown' = IF c = None THEN shown ELSE own[c]
    /\ UNCHANGED <<own, kept, lasting>>

\* The layout changes, for the current container and for no other.
Change(l) ==
    /\ shown' = l
    /\ own' = [c \in Containers |-> IF c = focus THEN l ELSE own[c]]
    /\ UNCHANGED <<focus, kept, lasting>>

\* The daemon begins again: the containers have the layouts the file keeps,
\* but for the current one, which may be left with the layout it finds.
Begin ==
    /\ lasting' = lasting
    /\ focus' \in Containers \cup {None}
    /\ shown' \in Layouts
    /\ \A c \in Containers : own'[c] = kept'[c] \/ (c = focus' /\ own'[c] = shown')

Restart == Begin /\ kept' = IF lasting THEN own ELSE kept

Crash == Begin /\ kept' = kept

Next ==
    \/ lapsed
    \/ lapsed'
    \/ \E c \in Containers \cup {None} : Focus(c) /\ lapsed' = lapsed
    \/ \E l \in Layouts : Change(l) /\ lapsed' = lapsed
    \/ (Restart \/ Crash) /\ lapsed' = lapsed

Spec == Init /\ [][Next]_vars
=============================================================================
