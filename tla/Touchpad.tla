------------------------------ MODULE Touchpad ------------------------------
(***************************************************************************)
(* The daemon that turns the touchpad off while a mouse is plugged in and  *)
(* while the user types (kcms/touchpad/kded), with its X11 backend         *)
(* (kcms/touchpad/backends/x11).  The touchpad has two switches: "enabled" *)
(* follows the user and the mice, "off" follows the keyboard.  Devices     *)
(* come and go first and are reported later, by events in a queue.         *)
(***************************************************************************)
EXTENDS Naturals, Sequences

CONSTANTS
    Letters,        \* keys whose use is typing
    Modifiers,      \* keys that make a shortcut of it
    Mice,           \* mice that may be plugged in
    Services,       \* D-Bus services the daemon waits for before its late start
    Settings,       \* configurations the settings page may write
    NoPad,          \* no touchpad is attached
    MaxEvents       \* bound: device events that wait to be handled

Keys == Letters \cup Modifiers
Pads == [enabled : BOOLEAN, off : BOOLEAN]
Events == {"pad", "padGone", "mouse"}

ASSUME SettingsAssumption ==
    Settings \subseteq [typing : BOOLEAN, mouse : BOOLEAN, ignored : SUBSET Mice]
ASSUME NoPadAssumption == NoPad \notin Pads
ASSUME ServicesAssumption == Services # {}
ASSUME MaxEventsAssumption == MaxEvents \in Nat

VARIABLES
    requested,      \* m_userRequestedState
    believed,       \* m_touchpadEnabled
    found,          \* m_workingTouchpadFound
    mouseOff,       \* m_mouse: a mouse keeps the touchpad disabled
    activity,       \* m_keyboardActivity
    timer,          \* m_keyboardActivityTimeout is running
    waiting,        \* the services m_dependencies still watches
    settings,       \* m_settings, as last loaded
    handle,         \* the backend's m_device is set
    watching,       \* the backend's m_keyboard exists
    pressed,        \* the keys m_keyboard counts as pressed
    pad,            \* the touchpad itself and its two switches
    mice,           \* the mice plugged in
    held,           \* the keys held down
    events          \* device changes not yet handled, oldest first

daemonVars == <<requested, believed, found, mouseOff, activity, timer, waiting, settings>>
backendVars == <<handle, watching, pressed>>
worldVars == <<pad, mice, held, events>>
vars == <<daemonVars, backendVars, worldVars>>

-----------------------------------------------------------------------------
(***************************************************************************)
(* What the handlers share.  The backend's calls do nothing without a      *)
(* device; on a device that is gone they change nothing and read FALSE.    *)
(* A touchpad that is plugged in again gets the id it had.                 *)
(***************************************************************************)
Reads(p) == p # NoPad /\ p.enabled

Enabled(p, value) == IF handle' /\ p # NoPad THEN [p EXCEPT !.enabled = value] ELSE p

Off(value) == IF handle /\ pad # NoPad THEN [pad EXCEPT !.off = value] ELSE pad

\* Mutant: the belief is not read back after the backend's own change.
SetTouchpadEnabledUnread(value, p, b) ==
    /\ pad' = Enabled(p, value)
    /\ believed' = b

\* setTouchpadEnabled on touchpad p when the daemon believes b.  The backend
\* reports the change itself, and updateCurrentState reads the device again.
SetTouchpadEnabled(value, p, b) ==
    /\ pad' = Enabled(p, value)
    /\ believed' = IF handle' THEN Reads(pad') ELSE b

PluggedIn == mice' \ settings'.ignored # {}

\* Mutant: the user's request is forgotten when the mouse goes.
MousePluggedForgetsRequest(p, b) ==
    LET disable == PluggedIn /\ settings'.mouse
    IN  IF waiting' # {} \/ mouseOff = disable
        THEN mouseOff' = mouseOff /\ pad' = p /\ believed' = b
        ELSE mouseOff' = disable /\ SetTouchpadEnabled(~disable, p, b)

\* mousePlugged, after steps that left touchpad p and the belief b
MousePlugged(p, b) ==
    LET disable  == PluggedIn /\ settings'.mouse
        newState == ~disable /\ requested'
    IN  IF waiting' # {} \/ mouseOff = disable
        THEN mouseOff' = mouseOff /\ pad' = p /\ believed' = b
        ELSE /\ mouseOff' = disable
             /\ IF newState = b
                THEN pad' = p /\ believed' = b
                ELSE SetTouchpadEnabled(newState, p, b)

-----------------------------------------------------------------------------
(***************************************************************************)
(* The daemon starts: the constructor, in a new process.  It takes what    *)
(* the touchpad is for what the user asked for.                            *)
(***************************************************************************)
Init ==
    /\ pad \in {NoPad} \cup [enabled : BOOLEAN, off : {FALSE}]
    /\ mice \in SUBSET Mice
    /\ held = {}
    /\ events = <<>>
    /\ settings \in Settings
    /\ handle = (pad # NoPad)
    /\ found = handle
    /\ believed = (handle => Reads(pad))
    /\ requested = believed
    /\ watching = settings.typing
    /\ pressed = {}
    /\ mouseOff = FALSE
    /\ activity = FALSE
    /\ timer = FALSE
    /\ waiting = Services

\* kded crashes, or is started again: the X server keeps both switches.
Restart ==
    /\ handle' = (pad # NoPad)
    /\ found' = handle'
    /\ believed' = (handle' => Reads(pad))
    /\ requested' = believed'
    /\ watching' = settings.typing
    /\ pressed' = {}
    /\ mouseOff' = FALSE
    /\ activity' = FALSE
    /\ timer' = FALSE
    /\ waiting' = Services
    /\ events' = <<>>
    /\ UNCHANGED <<settings, pad, mice, held>>

\* A service the daemon waits for is there; with the last one comes lateInit.
ServiceRegistered(s) ==
    /\ s \in waiting
    /\ waiting' = waiting \ {s}
    /\ UNCHANGED <<requested, activity, timer, settings, backendVars, mice, held, events>>
    /\ IF waiting' # {}
       THEN UNCHANGED <<believed, found, mouseOff, pad>>
       ELSE /\ found' = handle
            /\ MousePlugged(pad, IF handle THEN Reads(pad) ELSE believed)

-----------------------------------------------------------------------------
(***************************************************************************)
(* The user: the shortcuts, the applet, the settings page.                 *)
(***************************************************************************)
Request(value) ==
    /\ requested' = value
    /\ found' = handle
    /\ UNCHANGED <<mouseOff, activity, timer, waiting, settings, backendVars, mice, held, events>>
    /\ SetTouchpadEnabled(value, pad, believed)

Enable == Request(TRUE)
Disable == Request(FALSE)
Toggle == Request(~believed)

\* Mutant: a monitor that counts keys is kept although its setting is off.
ReloadSettingsKeepsMonitor(new) ==
    /\ settings' = new
    /\ watching' = (new.typing \/ pressed # {})
    /\ UNCHANGED <<pressed, requested, found, activity, timer, waiting, handle, mice, held, events>>
    /\ MousePlugged(pad, believed)

\* The page saved its settings and calls reloadSettings.  The keyboard monitor
\* is made anew or thrown away only if its setting changed.
ReloadSettings(new) ==
    /\ settings' = new
    /\ watching' = new.typing
    /\ pressed' = IF new.typing = watching THEN pressed ELSE {}
    /\ UNCHANGED <<requested, found, activity, timer, waiting, handle, mice, held, events>>
    /\ MousePlugged(pad, believed)

-----------------------------------------------------------------------------
(***************************************************************************)
(* The keyboard.  One reply of the X server reports one key event or two.  *)
(***************************************************************************)
Active(keys) == keys \cap Letters # {} /\ keys \cap Modifiers = {}

Switched(keys, k) == IF k \in keys THEN keys \ {k} ELSE keys \cup {k}

\* The monitor ignores the release of a key whose press it has not seen.
Seen(counted, down, k) == IF k \in down THEN counted \ {k} ELSE counted \cup {k}

KeyboardActivityStarted ==
    IF activity \/ ~settings.typing
    THEN UNCHANGED <<activity, timer, pad>>
    ELSE timer' = FALSE /\ activity' = TRUE /\ pad' = Off(TRUE)

\* Mutant: the timer is started only when the start of the activity was missed.
KeyboardActivityFinishedOnce ==
    IF activity \/ ~settings.typing
    THEN UNCHANGED <<activity, timer, pad>>
    ELSE timer' = TRUE /\ activity' = TRUE /\ pad' = Off(TRUE)

KeyboardActivityFinished ==
    /\ activity' = (activity \/ settings.typing)
    /\ pad' = IF activity' # activity THEN Off(TRUE) ELSE pad
    /\ timer' = TRUE

\* process, with the counts between two events of one reply in "between"
Reply(down, counted, between) ==
    /\ held' = down
    /\ pressed' = IF watching THEN counted ELSE {}
    /\ UNCHANGED <<requested, believed, found, mouseOff, waiting, settings, handle, watching, mice, events>>
    /\ IF watching /\ ~Active(pressed) /\ Active(pressed')
       THEN KeyboardActivityStarted
       ELSE IF /\ watching /\ ~Active(pressed')
               /\ Active(pressed) \/ Active(between)
            THEN KeyboardActivityFinished
            ELSE UNCHANGED <<activity, timer, pad>>

OneKey(k) == Reply(Switched(held, k), Seen(pressed, held, k), {})

TwoKeys(k, l) ==
    LET down    == Switched(held, k)
        counted == Seen(pressed, held, k)
    IN  Reply(Switched(down, l), Seen(counted, down, l), counted)

TimerElapsed ==
    /\ timer
    /\ timer' = FALSE
    /\ activity' = FALSE
    /\ pad' = IF activity THEN Off(FALSE) ELSE pad
    /\ UNCHANGED <<requested, believed, found, mouseOff, waiting, settings, backendVars, mice, held, events>>

-----------------------------------------------------------------------------
(***************************************************************************)
(* Devices: plugged and unplugged by the user, reported by the X server.   *)
(***************************************************************************)
Reported(e) ==
    /\ Len(events) < MaxEvents
    /\ events' = Append(events, e)
    /\ UNCHANGED <<daemonVars, backendVars, held>>

PlugPad ==
    /\ pad = NoPad
    /\ pad' = [enabled |-> TRUE, off |-> FALSE]
    /\ Reported("pad")
    /\ UNCHANGED mice

UnplugPad ==
    /\ pad # NoPad
    /\ pad' = NoPad
    /\ Reported("padGone")
    /\ UNCHANGED mice

SwitchMouse(m) ==
    /\ mice' = Switched(mice, m)
    /\ Reported("mouse")
    /\ UNCHANGED pad

\* handleReset for the touchpad just found: the request is applied.
Reset(p) == Enabled(p, requested)

\* Mutant: the mice are looked at only while there is no touchpad.
DevicePluggedNoMouse(e) ==
    /\ e \in {"pad", "mouse"}
    /\ handle' = (handle \/ pad # NoPad)
    /\ found' = (found \/ (handle' /\ ~handle))
    /\ LET p == IF handle' /\ ~handle THEN Reset(pad) ELSE pad
           b == IF handle' /\ ~handle THEN Reads(p) ELSE believed
       IN  IF ~handle'
           THEN MousePlugged(p, b)
           ELSE pad' = p /\ believed' = b /\ mouseOff' = mouseOff

\* devicePlugged: a touchpad is looked for only if there was none; every other
\* device, or any while there is no touchpad, may be a mouse.
DevicePlugged(e) ==
    /\ e \in {"pad", "mouse"}
    /\ handle' = (handle \/ pad # NoPad)
    /\ found' = (found \/ (handle' /\ ~handle))
    /\ LET p == IF handle' /\ ~handle THEN Reset(pad) ELSE pad
           b == IF handle' /\ ~handle THEN Reads(p) ELSE believed
       IN  IF ~handle' \/ e = "mouse"
           THEN MousePlugged(p, b)
           ELSE pad' = p /\ believed' = b /\ mouseOff' = mouseOff

\* touchpadDetached: handleReset finds no touchpad and leaves it at that.
TouchpadDetached(e) ==
    /\ e = "padGone"
    /\ handle' = FALSE
    /\ found' = FALSE
    /\ UNCHANGED <<believed, mouseOff, pad>>

ProcessEvent ==
    /\ events # <<>>
    /\ events' = Tail(events)
    /\ UNCHANGED <<requested, activity, timer, waiting, settings, watching, pressed, mice, held>>
    /\ DevicePlugged(Head(events)) \/ TouchpadDetached(Head(events))

-----------------------------------------------------------------------------
Next ==
    \/ Restart
    \/ \E s \in Services : ServiceRegistered(s)
    \/ Enable \/ Disable \/ Toggle
    \/ \E new \in Settings : ReloadSettings(new)
    \/ \E k \in Keys : OneKey(k) \/ \E l \in Keys : TwoKeys(k, l)
    \/ TimerElapsed
    \/ PlugPad \/ UnplugPad
    \/ \E m \in Mice : SwitchMouse(m)
    \/ ProcessEvent

\* The event loop runs: a timer that was started fires, and what the X server
\* reported is read.  Nobody has to type, plug or configure anything.
Fairness == WF_vars(TimerElapsed) /\ WF_vars(ProcessEvent)

Spec == Init /\ [][Next]_vars /\ Fairness

-----------------------------------------------------------------------------
(***************************************************************************)
(* Properties.                                                             *)
(***************************************************************************)
Pending(e) == \E i \in 1 .. Len(events) : events[i] = e

\* The variables stay in range, and the monitor exists exactly when the
\* setting asks for it.
TypeOK ==
    /\ requested \in BOOLEAN /\ believed \in BOOLEAN /\ found \in BOOLEAN
    /\ mouseOff \in BOOLEAN /\ activity \in BOOLEAN /\ timer \in BOOLEAN
    /\ waiting \subseteq Services
    /\ settings \in Settings
    /\ handle \in BOOLEAN /\ watching = settings.typing /\ pressed \subseteq Keys
    /\ pad \in Pads \cup {NoPad}
    /\ mice \subseteq Mice
    /\ held \subseteq Keys
    /\ events \in Seq(Events)

\* The state the daemon reports and toggles is the state of the device, unless
\* it has still to hear that the device is gone: no path changes the one
\* without the other, although the daemon never polls.
BelievedIsReal ==
    handle /\ ~Pending("padGone") => believed = Reads(pad)

\* The daemon knows whether a mouse keeps the touchpad off, through late
\* starts, reloads and touchpads that come and go, once it has heard of it.
MouseNoticed ==
    waiting = {} /\ ~Pending("mouse") =>
        mouseOff = (settings.mouse /\ mice \ settings.ignored # {})

\* While no mouse keeps it off the touchpad is what the user last asked for:
\* unplugging the mouse gives back the user's state, not simply "on", also when
\* that was asked for while the mouse, or no touchpad, was there.
UserDecides ==
    handle /\ pad # NoPad /\ ~mouseOff /\ ~Pending("padGone") =>
        pad.enabled = requested

\* After typing the touchpad comes back ("touchpad will be enabled again"): as
\* long as the user goes on to type and to rest, with the setting on and no
\* crash, it is never left off for good, whatever devices do.
Typing == Active(pressed)

TouchpadComesBack ==
    /\ []<>Typing /\ []<>~Typing
    /\ <>[]settings.typing
    /\ <>[][~Restart]_vars
    => []<>(pad = NoPad \/ ~pad.off)
=============================================================================
