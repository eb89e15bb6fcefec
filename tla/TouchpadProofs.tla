--------------------------- MODULE TouchpadProofs ---------------------------
(***************************************************************************)
(* Proofs about the touchpad daemon, for every set of keys, mice, services *)
(* and settings and for any number of waiting events: its type invariant,  *)
(* that it knows the state of the touchpad and of the mice, and that the   *)
(* touchpad is what the user asked for while no mouse keeps it off.        *)
(***************************************************************************)
EXTENDS Touchpad, TLAPS

\* A handle to a touchpad that is gone is only kept until that is reported.
HandleMeansPad == handle /\ pad = NoPad => Pending("padGone")

-----------------------------------------------------------------------------
\* What waits after an event was added, and after the first one was taken.
LEMMA PendingAppend ==
    ASSUME NEW e \in Events, NEW f \in Events, events \in Seq(Events),
           events' = Append(events, f)
    PROVE  Pending(e)' <=> (Pending(e) \/ e = f)
  BY DEF Pending

\* What waits after the first event was handled.
LEMMA PendingTail ==
    ASSUME NEW e \in Events, events \in Seq(Events), events # <<>>, events' = Tail(events)
    PROVE  /\ Head(events) \in Events
           /\ events' \in Seq(Events)
           /\ Pending(e) => Pending(e)' \/ e = Head(events)
           /\ Pending(e)' => Pending(e)
<1>1. /\ Head(events) \in Events /\ events' \in Seq(Events)
      /\ Len(events') = Len(events) - 1 /\ Len(events) \in Nat /\ Len(events) >= 1
      /\ \A i \in 1 .. Len(events') : events'[i] = events[i + 1]
      /\ Head(events) = events[1]
  OBVIOUS
<1>2. ASSUME Pending(e) PROVE Pending(e)' \/ e = Head(events)
  <2>1. PICK i \in 1 .. Len(events) : events[i] = e
    BY <1>2 DEF Pending
  <2>2. CASE i = 1
    BY <2>1, <2>2, <1>1
  <2>3. CASE i # 1
    <3>1. i - 1 \in 1 .. Len(events') /\ events'[i - 1] = e
      BY <2>1, <2>3, <1>1
    <3> QED
      BY <3>1 DEF Pending
  <2> QED
    BY <2>2, <2>3
<1>3. ASSUME Pending(e)' PROVE Pending(e)
  <2>1. PICK i \in 1 .. Len(events') : events'[i] = e
    BY <1>3 DEF Pending
  <2>2. i + 1 \in 1 .. Len(events) /\ events[i + 1] = e
    BY <2>1, <1>1
  <2> QED
    BY <2>2 DEF Pending
<1> QED
  BY <1>1, <1>2, <1>3

\* Switching a touchpad does not make it come or go.
LEMMA EnabledSound ==
    ASSUME NEW p \in Pads \cup {NoPad}, NEW value \in BOOLEAN, handle' \in BOOLEAN
    PROVE  /\ Enabled(p, value) \in Pads \cup {NoPad}
           /\ (Enabled(p, value) = NoPad) <=> (p = NoPad)
           /\ p # NoPad /\ handle' => Enabled(p, value).enabled = value
           /\ Reads(p) \in BOOLEAN
  BY NoPadAssumption DEF Enabled, Pads, Reads

\* The switch "off" leaves the other switch alone.
LEMMA OffSound ==
    ASSUME TypeOK, NEW value \in BOOLEAN
    PROVE  /\ Off(value) \in Pads \cup {NoPad}
           /\ (Off(value) = NoPad) <=> (pad = NoPad)
           /\ pad # NoPad => Off(value).enabled = pad.enabled
           /\ Reads(Off(value)) = Reads(pad)
  BY NoPadAssumption DEF Off, Pads, Reads, TypeOK

\* What mousePlugged does to a touchpad p that is believed to be b.
LEMMA MousePluggedSound ==
    ASSUME NEW p \in Pads \cup {NoPad}, NEW b \in BOOLEAN,
           handle' \in BOOLEAN, requested' \in BOOLEAN, mouseOff \in BOOLEAN,
           settings' \in Settings,
           MousePlugged(p, b)
    PROVE  /\ pad' \in Pads \cup {NoPad} /\ believed' \in BOOLEAN /\ mouseOff' \in BOOLEAN
           /\ (pad' = NoPad) <=> (p = NoPad)
           /\ handle' /\ b = Reads(p) => believed' = Reads(pad')
           /\ waiting' = {} => mouseOff' = (settings'.mouse /\ mice' \ settings'.ignored # {})
           /\ handle' /\ b = Reads(p) /\ p # NoPad /\ ~mouseOff'
              /\ (~mouseOff => p.enabled = requested')
              => pad'.enabled = requested'
<1> DEFINE disable == PluggedIn /\ settings'.mouse
           newState == ~disable /\ requested'
<1>1. settings'.mouse \in BOOLEAN /\ disable \in BOOLEAN /\ newState \in BOOLEAN
  BY SettingsAssumption DEF PluggedIn
<1>2. disable = (settings'.mouse /\ mice' \ settings'.ignored # {})
  BY <1>1 DEF PluggedIn
<1>3. /\ Enabled(p, newState) \in Pads \cup {NoPad}
      /\ (Enabled(p, newState) = NoPad) <=> (p = NoPad)
      /\ p # NoPad /\ handle' => Enabled(p, newState).enabled = newState
      /\ Reads(Enabled(p, newState)) \in BOOLEAN
  BY <1>1, EnabledSound
<1>4. CASE waiting' # {} \/ mouseOff = disable
  <2>1. mouseOff' = mouseOff /\ pad' = p /\ believed' = b
    BY <1>4 DEF MousePlugged
  <2> QED
    BY <1>2, <1>4, <2>1
<1>5. CASE ~(waiting' # {} \/ mouseOff = disable) /\ newState = b
  <2>1. mouseOff' = disable /\ pad' = p /\ believed' = b
    BY <1>5 DEF MousePlugged
  <2>2. ASSUME b = Reads(p), p # NoPad, ~mouseOff' PROVE pad'.enabled = requested'
    <3>1. p.enabled \in BOOLEAN /\ (b <=> p.enabled)
      BY <2>2 DEF Pads, Reads
    <3>2. b <=> requested'
      BY <1>5, <2>1, <2>2
    <3> QED
      BY <2>1, <3>1, <3>2
  <2> QED
    BY <1>1, <1>2, <2>1, <2>2
<1>6. CASE ~(waiting' # {} \/ mouseOff = disable) /\ newState # b
  <2>1. mouseOff' = disable /\ SetTouchpadEnabled(newState, p, b)
    BY <1>6 DEF MousePlugged
  <2>2. pad' = Enabled(p, newState) /\ believed' = IF handle' THEN Reads(pad') ELSE b
    BY <2>1 DEF SetTouchpadEnabled
  <2> QED
    BY <1>1, <1>2, <1>3, <1>6, <2>1, <2>2
<1> QED
  BY <1>4, <1>5, <1>6

-----------------------------------------------------------------------------
\* Every action keeps the variables in range.
LEMMA RepliesTyped ==
    ASSUME TypeOK, NEW k \in Keys, NEW l \in Keys, OneKey(k) \/ TwoKeys(k, l)
    PROVE  TypeOK'
<1>1. PICK down, counted, between :
          /\ down \in SUBSET Keys /\ counted \in SUBSET Keys
          /\ Reply(down, counted, between)
  <2>1. /\ Switched(held, k) \in SUBSET Keys
        /\ Switched(Switched(held, k), l) \in SUBSET Keys
    BY DEF Switched, TypeOK
  <2>2. /\ Seen(pressed, held, k) \in SUBSET Keys
        /\ Seen(Seen(pressed, held, k), Switched(held, k), l) \in SUBSET Keys
    BY DEF Seen, TypeOK
  <2> QED
    BY <2>1, <2>2 DEF OneKey, TwoKeys
<1>2. Off(TRUE) \in Pads \cup {NoPad}
  BY OffSound
<1>3. activity' \in BOOLEAN /\ timer' \in BOOLEAN /\ pad' \in Pads \cup {NoPad}
  BY <1>1, <1>2, SettingsAssumption
  DEF Reply, KeyboardActivityStarted, KeyboardActivityFinished, TypeOK
<1> QED
  BY <1>1, <1>3 DEF Reply, TypeOK

\* One step for each action.
LEMMA TypeStep == TypeOK /\ [Next]_vars => TypeOK'
<1> SUFFICES ASSUME TypeOK, [Next]_vars PROVE TypeOK'
  OBVIOUS
<1> USE DEF TypeOK
<1>1. CASE Restart
  <2>1. Reads(pad) \in BOOLEAN
    BY DEF Reads, Pads
  <2>2. handle' \in BOOLEAN /\ (handle' => Reads(pad)) \in BOOLEAN
    BY <1>1, <2>1 DEF Restart
  <2>3. believed' \in BOOLEAN /\ requested' \in BOOLEAN /\ found' \in BOOLEAN
    BY <1>1, <2>2 DEF Restart
  <2>4. events' \in Seq(Events)
    BY <1>1 DEF Restart
  <2> QED
    BY <1>1, <2>2, <2>3, <2>4 DEF Restart
<1>2. ASSUME NEW s \in Services, ServiceRegistered(s) PROVE TypeOK'
  <2>1. Reads(pad) \in BOOLEAN /\ (IF handle THEN Reads(pad) ELSE believed) \in BOOLEAN
    BY DEF Reads, Pads
  <2>2. CASE waiting' # {}
    BY <1>2, <2>2 DEF ServiceRegistered, backendVars
  <2>3. CASE waiting' = {}
    <3>1. MousePlugged(pad, IF handle THEN Reads(pad) ELSE believed) /\ found' = handle
      BY <1>2, <2>3 DEF ServiceRegistered
    <3>2. handle' = handle /\ requested' = requested /\ settings' = settings
      BY <1>2 DEF ServiceRegistered, backendVars
    <3>3. pad' \in Pads \cup {NoPad} /\ believed' \in BOOLEAN /\ mouseOff' \in BOOLEAN
      BY <2>1, <3>1, <3>2, MousePluggedSound
    <3> QED
      BY <1>2, <3>1, <3>2, <3>3 DEF ServiceRegistered, backendVars
  <2> QED
    BY <2>2, <2>3
<1>3. ASSUME NEW value \in BOOLEAN, Request(value) PROVE TypeOK'
  <2>1. handle' = handle /\ SetTouchpadEnabled(value, pad, believed)
    BY <1>3 DEF Request, backendVars
  <2>2. pad' \in Pads \cup {NoPad}
    BY <2>1, EnabledSound DEF SetTouchpadEnabled
  <2>3. believed' \in BOOLEAN
    BY <2>1, <2>2, EnabledSound DEF SetTouchpadEnabled
  <2> QED
    BY <1>3, <2>2, <2>3 DEF Request, backendVars
<1>4. ASSUME NEW new \in Settings, ReloadSettings(new) PROVE TypeOK'
  <2>1. pad' \in Pads \cup {NoPad} /\ believed' \in BOOLEAN /\ mouseOff' \in BOOLEAN
    BY <1>4, MousePluggedSound DEF ReloadSettings
  <2>2. pressed' \subseteq Keys
    BY <1>4 DEF ReloadSettings
  <2> QED
    BY <1>4, <2>1, <2>2 DEF ReloadSettings
<1>5. ASSUME NEW k \in Keys, OneKey(k) \/ \E l \in Keys : TwoKeys(k, l) PROVE TypeOK'
  BY <1>5, RepliesTyped
<1>6. CASE TimerElapsed
  BY <1>6, OffSound DEF TimerElapsed, backendVars
<1>7. CASE PlugPad \/ UnplugPad
  <2>1. pad' \in Pads \cup {NoPad} /\ events' \in Seq(Events)
    <3>1. [enabled |-> TRUE, off |-> FALSE] \in Pads /\ {"pad", "padGone"} \subseteq Events
      BY DEF Pads, Events
    <3>2. PICK e \in Events : Reported(e)
      BY <1>7, <3>1 DEF PlugPad, UnplugPad
    <3>3. events' \in Seq(Events)
      BY <3>2 DEF Reported
    <3>4. pad' \in Pads \cup {NoPad}
      BY <1>7, <3>1 DEF PlugPad, UnplugPad
    <3> QED
      BY <3>3, <3>4
  <2> QED
    BY <1>7, <2>1 DEF PlugPad, UnplugPad, Reported, daemonVars, backendVars
<1>8. ASSUME NEW m \in Mice, SwitchMouse(m) PROVE TypeOK'
  <2>1. mice' \subseteq Mice /\ events' \in Seq(Events)
    BY <1>8 DEF SwitchMouse, Switched, Reported, Events
  <2> QED
    BY <1>8, <2>1 DEF SwitchMouse, Reported, daemonVars, backendVars
<1>9. CASE ProcessEvent
  <2>1. events' \in Seq(Events) /\ Head(events) \in Events
    BY <1>9 DEF ProcessEvent
  <2>2. CASE TouchpadDetached(Head(events))
    BY <1>9, <2>1, <2>2 DEF ProcessEvent, TouchpadDetached
  <2>3. CASE DevicePlugged(Head(events))
    <3> DEFINE p == IF handle' /\ ~handle THEN Reset(pad) ELSE pad
               b == IF handle' /\ ~handle THEN Reads(p) ELSE believed
    <3>1. handle' \in BOOLEAN /\ found' \in BOOLEAN /\ requested' = requested /\ settings' = settings
      BY <1>9, <2>3 DEF ProcessEvent, DevicePlugged
    <3>2. p \in Pads \cup {NoPad}
      BY <3>1, EnabledSound DEF Reset
    <3>3. b \in BOOLEAN
      BY <3>1, <3>2, EnabledSound
    <3>4. MousePlugged(p, b) \/ (pad' = p /\ believed' = b /\ mouseOff' = mouseOff)
      BY <2>3 DEF DevicePlugged
    <3>5. pad' \in Pads \cup {NoPad} /\ believed' \in BOOLEAN /\ mouseOff' \in BOOLEAN
      <4>1. CASE MousePlugged(p, b)
        BY <3>1, <3>2, <3>3, <4>1, MousePluggedSound
      <4> QED
        BY <3>2, <3>3, <3>4, <4>1
    <3> QED
      BY <1>9, <2>1, <3>1, <3>5 DEF ProcessEvent
  <2> QED
    BY <1>9, <2>2, <2>3 DEF ProcessEvent
<1>10. CASE UNCHANGED vars
  BY <1>10 DEF vars, daemonVars, backendVars, worldVars
<1> QED
  BY <1>1, <1>2, <1>3, <1>4, <1>5, <1>6, <1>7, <1>8, <1>9, <1>10
  DEF Next, Enable, Disable, Toggle

LEMMA TypeStart == Init => TypeOK
<1> SUFFICES ASSUME Init PROVE TypeOK
  OBVIOUS
<1>1. pad \in Pads \cup {NoPad} /\ handle \in BOOLEAN
  BY DEF Init, Pads
<1>2. Reads(pad) \in BOOLEAN
  BY <1>1 DEF Reads, Pads
<1>3. (handle => Reads(pad)) \in BOOLEAN
  BY <1>1, <1>2
<1>4. believed \in BOOLEAN /\ requested \in BOOLEAN /\ found \in BOOLEAN
  BY <1>1, <1>3 DEF Init
<1>5. events \in Seq(Events)
  BY DEF Init
<1> QED
  BY <1>1, <1>4, <1>5 DEF Init, TypeOK

\* The variables of the touchpad daemon stay in range, whatever happens.
THEOREM TypeCorrect == Spec => []TypeOK
  BY TypeStart, TypeStep, PTL DEF Spec

-----------------------------------------------------------------------------
(***************************************************************************)
(* The four parts that are inductive together, and not one by one: a       *)
(* request would be lost on a touchpad that is believed to be what it is   *)
(* not, and mousePlugged leaves alone a touchpad that is believed right.   *)
(***************************************************************************)
Knows == HandleMeansPad /\ BelievedIsReal /\ MouseNoticed /\ UserDecides

\* A step that leaves alone what they speak of, but for the "off" switch.
LEMMA QuietStep ==
    ASSUME Knows, TypeOK,
           UNCHANGED <<requested, believed, mouseOff, waiting, settings, handle, mice, events>>,
           pad' = pad \/ \E value \in BOOLEAN : pad' = Off(value)
    PROVE  Knows'
<1>1. (pad' = NoPad <=> pad = NoPad) /\ Reads(pad') = Reads(pad)
      /\ (pad # NoPad => pad'.enabled = pad.enabled)
  BY OffSound
<1>2. \A e : Pending(e)' <=> Pending(e)
  BY DEF Pending
<1> QED
  BY <1>1, <1>2 DEF Knows, HandleMeansPad, BelievedIsReal, MouseNoticed, UserDecides

\* A step that calls mousePlugged for a touchpad that is believed right.
LEMMA MousePluggedStep ==
    ASSUME TypeOK, TypeOK', NEW p \in Pads \cup {NoPad}, NEW b \in BOOLEAN,
           MousePlugged(p, b),
           handle' /\ p = NoPad => Pending("padGone")',
           handle' /\ ~Pending("padGone")' => b = Reads(p),
           handle' /\ p # NoPad /\ ~mouseOff /\ ~Pending("padGone")' => p.enabled = requested'
    PROVE  Knows'
<1>1. /\ (pad' = NoPad) <=> (p = NoPad)
      /\ handle' /\ b = Reads(p) => believed' = Reads(pad')
      /\ waiting' = {} => mouseOff' = (settings'.mouse /\ mice' \ settings'.ignored # {})
      /\ handle' /\ b = Reads(p) /\ p # NoPad /\ ~mouseOff'
         /\ (~mouseOff => p.enabled = requested')
         => pad'.enabled = requested'
  BY MousePluggedSound DEF TypeOK
<1>2. HandleMeansPad' /\ BelievedIsReal'
  BY <1>1 DEF HandleMeansPad, BelievedIsReal, Reads
<1>3. MouseNoticed' /\ UserDecides'
  BY <1>1 DEF MouseNoticed, UserDecides
<1> QED
  BY <1>2, <1>3 DEF Knows

\* One step for each action, with what the handlers share stated above.
LEMMA KnowsStep == TypeOK /\ TypeOK' /\ Knows /\ [Next]_vars => Knows'
<1> SUFFICES ASSUME TypeOK, TypeOK', Knows, [Next]_vars PROVE Knows'
  OBVIOUS
<1> {"pad", "padGone", "mouse"} \subseteq Events
  BY DEF Events
<1>1. CASE Restart
  <2>1. \A e : ~Pending(e)'
    BY <1>1 DEF Restart, Pending
  <2>2. /\ handle' = (pad # NoPad) /\ pad' = pad /\ waiting' # {}
        /\ believed' = (handle' => Reads(pad)) /\ requested' = believed'
    BY <1>1, ServicesAssumption DEF Restart
  <2>3. pad # NoPad => Reads(pad) = pad.enabled /\ pad.enabled \in BOOLEAN
    BY DEF TypeOK, Pads, Reads
  <2>4. handle' => believed' = Reads(pad')
    BY <2>2, <2>3
  <2> QED
    BY <2>1, <2>2, <2>3, <2>4 DEF Knows, HandleMeansPad, BelievedIsReal, MouseNoticed, UserDecides
<1>2. ASSUME NEW s \in Services, ServiceRegistered(s) PROVE Knows'
  <2>1. /\ UNCHANGED <<requested, settings, handle, mice, events>>
        /\ waiting # {} /\ \A e : Pending(e)' <=> Pending(e)
    BY <1>2 DEF ServiceRegistered, backendVars, Pending
  <2>2. CASE waiting' # {}
    <3>1. UNCHANGED <<believed, mouseOff, pad>>
      BY <1>2, <2>2 DEF ServiceRegistered
    <3> QED
      BY <2>1, <2>2, <3>1 DEF Knows, HandleMeansPad, BelievedIsReal, MouseNoticed, UserDecides, Reads
  <2>3. CASE waiting' = {}
    <3> DEFINE b == IF handle THEN Reads(pad) ELSE believed
    <3>1. MousePlugged(pad, b)
      BY <1>2, <2>3 DEF ServiceRegistered
    <3>2. pad \in Pads \cup {NoPad} /\ b \in BOOLEAN
      BY DEF TypeOK, Pads, Reads
    <3>3. /\ handle' /\ pad = NoPad => Pending("padGone")'
          /\ handle' => b = Reads(pad)
          /\ handle' /\ pad # NoPad /\ ~mouseOff /\ ~Pending("padGone")' => pad.enabled = requested'
      BY <2>1 DEF Knows, HandleMeansPad, UserDecides
    <3> HIDE DEF b
    <3> QED
      BY <3>1, <3>2, <3>3, MousePluggedStep
  <2> QED
    BY <2>2, <2>3
<1>3. ASSUME NEW value \in BOOLEAN, Request(value) PROVE Knows'
  <2>1. /\ UNCHANGED <<mouseOff, waiting, settings, handle, mice, events>>
        /\ requested' = value /\ pad' = Enabled(pad, value)
        /\ believed' = IF handle' THEN Reads(pad') ELSE believed
    BY <1>3 DEF Request, SetTouchpadEnabled, backendVars
  <2>2. /\ (pad' = NoPad) <=> (pad = NoPad)
        /\ pad # NoPad /\ handle' => pad'.enabled = value
    BY <2>1, EnabledSound DEF TypeOK
  <2>3. \A e : Pending(e)' <=> Pending(e)
    BY <2>1 DEF Pending
  <2> QED
    BY <2>1, <2>2, <2>3 DEF Knows, HandleMeansPad, BelievedIsReal, MouseNoticed, UserDecides
<1>4. ASSUME NEW new \in Settings, ReloadSettings(new) PROVE Knows'
  <2>1. /\ UNCHANGED <<requested, waiting, handle, mice, events>>
        /\ MousePlugged(pad, believed)
        /\ \A e : Pending(e)' <=> Pending(e)
    BY <1>4 DEF ReloadSettings, Pending
  <2>2. pad \in Pads \cup {NoPad} /\ believed \in BOOLEAN
    BY DEF TypeOK
  <2> QED
    BY <2>1, <2>2, MousePluggedStep DEF Knows, HandleMeansPad, BelievedIsReal, UserDecides
<1>5. ASSUME NEW k \in Keys, OneKey(k) \/ \E l \in Keys : TwoKeys(k, l) PROVE Knows'
  <2>1. PICK down, counted, between : Reply(down, counted, between)
    BY <1>5 DEF OneKey, TwoKeys
  <2>2. UNCHANGED <<requested, believed, mouseOff, waiting, settings, handle, mice, events>>
    BY <2>1 DEF Reply
  <2>3. pad' = pad \/ pad' = Off(TRUE)
    BY <2>1 DEF Reply, KeyboardActivityStarted, KeyboardActivityFinished
  <2> QED
    BY <2>2, <2>3, QuietStep
<1>6. CASE TimerElapsed
  <2>1. UNCHANGED <<requested, believed, mouseOff, waiting, settings, handle, mice, events>>
    BY <1>6 DEF TimerElapsed, backendVars
  <2>2. pad' = pad \/ pad' = Off(FALSE)
    BY <1>6 DEF TimerElapsed
  <2> QED
    BY <2>1, <2>2, QuietStep
<1>7. CASE PlugPad
  <2>1. /\ UNCHANGED <<requested, believed, mouseOff, waiting, settings, handle, mice>>
        /\ events' = Append(events, "pad") /\ pad = NoPad /\ pad' # NoPad
    <3>1. [enabled |-> TRUE, off |-> FALSE] \in Pads
      BY DEF Pads
    <3>2. pad = NoPad /\ pad' # NoPad
      BY <1>7, <3>1, NoPadAssumption DEF PlugPad
    <3> QED
      BY <1>7, <3>2 DEF PlugPad, Reported, daemonVars, backendVars
  <2>2. /\ Pending("padGone")' <=> Pending("padGone")
        /\ Pending("mouse")' <=> Pending("mouse")
    BY <2>1, PendingAppend DEF TypeOK
  <2> QED
    BY <2>1, <2>2 DEF Knows, HandleMeansPad, BelievedIsReal, MouseNoticed, UserDecides
<1>8. CASE UnplugPad
  <2>1. /\ UNCHANGED <<requested, believed, mouseOff, waiting, settings, handle, mice>>
        /\ events' = Append(events, "padGone") /\ pad' = NoPad
    BY <1>8 DEF UnplugPad, Reported, daemonVars, backendVars
  <2>2. Pending("padGone")' /\ (Pending("mouse")' <=> Pending("mouse"))
    BY <2>1, PendingAppend DEF TypeOK
  <2> QED
    BY <2>1, <2>2 DEF Knows, HandleMeansPad, BelievedIsReal, MouseNoticed, UserDecides
<1>9. ASSUME NEW m \in Mice, SwitchMouse(m) PROVE Knows'
  <2>1. /\ UNCHANGED <<requested, believed, mouseOff, waiting, settings, handle, pad>>
        /\ events' = Append(events, "mouse")
    BY <1>9 DEF SwitchMouse, Reported, daemonVars, backendVars
  <2>2. Pending("mouse")' /\ (Pending("padGone")' <=> Pending("padGone"))
    BY <2>1, PendingAppend DEF TypeOK
  <2>3. HandleMeansPad' /\ MouseNoticed'
    BY <2>1, <2>2 DEF Knows, HandleMeansPad, MouseNoticed
  <2>4. BelievedIsReal' /\ UserDecides'
    BY <2>1, <2>2 DEF Knows, BelievedIsReal, UserDecides, Reads
  <2> QED
    BY <2>3, <2>4 DEF Knows
<1>10. CASE ProcessEvent
  <2> DEFINE e == Head(events)
  <2>1. /\ UNCHANGED <<requested, waiting, settings, mice>>
        /\ events # <<>> /\ events' = Tail(events)
    BY <1>10 DEF ProcessEvent
  <2>2. /\ e \in Events
        /\ \A f \in Events : Pending(f) => Pending(f)' \/ f = e
        /\ \A f \in Events : Pending(f)' => Pending(f)
    BY <2>1, PendingTail DEF TypeOK
  <2> HIDE DEF e
  <2>3. CASE TouchpadDetached(e)
    <3>1. e = "padGone" /\ ~handle' /\ UNCHANGED <<mouseOff, pad>>
      BY <2>3 DEF TouchpadDetached, TypeOK
    <3>2. Pending("mouse")' <=> Pending("mouse")
      BY <2>2, <3>1
    <3> QED
      BY <2>1, <3>1, <3>2 DEF Knows, HandleMeansPad, BelievedIsReal, MouseNoticed, UserDecides
  <2>4. CASE DevicePlugged(e)
    <3> DEFINE new == handle' /\ ~handle
               p == IF new THEN Reset(pad) ELSE pad
               b == IF new THEN Reads(p) ELSE believed
    <3>1. /\ e \in {"pad", "mouse"} /\ handle' = (handle \/ pad # NoPad)
          /\ IF ~handle' \/ e = "mouse" THEN MousePlugged(p, b)
             ELSE pad' = p /\ believed' = b /\ mouseOff' = mouseOff
      BY <2>4 DEF DevicePlugged
    <3>2. Pending("padGone")' <=> Pending("padGone")
      BY <2>2, <3>1
    <3>3. /\ Reset(pad) \in Pads \cup {NoPad} /\ Reads(Reset(pad)) \in BOOLEAN
          /\ (Reset(pad) = NoPad) <=> (pad = NoPad)
          /\ pad # NoPad /\ handle' => Reset(pad).enabled = requested'
      <4>1. requested' \in BOOLEAN /\ handle' \in BOOLEAN /\ pad \in Pads \cup {NoPad}
            /\ requested = requested' /\ requested \in BOOLEAN
        BY <2>1 DEF TypeOK
      <4>2. Reset(pad) = Enabled(pad, requested)
        BY DEF Reset
      <4>3. Reset(pad) \in Pads \cup {NoPad}
        BY <4>1, <4>2, EnabledSound
      <4> QED
        BY <4>1, <4>2, <4>3, EnabledSound
    <3>4. p \in Pads \cup {NoPad} /\ b \in BOOLEAN
      BY <3>3 DEF TypeOK
    <3>5. handle' /\ p = NoPad => Pending("padGone")'
      BY <3>1, <3>2, <3>3 DEF Knows, HandleMeansPad
    <3>6. handle' /\ ~Pending("padGone")' => b = Reads(p)
      BY <3>1, <3>2 DEF Knows, BelievedIsReal, TypeOK
    <3>7. handle' /\ p # NoPad /\ ~mouseOff /\ ~Pending("padGone")' => p.enabled = requested'
      BY <2>1, <3>1, <3>2, <3>3 DEF Knows, UserDecides, TypeOK
    <3> HIDE DEF b, p
    <3>8. CASE ~handle' \/ e = "mouse"
      BY <3>1, <3>4, <3>5, <3>6, <3>7, <3>8, MousePluggedStep
    <3>9. CASE handle' /\ e = "pad"
      <4>1. pad' = p /\ believed' = b /\ mouseOff' = mouseOff
        BY <3>1, <3>9
      <4>2. Pending("mouse")' <=> Pending("mouse")
        BY <2>2, <3>9
      <4> QED
        BY <2>1, <3>5, <3>6, <3>7, <4>1, <4>2
        DEF Knows, HandleMeansPad, BelievedIsReal, MouseNoticed, UserDecides, Reads
    <3> QED
      BY <3>1, <3>8, <3>9
  <2> QED
    BY <1>10, <2>3, <2>4 DEF ProcessEvent, e
<1>11. CASE UNCHANGED vars
  BY <1>11, QuietStep DEF vars, daemonVars, backendVars, worldVars
<1> QED
  BY <1>1, <1>2, <1>3, <1>4, <1>5, <1>6, <1>7, <1>8, <1>9, <1>10, <1>11
  DEF Next, Enable, Disable, Toggle, TypeOK

\* The daemon begins with what the device says.
LEMMA KnowsInit == Init => Knows
<1> SUFFICES ASSUME Init PROVE Knows
  OBVIOUS
<1>1. \A e : ~Pending(e)
  BY DEF Init, Pending
<1>2. /\ pad \in {NoPad} \cup [enabled : BOOLEAN, off : {FALSE}]
      /\ handle = (pad # NoPad) /\ believed = (handle => Reads(pad))
      /\ requested = believed /\ waiting = Services
  BY DEF Init
<1>3. pad # NoPad => Reads(pad) = pad.enabled /\ pad.enabled \in BOOLEAN
  BY <1>2 DEF Reads
<1>4. handle => believed = Reads(pad)
  BY <1>2, <1>3
<1> QED
  BY <1>1, <1>2, <1>3, <1>4, ServicesAssumption
  DEF Knows, HandleMeansPad, BelievedIsReal, MouseNoticed, UserDecides

\* The invariant.
LEMMA KnowsAlways == Spec => []Knows
<1>1. TypeOK /\ TypeOK' /\ Knows /\ [Next]_vars => Knows'
  BY KnowsStep
<1> QED
  BY KnowsInit, <1>1, TypeCorrect, PTL DEF Spec

(***************************************************************************)
(* The state the daemon reports and toggles (m_touchpadEnabled) is the     *)
(* device's: updateCurrentState is reached from every path of kded.cpp     *)
(* that changes the device, in every order of the events.                  *)
(***************************************************************************)
THEOREM KnowsThePad == Spec => []BelievedIsReal
<1>1. Knows => BelievedIsReal
  BY DEF Knows
<1> QED
  BY <1>1, KnowsAlways, PTL

(***************************************************************************)
(* m_mouse of kded.cpp is up to date once the events of the mice are       *)
(* handled: no late start, reload of the settings or touchpad that comes   *)
(* or goes makes the daemon miss a mouse.                                  *)
(***************************************************************************)
THEOREM NoticesMice == Spec => []MouseNoticed
<1>1. Knows => MouseNoticed
  BY DEF Knows
<1> QED
  BY <1>1, KnowsAlways, PTL

(***************************************************************************)
(* mousePlugged and handleReset of kded.cpp give the touchpad back as the  *)
(* user last asked for it (m_userRequestedState).                          *)
(***************************************************************************)
THEOREM UserHasTheLastWord == Spec => []UserDecides
<1>1. Knows => UserDecides
  BY DEF Knows
<1> QED
  BY <1>1, KnowsAlways, PTL
=============================================================================
