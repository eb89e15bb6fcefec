---------------------------- MODULE Automounter ----------------------------
(***************************************************************************)
(* The daemon that mounts removable devices (solid-device-automounter/kded)*)
(* and the settings page that shows what it remembers of them (kcm).  They *)
(* are two processes with one settings file: each keeps a copy of it, reads*)
(* the file again only when it says so, and on saving writes the entries   *)
(* it changed in its copy and no others.  Devices do not disturb each      *)
(* other's entries, so one device is followed; the others only make both   *)
(* processes read the file again.                                          *)
(***************************************************************************)
EXTENDS Naturals, Sequences

CONSTANTS
    Options,        \* the general settings the page may save
    MaxNotices      \* bound: notifications that wait in a process

Boxes == {"login", "attach"}                    \* Force{Login,Attach}Automount
Entries == Boxes \cup {"ever", "last"}          \* EverMounted, LastSeenMounted
Groups == UNION {[es -> BOOLEAN] : es \in SUBSET Entries}
NoGroup == [e \in {} |-> TRUE]

OptionsAssumption ==
    Options \subseteq [enabled : BOOLEAN, login : BOOLEAN, attach : BOOLEAN, unknown : BOOLEAN]
MaxNoticesAssumption == MaxNotices \in Nat \ {0}

VARIABLES
    options,        \* the general group of the settings file
    file,           \* the device's group in the file, NoGroup if there is none
    daemonCopy,     \* that group in the daemon's copy of the file
    pageCopy,       \* and in the page's
    running,        \* the daemon is loaded and past its init
    watched,        \* it is connected to the device's accessibilityChanged
    order,          \* what the page told kded last: "load", "unload" or "none"
    pageOpen,       \* the settings page is open
    row,            \* the section that lists the device: "attached", "detached" or "none"
    boxes,          \* m_loginForced and m_attachedForced, where they have the device
    plugged, mounted, mounting,     \* the device; a mount that was asked for
    toDaemon, toPage                \* notifications on their way

settingsVars == <<options, file>>
daemonVars == <<daemonCopy, running, watched, order>>
pageVars == <<pageOpen, pageCopy, row, boxes>>
deviceVars == <<plugged, mounted, mounting, toDaemon, toPage>>
vars == <<settingsVars, daemonVars, pageVars, deviceVars>>

-----------------------------------------------------------------------------
(***************************************************************************)
(* KConfig.                                                                *)
(***************************************************************************)
Reads(group, e) == e \in DOMAIN group /\ group[e]

Write(group, values) ==
    [e \in DOMAIN group \cup DOMAIN values |->
        IF e \in DOMAIN values THEN values[e] ELSE group[e]]

\* What a save leaves in the file of a process whose copy was `before'.
Synced(onDisk, before, after) ==
    LET changed == {e \in DOMAIN after : e \notin DOMAIN before \/ before[e] # after[e]}
        deleted == DOMAIN before \ DOMAIN after
    IN  [e \in (DOMAIN onDisk \ deleted) \cup changed |->
            IF e \in changed THEN after[e] ELSE onDisk[e]]

(***************************************************************************)
(* AutomounterSettings.                                                    *)
(***************************************************************************)
Seen(isMounted) == IF isMounted THEN [ever |-> TRUE, last |-> TRUE] ELSE [last |-> FALSE]

ShouldAutomount(group, type) ==
    \/ Reads(group, type)
    \/ /\ options.enabled
       /\ options[type]
       /\ Reads(group, "ever") \/ Reads(group, "last") \/ options.unknown

-----------------------------------------------------------------------------
Init ==
    /\ options \in Options
    /\ file = NoGroup
    /\ daemonCopy = NoGroup /\ pageCopy = NoGroup
    /\ running = options.enabled /\ watched = FALSE /\ order = "none"
    /\ pageOpen = FALSE /\ row = "none" /\ boxes = NoGroup
    /\ plugged = FALSE /\ mounted = FALSE /\ mounting = FALSE
    /\ toDaemon = <<>> /\ toPage = <<>>

RoomFor(n) == Len(toDaemon) <= MaxNotices - n /\ Len(toPage) <= MaxNotices - n

\* The user is slower than notifications are.
AllHeard == toDaemon = <<>> /\ toPage = <<>>

(***************************************************************************)
(* The device, through Solid.  A process hears of a device that comes or   *)
(* goes, and of a mount.                                                   *)
(***************************************************************************)
Tell(note) ==
    /\ toDaemon' = IF running THEN Append(toDaemon, note) ELSE toDaemon
    /\ toPage' = IF pageOpen THEN Append(toPage, note) ELSE toPage

PlugIn ==
    /\ ~plugged /\ RoomFor(1)
    /\ plugged' = TRUE
    /\ Tell("added")
    /\ UNCHANGED <<settingsVars, daemonVars, pageVars, mounted, mounting>>

PullOut ==
    /\ plugged /\ RoomFor(1)
    /\ plugged' = FALSE /\ mounted' = FALSE /\ mounting' = FALSE
    /\ Tell("removed")
    /\ UNCHANGED <<settingsVars, daemonVars, pageVars>>

\* The user mounts or unmounts it, or the mount the daemon asked for succeeds.
Mounts(value) ==
    /\ plugged /\ mounted # value /\ RoomFor(1)
    /\ mounted' = value /\ mounting' = FALSE
    /\ toDaemon' = IF running THEN Append(toDaemon, IF value THEN "mounted" ELSE "unmounted")
                   ELSE toDaemon
    /\ UNCHANGED <<settingsVars, daemonVars, pageVars, plugged, toPage>>

MountFails ==
    /\ mounting
    /\ mounting' = FALSE
    /\ UNCHANGED <<settingsVars, daemonVars, pageVars, plugged, mounted, toDaemon, toPage>>

-----------------------------------------------------------------------------
(***************************************************************************)
(* The daemon.                                                             *)
(***************************************************************************)
\* automountDevice for a device that is there, and the save that follows it.
AutomountDevice(copy, type, isMounted) ==
    LET after == Write(copy, Seen(isMounted))
    IN  /\ daemonCopy' = after
        /\ file' = Synced(file, copy, after)
        /\ mounting' = (~isMounted /\ (mounting \/ ShouldAutomount(after, type)))
        /\ watched' = TRUE

\* Mutant: the daemon stays although mounting is switched off.
StartDaemonAnyway(isMounted) ==
    /\ running' = TRUE
    /\ IF plugged THEN AutomountDevice(file, "login", isMounted)
       ELSE daemonCopy' = file /\ watched' = FALSE /\ UNCHANGED <<file, mounting>>

\* The constructor and init.
StartDaemon(isMounted) ==
    /\ running' = options.enabled
    /\ IF options.enabled /\ plugged THEN AutomountDevice(file, "login", isMounted)
       ELSE daemonCopy' = file /\ watched' = FALSE /\ UNCHANGED <<file, mounting>>

\* kded obeys the page: it loads no module it has, and unloads none it has not.
ObeyPage ==
    /\ order # "none"
    /\ order' = "none"
    /\ IF running = (order = "load")
       THEN UNCHANGED <<running, watched, daemonCopy, file, mounting, toDaemon>>
       ELSE /\ toDaemon' = <<>>
            /\ IF order = "load" THEN StartDaemon(mounted)
               ELSE running' = FALSE /\ watched' = FALSE /\ UNCHANGED <<daemonCopy, file, mounting>>
    /\ UNCHANGED <<options, pageVars, plugged, mounted, toPage>>

\* Mutant: a device that comes is looked up in the copy as it is.
DeviceAddedUnread ==
    /\ running /\ toDaemon # <<>> /\ Head(toDaemon) = "added"
    /\ toDaemon' = Tail(toDaemon)
    /\ IF plugged THEN AutomountDevice(daemonCopy, "attach", mounted)
       ELSE UNCHANGED <<daemonCopy, file, mounting, watched>>
    /\ UNCHANGED <<options, running, order, pageVars, plugged, mounted, toPage>>

\* A device that is gone again is no storage volume any more.
DeviceAdded ==
    /\ running /\ toDaemon # <<>> /\ Head(toDaemon) = "added"
    /\ toDaemon' = Tail(toDaemon)
    /\ IF plugged THEN AutomountDevice(file, "attach", mounted)
       ELSE daemonCopy' = file /\ UNCHANGED <<file, mounting, watched>>
    /\ UNCHANGED <<options, running, order, pageVars, plugged, mounted, toPage>>

DeviceMountChanged ==
    /\ running /\ toDaemon # <<>> /\ Head(toDaemon) \in {"mounted", "unmounted"}
    /\ IF watched
       THEN LET after == Write(daemonCopy, Seen(Head(toDaemon) = "mounted"))
            IN  daemonCopy' = after /\ file' = Synced(file, daemonCopy, after)
       ELSE UNCHANGED <<daemonCopy, file>>
    /\ toDaemon' = Tail(toDaemon)
    /\ UNCHANGED <<options, running, watched, order, pageVars, plugged, mounted, mounting, toPage>>

\* Solid deletes the object of a device that is gone, and the connection with it.
DeviceGone ==
    /\ running /\ toDaemon # <<>> /\ Head(toDaemon) = "removed"
    /\ toDaemon' = Tail(toDaemon)
    /\ watched' = FALSE
    /\ UNCHANGED <<settingsVars, daemonCopy, running, order, pageVars, plugged, mounted, mounting, toPage>>

-----------------------------------------------------------------------------
(***************************************************************************)
(* The settings page.                                                      *)
(***************************************************************************)
\* addNewDevice: both lookups go to m_loginForced, so a device the page has no
\* boxes for gets its attach override in the login box and no attach box.
NewBoxes(copy) ==
    IF "attach" \in DOMAIN boxes
    THEN IF "login" \in DOMAIN boxes THEN boxes
         ELSE Write(boxes, [login |-> Reads(copy, "login")])
    ELSE Write(boxes, [login |-> Reads(copy, "attach")])

\* load, and DeviceModel::reload: every device with a group gets a row.
ShowPage ==
    /\ AllHeard
    /\ pageOpen' = TRUE
    /\ pageCopy' = file
    /\ boxes' = IF file = NoGroup THEN NoGroup ELSE [b \in Boxes |-> Reads(file, b)]
    /\ row' = IF file = NoGroup THEN "none" ELSE IF plugged THEN "attached" ELSE "detached"
    /\ UNCHANGED <<settingsVars, daemonVars, deviceVars>>

ClosePage ==
    /\ pageOpen
    /\ pageOpen' = FALSE /\ row' = "none" /\ boxes' = NoGroup /\ pageCopy' = NoGroup /\ toPage' = <<>>
    /\ UNCHANGED <<settingsVars, daemonVars, plugged, mounted, mounting, toDaemon>>

\* deviceAttached.
PageDeviceAttached ==
    /\ toPage # <<>> /\ Head(toPage) = "added"
    /\ toPage' = Tail(toPage)
    /\ IF plugged
       THEN row' = "attached" /\ pageCopy' = file /\ boxes' = NewBoxes(file)
       ELSE UNCHANGED <<row, pageCopy, boxes>>
    /\ UNCHANGED <<settingsVars, daemonVars, pageOpen, plugged, mounted, mounting, toDaemon>>

\* deviceRemoved: only a device with a group in the page's copy keeps a row.
PageDeviceRemoved ==
    /\ toPage # <<>> /\ Head(toPage) = "removed"
    /\ toPage' = Tail(toPage)
    /\ row' = IF row # "attached" THEN row ELSE IF pageCopy = NoGroup THEN "none" ELSE "detached"
    /\ UNCHANGED <<settingsVars, daemonVars, pageOpen, pageCopy, boxes, plugged, mounted, mounting, toDaemon>>

\* setData; operator[] reads a missing box as unchecked.
Tick(box) ==
    /\ AllHeard /\ row # "none"
    /\ boxes' = Write(boxes, [b \in {box} |-> ~Reads(boxes, box)])
    /\ UNCHANGED <<settingsVars, daemonVars, pageOpen, pageCopy, row, deviceVars>>

\* forgetSelectedDevices: the button is for devices that are not attached.
ForgetDevice ==
    /\ AllHeard /\ row = "detached"
    /\ row' = "none" /\ boxes' = NoGroup
    /\ UNCHANGED <<settingsVars, daemonVars, pageOpen, pageCopy, deviceVars>>

\* What save makes of the device's group in the page's copy.
KeptByPage ==
    IF row # "none" THEN Write(pageCopy, [b \in Boxes |-> Reads(boxes, b)]) ELSE NoGroup

SavePage(o) ==
    /\ pageOpen /\ AllHeard /\ order = "none"
    /\ options' = o
    /\ pageCopy' = KeptByPage
    /\ file' = Synced(file, pageCopy, KeptByPage)
    /\ order' = IF o.enabled THEN "load" ELSE "unload"
    /\ UNCHANGED <<daemonCopy, running, watched, pageOpen, row, boxes, deviceVars>>

-----------------------------------------------------------------------------
\* Another device comes: both processes read the file again.
AnotherDevice ==
    /\ AllHeard
    /\ daemonCopy' = IF running THEN file ELSE daemonCopy
    /\ pageCopy' = IF pageOpen THEN file ELSE pageCopy
    /\ UNCHANGED <<settingsVars, running, watched, order, pageOpen, row, boxes, deviceVars>>

\* The user logs out and in again; the device may have been unmounted.
Login ==
    /\ ~mounting
    /\ mounted' \in {mounted, FALSE}
    /\ StartDaemon(mounted')
    /\ order' = "none"
    /\ pageOpen' = FALSE /\ row' = "none" /\ boxes' = NoGroup /\ pageCopy' = NoGroup
    /\ toDaemon' = <<>> /\ toPage' = <<>>
    /\ UNCHANGED <<options, plugged>>

Next ==
    \/ PlugIn \/ PullOut \/ \E v \in BOOLEAN : Mounts(v)
    \/ MountFails
    \/ ObeyPage \/ DeviceAdded \/ DeviceMountChanged \/ DeviceGone
    \/ ShowPage \/ ClosePage \/ PageDeviceAttached \/ PageDeviceRemoved
    \/ \E b \in Boxes : Tick(b)
    \/ ForgetDevice
    \/ \E o \in Options : SavePage(o)
    \/ AnotherDevice \/ Login

Spec == Init /\ [][Next]_vars

TypeOK ==
    /\ options \in Options /\ {file, daemonCopy, pageCopy} \subseteq Groups
    /\ {running, watched, pageOpen, plugged, mounted, mounting} \subseteq BOOLEAN
    /\ order \in {"load", "unload", "none"} /\ row \in {"attached", "detached", "none"}
    /\ DOMAIN boxes \subseteq Boxes /\ boxes \in Groups
    /\ {toDaemon, toPage} \subseteq Seq({"added", "removed", "mounted", "unmounted"})
    /\ mounted \/ mounting => plugged

(***************************************************************************)
(* "A device is remembered if it has ever been mounted before"             *)
(* (doc/kcontrol/solid-device-automounter/index.docbook): when the daemon  *)
(* has heard everything, the file says of a device that is plugged in      *)
(* whether it is mounted, and a mounted one is known.                      *)
(***************************************************************************)
RememberedMount ==
    running /\ plugged /\ watched /\ toDaemon = <<>>
        => /\ Reads(file, "last") = mounted
           /\ mounted => Reads(file, "ever")

\* The file has of the device what the daemon believes it wrote there.
Recorded ==
    running /\ watched => \A e \in {"ever", "last"} : Reads(file, e) = Reads(daemonCopy, e)

(***************************************************************************)
(* What does hold of that: the daemon's record is lost only when a page is *)
(* saved that has no row for the device.  A page that lists it deletes     *)
(* nothing, and what was forgotten the daemon writes again when the device *)
(* comes back, although its copy says that nothing changed.                *)
(***************************************************************************)
ListedIsRemembered ==
    [][Recorded => Recorded' \/ (pageOpen /\ row = "none")]_vars

(***************************************************************************)
(* "When this is unchecked, no device automounting of any kind will        *)
(* happen" (doc/kcontrol/solid-device-automounter/index.docbook): once     *)
(* kded has heard of it, no mount is asked for, override or not.           *)
(***************************************************************************)
NoMountWhenDisabled ==
    [][~mounting /\ mounting' => options.enabled \/ order = "unload"]_vars
=============================================================================
