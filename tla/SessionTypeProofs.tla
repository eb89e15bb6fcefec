------------------------- MODULE SessionTypeProofs -------------------------
(***************************************************************************)
(* Proofs about what the parts of a session keep in range, for all values  *)
(* of the constants, and about the rows of the activity switcher: that     *)
(* they are sorted, and that the activity that was left is the next one.   *)
(***************************************************************************)
EXTENDS SessionProofs, TouchpadProofs, FiniteSetTheorems, WellFoundedInduction

-----------------------------------------------------------------------------
(***************************************************************************)
(* The automounter.                                                        *)
(***************************************************************************)
\* A group is some of the entries with a value each.
LEMMA GroupsAre ==
    /\ \A g : g \in Automount!Groups
                  <=> \E es \in SUBSET Automount!Entries : g \in [es -> BOOLEAN]
    /\ Automount!NoGroup \in Automount!Groups
    /\ DOMAIN Automount!NoGroup = {}
<1>1. \A g : g \in Automount!Groups
                 <=> \E es \in SUBSET Automount!Entries : g \in [es -> BOOLEAN]
  BY DEF Automount!Groups
<1>2. Automount!NoGroup \in [{} -> BOOLEAN] /\ DOMAIN Automount!NoGroup = {}
  BY DEF Automount!NoGroup
<1>3. {} \in SUBSET Automount!Entries
  OBVIOUS
<1> QED
  BY <1>1, <1>2, <1>3

\* A function on some of the entries whose values are Boolean is a group.
LEMMA IsGroup ==
    ASSUME NEW es \in SUBSET Automount!Entries, NEW g \in [es -> BOOLEAN]
    PROVE  g \in Automount!Groups
  BY GroupsAre

\* What KConfig reads, writes and saves are groups.
LEMMA WrittenIsGroup ==
    ASSUME NEW g \in Automount!Groups, NEW values \in Automount!Groups
    PROVE  /\ Automount!Write(g, values) \in Automount!Groups
           /\ DOMAIN Automount!Write(g, values) = DOMAIN g \cup DOMAIN values
<1>1. PICK es \in SUBSET Automount!Entries : g \in [es -> BOOLEAN]
  BY GroupsAre
<1>2. PICK vs \in SUBSET Automount!Entries : values \in [vs -> BOOLEAN]
  BY GroupsAre
<1>3. Automount!Write(g, values) \in [es \cup vs -> BOOLEAN]
  BY <1>1, <1>2 DEF Automount!Write
<1>4. es \cup vs \in SUBSET Automount!Entries
  OBVIOUS
<1> QED
  BY <1>1, <1>2, <1>3, <1>4, IsGroup

LEMMA SavedIsGroup ==
    ASSUME NEW disk \in Automount!Groups, NEW before \in Automount!Groups,
           NEW after \in Automount!Groups
    PROVE  Automount!Synced(disk, before, after) \in Automount!Groups
<1>1. PICK ds \in SUBSET Automount!Entries : disk \in [ds -> BOOLEAN]
  BY GroupsAre
<1>2. PICK as \in SUBSET Automount!Entries : after \in [as -> BOOLEAN]
  BY GroupsAre
<1> DEFINE changed == {e \in DOMAIN after : e \notin DOMAIN before \/ before[e] # after[e]}
           kept == (DOMAIN disk \ (DOMAIN before \ DOMAIN after)) \cup changed
<1>3. Automount!Synced(disk, before, after)
          = [e \in kept |-> IF e \in changed THEN after[e] ELSE disk[e]]
  BY DEF Automount!Synced
<1>4. changed \subseteq as /\ kept \subseteq ds \cup as /\ kept \ changed \subseteq ds
  BY <1>1, <1>2
<1> HIDE DEF changed, kept
<1>5. Automount!Synced(disk, before, after) \in [kept -> BOOLEAN]
  BY <1>1, <1>2, <1>3, <1>4
<1>6. kept \in SUBSET Automount!Entries
  BY <1>4
<1> QED
  BY <1>5, <1>6, IsGroup

\* A record with some of the entries as its fields.
LEMMA RecordIsGroup ==
    ASSUME NEW r, DOMAIN r \in SUBSET Automount!Entries, r = [e \in DOMAIN r |-> r[e]],
           \A e \in DOMAIN r : r[e] \in BOOLEAN
    PROVE  r \in Automount!Groups
<1>1. PICK es : es = DOMAIN r
  OBVIOUS
<1>2. r \in [es -> BOOLEAN]
  BY <1>1
<1> QED
  BY <1>1, <1>2, IsGroup

LEMMA SeenIsGroup ==
    ASSUME NEW isMounted \in BOOLEAN
    PROVE  Automount!Seen(isMounted) \in Automount!Groups
<1>1. PICK mountedOne : mountedOne = [ever |-> TRUE, last |-> TRUE]
  OBVIOUS
<1>2. PICK unseen : unseen = [last |-> FALSE]
  OBVIOUS
<1>3. mountedOne = [e \in DOMAIN mountedOne |-> mountedOne[e]] /\ unseen = [e \in DOMAIN unseen |-> unseen[e]]
  BY <1>1, <1>2
<1>4. DOMAIN mountedOne = {"ever", "last"} /\ DOMAIN unseen = {"last"}
  BY <1>1, <1>2
<1>5. mountedOne["ever"] = TRUE /\ mountedOne["last"] = TRUE /\ unseen["last"] = FALSE
  BY <1>1, <1>2
<1>6. \A e \in DOMAIN mountedOne : mountedOne[e] \in BOOLEAN
  BY <1>4, <1>5
<1>7. \A e \in DOMAIN unseen : unseen[e] \in BOOLEAN
  BY <1>4, <1>5
<1>8. {"ever", "last"} \in SUBSET Automount!Entries /\ {"last"} \in SUBSET Automount!Entries
  BY DEF Automount!Entries
<1>9. mountedOne \in Automount!Groups
  BY <1>3, <1>4, <1>6, <1>8, RecordIsGroup
<1>10. unseen \in Automount!Groups
  BY <1>3, <1>4, <1>7, <1>8, RecordIsGroup
<1> QED
  BY <1>1, <1>2, <1>9, <1>10 DEF Automount!Seen

\* The box of a device that comes while the page is open.
LEMMA LoginBoxIsGroup ==
    ASSUME NEW v \in BOOLEAN
    PROVE  /\ [login |-> v] \in Automount!Groups
           /\ DOMAIN [login |-> v] \subseteq Automount!Boxes
<1>1. PICK box : box = [login |-> v]
  OBVIOUS
<1>2. box = [e \in DOMAIN box |-> box[e]] /\ DOMAIN box = {"login"} /\ box["login"] = v
  BY <1>1
<1>3. {"login"} \in SUBSET Automount!Entries /\ {"login"} \subseteq Automount!Boxes
  BY DEF Automount!Entries, Automount!Boxes
<1>4. box \in Automount!Groups
  BY <1>2, <1>3, RecordIsGroup
<1> QED
  BY <1>1, <1>2, <1>3, <1>4

\* What is read of a group is a Boolean, and of the boxes a group.
LEMMA BoxesAreGroups ==
    ASSUME NEW g \in Automount!Groups
    PROVE  /\ \A e : Automount!Reads(g, e) \in BOOLEAN
           /\ \A bs \in SUBSET Automount!Boxes :
                  /\ [b \in bs |-> Automount!Reads(g, b)] \in Automount!Groups
                  /\ [b \in bs |-> ~Automount!Reads(g, b)] \in Automount!Groups
<1>1. PICK es \in SUBSET Automount!Entries : g \in [es -> BOOLEAN]
  BY GroupsAre
<1>2. ASSUME NEW e PROVE Automount!Reads(g, e) \in BOOLEAN
  BY <1>1 DEF Automount!Reads
<1>3. ASSUME NEW bs \in SUBSET Automount!Boxes
      PROVE  /\ [b \in bs |-> Automount!Reads(g, b)] \in Automount!Groups
             /\ [b \in bs |-> ~Automount!Reads(g, b)] \in Automount!Groups
  <2>1. bs \in SUBSET Automount!Entries
    BY DEF Automount!Entries
  <2>2. [b \in bs |-> Automount!Reads(g, b)] \in [bs -> BOOLEAN]
    BY <1>2
  <2>3. [b \in bs |-> ~Automount!Reads(g, b)] \in [bs -> BOOLEAN]
    BY <1>2
  <2> QED
    BY <2>1, <2>2, <2>3, IsGroup
<1> QED
  BY <1>2, <1>3

Notes == {"added", "removed", "mounted", "unmounted"}

\* What the fields are: the settings, the daemon, the page, the device.
SettingsInRange == options \in Options /\ file \in Automount!Groups
DaemonInRange ==
    /\ daemonCopy \in Automount!Groups
    /\ running \in BOOLEAN /\ watched \in BOOLEAN
    /\ order \in {"load", "unload", "none"}
PageInRange ==
    /\ pageCopy \in Automount!Groups
    /\ pageOpen \in BOOLEAN /\ row \in {"attached", "detached", "none"}
    /\ boxes \in Automount!Groups /\ DOMAIN boxes \subseteq Automount!Boxes
DeviceInRange ==
    /\ plugged \in BOOLEAN /\ mounted \in BOOLEAN /\ mounting \in BOOLEAN
    /\ mounted \/ mounting => plugged
NotesInRange == toDaemon \in Seq(Notes) /\ toPage \in Seq(Notes)

LEMMA AutomountTypes ==
    Automount!TypeOK <=> /\ SettingsInRange /\ DaemonInRange /\ PageInRange
                         /\ DeviceInRange /\ NotesInRange
<1>1. Automount!TypeOK => /\ SettingsInRange /\ DaemonInRange /\ PageInRange
                          /\ DeviceInRange /\ NotesInRange
  BY DEF Automount!TypeOK, SettingsInRange, DaemonInRange, PageInRange, DeviceInRange,
     NotesInRange, Notes
<1>2. /\ SettingsInRange /\ DaemonInRange /\ PageInRange
      /\ DeviceInRange /\ NotesInRange
      => Automount!TypeOK
  BY DEF Automount!TypeOK, SettingsInRange, DaemonInRange, PageInRange, DeviceInRange,
     NotesInRange, Notes
<1> QED
  BY <1>1, <1>2

\* A queue that is empty, got a note, or lost its first one.
LEMMA NotesStay ==
    ASSUME NEW q \in Seq(Notes), NEW note \in Notes
    PROVE  /\ <<>> \in Seq(Notes) /\ Append(q, note) \in Seq(Notes)
           /\ q # <<>> => Tail(q) \in Seq(Notes) /\ Head(q) \in Notes
<1>1. <<>> \in Seq(Notes)
  OBVIOUS
<1>2. Append(q, note) \in Seq(Notes)
  OBVIOUS
<1>3. q # <<>> => Tail(q) \in Seq(Notes) /\ Head(q) \in Notes
  OBVIOUS
<1> QED
  BY <1>1, <1>2, <1>3

\* A device that is seen is written to the file, and perhaps mounted.
LEMMA DeviceSeen ==
    ASSUME NEW copy \in Automount!Groups, file \in Automount!Groups, NEW type,
           NEW isMounted \in BOOLEAN, Automount!AutomountDevice(copy, type, isMounted)
    PROVE  /\ daemonCopy' \in Automount!Groups /\ file' \in Automount!Groups
           /\ mounting' \in BOOLEAN /\ watched' \in BOOLEAN
<1>1. PICK after : after = Automount!Write(copy, Automount!Seen(isMounted))
  OBVIOUS
<1>2. after \in Automount!Groups
  BY <1>1, SeenIsGroup, WrittenIsGroup
<1>3. daemonCopy' = after /\ file' = Automount!Synced(file, copy, after) /\ watched' = TRUE
  BY <1>1 DEF Automount!AutomountDevice
<1>4. mounting' \in BOOLEAN
  BY DEF Automount!AutomountDevice
<1> QED
  BY <1>2, <1>3, <1>4, SavedIsGroup

\* The daemon begins.
LEMMA DaemonInRangeAtStart ==
    ASSUME SettingsInRange, mounting \in BOOLEAN, NEW isMounted \in BOOLEAN,
           Automount!StartDaemon(isMounted)
    PROVE  /\ daemonCopy' \in Automount!Groups /\ file' \in Automount!Groups
           /\ running' \in BOOLEAN /\ watched' \in BOOLEAN /\ mounting' \in BOOLEAN
           /\ mounting' => plugged \/ mounting
<1>1. options.enabled \in BOOLEAN /\ file \in Automount!Groups
  BY AutomountAssumption DEF SettingsInRange, Automount!OptionsAssumption
<1>2. CASE options.enabled /\ plugged
  BY <1>1, <1>2, DeviceSeen DEF Automount!StartDaemon
<1>3. CASE ~(options.enabled /\ plugged)
  BY <1>1, <1>3 DEF Automount!StartDaemon
<1> QED
  BY <1>2, <1>3

\* One step for each action of the daemon, the page and the device.
LEMMA AutomountTypeStep == Automount!TypeOK /\ Automount!Next => Automount!TypeOK'
<1> SUFFICES ASSUME Automount!TypeOK, Automount!Next PROVE Automount!TypeOK'
  OBVIOUS
<1>1. /\ SettingsInRange /\ DaemonInRange /\ PageInRange
      /\ DeviceInRange /\ NotesInRange
  BY AutomountTypes
<1>2. ASSUME SettingsInRange', DaemonInRange', PageInRange', DeviceInRange', NotesInRange'
      PROVE  Automount!TypeOK'
  BY <1>2 DEF Automount!TypeOK, SettingsInRange, DaemonInRange, PageInRange, DeviceInRange,
     NotesInRange, Notes
<1>3. Automount!NoGroup \in Automount!Groups /\ DOMAIN Automount!NoGroup \subseteq Automount!Boxes
  BY GroupsAre
<1>s. UNCHANGED Automount!settingsVars => SettingsInRange'
  BY <1>1 DEF SettingsInRange, Automount!settingsVars
<1>d. UNCHANGED Automount!daemonVars => DaemonInRange'
  BY <1>1 DEF DaemonInRange, Automount!daemonVars
<1>p. UNCHANGED Automount!pageVars => PageInRange'
  BY <1>1 DEF PageInRange, Automount!pageVars
<1>v. UNCHANGED <<plugged, mounted, mounting>> => DeviceInRange'
  BY <1>1 DEF DeviceInRange
<1>n. ASSUME NEW q, q = toDaemon \/ q = toPage
      PROVE  /\ q \in Seq(Notes) /\ <<>> \in Seq(Notes)
             /\ \A note \in Notes : Append(q, note) \in Seq(Notes)
             /\ q # <<>> => Tail(q) \in Seq(Notes) /\ Head(q) \in Notes
  BY <1>1, <1>n, NotesStay DEF NotesInRange, Notes
<1>4. CASE Automount!PlugIn \/ Automount!PullOut
  <2>1. NotesInRange'
    BY <1>n, <1>4 DEF Automount!PlugIn, Automount!PullOut, Automount!Tell, NotesInRange, Notes
  <2>2. DeviceInRange'
    BY <1>1, <1>4 DEF Automount!PlugIn, Automount!PullOut, DeviceInRange
  <2> QED
    BY <1>2, <1>s, <1>d, <1>p, <1>4, <2>1, <2>2 DEF Automount!PlugIn, Automount!PullOut
<1>5. ASSUME NEW v \in BOOLEAN, Automount!Mounts(v) PROVE Automount!TypeOK'
  <2>1. NotesInRange'
    BY <1>n, <1>5 DEF Automount!Mounts, NotesInRange, Notes
  <2>2. DeviceInRange'
    BY <1>1, <1>5 DEF Automount!Mounts, DeviceInRange
  <2> QED
    BY <1>2, <1>s, <1>d, <1>p, <1>5, <2>1, <2>2 DEF Automount!Mounts
<1>6. CASE Automount!MountFails
  <2>1. NotesInRange'
    BY <1>n, <1>6 DEF Automount!MountFails, NotesInRange
  <2>2. DeviceInRange'
    BY <1>1, <1>6 DEF Automount!MountFails, DeviceInRange
  <2> QED
    BY <1>2, <1>s, <1>d, <1>p, <1>6, <2>1, <2>2 DEF Automount!MountFails
<1>7. CASE Automount!ObeyPage
  <2>1. NotesInRange'
    BY <1>n, <1>7 DEF Automount!ObeyPage, NotesInRange
  <2>2. /\ order' = "none" /\ options' = options /\ plugged' = plugged /\ mounted' = mounted
        /\ UNCHANGED Automount!pageVars
    BY <1>7 DEF Automount!ObeyPage
  <2>3. CASE UNCHANGED <<running, watched, daemonCopy, file, mounting>>
    BY <1>1, <1>2, <1>p, <2>1, <2>2, <2>3 DEF SettingsInRange, DaemonInRange, DeviceInRange
  <2>4. CASE Automount!StartDaemon(mounted)
    <3>1. /\ daemonCopy' \in Automount!Groups /\ file' \in Automount!Groups
          /\ running' \in BOOLEAN /\ watched' \in BOOLEAN /\ mounting' \in BOOLEAN
          /\ mounting' => plugged \/ mounting
      BY <1>1, <2>4, DaemonInRangeAtStart DEF DeviceInRange
    <3> QED
      BY <1>1, <1>2, <1>p, <2>1, <2>2, <3>1 DEF SettingsInRange, DaemonInRange, DeviceInRange
  <2>5. CASE running' = FALSE /\ watched' = FALSE /\ UNCHANGED <<daemonCopy, file, mounting>>
    BY <1>1, <1>2, <1>p, <2>1, <2>2, <2>5 DEF SettingsInRange, DaemonInRange, DeviceInRange
  <2> QED
    BY <1>7, <2>3, <2>4, <2>5 DEF Automount!ObeyPage
<1>8. CASE Automount!DeviceAdded
  <2>1. NotesInRange'
    BY <1>n, <1>8 DEF Automount!DeviceAdded, NotesInRange
  <2>2. UNCHANGED <<options, running, order, plugged, mounted>> /\ UNCHANGED Automount!pageVars
    BY <1>8 DEF Automount!DeviceAdded
  <2>3. CASE plugged
    <3>1. Automount!AutomountDevice(file, "attach", mounted)
      BY <1>8, <2>3 DEF Automount!DeviceAdded
    <3>2. /\ daemonCopy' \in Automount!Groups /\ file' \in Automount!Groups
          /\ mounting' \in BOOLEAN /\ watched' \in BOOLEAN
      BY <1>1, <3>1, DeviceSeen DEF SettingsInRange, DeviceInRange
    <3> QED
      BY <1>1, <1>2, <1>p, <2>1, <2>2, <2>3, <3>2 DEF SettingsInRange, DaemonInRange, DeviceInRange
  <2>4. CASE ~plugged
    <3>1. daemonCopy' = file /\ UNCHANGED <<file, mounting, watched>>
      BY <1>8, <2>4 DEF Automount!DeviceAdded
    <3> QED
      BY <1>1, <1>2, <1>p, <2>1, <2>2, <3>1 DEF SettingsInRange, DaemonInRange, DeviceInRange
  <2> QED
    BY <2>3, <2>4
<1>9. CASE Automount!DeviceMountChanged
  <2>1. NotesInRange'
    BY <1>n, <1>9 DEF Automount!DeviceMountChanged, NotesInRange
  <2>2. /\ UNCHANGED <<options, running, watched, order, plugged, mounted, mounting>>
        /\ UNCHANGED Automount!pageVars
    BY <1>9 DEF Automount!DeviceMountChanged
  <2>3. daemonCopy' \in Automount!Groups /\ file' \in Automount!Groups
    <3>1. PICK after : after = Automount!Write(daemonCopy, Automount!Seen(Head(toDaemon) = "mounted"))
      OBVIOUS
    <3>2. after \in Automount!Groups
      BY <1>1, <3>1, SeenIsGroup, WrittenIsGroup DEF DaemonInRange
    <3>3. \/ daemonCopy' = after /\ file' = Automount!Synced(file, daemonCopy, after)
          \/ UNCHANGED <<daemonCopy, file>>
      BY <1>9, <3>1 DEF Automount!DeviceMountChanged
    <3> QED
      BY <1>1, <3>2, <3>3, SavedIsGroup DEF DaemonInRange, SettingsInRange
  <2> QED
    BY <1>1, <1>2, <1>p, <1>v, <2>1, <2>2, <2>3 DEF SettingsInRange, DaemonInRange
<1>10. CASE Automount!DeviceGone
  <2>1. NotesInRange'
    BY <1>n, <1>10 DEF Automount!DeviceGone, NotesInRange
  <2>2. DaemonInRange'
    BY <1>1, <1>10 DEF Automount!DeviceGone, DaemonInRange
  <2> QED
    BY <1>2, <1>s, <1>p, <1>v, <1>10, <2>1, <2>2 DEF Automount!DeviceGone
<1>11. CASE Automount!ShowPage
  <2>1. boxes' \in Automount!Groups /\ DOMAIN boxes' \subseteq Automount!Boxes
    BY <1>1, <1>3, <1>11, BoxesAreGroups DEF Automount!ShowPage, SettingsInRange
  <2>2. PageInRange'
    BY <1>1, <1>11, <2>1 DEF Automount!ShowPage, PageInRange, SettingsInRange
  <2>3. NotesInRange'
    BY <1>n, <1>11 DEF Automount!ShowPage, Automount!deviceVars, NotesInRange
  <2> QED
    BY <1>2, <1>s, <1>d, <1>v, <1>11, <2>2, <2>3 DEF Automount!ShowPage, Automount!deviceVars
<1>12. CASE Automount!ClosePage
  <2>1. NotesInRange'
    BY <1>n, <1>12 DEF Automount!ClosePage, NotesInRange
  <2>2. PageInRange'
    BY <1>3, <1>12 DEF Automount!ClosePage, PageInRange
  <2> QED
    BY <1>2, <1>s, <1>d, <1>v, <1>12, <2>1, <2>2 DEF Automount!ClosePage
<1>13. CASE Automount!PageDeviceAttached
  <2>1. NotesInRange'
    BY <1>n, <1>13 DEF Automount!PageDeviceAttached, NotesInRange
  <2>2. /\ Automount!NewBoxes(file) \in Automount!Groups
        /\ DOMAIN Automount!NewBoxes(file) \subseteq Automount!Boxes
    <3>1. /\ Automount!Reads(file, "login") \in BOOLEAN
          /\ Automount!Reads(file, "attach") \in BOOLEAN
      BY <1>1, BoxesAreGroups DEF SettingsInRange
    <3> DEFINE ticked == [login |-> Automount!Reads(file, "login")]
               misread == [login |-> Automount!Reads(file, "attach")]
    <3>2. /\ ticked \in Automount!Groups /\ DOMAIN ticked \subseteq Automount!Boxes
          /\ misread \in Automount!Groups /\ DOMAIN misread \subseteq Automount!Boxes
      BY <3>1, LoginBoxIsGroup
    <3>3. \/ Automount!NewBoxes(file) = boxes
          \/ Automount!NewBoxes(file) = Automount!Write(boxes, ticked)
          \/ Automount!NewBoxes(file) = Automount!Write(boxes, misread)
      BY DEF Automount!NewBoxes
    <3> HIDE DEF ticked, misread
    <3> QED
      BY <1>1, <3>2, <3>3, WrittenIsGroup DEF PageInRange
  <2>3. PageInRange'
    BY <1>1, <1>13, <2>2 DEF Automount!PageDeviceAttached, PageInRange, SettingsInRange
  <2> QED
    BY <1>2, <1>s, <1>d, <1>v, <1>13, <2>1, <2>3 DEF Automount!PageDeviceAttached
<1>14. CASE Automount!PageDeviceRemoved
  <2>1. NotesInRange'
    BY <1>n, <1>14 DEF Automount!PageDeviceRemoved, NotesInRange
  <2>2. PageInRange'
    BY <1>1, <1>14 DEF Automount!PageDeviceRemoved, PageInRange
  <2> QED
    BY <1>2, <1>s, <1>d, <1>v, <1>14, <2>1, <2>2 DEF Automount!PageDeviceRemoved
<1>15. ASSUME NEW b \in Automount!Boxes, Automount!Tick(b) PROVE Automount!TypeOK'
  <2>1. {b} \in SUBSET Automount!Boxes
    OBVIOUS
  <2>2. PICK ticked : ticked = [c \in {b} |-> ~Automount!Reads(boxes, b)]
    OBVIOUS
  <2>3. ticked = [c \in {b} |-> ~Automount!Reads(boxes, c)]
    BY <2>2
  <2>4. ticked \in Automount!Groups /\ DOMAIN ticked \subseteq Automount!Boxes
    BY <1>1, <2>1, <2>3, BoxesAreGroups DEF PageInRange
  <2>5. boxes' = Automount!Write(boxes, ticked)
    BY <1>15, <2>2 DEF Automount!Tick
  <2>6. boxes' \in Automount!Groups /\ DOMAIN boxes' \subseteq Automount!Boxes
    BY <1>1, <2>4, <2>5, WrittenIsGroup DEF PageInRange
  <2>7. PageInRange'
    BY <1>1, <1>15, <2>6 DEF Automount!Tick, PageInRange
  <2>8. NotesInRange'
    BY <1>n, <1>15 DEF Automount!Tick, Automount!deviceVars, NotesInRange
  <2> QED
    BY <1>2, <1>s, <1>d, <1>v, <1>15, <2>7, <2>8 DEF Automount!Tick, Automount!deviceVars
<1>16. CASE Automount!ForgetDevice
  <2>1. NotesInRange'
    BY <1>n, <1>16 DEF Automount!ForgetDevice, Automount!deviceVars, NotesInRange
  <2>2. PageInRange'
    BY <1>1, <1>3, <1>16 DEF Automount!ForgetDevice, PageInRange
  <2> QED
    BY <1>2, <1>s, <1>d, <1>v, <1>16, <2>1, <2>2 DEF Automount!ForgetDevice, Automount!deviceVars
<1>17. ASSUME NEW o \in Options, Automount!SavePage(o) PROVE Automount!TypeOK'
  <2>1. PICK saved : saved = Automount!KeptByPage
    OBVIOUS
  <2>2. PICK ticks : ticks = [b \in Automount!Boxes |-> Automount!Reads(boxes, b)]
    OBVIOUS
  <2>3. ticks \in Automount!Groups
    BY <1>1, <2>2, BoxesAreGroups DEF PageInRange
  <2>4. saved = Automount!Write(pageCopy, ticks) \/ saved = Automount!NoGroup
    BY <2>1, <2>2 DEF Automount!KeptByPage
  <2>5. saved \in Automount!Groups
    BY <1>1, <1>3, <2>3, <2>4, WrittenIsGroup DEF PageInRange
  <2>6. pageCopy' = saved /\ file' = Automount!Synced(file, pageCopy, saved) /\ options' = o
    BY <1>17, <2>1 DEF Automount!SavePage
  <2>7. SettingsInRange'
    BY <1>1, <2>5, <2>6, SavedIsGroup DEF SettingsInRange, PageInRange
  <2>8. PageInRange'
    BY <1>1, <1>17, <2>5, <2>6 DEF Automount!SavePage, PageInRange
  <2>9. DaemonInRange'
    BY <1>1, <1>17 DEF Automount!SavePage, DaemonInRange
  <2>10. NotesInRange'
    BY <1>n, <1>17 DEF Automount!SavePage, Automount!deviceVars, NotesInRange
  <2> QED
    BY <1>2, <1>v, <1>17, <2>7, <2>8, <2>9, <2>10 DEF Automount!SavePage, Automount!deviceVars
<1>18. CASE Automount!AnotherDevice
  <2>1. NotesInRange'
    BY <1>n, <1>18 DEF Automount!AnotherDevice, Automount!deviceVars, NotesInRange
  <2>2. PageInRange' /\ DaemonInRange'
    BY <1>1, <1>18 DEF Automount!AnotherDevice, PageInRange, DaemonInRange, SettingsInRange
  <2> QED
    BY <1>2, <1>s, <1>v, <1>18, <2>1, <2>2 DEF Automount!AnotherDevice, Automount!deviceVars
<1>19. CASE Automount!Login
  <2>1. NotesInRange'
    BY <1>n, <1>19 DEF Automount!Login, NotesInRange
  <2>a. (mounted' = mounted \/ mounted' = FALSE) /\ ~mounting
    BY <1>1, <1>19 DEF Automount!Login, DeviceInRange
  <2>b. plugged' = plugged /\ order' = "none" /\ options' = options
    BY <1>19 DEF Automount!Login
  <2>c. mounted \in BOOLEAN /\ (mounted => plugged)
    BY <1>1 DEF DeviceInRange
  <2>d. mounted' \in BOOLEAN
    BY <2>a, <2>c
  <2>e. mounted' => mounted
    BY <2>a
  <2>2. mounted' \in BOOLEAN /\ (mounted' => plugged)
    BY Zenon, <2>c, <2>d, <2>e
  <2>3. Automount!StartDaemon(mounted')
    BY <1>19 DEF Automount!Login
  <2>4. /\ daemonCopy' \in Automount!Groups /\ file' \in Automount!Groups
        /\ running' \in BOOLEAN /\ watched' \in BOOLEAN /\ mounting' \in BOOLEAN
        /\ mounting' => plugged \/ mounting
    BY <1>1, <2>a, <2>2, <2>3, DaemonInRangeAtStart DEF DeviceInRange
  <2>5. PageInRange'
    BY <1>3, <1>19 DEF Automount!Login, PageInRange
  <2> QED
    BY <1>1, <1>2, <2>1, <2>a, <2>b, <2>2, <2>4, <2>5 DEF SettingsInRange, DaemonInRange, DeviceInRange
<1> QED
  BY <1>4, <1>5, <1>6, <1>7, <1>8, <1>9, <1>10, <1>11, <1>12, <1>13, <1>14, <1>15, <1>16,
     <1>17, <1>18, <1>19 DEF Automount!Next

LEMMA AutomountTypesStart == Automount!Init => Automount!TypeOK
<1> SUFFICES ASSUME Automount!Init PROVE Automount!TypeOK
  OBVIOUS
<1>1. options \in Options /\ options.enabled \in BOOLEAN
  BY AutomountAssumption DEF Automount!Init, Automount!OptionsAssumption
<1>2. Automount!NoGroup \in Automount!Groups /\ DOMAIN Automount!NoGroup \subseteq Automount!Boxes
  BY GroupsAre
<1>3. SettingsInRange /\ DaemonInRange /\ PageInRange
  BY <1>1, <1>2 DEF Automount!Init, SettingsInRange, DaemonInRange, PageInRange
<1>4. DeviceInRange
  BY DEF Automount!Init, DeviceInRange
<1>5. <<>> \in Seq(Notes)
  OBVIOUS
<1>6. NotesInRange
  BY <1>5 DEF Automount!Init, NotesInRange
<1> QED
  BY <1>3, <1>4, <1>6, AutomountTypes

-----------------------------------------------------------------------------
(***************************************************************************)
(* The order of the rows.                                                  *)
(***************************************************************************)
\* The switcher's finite sets are those of the theorems about finite sets.
LEMMA SameFiniteSets ==
    /\ \A S : Switcher!IsFiniteSet(S) <=> IsFiniteSet(S)
    /\ \A S : Switcher!Cardinality(S) = Cardinality(S)
<1>1. \A S : Switcher!IsFiniteSet(S) <=> IsFiniteSet(S)
  BY DEF IsFiniteSet, Switcher!IsFiniteSet
<1>2. \A S : Switcher!Cardinality(S) = Cardinality(S)
  BY Zenon DEF Cardinality, Switcher!Cardinality
<1> QED
  BY <1>1, <1>2

\* lessThan is a strict order of the activities that compares any two.
LEMMA BeforeIsAnOrder ==
    ASSUME NEW cur \in Activities, NEW used, Switcher!Times(used)
    PROVE  /\ \A a \in Activities : ~Switcher!Before(cur, used, a, a)
           /\ \A a, b, c \in Activities :
                  Switcher!Before(cur, used, a, b) /\ Switcher!Before(cur, used, b, c)
                      => Switcher!Before(cur, used, a, c)
           /\ \A a, b \in Activities :
                  a # b => Switcher!Before(cur, used, a, b) \/ Switcher!Before(cur, used, b, a)
<1>1. \A a \in Activities : a \in Nat
  BY SwitcherAssumption DEF Switcher!BoundsAssumption
<1>2. \A a, b, c \in Activities :
          <<a, b>> \in used => <<b, a>> \notin used /\ (<<a, c>> \in used \/ <<c, b>> \in used)
  BY DEF Switcher!Times
<1>3. \A a \in Activities : ~Switcher!Before(cur, used, a, a)
  BY <1>1, <1>2 DEF Switcher!Before
<1>4. ASSUME NEW a \in Activities, NEW b \in Activities, NEW c \in Activities,
             Switcher!Before(cur, used, a, b), Switcher!Before(cur, used, b, c)
      PROVE  Switcher!Before(cur, used, a, c)
  BY <1>1, <1>2, <1>4 DEF Switcher!Before
<1>5. ASSUME NEW a \in Activities, NEW b \in Activities, a # b
      PROVE  Switcher!Before(cur, used, a, b) \/ Switcher!Before(cur, used, b, a)
  BY <1>1, <1>2, <1>5 DEF Switcher!Before
<1> QED
  BY <1>3, <1>4, <1>5

\* How many are above an activity.
HowManyAbove(cur, used) == [a \in Activities |-> Cardinality(Switcher!Above(cur, used, a))]

\* Each activity has another number of activities above it, from none to all
\* others, so that there is one for every row.
LEMMA OneForEveryRow ==
    ASSUME NEW cur \in Activities, NEW used, Switcher!Times(used)
    PROVE  /\ Cardinality(Activities) \in Nat \ {0}
           /\ HowManyAbove(cur, used) \in [Activities -> 0 .. Cardinality(Activities) - 1]
           /\ \A a, b \in Activities :
                  HowManyAbove(cur, used)[a] = HowManyAbove(cur, used)[b] => a = b
           /\ \A i \in 0 .. Cardinality(Activities) - 1 :
                  \E a \in Activities : HowManyAbove(cur, used)[a] = i
<1> DEFINE n == Cardinality(Activities)
           above(a) == Switcher!Above(cur, used, a)
           f == HowManyAbove(cur, used)
<1>1. IsFiniteSet(Activities) /\ Activities # {}
  BY SameFiniteSets, SwitcherAssumption DEF Switcher!BoundsAssumption
<1>2. n \in Nat \ {0}
  BY <1>1, FS_CardinalityType, FS_EmptySet
<1>3. \A a \in Activities : above(a) \in SUBSET Activities
  BY DEF Switcher!Above
<1>4. \A a \in Activities : IsFiniteSet(above(a)) /\ Cardinality(above(a)) \in Nat
  BY <1>1, <1>3, FS_Subset, FS_CardinalityType
<1>5. ASSUME NEW a \in Activities PROVE Cardinality(above(a)) \in 0 .. n - 1
  <2>1. a \notin above(a)
    BY BeforeIsAnOrder DEF Switcher!Above
  <2>2. Cardinality(above(a)) <= n /\ (n = Cardinality(above(a)) => Activities = above(a))
    BY <1>1, <1>3, FS_Subset
  <2> QED
    BY <1>2, <1>4, <2>1, <2>2
<1>6. f \in [Activities -> 0 .. n - 1]
  BY <1>5 DEF HowManyAbove
<1>7. ASSUME NEW a \in Activities, NEW b \in Activities, Switcher!Before(cur, used, a, b)
      PROVE  Cardinality(above(a)) < Cardinality(above(b))
  <2>1. above(a) \in SUBSET above(b)
    BY <1>7, BeforeIsAnOrder DEF Switcher!Above
  <2>2. a \in above(b) /\ a \notin above(a)
    BY <1>7, BeforeIsAnOrder DEF Switcher!Above
  <2>3. /\ Cardinality(above(a)) <= Cardinality(above(b))
        /\ Cardinality(above(b)) = Cardinality(above(a)) => above(b) = above(a)
    BY <1>4, <2>1, FS_Subset
  <2> HIDE DEF above
  <2> QED
    BY <1>4, <2>2, <2>3
<1>8. ASSUME NEW a \in Activities, NEW b \in Activities, f[a] = f[b]
      PROVE  a = b
  <2>1. Cardinality(above(a)) = Cardinality(above(b))
    BY <1>8 DEF HowManyAbove
  <2>2. a # b => Switcher!Before(cur, used, a, b) \/ Switcher!Before(cur, used, b, a)
    BY BeforeIsAnOrder
  <2> HIDE DEF above
  <2> QED
    BY <1>4, <1>7, <2>1, <2>2
<1>9. f \in Injection(Activities, 0 .. n - 1)
  BY <1>6, <1>8 DEF Injection, IsInjective
<1>10. IsFiniteSet(0 .. n - 1) /\ Cardinality(0 .. n - 1) = n
  BY <1>2, FS_Interval
<1> HIDE DEF f, n
<1>11. f \in Surjection(Activities, 0 .. n - 1)
  BY <1>9, <1>10, FS_Injection DEF n
<1>12. \A i \in 0 .. n - 1 : \E a \in Activities : f[a] = i
  BY <1>11 DEF Surjection
<1> QED
  BY <1>2, <1>6, <1>8, <1>12 DEF f, n

\* The rows hold every activity once, each below those that come before it.
LEMMA RowsAreSorted ==
    ASSUME NEW cur \in Activities, NEW used, Switcher!Times(used)
    PROVE  /\ Switcher!Sorted(cur, used) \in [1 .. Cardinality(Activities) -> Activities]
           /\ \A i \in 1 .. Cardinality(Activities) :
                  HowManyAbove(cur, used)[Switcher!Sorted(cur, used)[i]] = i - 1
           /\ \A a \in Activities :
                  /\ HowManyAbove(cur, used)[a] + 1 \in 1 .. Cardinality(Activities)
                  /\ Switcher!Sorted(cur, used)[HowManyAbove(cur, used)[a] + 1] = a
<1> DEFINE n == Cardinality(Activities)
           f == HowManyAbove(cur, used)
           rows_ == Switcher!Sorted(cur, used)
<1>1. /\ n \in Nat \ {0} /\ f \in [Activities -> 0 .. n - 1]
      /\ \A a, b \in Activities : f[a] = f[b] => a = b
      /\ \A i \in 0 .. n - 1 : \E a \in Activities : f[a] = i
  BY OneForEveryRow
<1>2. rows_ = [i \in 1 .. n |-> CHOOSE a \in Activities : f[a] = i - 1]
  BY SameFiniteSets DEF Switcher!Sorted, HowManyAbove
<1> HIDE DEF f, n, rows_
<1>3. ASSUME NEW i \in 1 .. n PROVE rows_[i] \in Activities /\ f[rows_[i]] = i - 1
  <2>1. i - 1 \in 0 .. n - 1
    BY <1>1
  <2>2. \E a \in Activities : f[a] = i - 1
    BY <1>1, <2>1
  <2>3. rows_[i] = CHOOSE a \in Activities : f[a] = i - 1
    BY <1>2
  <2> QED
    BY <2>2, <2>3
<1>4. rows_ \in [1 .. n -> Activities]
  BY <1>2, <1>3
<1>5. ASSUME NEW a \in Activities PROVE f[a] + 1 \in 1 .. n /\ rows_[f[a] + 1] = a
  <2>1. f[a] \in 0 .. n - 1
    BY <1>1
  <2>2. f[a] + 1 \in 1 .. n /\ (f[a] + 1) - 1 = f[a]
    BY <1>1, <2>1
  <2>3. rows_[f[a] + 1] \in Activities /\ f[rows_[f[a] + 1]] = f[a]
    BY <1>3, <2>2
  <2> QED
    BY <1>1, <2>2, <2>3
<1> QED
  BY <1>3, <1>4, <1>5 DEF f, n, rows_

\* Their type, and that no activity is missing or there twice.
LEMMA RowsAreActivities ==
    ASSUME NEW cur \in Activities, NEW used, Switcher!Times(used)
    PROVE  /\ Switcher!Sorted(cur, used) \in Seq(Activities)
           /\ Switcher!ToSet(Switcher!Sorted(cur, used)) = Activities
           /\ Switcher!IsInjective(Switcher!Sorted(cur, used))
<1>1. PICK n \in Nat : n = Cardinality(Activities)
  BY OneForEveryRow
<1>2. PICK list : list = Switcher!Sorted(cur, used)
  OBVIOUS
<1>3. PICK f : f = HowManyAbove(cur, used)
  OBVIOUS
<1>4. /\ list \in [1 .. n -> Activities]
      /\ \A i \in 1 .. n : f[list[i]] = i - 1
      /\ \A a \in Activities : f[a] + 1 \in 1 .. n /\ list[f[a] + 1] = a
  BY <1>1, <1>2, <1>3, RowsAreSorted
<1>5. list \in Seq(Activities) /\ DOMAIN list = 1 .. n
  BY <1>4
<1>6. Switcher!ToSet(list) = Activities
  BY <1>4, <1>5 DEF Switcher!ToSet
<1>7. Switcher!IsInjective(list)
  BY <1>4, <1>5 DEF Switcher!IsInjective
<1> QED
  BY <1>2, <1>5, <1>6, <1>7

\* The activity used before the current one, in another second than all others,
\* is in the row below it.
LEMMA FirstTwoRows ==
    ASSUME NEW cur \in Activities, NEW left \in Activities, cur # left,
           NEW used, Switcher!Times(used),
           \A a \in Activities \ {cur, left} : <<left, a>> \in used
    PROVE  Switcher!Sorted(cur, used)[1] = cur /\ Switcher!Sorted(cur, used)[2] = left
<1>1. Switcher!Above(cur, used, cur) = {}
  BY DEF Switcher!Above, Switcher!Before
<1>2. Switcher!Above(cur, used, left) = {cur}
  <2>1. ASSUME NEW b \in Activities \ {cur, left} PROVE ~Switcher!Before(cur, used, b, left)
    BY DEF Switcher!Before, Switcher!Times
  <2>2. ~Switcher!Before(cur, used, left, left) /\ Switcher!Before(cur, used, cur, left)
    BY BeforeIsAnOrder DEF Switcher!Before
  <2> QED
    BY <2>1, <2>2 DEF Switcher!Above
<1>3. HowManyAbove(cur, used)[cur] = 0 /\ HowManyAbove(cur, used)[left] = 1
  BY <1>1, <1>2, FS_EmptySet, FS_Singleton DEF HowManyAbove
<1> QED
  BY <1>3, RowsAreSorted

-----------------------------------------------------------------------------
(***************************************************************************)
(* The steps.                                                              *)
(***************************************************************************)
\* Activities used now are used later than all others, which keep their order.
LEMMA StampedTimes ==
    ASSUME Switcher!Times(lastUsed), thisSecond \subseteq Activities,
           NEW both \in SUBSET Activities
    PROVE  Switcher!Times(Switcher!Stamped(both))
<1> DEFINE newest == thisSecond \cup both
<1>1. newest \subseteq Activities
  OBVIOUS
<1>2. ASSUME NEW a \in Activities, NEW b \in Activities
      PROVE  <<a, b>> \in Switcher!Stamped(both)
                 <=> b \notin newest /\ (a \in newest \/ <<a, b>> \in lastUsed)
  BY DEF Switcher!Stamped
<1>3. Switcher!Stamped(both) \subseteq Activities \X Activities
  BY DEF Switcher!Stamped
<1> HIDE DEF newest
<1> QED
  BY <1>1, <1>2, <1>3 DEF Switcher!Times

\* What a change of activity that is committed, or needs not be, leaves.
LEMMA CommitSound ==
    ASSUME Switcher!TypeOK, NEW id \in Activities, Switcher!Commit(id)
    PROVE  /\ previous' = id
           /\ Switcher!Times(lastUsed') /\ thisSecond' \subseteq Activities
<1>1. /\ previous \in Activities /\ Switcher!Times(lastUsed)
      /\ thisSecond \subseteq Activities
  BY DEF Switcher!TypeOK
<1>2. CASE previous = id
  BY <1>1, <1>2 DEF Switcher!Commit
<1>3. CASE previous # id
  <2>1. /\ previous' = id /\ lastUsed' = Switcher!Stamped({previous, id})
        /\ thisSecond' = thisSecond \cup {previous, id}
    BY <1>3 DEF Switcher!Commit
  <2>2. Switcher!Times(Switcher!Stamped({previous, id}))
    BY <1>1, StampedTimes
  <2> QED
    BY <1>1, <2>1, <2>2
<1> QED
  BY <1>2, <1>3

\* What is remembered of the activities, and the rows, are in range.
Remembered ==
    /\ previous \in Activities
    /\ Switcher!Times(lastUsed) /\ thisSecond \subseteq Activities
    /\ rows \in Seq(Activities) /\ Switcher!ToSet(rows) = Activities
    /\ Switcher!IsInjective(rows)

\* Showing and hiding the switcher.
LEMMA ShownSound ==
    ASSUME Switcher!TypeOK, NEW value \in BOOLEAN, Switcher!SetShown(value)
    PROVE  shown' \in BOOLEAN /\ Remembered'
<1>1. Remembered /\ current \in Activities /\ shown \in BOOLEAN
  BY DEF Switcher!TypeOK, Remembered
<1>2. CASE shown /\ ~value
  <2>1. Switcher!Commit(current) /\ rows' = Switcher!Sorted(current, lastUsed')
    BY <1>2 DEF Switcher!SetShown
  <2>2. /\ previous' = current
        /\ Switcher!Times(lastUsed') /\ thisSecond' \subseteq Activities
    BY <1>1, <2>1, CommitSound
  <2>3. /\ rows' \in Seq(Activities) /\ Switcher!ToSet(rows') = Activities
        /\ Switcher!IsInjective(rows')
    BY <1>1, <2>1, <2>2, RowsAreActivities
  <2> QED
    BY <1>1, <2>2, <2>3 DEF Switcher!SetShown, Remembered
<1>3. CASE ~(shown /\ ~value)
  BY <1>1, <1>3 DEF Switcher!SetShown, Remembered
<1> QED
  BY <1>2, <1>3

\* The next row and the one before, around the ends, are rows.
LEMMA RelativeIsAnActivity ==
    ASSUME Switcher!TypeOK, NEW step \in {-1, 1}
    PROVE  Switcher!Relative(step) \in Activities
<1>1. /\ rows \in Seq(Activities) /\ Switcher!ToSet(rows) = Activities
      /\ current \in Activities
  BY DEF Switcher!TypeOK
<1>2. PICK n \in Nat : n = Len(rows)
  BY <1>1
<1>3. \E i \in 1 .. n : rows[i] = current
  BY <1>1, <1>2 DEF Switcher!ToSet
<1>4. PICK place : place = CHOOSE i \in 1 .. n : rows[i] = current
  OBVIOUS
<1>5. place \in 1 .. n
  BY <1>3, <1>4
<1>6. PICK next \in Nat : next = (place - 1 + step + n) % n
  BY <1>2, <1>5
<1>7. next < n
  BY <1>2, <1>5, <1>6
<1>8. Switcher!Relative(step) = rows[next + 1]
  BY <1>2, <1>4, <1>6 DEF Switcher!Relative
<1> QED
  BY <1>1, <1>2, <1>7, <1>8

\* The 90 ms timer and the polling.
LEMMA ShowIfNeededSound ==
    ASSUME Switcher!TypeOK, Switcher!ShowIfNeeded
    PROVE  invoked' \in BOOLEAN /\ shown' \in BOOLEAN /\ Remembered'
<1>1. /\ Remembered /\ shown \in BOOLEAN /\ invoked \in BOOLEAN /\ meta \in BOOLEAN
  BY DEF Switcher!TypeOK, Remembered
<1>2. CASE ~invoked \/ dropMode
  BY <1>1, <1>2 DEF Switcher!ShowIfNeeded, Remembered
<1>3. CASE ~(~invoked \/ dropMode)
  BY <1>1, <1>3, ShownSound DEF Switcher!ShowIfNeeded
<1> QED
  BY <1>2, <1>3

\* One step for each action of the switcher.
LEMMA SwitcherTypeStep == Switcher!TypeOK /\ Switcher!Next => Switcher!TypeOK'
<1> SUFFICES ASSUME Switcher!TypeOK, Switcher!Next PROVE Switcher!TypeOK'
  OBVIOUS
<1>1. /\ meta \in BOOLEAN /\ shown \in BOOLEAN /\ invoked \in BOOLEAN
      /\ dropMode \in BOOLEAN /\ hider \in BOOLEAN
      /\ shots \in 0 .. MaxWaiting
      /\ current \in Activities /\ changes \in Seq(Activities)
      /\ Remembered
  BY DEF Switcher!TypeOK, Remembered
<1>2. MaxWaiting \in Nat
  BY SwitcherAssumption DEF Switcher!BoundsAssumption
<1>3. ASSUME /\ meta' \in BOOLEAN /\ shown' \in BOOLEAN /\ invoked' \in BOOLEAN
             /\ dropMode' \in BOOLEAN /\ hider' \in BOOLEAN,
             shots' \in 0 .. MaxWaiting,
             current' \in Activities /\ changes' \in Seq(Activities),
             Remembered'
      PROVE  Switcher!TypeOK'
  BY <1>3 DEF Switcher!TypeOK, Remembered
<1>4. CASE Switcher!PressMeta \/ Switcher!ReleaseMeta
  BY <1>1, <1>3, <1>4
  DEF Switcher!PressMeta, Switcher!ReleaseMeta, Switcher!activityVars, Remembered
<1>5. ASSUME NEW step \in {-1, 1}, Switcher!Walk(step) PROVE Switcher!TypeOK'
  <2>1. changes' \in Seq(Activities)
    BY <1>1, <1>5, RelativeIsAnActivity DEF Switcher!Walk
  <2>2. shots' \in 0 .. MaxWaiting
    BY <1>1, <1>2, <1>5 DEF Switcher!Walk
  <2> QED
    BY <1>1, <1>3, <1>5, <2>1, <2>2 DEF Switcher!Walk, Remembered
<1>6. ASSUME NEW a \in Activities, Switcher!AskFor(a) PROVE Switcher!TypeOK'
  <2>1. changes' \in Seq(Activities)
    BY <1>1, <1>6 DEF Switcher!AskFor
  <2> QED
    BY <1>1, <1>3, <1>6, <2>1 DEF Switcher!AskFor, Switcher!showVars, Remembered
<1>7. CASE Switcher!ActivityChanges
  <2>1. current' \in Activities /\ changes' \in Seq(Activities)
    BY <1>1, <1>7 DEF Switcher!ActivityChanges
  <2>2. Remembered'
    <3>1. CASE shown
      BY <1>1, <1>7, <3>1 DEF Switcher!ActivityChanges, Remembered
    <3>2. CASE ~shown
      <4>1. Switcher!Commit(current') /\ rows' = Switcher!Sorted(current', lastUsed')
        BY <1>7, <3>2 DEF Switcher!ActivityChanges
      <4>2. /\ previous' = current'
            /\ Switcher!Times(lastUsed') /\ thisSecond' \subseteq Activities
        BY <2>1, <4>1, CommitSound
      <4>3. /\ rows' \in Seq(Activities) /\ Switcher!ToSet(rows') = Activities
            /\ Switcher!IsInjective(rows')
        BY <2>1, <4>1, <4>2, RowsAreActivities
      <4> QED
        BY <2>1, <4>2, <4>3 DEF Remembered
    <3> QED
      BY <3>1, <3>2
  <2> QED
    BY <1>1, <1>3, <1>7, <2>1, <2>2 DEF Switcher!ActivityChanges, Switcher!showVars
<1>8. CASE Switcher!ShotOver
  <2>1. shots' \in 0 .. MaxWaiting
    BY <1>1, <1>2, <1>8 DEF Switcher!ShotOver
  <2> QED
    BY <1>1, <1>3, <1>8, <2>1, ShowIfNeededSound DEF Switcher!ShotOver
<1>9. CASE Switcher!Poll
  BY <1>1, <1>3, <1>9, ShowIfNeededSound DEF Switcher!Poll
<1>10. ASSUME NEW value \in BOOLEAN, Switcher!SetDropMode(value) PROVE Switcher!TypeOK'
  <2>1. shown' \in BOOLEAN /\ Remembered'
    <3>1. CASE value
      BY <1>10, <3>1, ShownSound DEF Switcher!SetDropMode
    <3>2. CASE ~value
      BY <1>1, <1>10, <3>2 DEF Switcher!SetDropMode, Remembered
    <3> QED
      BY <3>1, <3>2
  <2> QED
    BY <1>1, <1>3, <1>10, <2>1 DEF Switcher!SetDropMode
<1>11. CASE Switcher!HiderOver \/ Switcher!CloseSidebar
  <2>1. Switcher!SetShown(FALSE)
    BY <1>11 DEF Switcher!HiderOver, Switcher!CloseSidebar
  <2> QED
    BY <1>1, <1>3, <1>11, <2>1, ShownSound DEF Switcher!HiderOver, Switcher!CloseSidebar
<1>12. CASE Switcher!SecondPasses
  BY <1>1, <1>3, <1>12 DEF Switcher!SecondPasses, Switcher!showVars, Remembered
<1> QED
  BY <1>4, <1>5, <1>6, <1>7, <1>8, <1>9, <1>10, <1>11, <1>12 DEF Switcher!Next

\* The switcher begins with rows that are sorted.
LEMMA SwitcherStarts == Switcher!Init => Switcher!TypeOK
<1> SUFFICES ASSUME Switcher!Init PROVE Switcher!TypeOK
  OBVIOUS
<1>1. /\ current \in Activities /\ Switcher!Times(lastUsed)
      /\ rows = Switcher!Sorted(current, lastUsed)
  BY DEF Switcher!Init
<1>2. /\ rows \in Seq(Activities) /\ Switcher!ToSet(rows) = Activities
      /\ Switcher!IsInjective(rows)
  BY <1>1, RowsAreActivities
<1>3. <<>> \in Seq(Activities)
  OBVIOUS
<1>4. changes \in Seq(Activities)
  BY <1>3 DEF Switcher!Init
<1>5. shots \in 0 .. MaxWaiting
  BY SwitcherAssumption DEF Switcher!BoundsAssumption, Switcher!Init
<1>6. /\ {meta, shown, invoked, dropMode, hider} \subseteq BOOLEAN
      /\ {current, previous} \subseteq Activities /\ thisSecond \subseteq Activities
  BY DEF Switcher!Init
<1> QED
  BY <1>1, <1>2, <1>4, <1>5, <1>6 DEF Switcher!TypeOK

-----------------------------------------------------------------------------
(***************************************************************************)
(* The way back.                                                           *)
(***************************************************************************)
\* A change of activity is committed for the one that is current then, and the
\* rows are sorted.
LEMMA CommittedAndSorted ==
    ASSUME Switcher!TypeOK, Switcher!Next, previous' # previous
    PROVE  /\ current' \in Activities /\ Switcher!Commit(current')
           /\ rows' = Switcher!Sorted(current', lastUsed')
<1>1. current \in Activities /\ changes \in Seq(Activities)
  BY DEF Switcher!TypeOK
<1>2. ASSUME NEW value \in BOOLEAN, Switcher!SetShown(value), current' = current
      PROVE  /\ current' \in Activities /\ Switcher!Commit(current')
             /\ rows' = Switcher!Sorted(current', lastUsed')
  BY <1>1, <1>2 DEF Switcher!SetShown
<1>3. CASE Switcher!ActivityChanges
  <2>1. current' \in Activities
    BY <1>1, <1>3 DEF Switcher!ActivityChanges
  <2> QED
    BY <1>3, <2>1 DEF Switcher!ActivityChanges
<1>4. CASE Switcher!ShotOver \/ Switcher!Poll
  <2>1. Switcher!SetShown(meta) /\ current' = current
    BY <1>4 DEF Switcher!ShotOver, Switcher!Poll, Switcher!ShowIfNeeded
  <2>2. meta \in BOOLEAN
    BY DEF Switcher!TypeOK
  <2> QED
    BY <1>2, <2>1, <2>2
<1>5. ASSUME NEW value \in BOOLEAN, Switcher!SetDropMode(value)
      PROVE  Switcher!SetShown(TRUE) /\ current' = current
  BY <1>5 DEF Switcher!SetDropMode
<1>6. CASE Switcher!HiderOver \/ Switcher!CloseSidebar
  BY <1>2, <1>6 DEF Switcher!HiderOver, Switcher!CloseSidebar
<1> QED
  BY <1>2, <1>3, <1>4, <1>5, <1>6
  DEF Switcher!Next, Switcher!PressMeta, Switcher!ReleaseMeta, Switcher!Walk, Switcher!AskFor,
      Switcher!SecondPasses, Switcher!activityVars, Switcher!showVars

(***************************************************************************)
(* The activity committed before the current one is one press away,        *)
(* whatever walks, drags, timers and changes from elsewhere came before,   *)
(* and whatever the times from earlier sessions, for every finite set of   *)
(* activities.                                                             *)
(***************************************************************************)
THEOREM OnePressBack == SessionSpec => BackIsOnePressAway
<1>1. ASSUME Switcher!TypeOK, Switcher!Next, previous' # previous, thisSecond = {}
      PROVE  rows'[1] = previous' /\ rows'[2] = previous
  <2>1. /\ current' \in Activities /\ Switcher!Commit(current')
        /\ rows' = Switcher!Sorted(current', lastUsed')
    BY <1>1, CommittedAndSorted
  <2>2. previous \in Activities
    BY <1>1 DEF Switcher!TypeOK
  <2>3. previous' = current' /\ Switcher!Times(lastUsed')
    BY <1>1, <2>1, CommitSound
  <2>4. lastUsed' = Switcher!Stamped({previous, current'})
    BY <1>1, <2>1, <2>3 DEF Switcher!Commit
  <2>5. ASSUME NEW a \in Activities \ {current', previous} PROVE <<previous, a>> \in lastUsed'
    BY <1>1, <2>2, <2>4 DEF Switcher!Stamped
  <2> QED
    BY <1>1, <2>1, <2>2, <2>3, <2>5, FirstTwoRows
<1>2. SessionInit => Switcher!TypeOK
  BY SwitcherStarts DEF SessionInit
<1>3. [SessionNext]_sessionVars => [Switcher!Next]_switcherVars
  BY DEF SessionNext, sessionVars, switcherVars
<1>4. Switcher!TypeOK /\ [Switcher!Next]_switcherVars => Switcher!TypeOK'
  <2>1. Switcher!TypeOK /\ UNCHANGED switcherVars => Switcher!TypeOK'
    BY DEF switcherVars, Switcher!TypeOK
  <2> QED
    BY <2>1, SwitcherTypeStep
<1>5. Switcher!TypeOK /\ [Switcher!Next]_switcherVars
          => [previous' # previous /\ thisSecond = {}
                  => rows'[1] = previous' /\ rows'[2] = previous]_(Switcher!vars)
  BY <1>1 DEF switcherVars, Switcher!vars, Switcher!showVars, Switcher!activityVars
<1> QED
  BY <1>2, <1>3, <1>4, <1>5, PTL
  DEF SessionSpec, BackIsOnePressAway, Switcher!BackIsOnePressAway

-----------------------------------------------------------------------------
(***************************************************************************)
(* The engines of the input methods.                                       *)
(***************************************************************************)
\* A list of engines without one that is there twice.
IsList(list, n) == list \in Seq(Engines) /\ Len(list) = n /\ Inputs!IsInjective(list)

\* Where a list has an engine.
LEMMA IndexHolds ==
    ASSUME NEW list \in Seq(Engines), NEW e \in Inputs!ToSet(list)
    PROVE  Inputs!Index(list, e) \in 1 .. Len(list) /\ list[Inputs!Index(list, e)] = e
<1>1. \E i \in 1 .. Len(list) : list[i] = e
  BY DEF Inputs!ToSet
<1> QED
  BY <1>1 DEF Inputs!Index

\* It has no more engines than there are.
LEMMA NoMoreThanThereAre ==
    ASSUME NEW n \in Nat, NEW list, IsList(list, n)
    PROVE  Inputs!Cardinality(Engines) \in Nat /\ n <= Inputs!Cardinality(Engines)
<1>1. Inputs!IsFiniteSet(Engines)
  BY InputsAssumption DEF Inputs!EnginesAssumption
<1>2. IsFiniteSet(Engines)
  BY <1>1 DEF IsFiniteSet, Inputs!IsFiniteSet
<1>3. Inputs!Cardinality(Engines) = Cardinality(Engines)
  BY Zenon DEF Cardinality, Inputs!Cardinality
<1>4. list \in [1 .. n -> Engines] /\ \A i, j \in 1 .. n : list[i] = list[j] => i = j
  BY DEF IsList, Inputs!IsInjective
<1>5. list \in Injection(1 .. n, Engines)
  BY <1>4 DEF Injection, IsInjective
<1>6. Cardinality(1 .. n) <= Cardinality(Engines)
  BY <1>2, <1>5, FS_Injection
<1>7. Cardinality(1 .. n) = n
  BY FS_Interval
<1>8. Cardinality(Engines) \in Nat
  BY <1>2, FS_CardinalityType
<1> QED
  BY <1>3, <1>6, <1>7, <1>8

\* Two engines swap their places.
LEMMA Swapped ==
    ASSUME NEW n \in Nat, NEW list, IsList(list, n), NEW i \in 1 .. n, NEW j \in 1 .. n
    PROVE  IsList([list EXCEPT ![i] = list[j], ![j] = list[i]], n)
<1> DEFINE swap == [list EXCEPT ![i] = list[j], ![j] = list[i]]
<1>1. list \in [1 .. n -> Engines] /\ \A k, l \in 1 .. n : list[k] = list[l] => k = l
  BY DEF IsList, Inputs!IsInjective
<1>2. swap = [k \in 1 .. n |-> IF k = j THEN list[i] ELSE IF k = i THEN list[j] ELSE list[k]]
  BY <1>1
<1> HIDE DEF swap
<1>3. swap \in [1 .. n -> Engines]
  BY <1>1, <1>2
<1>4. swap \in Seq(Engines) /\ Len(swap) = n
  BY <1>3
<1>5. \A k, l \in 1 .. n : swap[k] = swap[l] => k = l
  BY <1>1, <1>2
<1>6. DOMAIN swap = 1 .. n
  BY <1>3
<1> QED
  BY <1>4, <1>5, <1>6 DEF IsList, Inputs!IsInjective, swap

\* The engines placed so far.
InPlace(acc, n) == IsList(acc.list, n) /\ acc.next \in 1 .. n + 1

LEMMA PlaceSound ==
    ASSUME NEW n \in Nat, NEW acc, InPlace(acc, n), NEW name
    PROVE  InPlace(Inputs!Place(acc, name), n)
<1>1. IsList(acc.list, n) /\ acc.next \in 1 .. n + 1
  BY DEF InPlace
<1> DEFINE j == Inputs!Index(acc.list, name)
<1>2. CASE name \in Inputs!ToSet(acc.list) /\ j >= acc.next
  <2>1. j \in 1 .. n /\ acc.list[j] = name
    BY <1>1, <1>2, IndexHolds DEF IsList
  <2> DEFINE swap == [acc.list EXCEPT ![acc.next] = name, ![j] = acc.list[acc.next]]
  <2>2. Inputs!Place(acc, name) = [list |-> swap, next |-> acc.next + 1]
    BY <1>2 DEF Inputs!Place
  <2> HIDE DEF j
  <2>3. acc.next \in 1 .. n /\ acc.next + 1 \in 1 .. n + 1
    BY <1>1, <1>2, <2>1
  <2>4. IsList(swap, n)
    BY <1>1, <2>1, <2>3, Swapped
  <2> HIDE DEF swap
  <2> QED
    BY <2>2, <2>3, <2>4 DEF InPlace
<1>3. CASE ~(name \in Inputs!ToSet(acc.list) /\ j >= acc.next)
  BY <1>3 DEF Inputs!Place
<1> QED
  BY <1>2, <1>3

\* What was placed before, between and after the names.
OrderSteps(st, list, names) ==
    /\ st[0] = [list |-> list, next |-> 1]
    /\ \A i \in 1 .. Len(names) : st[i] = Inputs!Place(st[i - 1], names[i])

\* There is a first number in any set that has some.
LEMMA FirstNumber ==
    ASSUME NEW N, N \subseteq Nat, N # {}
    PROVE  \E n \in N : \A i \in N : n <= i
<1> DEFINE R == OpToRel(<, Nat)
<1>1. \A i, n \in Nat : i < n => <<i, n>> \in R
  BY DEF OpToRel
<1>2. IsWellFoundedOn(R, Nat)
  BY NatLessThanWellFounded
<1> HIDE DEF R
<1>3. PICK n \in N : \A i \in N : ~ (<<i, n>> \in R)
  BY <1>2, WFMin
<1>4. ASSUME NEW i \in N PROVE n <= i
  <2>1. i \in Nat /\ n \in Nat
    OBVIOUS
  <2>2. ~ (i < n)
    BY <1>1, <1>3, <2>1
  <2> QED
    BY <2>1, <2>2
<1> QED
  BY <1>4

\* setOrder is the end of such steps: the recursion has a solution, since a
\* first number of names for which it had none would be one more than one that
\* has.
LEMMA OrderIsLastStep ==
    ASSUME NEW list, NEW names \in Seq(Engines)
    PROVE  \E st : OrderSteps(st, list, names) /\ Inputs!SetOrder(list, names) = st[Len(names)].list
<1> DEFINE base == [list |-> list, next |-> 1]
           After(s, i) == Inputs!Place(s, names[i])
           Run(n, h) == h = [i \in 0 .. n |-> IF i = 0 THEN base ELSE After(h[i - 1], i)]
           bad == {n \in Nat : ~ \E h : Run(n, h)}
<1> HIDE DEF base, After
<1>1. \E h : Run(0, h)
  <2>1. \A i \in 0 .. 0 : i = 0
    OBVIOUS
  <2>2. Run(0, [i \in 0 .. 0 |-> base])
    BY <2>1
  <2> QED
    BY <2>2
<1>2. ASSUME NEW m \in Nat, m # 0, NEW h, Run(m - 1, h) PROVE \E k : Run(m, k)
  <2> DEFINE k == [i \in 0 .. m |-> IF i = m THEN After(h[m - 1], m) ELSE h[i]]
  <2>1. \A i \in 0 .. m - 1 : h[i] = IF i = 0 THEN base ELSE After(h[i - 1], i)
    BY <1>2
  <2>2. ASSUME NEW i \in 0 .. m PROVE k[i] = IF i = 0 THEN base ELSE After(k[i - 1], i)
    <3>1. CASE i = m
      <4>1. k[i - 1] = h[m - 1] /\ i # 0
        BY <1>2, <3>1
      <4>2. k[i] = After(h[m - 1], m)
        BY <3>1
      <4> QED
        BY <3>1, <4>1, <4>2
    <3>2. CASE i # m /\ i # 0
      <4>1. i \in 0 .. m - 1 /\ i - 1 \in 0 .. m /\ i - 1 # m
        BY <1>2, <3>2
      <4>2. k[i] = h[i] /\ k[i - 1] = h[i - 1]
        BY <3>2, <4>1
      <4> QED
        BY <2>1, <3>2, <4>1, <4>2
    <3>3. CASE i # m /\ i = 0
      <4>1. i \in 0 .. m - 1 /\ k[i] = h[i]
        BY <1>2, <3>3
      <4> QED
        BY <2>1, <3>3, <4>1
    <3> QED
      BY <3>1, <3>2, <3>3
  <2>3. k = [i \in 0 .. m |-> k[i]]
    OBVIOUS
  <2> HIDE DEF k
  <2>4. Run(m, k)
    BY <2>2, <2>3
  <2> QED
    BY <2>4
<1>3. bad = {}
  <2> SUFFICES ASSUME bad # {} PROVE FALSE
    OBVIOUS
  <2>1. PICK m \in bad : \A n \in bad : m <= n
    BY FirstNumber
  <2>2. m \in Nat /\ m # 0 /\ m - 1 \in Nat /\ m - 1 \notin bad
    <3>1. m \in Nat /\ m # 0
      BY <1>1, <2>1
    <3>2. m - 1 \in Nat /\ ~(m <= m - 1)
      BY <3>1
    <3> QED
      BY <2>1, <3>1, <3>2
  <2>3. PICK h : Run(m - 1, h)
    BY <2>2
  <2>4. \E k : Run(m, k)
    BY <1>2, <2>2, <2>3
  <2> QED
    BY <2>1, <2>4
<1> DEFINE n == Len(names)
           st == CHOOSE h : Run(n, h)
<1>4. n \in Nat
  OBVIOUS
<1>5. Inputs!SetOrder(list, names) = st[n].list
  BY DEF Inputs!SetOrder, After, base
<1> HIDE DEF n
<1>6. Run(n, st)
  BY <1>3, <1>4
<1> HIDE DEF st
<1>7. \A i \in 0 .. n : st[i] = IF i = 0 THEN base ELSE After(st[i - 1], i)
  BY <1>6
<1>8. st[0] = base /\ \A i \in 1 .. n : st[i] = After(st[i - 1], i)
  BY <1>4, <1>7
<1>9. OrderSteps(st, list, names)
  BY <1>8 DEF OrderSteps, After, base, n
<1> QED
  BY <1>5, <1>9 DEF n

\* The order of the last session changes the places of the engines alone.
LEMMA OrderSound ==
    ASSUME NEW n \in Nat, NEW list, IsList(list, n), NEW names \in Seq(Engines)
    PROVE  IsList(Inputs!SetOrder(list, names), n)
<1>1. PICK st : /\ OrderSteps(st, list, names)
                /\ Inputs!SetOrder(list, names) = st[Len(names)].list
  BY OrderIsLastStep
<1>2. PICK m \in Nat : m = Len(names)
  OBVIOUS
<1>3. /\ st[0] = [list |-> list, next |-> 1]
      /\ \A i \in 1 .. m : st[i] = Inputs!Place(st[i - 1], names[i])
  BY <1>1, <1>2 DEF OrderSteps
<1>4. InPlace(st[0], n)
  BY <1>3 DEF InPlace
<1>5. ASSUME NEW i \in 1 .. m, InPlace(st[i - 1], n) PROVE InPlace(st[i], n)
  BY <1>3, <1>5, PlaceSound
<1> DEFINE bad == {i \in 0 .. m : ~InPlace(st[i], n)}
<1>6. bad = {}
  <2> SUFFICES ASSUME bad # {} PROVE FALSE
    OBVIOUS
  <2>0. bad \subseteq Nat
    OBVIOUS
  <2>1. PICK i \in bad : \A k \in bad : i <= k
    BY <2>0, FirstNumber
  <2>2. i \in 1 .. m
    BY <1>4, <2>1
  <2>3. i - 1 \in 0 .. m /\ ~(i <= i - 1)
    BY <2>2
  <2>4. InPlace(st[i - 1], n)
    BY <2>1, <2>3
  <2> QED
    BY <1>5, <2>1, <2>2, <2>4
<1>7. InPlace(st[m], n)
  BY <1>2, <1>6
<1> QED
  BY <1>1, <1>2, <1>7 DEF InPlace

\* The engines before the one that is used make room for it.
LEMMA FirstSound ==
    ASSUME NEW n \in Nat, IsList(engines, n), NEW e
    PROVE  IsList(Inputs!MoveToFirst(e), n)
<1>1. CASE e \notin Inputs!ToSet(engines)
  BY <1>1 DEF Inputs!MoveToFirst
<1>2. CASE e \in Inputs!ToSet(engines)
  <2>1. PICK i \in 1 .. n : i = Inputs!Index(engines, e) /\ engines[i] = e
    BY <1>2, IndexHolds DEF IsList
  <2>2. engines \in [1 .. n -> Engines] /\ \A k, l \in 1 .. n : engines[k] = engines[l] => k = l
    BY DEF IsList, Inputs!IsInjective
  <2>3. PICK moved : moved = Inputs!MoveToFirst(e)
    OBVIOUS
  <2>4. moved = [j \in 1 .. n |-> IF j = 1 THEN engines[i]
                                  ELSE engines[IF j <= i THEN j - 1 ELSE j]]
    BY <1>2, <2>1, <2>3 DEF Inputs!MoveToFirst, IsList
  <2>5. \A j \in 1 .. n : j # 1 => j - 1 \in 1 .. n
    OBVIOUS
  <2>6. moved \in [1 .. n -> Engines]
    BY <2>1, <2>2, <2>4, <2>5
  <2>7. moved \in Seq(Engines) /\ Len(moved) = n /\ DOMAIN moved = 1 .. n
    BY <2>6
  <2> DEFINE from(j) == IF j = 1 THEN i ELSE IF j <= i THEN j - 1 ELSE j
  <2>8. \A j \in 1 .. n : from(j) \in 1 .. n /\ moved[j] = engines[from(j)]
    BY <2>4, <2>5
  <2>9. \A k, l \in 1 .. n : from(k) = from(l) => k = l
    BY <2>1
  <2> HIDE DEF from
  <2>10. \A k, l \in 1 .. n : moved[k] = moved[l] => k = l
    BY <2>2, <2>8, <2>9
  <2> QED
    BY <2>3, <2>7, <2>10 DEF IsList, Inputs!IsInjective
<1> QED
  BY <1>1, <1>2

\* What the fields are: the settings, the panel, the engines, the contexts.
KeptInRange == preload \in Preloads /\ savedOrder \in Seq(Engines) /\ useGlobal \in BOOLEAN
PanelInRange ==
    /\ bus \in Engines \cup {NoEngine} /\ logo \in Engines \cup {NoEngine}
    /\ panel \in {"none", "new", "ready"}
EnginesInRange == engines \in Seq(Engines) /\ Inputs!IsInjective(engines)
FlagsInRange == global \in BOOLEAN /\ doGrab \in BOOLEAN /\ grabbed \in BOOLEAN
MapInRange == DOMAIN map \subseteq Contexts /\ \A c \in DOMAIN map : map[c] \in Engines
ContextsInRange == context \in Contexts \cup {NoContext} /\ history \in Seq(Contexts)
WalkInRange == selected \in 0 .. Inputs!Cardinality(Engines)

LEMMA InputTypes ==
    Inputs!TypeOK <=> /\ KeptInRange /\ PanelInRange /\ EnginesInRange /\ FlagsInRange
                      /\ MapInRange /\ ContextsInRange /\ WalkInRange
<1>1. Inputs!TypeOK => /\ KeptInRange /\ PanelInRange /\ EnginesInRange /\ FlagsInRange
                       /\ MapInRange /\ ContextsInRange /\ WalkInRange
  BY DEF Inputs!TypeOK, KeptInRange, PanelInRange, EnginesInRange, FlagsInRange, MapInRange,
     ContextsInRange, WalkInRange
<1>2. /\ KeptInRange /\ PanelInRange /\ EnginesInRange /\ FlagsInRange
      /\ MapInRange /\ ContextsInRange /\ WalkInRange
      => Inputs!TypeOK
  BY DEF Inputs!TypeOK, KeptInRange, PanelInRange, EnginesInRange, FlagsInRange, MapInRange,
     ContextsInRange, WalkInRange
<1> QED
  BY <1>1, <1>2

\* The engines that may be configured are a list of at least one.
LEMMA ConfiguredIsList ==
    ASSUME NEW names \in Preloads
    PROVE  /\ Len(names) \in Nat \ {0} /\ IsList(names, Len(names))
           /\ names \in Seq(Engines) /\ names[1] \in Engines
<1>1. names \in Seq(Engines) /\ names # <<>> /\ Inputs!IsInjective(names)
  BY InputsAssumption DEF Inputs!EnginesAssumption
<1>2. Len(names) \in Nat \ {0}
  BY <1>1
<1> QED
  BY <1>1, <1>2 DEF IsList

\* An engine is set for a context: what is remembered is an engine.
LEMMA EngineSetInRange ==
    ASSUME NEW c \in Contexts \cup {NoContext}, NEW e \in Engines,
           MemoryIInv, MapInRange, Inputs!SetEngine(c, e)
    PROVE  MapInRange' /\ (bus' = e \/ bus' = bus)
<1>1. CASE UNCHANGED <<map, history>>
  BY <1>1 DEF MapInRange, Inputs!SetEngine
<1>2. CASE Inputs!SetCurrentEngine(c, e) /\ ~(global \/ c = NoContext)
  <2> DEFINE with == [x \in DOMAIN map \cup {c} |-> IF x = c THEN e ELSE map[x]]
  <2>1. DOMAIN with \subseteq Contexts /\ \A x \in DOMAIN with : with[x] \in Engines
    BY <1>2 DEF MapInRange
  <2>2. map' = with \/ \E x : map' = [y \in DOMAIN with \ {x} |-> with[y]]
    BY <1>2 DEF Inputs!SetCurrentEngine
  <2> HIDE DEF with
  <2>3. MapInRange'
    BY <2>1, <2>2 DEF MapInRange
  <2> QED
    BY <2>3 DEF Inputs!SetEngine
<1>3. CASE Inputs!SetCurrentEngine(c, e) /\ (global \/ c = NoContext)
  BY <1>1, <1>3 DEF Inputs!SetCurrentEngine
<1> QED
  BY <1>1, <1>2, <1>3 DEF Inputs!SetEngine

\* A walk goes to an engine of the list.
LEMMA WalkSound ==
    ASSUME EnginesInRange, WalkInRange, PanelInRange, engines' = engines, bus' = bus,
           NEW from \in 0 .. Inputs!Cardinality(Engines), NEW forward \in BOOLEAN,
           Inputs!WalkFrom(from, forward)
    PROVE  WalkInRange' /\ logo' \in Engines \cup {NoEngine}
<1>1. PICK n \in Nat : n = Len(engines)
  BY DEF EnginesInRange
<1>2. IsList(engines, n) /\ \A i \in 1 .. n : engines[i] \in Engines
  BY <1>1 DEF EnginesInRange, IsList
<1>3. Inputs!Cardinality(Engines) \in Nat /\ n <= Inputs!Cardinality(Engines)
  BY <1>2, NoMoreThanThereAre
<1>4. CASE n < 2
  BY <1>1, <1>4 DEF Inputs!WalkFrom, WalkInRange, PanelInRange
<1>5. CASE ~(n < 2)
  <2>1. PICK e : selected' = Inputs!Navigate(e, forward)
    BY <1>1, <1>5 DEF Inputs!WalkFrom
  <2>2. \A i, k \in Nat : ((i + k) % n) + 1 \in 1 .. n
    BY <1>5
  <2>3. PICK i \in Nat : i = IF e \in Inputs!ToSet(engines) THEN Inputs!Index(engines, e) - 1 ELSE n
    <3>1. CASE e \in Inputs!ToSet(engines)
      <4>1. Inputs!Index(engines, e) \in 1 .. n
        BY <1>1, <3>1, IndexHolds DEF EnginesInRange
      <4> QED
        BY <3>1, <4>1
    <3>2. CASE e \notin Inputs!ToSet(engines)
      BY <3>2
    <3> QED
      BY <3>1, <3>2
  <2>4. PICK k \in Nat : k = IF forward THEN 1 ELSE n - 1
    BY <1>5
  <2>5. Inputs!Navigate(e, forward) = ((i + k) % n) + 1
    BY <1>1, <2>3, <2>4 DEF Inputs!Navigate
  <2>6. selected' \in 1 .. n
    BY <2>1, <2>2, <2>5
  <2>7. WalkInRange'
    BY <1>3, <2>6 DEF WalkInRange
  <2>8. logo' \in {logo, engines[selected']}
    BY <1>1, <1>5, <2>6 DEF Inputs!WalkFrom, Inputs!Registered
  <2> QED
    BY <1>2, <2>6, <2>7, <2>8 DEF PanelInRange
<1> QED
  BY <1>4, <1>5

\* What is shown when properties are registered.
LEMMA RegisteredSound ==
    ASSUME EnginesInRange', bus' \in Engines \cup {NoEngine}
    PROVE  Inputs!Registered \in Engines \cup {NoEngine}
<1>1. \A i \in 1 .. Len(engines') : engines'[i] \in Engines
  BY DEF EnginesInRange
<1> QED
  BY <1>1 DEF Inputs!Registered

\* The panel is gone.
LEMMA CrashInRange ==
    ASSUME KeptInRange, PanelInRange, Inputs!Crash, UNCHANGED Inputs!settingsVars
    PROVE  Inputs!TypeOK'
<1>1. KeptInRange'
  BY DEF KeptInRange, Inputs!settingsVars
<1>2. PanelInRange'
  BY DEF PanelInRange, Inputs!Crash
<1>3. <<>> \in Seq(Engines) /\ Len(<<>>) = 0 /\ DOMAIN <<>> = {}
  OBVIOUS
<1>4. EnginesInRange'
  BY <1>3 DEF EnginesInRange, Inputs!Crash, Inputs!IsInjective
<1>5. FlagsInRange'
  BY DEF FlagsInRange, Inputs!Crash
<1>6. MapInRange'
  BY DEF MapInRange, Inputs!Crash, Inputs!NoMap
<1>7. <<>> \in Seq(Contexts)
  OBVIOUS
<1>8. ContextsInRange'
  BY <1>7 DEF ContextsInRange, Inputs!Crash
<1>9. IsList(<<>>, 0)
  BY <1>3 DEF IsList, Inputs!IsInjective
<1>10. WalkInRange'
  BY <1>9, NoMoreThanThereAre DEF WalkInRange, Inputs!Crash
<1> QED
  BY <1>1, <1>2, <1>4, <1>5, <1>6, <1>8, <1>10
  DEF Inputs!TypeOK, KeptInRange, PanelInRange, EnginesInRange, FlagsInRange, MapInRange,
      ContextsInRange, WalkInRange

\* One step for each action of the panel, the bus and the keyboard.
LEMMA InputsTypeStep ==
    Inputs!TypeOK /\ MemoryIInv /\ MemoryIInv' /\ Inputs!Next => Inputs!TypeOK'
<1> SUFFICES ASSUME Inputs!TypeOK, MemoryIInv, MemoryIInv', Inputs!Next PROVE Inputs!TypeOK'
  OBVIOUS
<1>1. /\ KeptInRange /\ PanelInRange /\ EnginesInRange /\ FlagsInRange
      /\ MapInRange /\ ContextsInRange /\ WalkInRange
  BY InputTypes
<1>c. ContextsInRange'
  BY DEF MemoryIInv, MemoryTypeOK, ContextsInRange
<1>2. ASSUME KeptInRange', PanelInRange', EnginesInRange', FlagsInRange', MapInRange',
             WalkInRange'
      PROVE  Inputs!TypeOK'
  BY <1>2, <1>c DEF Inputs!TypeOK, KeptInRange, PanelInRange, EnginesInRange, FlagsInRange,
     MapInRange, ContextsInRange, WalkInRange
<1>k. UNCHANGED Inputs!settingsVars => KeptInRange'
  BY <1>1 DEF KeptInRange, Inputs!settingsVars
<1>p. UNCHANGED <<bus, panel, logo>> => PanelInRange'
  BY <1>1 DEF PanelInRange
<1>e. engines' = engines => EnginesInRange'
  BY <1>1 DEF EnginesInRange
<1>f. UNCHANGED <<global, doGrab, grabbed>> => FlagsInRange'
  BY <1>1 DEF FlagsInRange
<1>m. map' = map => MapInRange'
  BY <1>1 DEF MapInRange
<1>n. map' = Inputs!NoMap => MapInRange'
  BY DEF MapInRange, Inputs!NoMap
<1>w. selected' = selected => WalkInRange'
  BY <1>1 DEF WalkInRange
<1>0. /\ <<>> \in Seq(Engines) /\ Inputs!IsInjective(<<>>)
      /\ 0 \in 0 .. Inputs!Cardinality(Engines)
  <2>1. <<>> \in Seq(Engines) /\ Len(<<>>) = 0 /\ DOMAIN <<>> = {}
    OBVIOUS
  <2>2. IsList(<<>>, 0)
    BY <2>1 DEF IsList, Inputs!IsInjective
  <2>3. Inputs!Cardinality(Engines) \in Nat
    BY <2>2, NoMoreThanThereAre
  <2> QED
    BY <2>1, <2>2, <2>3 DEF IsList
<1>b. \A i \in 1 .. Len(engines) : engines[i] \in Engines
  BY <1>1 DEF EnginesInRange
<1>3. CASE Inputs!NameAcquired \/ Inputs!NameLost
  <2>1. engines' = <<>> /\ map' = Inputs!NoMap /\ selected' = 0 /\ UNCHANGED Inputs!settingsVars
    BY <1>3 DEF Inputs!NameAcquired, Inputs!NameLost
  <2>2. EnginesInRange' /\ WalkInRange'
    BY <1>0, <2>1 DEF EnginesInRange, WalkInRange
  <2>3. PanelInRange'
    BY <1>1, <1>3 DEF PanelInRange, Inputs!NameAcquired, Inputs!NameLost
  <2>4. FlagsInRange'
    BY <1>1, <1>3 DEF FlagsInRange, Inputs!NameAcquired, Inputs!NameLost
  <2> QED
    BY <1>2, <1>k, <1>n, <2>1, <2>2, <2>3, <2>4
<1>4. CASE Inputs!BusAcquired
  <2>1. CASE Inputs!Crash
    BY <1>1, <1>4, <2>1, CrashInRange DEF Inputs!BusAcquired
  <2>2. CASE ~Inputs!Crash
    <3>1. /\ panel' = "ready" /\ engines' = Inputs!SetOrder(preload, savedOrder)
          /\ bus' \in {bus, NoEngine, preload[1], engines'[1]}
          /\ map' = Inputs!NoMap /\ global' = useGlobal
          /\ doGrab' = (Len(preload) > 1) /\ selected' = selected /\ grabbed' = grabbed
          /\ logo' = Inputs!Registered /\ UNCHANGED Inputs!settingsVars
      BY <1>4, <2>2 DEF Inputs!BusAcquired, Inputs!OfferedFirst
    <3>2. PICK n \in Nat \ {0} : IsList(preload, n)
      BY <1>1, ConfiguredIsList DEF KeptInRange
    <3>3. IsList(engines', n)
      BY <1>1, <3>1, <3>2, OrderSound DEF KeptInRange
    <3>4. EnginesInRange' /\ preload[1] \in Engines /\ engines'[1] \in Engines
      BY <3>2, <3>3 DEF IsList, EnginesInRange
    <3>5. Inputs!Registered \in Engines \cup {NoEngine}
      BY <1>1, <3>1, <3>4, RegisteredSound DEF PanelInRange
    <3>6. PanelInRange'
      BY <1>1, <3>1, <3>4, <3>5 DEF PanelInRange
    <3>7. FlagsInRange'
      BY <1>1, <3>1 DEF FlagsInRange, KeptInRange
    <3> QED
      BY <1>2, <1>k, <1>n, <1>w, <3>1, <3>4, <3>6, <3>7
  <2> QED
    BY <2>1, <2>2
<1>5. ASSUME NEW names \in Preloads, Inputs!ConfigureEngines(names) PROVE Inputs!TypeOK'
  <2>1. KeptInRange' /\ UNCHANGED <<savedOrder, useGlobal>>
    BY <1>1, <1>5 DEF KeptInRange, Inputs!ConfigureEngines
  <2>2. CASE panel = "none"
    BY <1>2, <1>5, <1>p, <1>e, <1>f, <1>m, <1>w, <2>1, <2>2
    DEF Inputs!ConfigureEngines, Inputs!memoryVars, Inputs!keyVars
  <2>3. CASE panel # "none" /\ Inputs!Crash
    <3>1. PanelInRange'
      BY <1>1, <2>3 DEF PanelInRange, Inputs!Crash
    <3>2. EnginesInRange' /\ WalkInRange'
      BY <1>0, <2>3 DEF EnginesInRange, WalkInRange, Inputs!Crash
    <3>3. FlagsInRange'
      BY <2>3 DEF FlagsInRange, Inputs!Crash
    <3> QED
      BY <1>2, <1>n, <2>1, <2>3, <3>1, <3>2, <3>3 DEF Inputs!Crash
  <2>4. CASE panel # "none" /\ ~Inputs!Crash
    <3>1. Inputs!Loads(names) /\ UNCHANGED <<panel, global, context, selected, grabbed, logo>>
      BY <1>5, <2>4 DEF Inputs!ConfigureEngines
    <3>2. names \in Seq(Engines) /\ names[1] \in Engines /\ Inputs!IsInjective(names)
      BY ConfiguredIsList DEF IsList
    <3>3. EnginesInRange'
      BY <3>1, <3>2 DEF Inputs!Loads, EnginesInRange
    <3>4. PanelInRange'
      BY <1>1, <3>1, <3>2 DEF Inputs!Loads, Inputs!OfferedFirst, PanelInRange
    <3>5. FlagsInRange'
      BY <1>1, <3>1 DEF Inputs!Loads, FlagsInRange
    <3> QED
      BY <1>2, <1>n, <1>w, <2>1, <3>1, <3>3, <3>4, <3>5 DEF Inputs!Loads
  <2> QED
    BY <2>2, <2>3, <2>4
<1>6. ASSUME NEW value \in BOOLEAN, Inputs!UseOneForAll(value) PROVE Inputs!TypeOK'
  <2>1. KeptInRange'
    BY <1>1, <1>6 DEF KeptInRange, Inputs!UseOneForAll
  <2>2. FlagsInRange'
    BY <1>1, <1>6 DEF FlagsInRange, Inputs!UseOneForAll, Inputs!keyVars
  <2>3. MapInRange'
    BY <1>6, <1>m, <1>n DEF Inputs!UseOneForAll
  <2> QED
    BY <1>2, <1>6, <1>p, <1>e, <1>w, <2>1, <2>2, <2>3
    DEF Inputs!UseOneForAll, Inputs!keyVars
<1>7. ASSUME NEW e \in Engines, Inputs!AnotherEngine(e) PROVE Inputs!TypeOK'
  <2>1. PanelInRange'
    BY <1>1, <1>7 DEF PanelInRange, Inputs!AnotherEngine
  <2> QED
    BY <1>2, <1>7, <1>k, <1>e, <1>f, <1>m, <1>w, <2>1
    DEF Inputs!AnotherEngine, Inputs!memoryVars, Inputs!keyVars
<1>8. ASSUME NEW e \in Engines, Inputs!ChooseFromMenu(e) PROVE Inputs!TypeOK'
  <2>1. Inputs!SetEngine(context, e) /\ context \in Contexts \cup {NoContext}
    BY <1>1, <1>8 DEF Inputs!ChooseFromMenu, ContextsInRange
  <2>2. MapInRange' /\ (bus' = e \/ bus' = bus)
    BY <1>1, <2>1, EngineSetInRange
  <2>3. PanelInRange'
    BY <1>1, <1>8, <2>2 DEF PanelInRange, Inputs!ChooseFromMenu
  <2> QED
    BY <1>2, <1>8, <1>k, <1>e, <1>f, <1>w, <2>2, <2>3
    DEF Inputs!ChooseFromMenu, Inputs!keyVars
<1>9. ASSUME NEW c \in Contexts, Inputs!FocusIn(c) PROVE Inputs!TypeOK'
  <2>1. /\ context' = c /\ (logo' = bus \/ logo' = logo)
        /\ UNCHANGED Inputs!settingsVars /\ UNCHANGED <<panel, engines, global>>
        /\ UNCHANGED Inputs!keyVars
    BY <1>9 DEF Inputs!FocusIn
  <2>2. MapInRange' /\ bus' \in Engines \cup {NoEngine}
    <3>1. CASE global \/ engines = <<>>
      BY <1>1, <1>9, <1>m, <3>1 DEF Inputs!FocusIn, PanelInRange
    <3>2. CASE ~(global \/ engines = <<>>)
      <4>1. Inputs!SetEngine(c, Inputs!CurrentEngine)
        BY <1>9, <3>2 DEF Inputs!FocusIn
      <4>2. engines[1] \in Engines
        BY <1>1, <3>2 DEF EnginesInRange
      <4>3. PICK e \in Engines : e = Inputs!CurrentEngine
        BY <1>1, <2>1, <4>2 DEF Inputs!CurrentEngine, MapInRange
      <4>4. Inputs!SetEngine(c, e)
        BY <4>1, <4>3
      <4>5. c \in Contexts \cup {NoContext}
        OBVIOUS
      <4>6. MapInRange' /\ (bus' = e \/ bus' = bus)
        BY <1>1, <4>4, <4>5, EngineSetInRange
      <4> QED
        BY <1>1, <4>6 DEF PanelInRange
    <3> QED
      BY <3>1, <3>2
  <2>3. PanelInRange'
    BY <1>1, <2>1, <2>2 DEF PanelInRange
  <2> QED
    BY <1>2, <1>k, <1>e, <1>f, <1>w, <2>1, <2>2, <2>3 DEF Inputs!keyVars
<1>10. CASE Inputs!FocusOut
  BY <1>2, <1>10, <1>k, <1>p, <1>e, <1>f, <1>m, <1>w DEF Inputs!FocusOut, Inputs!keyVars
<1>11. CASE Inputs!StateChanged
  <2>1. /\ panel' = panel /\ bus' = bus /\ bus # NoEngine /\ logo' = bus
        /\ engines' = Inputs!MoveToFirst(bus) /\ savedOrder' = engines'
        /\ UNCHANGED <<preload, useGlobal>> /\ UNCHANGED Inputs!memoryVars
        /\ UNCHANGED Inputs!keyVars
    BY <1>11 DEF Inputs!StateChanged
  <2>2. PICK n \in Nat : IsList(engines, n)
    BY <1>1 DEF EnginesInRange, IsList
  <2>3. EnginesInRange'
    BY <2>1, <2>2, FirstSound DEF IsList, EnginesInRange
  <2>4. KeptInRange' /\ PanelInRange'
    BY <1>1, <2>1, <2>3 DEF KeptInRange, PanelInRange, EnginesInRange
  <2> QED
    BY <1>2, <1>f, <1>m, <1>w, <2>1, <2>3, <2>4 DEF Inputs!memoryVars, Inputs!keyVars
<1>12. CASE Inputs!RegisterProperties
  <2>1. /\ UNCHANGED Inputs!settingsVars /\ UNCHANGED <<bus, panel, engines>>
        /\ UNCHANGED Inputs!memoryVars /\ UNCHANGED Inputs!keyVars /\ logo' = Inputs!Registered
    BY <1>12 DEF Inputs!RegisterProperties
  <2>2. logo' \in Engines \cup {NoEngine}
    BY <1>1, <1>e, <2>1, RegisteredSound DEF PanelInRange
  <2>3. PanelInRange'
    BY <1>1, <2>1, <2>2 DEF PanelInRange
  <2> QED
    BY <1>2, <1>k, <1>e, <1>f, <1>m, <1>w, <2>1, <2>3 DEF Inputs!memoryVars, Inputs!keyVars
<1>13. ASSUME NEW forward \in BOOLEAN, Inputs!FirstPress(forward) \/ Inputs!NextPress(forward)
       PROVE  Inputs!TypeOK'
  <2>1. /\ UNCHANGED Inputs!settingsVars /\ UNCHANGED <<bus, panel, engines>>
        /\ UNCHANGED Inputs!memoryVars /\ doGrab' = doGrab /\ grabbed' = TRUE
    BY <1>1, <1>13 DEF Inputs!FirstPress, Inputs!NextPress, FlagsInRange
  <2>2. PICK from \in 0 .. Inputs!Cardinality(Engines) : Inputs!WalkFrom(from, forward)
    BY <1>0, <1>1, <1>13 DEF Inputs!FirstPress, Inputs!NextPress, WalkInRange
  <2>3. WalkInRange' /\ logo' \in Engines \cup {NoEngine}
    BY <1>1, <2>1, <2>2, WalkSound
  <2>4. PanelInRange' /\ FlagsInRange'
    BY <1>1, <2>1, <2>3 DEF PanelInRange, FlagsInRange, Inputs!memoryVars
  <2> QED
    BY <1>2, <1>k, <1>e, <1>m, <2>1, <2>3, <2>4 DEF Inputs!memoryVars
<1>14. CASE Inputs!PressWithoutGrab
  <2>1. engines[2] \in Engines /\ context \in Contexts \cup {NoContext}
    BY <1>1, <1>b, <1>14 DEF Inputs!PressWithoutGrab, EnginesInRange, ContextsInRange
  <2>2. MapInRange' /\ (bus' = engines[2] \/ bus' = bus)
    BY <1>1, <1>14, <2>1, EngineSetInRange DEF Inputs!PressWithoutGrab
  <2>3. PanelInRange'
    BY <1>1, <1>14, <2>1, <2>2 DEF PanelInRange, Inputs!PressWithoutGrab
  <2> QED
    BY <1>2, <1>14, <1>k, <1>e, <1>f, <1>w, <2>2, <2>3
    DEF Inputs!PressWithoutGrab, Inputs!keyVars
<1>15. CASE Inputs!ModifiersReleased
  <2>1. CASE panel = "none"
    BY <1>1, <1>15, <2>1, CrashInRange DEF Inputs!ModifiersReleased
  <2>2. CASE panel # "none"
    <3>1. /\ UNCHANGED Inputs!settingsVars /\ grabbed' = FALSE
          /\ UNCHANGED <<panel, engines, global, context, doGrab, logo>>
      BY <1>15, <2>2 DEF Inputs!ModifiersReleased
    <3>2. FlagsInRange'
      BY <1>1, <3>1 DEF FlagsInRange
    <3>3. CASE selected \in 1 .. Len(engines)
      <4>1. selected' = 0 /\ Inputs!SetEngine(context, engines[selected])
        BY <1>15, <2>2, <3>3 DEF Inputs!ModifiersReleased
      <4>2. engines[selected] \in Engines /\ context \in Contexts \cup {NoContext}
        BY <1>1, <1>b, <3>3 DEF ContextsInRange
      <4>3. MapInRange' /\ (bus' = engines[selected] \/ bus' = bus)
        BY <1>1, <4>1, <4>2, EngineSetInRange
      <4>4. PanelInRange' /\ WalkInRange'
        BY <1>0, <1>1, <3>1, <4>1, <4>2, <4>3 DEF PanelInRange, WalkInRange
      <4> QED
        BY <1>2, <1>k, <1>e, <3>1, <3>2, <4>3, <4>4
    <3>4. CASE selected \notin 1 .. Len(engines)
      <4>1. UNCHANGED <<selected, bus, map, history>>
        BY <1>15, <2>2, <3>4 DEF Inputs!ModifiersReleased
      <4> QED
        BY <1>2, <1>k, <1>p, <1>e, <1>m, <1>w, <3>1, <3>2, <4>1
    <3> QED
      BY <3>3, <3>4
  <2> QED
    BY <2>1, <2>2
<1>16. CASE Inputs!Finalize
  BY <1>1, <1>16, CrashInRange DEF Inputs!Finalize
<1> QED
  BY <1>3, <1>4, <1>5, <1>6, <1>7, <1>8, <1>9, <1>10, <1>11, <1>12, <1>13, <1>14, <1>15, <1>16
  DEF Inputs!Next

LEMMA InputsTypesStart == Inputs!Init => Inputs!TypeOK /\ MemoryIInv
<1> SUFFICES ASSUME Inputs!Init PROVE Inputs!TypeOK /\ MemoryIInv
  OBVIOUS
<1>1. <<>> \in Seq(Engines) /\ <<>> \in Seq(Contexts) /\ Len(<<>>) = 0 /\ DOMAIN <<>> = {}
  OBVIOUS
<1>2. IsList(<<>>, 0)
  BY <1>1 DEF IsList, Inputs!IsInjective
<1>3. EnginesInRange
  BY <1>1, <1>2 DEF Inputs!Init, EnginesInRange, IsList
<1>9. Inputs!Cardinality(Engines) \in Nat
  BY <1>2, NoMoreThanThereAre
<1>10. WalkInRange
  BY <1>9 DEF Inputs!Init, WalkInRange
<1>4. preload \in Preloads /\ preload \in Seq(Engines)
  BY ConfiguredIsList DEF Inputs!Init
<1>5. KeptInRange
  BY <1>1, <1>4 DEF Inputs!Init, KeptInRange
<1>6. PanelInRange /\ FlagsInRange
  BY DEF Inputs!Init, PanelInRange, FlagsInRange
<1>7. MapInRange /\ ContextsInRange
  BY <1>1 DEF Inputs!Init, Inputs!NoMap, MapInRange, ContextsInRange
<1>8. MemoryIInv
  BY <1>1 DEF Inputs!Init, Inputs!NoMap, MemoryIInv, MemoryTypeOK, RememberedAreInHistory,
     Inputs!RememberedAreInHistory
<1> QED
  BY <1>3, <1>5, <1>6, <1>7, <1>8, <1>10, InputTypes

-----------------------------------------------------------------------------
\* What is kept of the parts together.
SessionIInv == /\ TypeOK /\ Automount!TypeOK /\ AccessIInv /\ Switcher!TypeOK
               /\ BadgesIInv /\ Inputs!TypeOK /\ MemoryIInv

(***************************************************************************)
(* The variables of every part of a session stay in range: the groups that *)
(* KConfig merges and reverts, the queues of notices, the rows of the      *)
(* switcher, the engines in an order of any length, the history of         *)
(* contexts.                                                               *)
(***************************************************************************)
THEOREM SessionTypeCorrect == SessionSpec => []SessionTypeOK
<1>1. SessionInit => SessionIInv
  BY TypeStart, AutomountTypesStart, AccessStarts, SwitcherStarts, BadgesStart, InputsTypesStart
  DEF SessionInit, SessionIInv
<1>2. SessionIInv /\ [SessionNext]_sessionVars => SessionIInv'
  <2> SUFFICES ASSUME SessionIInv, [SessionNext]_sessionVars PROVE SessionIInv'
    OBVIOUS
  <2>1. TypeOK'
    <3>1. [Next]_vars
      BY DEF SessionNext, sessionVars
    <3> QED
      BY <3>1, TypeStep DEF SessionIInv
  <2>2. Automount!TypeOK'
    <3>1. Automount!Next \/ UNCHANGED automountVars
      BY DEF SessionNext, sessionVars
    <3>2. UNCHANGED automountVars => Automount!TypeOK'
      BY DEF automountVars, Automount!TypeOK, SessionIInv
    <3> QED
      BY <3>1, <3>2, AutomountTypeStep DEF SessionIInv
  <2>3. AccessIInv'
    <3>1. Access!Next \/ UNCHANGED accessVars
      BY DEF SessionNext, sessionVars
    <3>2. UNCHANGED accessVars => AccessIInv'
      BY DEF SessionIInv, AccessIInv, accessVars, Access!TypeOK, FeaturesFollow, FeaturesAsConfigured,
         AskedWhileFresh, YesIsForWhatIsNamed, Access!YesIsForWhatIsNamed
    <3> QED
      BY <3>1, <3>2, AccessSteps DEF SessionIInv
  <2>4. Switcher!TypeOK'
    <3>1. Switcher!Next \/ UNCHANGED switcherVars
      BY DEF SessionNext, sessionVars
    <3>2. UNCHANGED switcherVars => Switcher!TypeOK'
      BY DEF switcherVars, Switcher!TypeOK, SessionIInv
    <3> QED
      BY <3>1, <3>2, SwitcherTypeStep DEF SessionIInv
  <2>5. BadgesIInv'
    <3>1. Badges!Next \/ UNCHANGED badgesVars
      BY DEF SessionNext, sessionVars
    <3>2. UNCHANGED badgesVars => BadgesIInv'
      BY DEF SessionIInv, BadgesIInv, badgesVars, Badges!TypeOK, NothingSent, OthersSayNothing,
         ItemFollows, BadgesOn
    <3> QED
      BY <3>1, <3>2, BadgesStep DEF SessionIInv
  <2>6. MemoryIInv' /\ Inputs!TypeOK'
    <3>1. Inputs!Next \/ UNCHANGED inputsVars
      BY DEF SessionNext, sessionVars
    <3>2. UNCHANGED inputsVars => MemoryIInv'
      BY DEF SessionIInv, inputsVars, MemoryIInv, MemoryTypeOK, RememberedAreInHistory,
         Inputs!RememberedAreInHistory
    <3>3. UNCHANGED inputsVars => Inputs!TypeOK'
      BY DEF SessionIInv, inputsVars, Inputs!TypeOK
    <3> QED
      BY <3>1, <3>2, <3>3, MemoryStep, InputsTypeStep DEF SessionIInv
  <2> QED
    BY <2>1, <2>2, <2>3, <2>4, <2>5, <2>6 DEF SessionIInv
<1>3. SessionIInv => SessionTypeOK
  BY DEF SessionIInv, SessionTypeOK, AccessIInv, BadgesIInv
<1> QED
  BY <1>1, <1>2, <1>3, PTL DEF SessionSpec
=============================================================================
