--------------------------- MODULE SessionProofs ---------------------------
(***************************************************************************)
(* Proofs about the small parts of a session, for every set of features,   *)
(* activities, values, settings and engines and any number of waiting      *)
(* events: what kaccess does before and after it was allowed to, what the  *)
(* badges of the task manager show, what the activity switcher commits,    *)
(* when the automounter mounts and what it remembers, and what the input   *)
(* method panel remembers and shows.                                       *)
(***************************************************************************)
EXTENDS Session, TLAPS

-----------------------------------------------------------------------------
(***************************************************************************)
(* The accessibility daemon.                                               *)
(***************************************************************************)
\* What kaccess has heard last, or hears last of what waits, is what the
\* server has.
FeaturesFollow ==
    /\ notices = <<>> => controls = features
    /\ notices # <<>> => notices[Len(notices)] = controls

\* A user who is asked has the features of the settings, so far as kaccess knows.
FeaturesAsConfigured == config.confirm => features = config.on

\* Only a user who is asked is shown what has not become stale.
AskedWhileFresh == dialog /\ label.fresh => config.confirm

AccessIInv ==
    /\ Access!TypeOK
    /\ FeaturesFollow
    /\ FeaturesAsConfigured
    /\ AskedWhileFresh
    /\ YesIsForWhatIsNamed

\* A server that is set says so unless nothing changes.
LEMMA ControlsSet ==
    ASSUME NEW on \in SUBSET Features, NEW queue \in Seq(SUBSET Features),
           controls \in SUBSET Features,
           queue # <<>> => queue[Len(queue)] = controls,
           Access!SetControls(on, queue)
    PROVE  /\ controls' = on
           /\ notices' \in Seq(SUBSET Features)
           /\ notices' # <<>> => notices'[Len(notices')] = on
           /\ notices' = <<>> => controls = on
  BY DEF Access!SetControls

\* What waits after the first event was taken.
LEMMA TakenNotice ==
    ASSUME Access!TypeOK, FeaturesFollow, notices # <<>>
    PROVE  /\ Head(notices) \in SUBSET Features
           /\ Tail(notices) \in Seq(SUBSET Features)
           /\ Tail(notices) # <<>> => Tail(notices)[Len(Tail(notices))] = controls
           /\ Tail(notices) = <<>> => Head(notices) = controls
<1>1. /\ notices \in Seq(SUBSET Features) /\ notices # <<>>
      /\ notices[Len(notices)] = controls
  BY DEF Access!TypeOK, FeaturesFollow
<1>2. /\ Head(notices) \in SUBSET Features /\ Tail(notices) \in Seq(SUBSET Features)
      /\ Len(notices) \in Nat /\ Len(notices) >= 1 /\ Len(Tail(notices)) = Len(notices) - 1
      /\ Head(notices) = notices[1]
      /\ \A i \in 1 .. Len(Tail(notices)) : Tail(notices)[i] = notices[i + 1]
  BY <1>1
<1>3. Tail(notices) # <<>> => Tail(notices)[Len(Tail(notices))] = controls
  BY <1>1, <1>2
<1>4. Tail(notices) = <<>> => Len(notices) = 1
  <2>1. \A t : t = <<>> => Len(t) = 0
    OBVIOUS
  <2>2. Tail(notices) = <<>> => Len(Tail(notices)) = 0
    BY <2>1, Zenon
  <2> QED
    BY <1>2, <2>2
<1> QED
  BY <1>1, <1>2, <1>3, <1>4

\* Reading settings that were written last sets what they say.
LEMMA SettingsRead ==
    ASSUME NEW c \in Access!Configs, NEW queue \in Seq(SUBSET Features),
           controls \in SUBSET Features,
           queue # <<>> => queue[Len(queue)] = controls,
           connections \in 1 .. MaxReads, connections < MaxReads,
           Access!ReadSettings(c, queue)
    PROVE  /\ FeaturesFollow'
           /\ controls' = c.on /\ features' = c.on
           /\ notices' \in Seq(SUBSET Features)
           /\ readerOn' \in BOOLEAN /\ connections' \in 1 .. MaxReads
<1>1. c.on \in SUBSET Features /\ c.reader \in BOOLEAN
  BY DEF Access!Configs
<1>2. Access!SetControls(c.on, queue)
  BY DEF Access!ReadSettings
<1>3. /\ controls' = c.on
      /\ notices' \in Seq(SUBSET Features)
      /\ notices' # <<>> => notices'[Len(notices')] = c.on
  BY <1>1, <1>2, ControlsSet
<1>4. features' = c.on /\ readerOn' = c.reader /\ connections' = connections + 1
  BY DEF Access!ReadSettings
<1>5. connections' \in 1 .. MaxReads
  BY <1>4, AccessAssumption DEF Access!BoundsAssumption
<1> QED
  BY <1>1, <1>3, <1>4, <1>5 DEF FeaturesFollow

\* The question names features, and those it should except for two and two.
LEMMA NamedAreFeatures ==
    ASSUME NEW on \in SUBSET Features, NEW off \in SUBSET Features
    PROVE  Access!NamedOff(on, off) \in SUBSET Features
  BY DEF Access!NamedOff, Access!FirstListed, Access!LastListed

LEMMA NamedUnlessTwoForTwo ==
    ASSUME NEW on, NEW off
    PROVE  Access!NamedOff(on, off) = off \/ Access!TwoForTwo(on, off)
  BY DEF Access!NamedOff

\* kaccess begins with the features of its settings.
LEMMA AccessStarts == Access!Init => AccessIInv
<1> SUFFICES ASSUME Access!Init PROVE AccessIInv
  OBVIOUS
<1>1. /\ config \in Access!Configs
      /\ controls = config.on /\ features = config.on /\ wanted = config.on
      /\ notices = <<>> /\ dialog = FALSE /\ label = Access!NoLabel
      /\ readerOn = config.reader /\ connections = 1
  BY DEF Access!Init
<1>2. config.on \in SUBSET Features /\ config.reader \in BOOLEAN
  BY <1>1 DEF Access!Configs
<1>3. label \in Access!Labels
  BY <1>1 DEF Access!NoLabel, Access!Labels
<1>4. connections \in 1 .. MaxReads
  BY <1>1, AccessAssumption DEF Access!BoundsAssumption
<1>5. Access!TypeOK
  <2>1. notices \in Seq(SUBSET Features)
    BY <1>1
  <2> QED
    BY <1>1, <1>2, <1>3, <1>4, <2>1 DEF Access!TypeOK
<1> QED
  BY <1>1, <1>5 DEF AccessIInv, FeaturesFollow, FeaturesAsConfigured, AskedWhileFresh,
     YesIsForWhatIsNamed, Access!YesIsForWhatIsNamed

\* No step of kaccess, of the server, of the user or of the settings page
\* breaks it.
LEMMA AccessSteps == AccessIInv /\ Access!Next => AccessIInv'
<1> SUFFICES ASSUME AccessIInv, Access!Next PROVE AccessIInv'
  OBVIOUS
<1>1. /\ Access!TypeOK /\ FeaturesFollow /\ FeaturesAsConfigured /\ AskedWhileFresh
      /\ YesIsForWhatIsNamed
  BY DEF AccessIInv
<1>2. /\ config \in Access!Configs /\ controls \in SUBSET Features
      /\ features \in SUBSET Features /\ wanted \in SUBSET Features
      /\ notices \in Seq(SUBSET Features)
      /\ dialog \in BOOLEAN /\ label \in Access!Labels
      /\ readerOn \in BOOLEAN /\ connections \in 1 .. MaxReads
      /\ config.on \in SUBSET Features
      /\ notices # <<>> => notices[Len(notices)] = controls
  BY <1>1 DEF Access!TypeOK, Access!Configs, FeaturesFollow
<1>3. ASSUME NEW on \in SUBSET Features, Access!ControlsChange(on) PROVE AccessIInv'
  <2>1. Access!SetControls(on, notices) /\ on # controls
    BY <1>3 DEF Access!ControlsChange
  <2>2. /\ controls' = on
        /\ notices' \in Seq(SUBSET Features)
        /\ notices' # <<>> => notices'[Len(notices')] = on
        /\ notices' = <<>> => controls = on
    BY <1>2, <2>1, ControlsSet
  <2>3. UNCHANGED <<features, wanted, config, dialog, label, readerOn, connections>>
    BY <1>3 DEF Access!ControlsChange, Access!dialogVars, Access!readerVars
  <2> QED
    BY <1>1, <1>2, <2>1, <2>2, <2>3 DEF AccessIInv, Access!TypeOK, FeaturesFollow,
       FeaturesAsConfigured, AskedWhileFresh, YesIsForWhatIsNamed, Access!YesIsForWhatIsNamed
<1>4. CASE Access!NothingNew
  <2>1. /\ notices # <<>> /\ Head(notices) = features /\ notices' = Tail(notices)
        /\ UNCHANGED <<controls, features, wanted, config, dialog, label, readerOn, connections>>
    BY <1>4 DEF Access!NothingNew, Access!dialogVars, Access!readerVars
  <2>2. /\ Tail(notices) \in Seq(SUBSET Features)
        /\ Tail(notices) # <<>> => Tail(notices)[Len(Tail(notices))] = controls
        /\ Tail(notices) = <<>> => Head(notices) = controls
    BY <1>1, <2>1, TakenNotice
  <2> QED
    BY <1>1, <1>2, <2>1, <2>2 DEF AccessIInv, Access!TypeOK, FeaturesFollow,
       FeaturesAsConfigured, AskedWhileFresh, YesIsForWhatIsNamed, Access!YesIsForWhatIsNamed
<1>5. CASE Access!FollowControls
  <2>1. /\ notices # <<>> /\ ~config.confirm /\ notices' = Tail(notices)
        /\ features' = Head(notices)
        /\ wanted' = Access!Requested(Head(notices), wanted)
        /\ UNCHANGED <<controls, config, dialog, label, readerOn, connections>>
    BY <1>5 DEF Access!FollowControls, Access!dialogVars, Access!readerVars
  <2>2. /\ Head(notices) \in SUBSET Features
        /\ Tail(notices) \in Seq(SUBSET Features)
        /\ Tail(notices) # <<>> => Tail(notices)[Len(Tail(notices))] = controls
        /\ Tail(notices) = <<>> => Head(notices) = controls
    BY <1>1, <2>1, TakenNotice
  <2>3. wanted' \in SUBSET Features
    BY <1>2, <2>1, <2>2 DEF Access!Requested
  <2>4. ~(dialog /\ label.fresh)
    BY <1>1, <2>1 DEF AskedWhileFresh
  <2> QED
    BY <1>1, <1>2, <2>1, <2>2, <2>3, <2>4 DEF AccessIInv, Access!TypeOK, FeaturesFollow,
       FeaturesAsConfigured, AskedWhileFresh, YesIsForWhatIsNamed, Access!YesIsForWhatIsNamed
<1>6. CASE Access!AskFirst
  <2>1. /\ notices # <<>> /\ config.confirm /\ connections < MaxReads
        /\ Access!ReadSettings(config, Tail(notices))
        /\ wanted' = Access!Requested(Head(notices), IF dialog THEN wanted ELSE config.on)
        /\ dialog' = TRUE /\ config' = config
        /\ label' = [on |-> wanted' \ features',
                     off |-> Access!NamedOff(wanted' \ features', features' \ wanted'),
                     fresh |-> TRUE]
    BY <1>6 DEF Access!AskFirst, Access!LabelFor
  <2>2. /\ Head(notices) \in SUBSET Features
        /\ Tail(notices) \in Seq(SUBSET Features)
        /\ Tail(notices) # <<>> => Tail(notices)[Len(Tail(notices))] = controls
    BY <1>1, <2>1, TakenNotice
  <2>3. /\ FeaturesFollow'
        /\ controls' = config.on /\ features' = config.on
        /\ notices' \in Seq(SUBSET Features)
        /\ readerOn' \in BOOLEAN /\ connections' \in 1 .. MaxReads
    BY <1>2, <2>1, <2>2, SettingsRead
  <2>4. wanted' \in SUBSET Features
    BY <1>2, <2>1, <2>2 DEF Access!Requested
  <2>5. Access!NamedOff(wanted' \ features', features' \ wanted') \in SUBSET Features
    BY <1>2, <2>3, <2>4, NamedAreFeatures
  <2>6. label' \in Access!Labels
    BY <1>2, <2>1, <2>3, <2>4, <2>5 DEF Access!Labels
  <2>7. \/ label'.off = features' \ wanted'
        \/ Access!TwoForTwo(wanted' \ features', features' \ wanted')
    BY <2>1, NamedUnlessTwoForTwo
  <2>8. label'.on = wanted' \ features'
    BY <2>1
  <2>9. YesIsForWhatIsNamed'
    BY <2>7, <2>8 DEF YesIsForWhatIsNamed, Access!YesIsForWhatIsNamed
  <2> QED
    BY <1>2, <2>1, <2>3, <2>4, <2>6, <2>9 DEF AccessIInv, Access!TypeOK,
       FeaturesAsConfigured, AskedWhileFresh
<1>7. ASSUME NEW mode \in Access!Modes, NEW to \in SUBSET Features, Access!Apply(mode, to)
      PROVE  AccessIInv'
  <2> DEFINE c == [Access!Answered(mode) EXCEPT
                       !.on = (config.on \ (features \ to)) \cup (to \ features)]
  <2>1. /\ connections < MaxReads /\ config' = c /\ Access!ReadSettings(c, notices)
        /\ wanted' = c.on /\ dialog' = FALSE /\ label' = Access!NoLabel
    BY <1>7 DEF Access!Apply
  <2>2. c \in Access!Configs /\ c.on \in SUBSET Features
    BY <1>2 DEF Access!Answered, Access!Configs
  <2> HIDE DEF c
  <2>3. /\ FeaturesFollow'
        /\ controls' = c.on /\ features' = c.on
        /\ notices' \in Seq(SUBSET Features)
        /\ readerOn' \in BOOLEAN /\ connections' \in 1 .. MaxReads
    BY <1>2, <2>1, <2>2, SettingsRead
  <2>4. label' \in Access!Labels
    BY <2>1 DEF Access!NoLabel, Access!Labels
  <2> QED
    BY <2>1, <2>2, <2>3, <2>4 DEF AccessIInv, Access!TypeOK,
       FeaturesAsConfigured, AskedWhileFresh, YesIsForWhatIsNamed, Access!YesIsForWhatIsNamed
<1>8. ASSUME NEW mode \in Access!Modes, Access!YesClicked(mode) \/ Access!NoClicked(mode)
      PROVE  AccessIInv'
  <2>1. PICK to \in {{}, features, wanted} : Access!Apply(mode, to)
    BY <1>8 DEF Access!YesClicked, Access!NoClicked
  <2>2. to \in SUBSET Features
    BY <1>2, <2>1
  <2> QED
    BY <1>7, <2>1, <2>2
<1>9. ASSUME NEW c \in Access!Configs, Access!NewInstance(c) PROVE AccessIInv'
  <2>1. /\ connections < MaxReads /\ config' = c /\ Access!ReadSettings(c, notices)
        /\ wanted' = (IF dialog THEN wanted ELSE c.on)
        /\ label' = [label EXCEPT !.fresh = FALSE] /\ dialog' = dialog
    BY <1>9 DEF Access!NewInstance, Access!dialogVars
  <2>2. /\ FeaturesFollow'
        /\ controls' = c.on /\ features' = c.on
        /\ notices' \in Seq(SUBSET Features)
        /\ readerOn' \in BOOLEAN /\ connections' \in 1 .. MaxReads
    BY <1>2, <2>1, SettingsRead
  <2>3. wanted' \in SUBSET Features /\ c.on \in SUBSET Features
    BY <1>2, <2>1 DEF Access!Configs
  <2>4. label' \in Access!Labels /\ ~label'.fresh
    BY <1>2, <2>1 DEF Access!Labels
  <2> QED
    BY <1>2, <2>1, <2>2, <2>3, <2>4 DEF AccessIInv, Access!TypeOK,
       FeaturesAsConfigured, AskedWhileFresh, YesIsForWhatIsNamed, Access!YesIsForWhatIsNamed
<1>10. CASE Access!ToggleScreenReader
  <2>1. /\ config' = [config EXCEPT !.reader = (@ # Access!Odd(connections))]
        /\ readerOn' = config'.reader
        /\ UNCHANGED <<controls, notices, features, wanted, dialog, label, connections>>
    BY <1>10 DEF Access!ToggleScreenReader, Access!keyboardVars, Access!dialogVars
  <2>2. /\ config' \in Access!Configs /\ config'.on = config.on
        /\ config'.confirm = config.confirm /\ config'.reader \in BOOLEAN
    BY <1>2, <2>1 DEF Access!Configs
  <2> QED
    BY <1>1, <1>2, <2>1, <2>2 DEF AccessIInv, Access!TypeOK, FeaturesFollow,
       FeaturesAsConfigured, AskedWhileFresh, YesIsForWhatIsNamed, Access!YesIsForWhatIsNamed
<1> QED
  BY <1>3, <1>4, <1>5, <1>6, <1>8, <1>9, <1>10 DEF Access!Next

\* The invariant of kaccess, for the session.
LEMMA AccessInductive == SessionSpec => []AccessIInv
<1>1. SessionInit => AccessIInv
  BY AccessStarts DEF SessionInit
<1>2. [SessionNext]_sessionVars => [Access!Next]_accessVars
  BY DEF SessionNext, sessionVars, accessVars
<1>3. AccessIInv /\ [Access!Next]_accessVars => AccessIInv'
  <2>1. AccessIInv /\ UNCHANGED accessVars => AccessIInv'
    BY DEF AccessIInv, accessVars, Access!TypeOK, FeaturesFollow, FeaturesAsConfigured,
       AskedWhileFresh, YesIsForWhatIsNamed, Access!YesIsForWhatIsNamed
  <2> QED
    BY <2>1, AccessSteps
<1> QED
  BY <1>1, <1>2, <1>3, PTL DEF SessionSpec

(***************************************************************************)
(* A user who wants to be asked has, when all events are handled, exactly  *)
(* the features the settings say, for every set of features and whatever   *)
(* gestures, applications, answers and the settings page do.               *)
(***************************************************************************)
THEOREM OnlyAskedFeatures == SessionSpec => []AskedFeaturesOnly
<1>1. AccessIInv => AskedFeaturesOnly
  BY DEF AccessIInv, FeaturesFollow, FeaturesAsConfigured, AskedFeaturesOnly,
     Access!AskedFeaturesOnly
<1> QED
  BY <1>1, AccessInductive, PTL

(***************************************************************************)
(* Yes turns on what the dialog of kaccess names and nothing else, unless  *)
(* the settings page saved while the dialog was open; and it turns off     *)
(* what the dialog names, unless two features are to be turned on and two  *)
(* off, when the question names another one (kaccess.cpp:806).             *)
(***************************************************************************)
THEOREM YesMeansWhatItSays == SessionSpec => []YesIsForWhatIsNamed
<1>1. AccessIInv => YesIsForWhatIsNamed
  BY DEF AccessIInv
<1> QED
  BY <1>1, AccessInductive, PTL

-----------------------------------------------------------------------------
(***************************************************************************)
(* The badges of the task manager.                                         *)
(***************************************************************************)
\* An application that sent nothing is answered nothing.
NothingSent == ~known => entry = Badges!NoEntry /\ item = Badges!NoEntry

\* An item of another application says nothing.
OthersSayNothing == ~itsOwn => item = Badges!NoEntry

\* An item's badge is one the user's settings allow; its progress bar, and
\* where that is, are what the backend answers.
BadgesOn == badges /\ ~blacklisted /\ ~quiet

ItemFollows ==
    itsOwn =>
        /\ item.countVisible => BadgesOn
        /\ item.progressVisible => jobs /\ entry.progressVisible
        /\ jobs => item.progress = entry.progress

BadgesIInv == Badges!TypeOK /\ NothingSent /\ OthersSayNothing /\ ItemFollows

\* An entry, field by field.
LEMMA EntryFields ==
    /\ Badges!Fields = {"count", "progress", "countVisible", "progressVisible", "urgent"}
    /\ Badges!NoEntry \in Badges!Entry
    /\ Badges!NoEntry.progress = 0
    /\ ~Badges!NoEntry.countVisible /\ ~Badges!NoEntry.progressVisible
  BY BadgesAssumption DEF Badges!ValuesAssumption, Badges!Fields, Badges!NoEntry, Badges!Entry

\* What the backend answers for each field of an entry.
LEMMA Answers ==
    ASSUME NEW e \in Badges!Entry
    PROVE  /\ Badges!Answer(e, "count") = IF Badges!BadgesAllowed THEN e.count ELSE 0
           /\ Badges!Answer(e, "countVisible") = (Badges!BadgesAllowed /\ e.countVisible)
           /\ Badges!Answer(e, "progress") = IF jobs THEN e.progress ELSE 0
           /\ Badges!Answer(e, "progressVisible") = (jobs /\ e.progressVisible)
           /\ Badges!Answer(e, "urgent") = e.urgent
  BY DEF Badges!Answer, Badges!Allowed, Badges!NoEntry, Badges!Entry

\* An item that is populated says what the backend answers.
LEMMA PopulatedSound ==
    ASSUME item' = Badges!Populated, entry' \in Badges!Entry
    PROVE  /\ item' \in Badges!Entry
           /\ item'.countVisible => Badges!BadgesAllowed' /\ entry'.countVisible
           /\ item'.progressVisible => jobs' /\ entry'.progressVisible
           /\ jobs' => item'.progress = entry'.progress
<1>1. item' = [f \in Badges!Fields |-> (Badges!Answer(entry, f))']
  BY DEF Badges!Populated
<1>2. /\ (Badges!Answer(entry, "count"))' = IF Badges!BadgesAllowed' THEN entry'.count ELSE 0
      /\ (Badges!Answer(entry, "countVisible"))' = (Badges!BadgesAllowed' /\ entry'.countVisible)
      /\ (Badges!Answer(entry, "progress"))' = IF jobs' THEN entry'.progress ELSE 0
      /\ (Badges!Answer(entry, "progressVisible"))' = (jobs' /\ entry'.progressVisible)
      /\ (Badges!Answer(entry, "urgent"))' = entry'.urgent
  BY DEF Badges!Answer, Badges!Allowed, Badges!NoEntry, Badges!Entry
<1>3. /\ (Badges!Answer(entry, "count"))' \in Values
      /\ (Badges!Answer(entry, "countVisible"))' \in BOOLEAN
      /\ (Badges!Answer(entry, "progress"))' \in Values
      /\ (Badges!Answer(entry, "progressVisible"))' \in BOOLEAN
      /\ (Badges!Answer(entry, "urgent"))' \in BOOLEAN
  BY <1>2, BadgesAssumption DEF Badges!ValuesAssumption, Badges!Entry
<1>4. item' \in Badges!Entry
  BY <1>1, <1>3, EntryFields DEF Badges!Entry
<1>5. /\ item'.countVisible = (Badges!Answer(entry, "countVisible"))'
      /\ item'.progress = (Badges!Answer(entry, "progress"))'
      /\ item'.progressVisible = (Badges!Answer(entry, "progressVisible"))'
  BY <1>1, EntryFields
<1> QED
  BY <1>2, <1>4, <1>5

\* No item is shown and nothing was sent.
LEMMA BadgesStart == Badges!Init => BadgesIInv
  BY EntryFields DEF Badges!Init, BadgesIInv, Badges!TypeOK, NothingSent, OthersSayNothing,
     ItemFollows

\* No message of the application, change of the settings or of the item, and
\* no end of the quiet time breaks it.
LEMMA BadgesStep == BadgesIInv /\ Badges!Next => BadgesIInv'
<1> SUFFICES ASSUME BadgesIInv, Badges!Next PROVE BadgesIInv'
  OBVIOUS
<1>1. Badges!TypeOK /\ NothingSent /\ OthersSayNothing /\ ItemFollows
  BY DEF BadgesIInv
<1>2. /\ known \in BOOLEAN /\ itsOwn \in BOOLEAN /\ jobs \in BOOLEAN
      /\ entry \in Badges!Entry /\ item \in Badges!Entry
  BY <1>1 DEF Badges!TypeOK
<1>3. ASSUME NEW f \in {"count", "progress", "countVisible", "progressVisible", "urgent"},
             NEW value,
             f \in {"count", "progress"} => value \in Values,
             f \in {"countVisible", "progressVisible", "urgent"} => value \in BOOLEAN,
             Badges!Update(f, value)
      PROVE  BadgesIInv'
  <2> DEFINE sent == [entry EXCEPT ![f] = value]
             told == Badges!Told(f, value)
  <2>1. /\ known' = TRUE /\ entry' = sent
        /\ item' = IF itsOwn /\ told # {}
                   THEN [item EXCEPT ![f] = CHOOSE v \in told : TRUE] ELSE item
        /\ UNCHANGED <<badges, jobs, blacklisted, quiet, inhibited, itsOwn>>
    BY <1>3 DEF Badges!Update, Badges!settingsVars
  <2>2. sent \in Badges!Entry
    BY <1>2, <1>3 DEF Badges!Entry
  <2>3. told = IF f = "count" /\ value # entry.count THEN {value}
               ELSE IF Badges!Answer(sent, f) # Badges!Answer(entry, f)
                    THEN {Badges!Answer(sent, f)} ELSE {}
    BY DEF Badges!Told
  <2>4. BadgesOn' = BadgesOn /\ (Badges!BadgesAllowed => BadgesOn)
    BY <2>1 DEF BadgesOn, Badges!BadgesAllowed
  <2>5. ASSUME NEW v, itsOwn, told = {v}, item' = [item EXCEPT ![f] = v] 
        PROVE BadgesIInv'
    <3>1. CASE f = "count"
      <4>1. v \in Values
        BY <1>2, <1>3, <2>2, <2>3, <2>5, <3>1, Answers, BadgesAssumption
           DEF Badges!ValuesAssumption, Badges!Entry
      <4>2. /\ item' \in Badges!Entry /\ item'.countVisible = item.countVisible
            /\ item'.progressVisible = item.progressVisible /\ item'.progress = item.progress
            /\ entry'.countVisible = entry.countVisible
            /\ entry'.progressVisible = entry.progressVisible /\ entry'.progress = entry.progress
        BY <1>2, <2>1, <2>2, <2>5, <3>1, <4>1 DEF Badges!Entry
      <4> QED
        BY <1>1, <1>2, <2>1, <2>2, <2>4, <2>5, <4>2
           DEF BadgesIInv, Badges!TypeOK, NothingSent, OthersSayNothing, ItemFollows
    <3>2. CASE f = "progress"
      <4>1. v = value /\ jobs /\ v \in Values
        BY <1>2, <1>3, <2>2, <2>3, <2>5, <3>2, Answers DEF Badges!Entry
      <4>2. /\ item' \in Badges!Entry /\ item'.countVisible = item.countVisible
            /\ item'.progressVisible = item.progressVisible /\ item'.progress = v
            /\ entry'.countVisible = entry.countVisible
            /\ entry'.progressVisible = entry.progressVisible /\ entry'.progress = value
        BY <1>2, <2>1, <2>2, <2>5, <3>2, <4>1 DEF Badges!Entry
      <4> QED
        BY <1>1, <1>2, <2>1, <2>2, <2>4, <2>5, <4>1, <4>2
           DEF BadgesIInv, Badges!TypeOK, NothingSent, OthersSayNothing, ItemFollows
    <3>3. CASE f = "countVisible"
      <4>1. v \in BOOLEAN /\ (v <=> value) /\ Badges!BadgesAllowed
        BY <1>2, <1>3, <2>2, <2>3, <2>5, <3>3, Answers DEF Badges!Entry
      <4>2. /\ item' \in Badges!Entry /\ item'.countVisible = v
            /\ item'.progressVisible = item.progressVisible /\ item'.progress = item.progress
            /\ entry'.countVisible = value
            /\ entry'.progressVisible = entry.progressVisible /\ entry'.progress = entry.progress
        BY <1>2, <2>1, <2>2, <2>5, <3>3, <4>1 DEF Badges!Entry
      <4> QED
        BY <1>1, <1>2, <2>1, <2>2, <2>4, <2>5, <4>1, <4>2
           DEF BadgesIInv, Badges!TypeOK, NothingSent, OthersSayNothing, ItemFollows
    <3>4. CASE f = "progressVisible"
      <4>1. v \in BOOLEAN /\ (v <=> value) /\ jobs
        BY <1>2, <1>3, <2>2, <2>3, <2>5, <3>4, Answers DEF Badges!Entry
      <4>2. /\ item' \in Badges!Entry /\ item'.countVisible = item.countVisible
            /\ item'.progressVisible = v /\ item'.progress = item.progress
            /\ entry'.countVisible = entry.countVisible
            /\ entry'.progressVisible = value /\ entry'.progress = entry.progress
        BY <1>2, <2>1, <2>2, <2>5, <3>4, <4>1 DEF Badges!Entry
      <4> QED
        BY <1>1, <1>2, <2>1, <2>2, <2>4, <2>5, <4>1, <4>2
           DEF BadgesIInv, Badges!TypeOK, NothingSent, OthersSayNothing, ItemFollows
    <3>5. CASE f = "urgent"
      <4>1. v \in BOOLEAN
        BY <1>2, <1>3, <2>2, <2>3, <2>5, <3>5, Answers DEF Badges!Entry
      <4>2. /\ item' \in Badges!Entry /\ item'.countVisible = item.countVisible
            /\ item'.progressVisible = item.progressVisible /\ item'.progress = item.progress
            /\ entry'.countVisible = entry.countVisible
            /\ entry'.progressVisible = entry.progressVisible /\ entry'.progress = entry.progress
        BY <1>2, <2>1, <2>2, <2>5, <3>5, <4>1 DEF Badges!Entry
      <4> QED
        BY <1>1, <1>2, <2>1, <2>2, <2>4, <2>5, <4>2
           DEF BadgesIInv, Badges!TypeOK, NothingSent, OthersSayNothing, ItemFollows
    <3> QED
      BY <1>3, <3>1, <3>2, <3>3, <3>4, <3>5
  <2>6. \/ item' = item /\ (itsOwn => told = {})
        \/ \E v : itsOwn /\ told = {v} /\ item' = [item EXCEPT ![f] = v]
    BY <2>1, <2>3
  <2>7. ASSUME item' = item, itsOwn => told = {} PROVE BadgesIInv'
    <3>1. ~itsOwn => item' = Badges!NoEntry
      BY <1>1, <2>7 DEF OthersSayNothing
    <3>2. CASE f \in {"count", "urgent"}
      <4>1. /\ entry'.countVisible = entry.countVisible
            /\ entry'.progressVisible = entry.progressVisible /\ entry'.progress = entry.progress
        BY <1>2, <2>1, <2>2, <3>2 DEF Badges!Entry
      <4> QED
        BY <1>1, <1>2, <2>1, <2>2, <2>4, <2>7, <3>1, <4>1
           DEF BadgesIInv, Badges!TypeOK, NothingSent, OthersSayNothing, ItemFollows
    <3>3. CASE f = "progress"
      <4>1. /\ entry'.countVisible = entry.countVisible
            /\ entry'.progressVisible = entry.progressVisible
            /\ itsOwn /\ jobs => entry'.progress = entry.progress
        <5>1. sent.progress = value
          BY <1>2, <3>3 DEF Badges!Entry
        <5>2. itsOwn /\ jobs => value = entry.progress
          BY <1>2, <2>2, <2>3, <2>7, <3>3, <5>1, Answers
        <5> QED
          BY <1>2, <2>1, <2>2, <3>3, <5>1, <5>2 DEF Badges!Entry
      <4> QED
        BY <1>1, <1>2, <2>1, <2>2, <2>4, <2>7, <3>1, <4>1
           DEF BadgesIInv, Badges!TypeOK, NothingSent, OthersSayNothing, ItemFollows
    <3>4. CASE f = "countVisible"
      <4>1. /\ entry'.progress = entry.progress
            /\ entry'.progressVisible = entry.progressVisible
        BY <1>2, <2>1, <2>2, <3>4 DEF Badges!Entry
      <4> QED
        BY <1>1, <1>2, <2>1, <2>2, <2>4, <2>7, <3>1, <4>1
           DEF BadgesIInv, Badges!TypeOK, NothingSent, OthersSayNothing, ItemFollows
    <3>5. CASE f = "progressVisible"
      <4>1. /\ entry'.progress = entry.progress
            /\ entry'.countVisible = entry.countVisible
            /\ itsOwn /\ jobs /\ entry.progressVisible => entry'.progressVisible
        <5>1. sent.progressVisible = value
          BY <1>2, <3>5 DEF Badges!Entry
        <5>2. itsOwn /\ jobs /\ entry.progressVisible => value
          BY <1>2, <2>2, <2>3, <2>7, <3>5, <5>1, Answers
        <5> QED
          BY <1>2, <2>1, <2>2, <3>5, <5>1, <5>2 DEF Badges!Entry
      <4> QED
        BY <1>1, <1>2, <2>1, <2>2, <2>4, <2>7, <3>1, <4>1
           DEF BadgesIInv, Badges!TypeOK, NothingSent, OthersSayNothing, ItemFollows
    <3> QED
      BY <1>3, <3>2, <3>3, <3>4, <3>5
  <2> QED
    BY <2>5, <2>6, <2>7
<1>4. ASSUME NEW b \in BOOLEAN, NEW j \in BOOLEAN, NEW l \in BOOLEAN, NEW q \in BOOLEAN,
             Badges!ChangeSettings(b, j, l, q)
      PROVE  BadgesIInv'
  <2>1. /\ badges' = b /\ jobs' = j /\ blacklisted' = l /\ quiet' = q
        /\ UNCHANGED <<inhibited, known, entry, itsOwn>>
        /\ item' = IF itsOwn /\ known THEN Badges!Populated ELSE item
    BY <1>4 DEF Badges!ChangeSettings
  <2>2. CASE itsOwn /\ known
    <3>1. /\ item' \in Badges!Entry
          /\ item'.countVisible => BadgesOn'
          /\ item'.progressVisible => jobs' /\ entry'.progressVisible
          /\ jobs' => item'.progress = entry'.progress
      BY <1>2, <2>1, <2>2, PopulatedSound DEF BadgesOn, Badges!BadgesAllowed
    <3> QED
      BY <1>2, <2>1, <2>2, <3>1
         DEF BadgesIInv, Badges!TypeOK, NothingSent, OthersSayNothing, ItemFollows
  <2>3. CASE ~(itsOwn /\ known)
    <3>1. item' = Badges!NoEntry /\ (itsOwn => entry' = Badges!NoEntry)
      BY <1>1, <2>1, <2>3 DEF NothingSent, OthersSayNothing
    <3> QED
      BY <1>1, <1>2, <2>1, <2>3, <3>1, EntryFields
         DEF BadgesIInv, Badges!TypeOK, NothingSent, OthersSayNothing, ItemFollows
  <2> QED
    BY <2>2, <2>3
<1>5. CASE Badges!QuietTimeOver
  <2>1. /\ quiet /\ quiet' = FALSE
        /\ UNCHANGED <<known, entry, badges, jobs, blacklisted, inhibited, itsOwn, item>>
    BY <1>5 DEF Badges!QuietTimeOver
  <2>2. ~BadgesOn
    BY <2>1 DEF BadgesOn
  <2> QED
    BY <1>1, <2>1, <2>2
       DEF BadgesIInv, Badges!TypeOK, NothingSent, OthersSayNothing, ItemFollows
<1>6. ASSUME NEW own \in BOOLEAN, Badges!SetLauncherUrl(own) PROVE BadgesIInv'
  <2>1. /\ itsOwn' = own /\ UNCHANGED <<known, entry, badges, jobs, blacklisted, quiet, inhibited>>
        /\ item' = IF own /\ known THEN Badges!Populated ELSE Badges!NoEntry
    BY <1>6 DEF Badges!SetLauncherUrl, Badges!settingsVars
  <2>2. CASE own /\ known
    <3>1. /\ item' \in Badges!Entry
          /\ item'.countVisible => BadgesOn'
          /\ item'.progressVisible => jobs' /\ entry'.progressVisible
          /\ jobs' => item'.progress = entry'.progress
      BY <1>2, <2>1, <2>2, PopulatedSound DEF BadgesOn, Badges!BadgesAllowed
    <3> QED
      BY <1>1, <1>2, <2>1, <2>2, <3>1
         DEF BadgesIInv, Badges!TypeOK, NothingSent, OthersSayNothing, ItemFollows
  <2>3. CASE ~(own /\ known)
    <3>1. item' = Badges!NoEntry /\ (itsOwn' => entry' = Badges!NoEntry)
      BY <1>1, <2>1, <2>3 DEF NothingSent
    <3> QED
      BY <1>1, <1>2, <2>1, <2>3, <3>1, EntryFields
         DEF BadgesIInv, Badges!TypeOK, NothingSent, OthersSayNothing, ItemFollows
  <2> QED
    BY <2>2, <2>3
<1>7. CASE Badges!Inhibit
  <2>1. /\ inhibited' = ~inhibited
        /\ UNCHANGED <<known, entry, badges, jobs, blacklisted, quiet, itsOwn, item>>
    BY <1>7 DEF Badges!Inhibit
  <2>2. BadgesOn' = BadgesOn
    BY <2>1 DEF BadgesOn
  <2> QED
    BY <1>1, <2>1, <2>2
       DEF BadgesIInv, Badges!TypeOK, NothingSent, OthersSayNothing, ItemFollows
<1> QED
  BY <1>3, <1>4, <1>5, <1>6, <1>7 DEF Badges!Next, Badges!Flags

\* What a message of the application does to the badge: it leaves it, unless
\* the backend told otherwise, or sets it as the backend answers.
LEMMA UpdatedBadge ==
    ASSUME Badges!TypeOK,
           NEW f \in {"count", "progress", "countVisible", "progressVisible", "urgent"},
           NEW value,
           f \in {"countVisible", "progressVisible", "urgent"} => value \in BOOLEAN,
           f \in {"count", "progress"} => value \in Values,
           Badges!Update(f, value), Badges!BadgeRight
    PROVE  Badges!BadgeRight'
<1> DEFINE sent == [entry EXCEPT ![f] = value]
           told == Badges!Told(f, value)
<1>1. /\ entry' = sent
      /\ item' = IF itsOwn /\ told # {}
                 THEN [item EXCEPT ![f] = CHOOSE v \in told : TRUE] ELSE item
      /\ UNCHANGED <<badges, jobs, blacklisted, quiet, inhibited, itsOwn>>
  BY DEF Badges!Update, Badges!settingsVars
<1>2. entry \in Badges!Entry /\ item \in Badges!Entry /\ sent \in Badges!Entry
  BY DEF Badges!TypeOK, Badges!Entry
<1>3. Badges!BadgesAllowed' = Badges!BadgesAllowed
  BY <1>1 DEF Badges!BadgesAllowed
<1>4. CASE f # "countVisible"
  <2>1. item'.countVisible = item.countVisible /\ entry'.countVisible = entry.countVisible
    BY <1>1, <1>2, <1>4 DEF Badges!Entry
  <2> QED
    BY <1>1, <1>3, <2>1 DEF Badges!BadgeRight
<1>5. CASE f = "countVisible"
  <2>1. entry'.countVisible = value
    BY <1>1, <1>2, <1>5 DEF Badges!Entry
  <2>2. told = IF Badges!Answer(sent, f) # Badges!Answer(entry, f)
               THEN {Badges!Answer(sent, f)} ELSE {}
    BY <1>5 DEF Badges!Told
  <2>3. /\ Badges!Answer(sent, f) = (Badges!BadgesAllowed /\ value)
        /\ Badges!Answer(entry, f) = (Badges!BadgesAllowed /\ entry.countVisible)
    <3>1. sent.countVisible = value
      BY <1>2, <1>5 DEF Badges!Entry
    <3> QED
      BY <1>2, <1>5, <3>1, Answers
  <2>4. ASSUME itsOwn, told # {} PROVE Badges!BadgeRight'
    <3>1. (CHOOSE v \in told : TRUE) = Badges!Answer(sent, f)
      BY <2>2, <2>4
    <3>2. item'.countVisible = (Badges!BadgesAllowed /\ value)
      BY <1>1, <1>2, <1>5, <2>3, <2>4, <3>1 DEF Badges!Entry
    <3> QED
      BY <1>1, <1>3, <2>1, <2>4, <3>2 DEF Badges!BadgeRight
  <2>5. ASSUME ~(itsOwn /\ told # {}) PROVE Badges!BadgeRight'
    <3>1. item' = item
      BY <1>1, <2>5
    <3>2. itsOwn /\ Badges!BadgesAllowed /\ entry.countVisible => value
      BY <2>2, <2>3, <2>5
    <3> QED
      BY <1>1, <1>3, <2>1, <3>1, <3>2 DEF Badges!BadgeRight
  <2> QED
    BY <2>4, <2>5
<1> QED
  BY <1>4, <1>5

\* A badge that is right stays right, unless an application inhibits.
LEMMA RightStep ==
    ASSUME BadgesIInv, Badges!Next, Badges!BadgeRight, ~(inhibited' /\ ~inhibited)
    PROVE  Badges!BadgeRight'
<1>1. Badges!TypeOK /\ NothingSent /\ OthersSayNothing
  BY DEF BadgesIInv
<1>2. entry \in Badges!Entry /\ inhibited \in BOOLEAN
  BY <1>1 DEF Badges!TypeOK
<1>3. ASSUME NEW f \in Badges!Flags, NEW value \in BOOLEAN, Badges!Update(f, value)
      PROVE  Badges!BadgeRight'
  BY <1>1, <1>3, UpdatedBadge DEF Badges!Flags
<1>4. ASSUME NEW f \in {"count", "progress"}, NEW value \in Values, Badges!Update(f, value)
      PROVE  Badges!BadgeRight'
  BY <1>1, <1>4, UpdatedBadge
<1>5. ASSUME NEW b \in BOOLEAN, NEW j \in BOOLEAN, NEW l \in BOOLEAN, NEW q \in BOOLEAN,
             Badges!ChangeSettings(b, j, l, q)
      PROVE  Badges!BadgeRight'
  <2>1. /\ UNCHANGED <<entry, itsOwn>>
        /\ item' = IF itsOwn /\ known THEN Badges!Populated ELSE item
    BY <1>5 DEF Badges!ChangeSettings
  <2>2. CASE itsOwn /\ known
    BY <1>2, <2>1, <2>2, PopulatedSound DEF Badges!BadgeRight
  <2>3. CASE ~(itsOwn /\ known)
    <3>1. item' = Badges!NoEntry
      BY <1>1, <2>1, <2>3 DEF NothingSent, OthersSayNothing
    <3> QED
      BY <3>1, EntryFields DEF Badges!BadgeRight
  <2> QED
    BY <2>2, <2>3
<1>6. CASE Badges!QuietTimeOver \/ Badges!Inhibit
  <2>1. UNCHANGED <<entry, itsOwn, item>> /\ (quiet \/ inhibited)
    BY <1>2, <1>6 DEF Badges!QuietTimeOver, Badges!Inhibit
  <2>2. ~item.countVisible
    BY <2>1 DEF Badges!BadgeRight, Badges!BadgesAllowed
  <2> QED
    BY <2>1, <2>2 DEF Badges!BadgeRight
<1>7. ASSUME NEW own \in BOOLEAN, Badges!SetLauncherUrl(own) PROVE Badges!BadgeRight'
  <2>1. /\ itsOwn' = own /\ entry' = entry
        /\ item' = IF own /\ known THEN Badges!Populated ELSE Badges!NoEntry
    BY <1>7 DEF Badges!SetLauncherUrl
  <2>2. CASE own /\ known
    BY <1>2, <2>1, <2>2, PopulatedSound DEF Badges!BadgeRight
  <2>3. CASE ~(own /\ known)
    BY <2>1, <2>3, EntryFields DEF Badges!BadgeRight
  <2> QED
    BY <2>2, <2>3
<1> QED
  BY <1>3, <1>4, <1>5, <1>6, <1>7 DEF Badges!Next

\* The invariant of the badges, for the session.
LEMMA BadgesInductive == SessionSpec => []BadgesIInv
<1>1. SessionInit => BadgesIInv
  BY BadgesStart DEF SessionInit
<1>2. [SessionNext]_sessionVars => [Badges!Next]_badgesVars
  BY DEF SessionNext, sessionVars, badgesVars
<1>3. BadgesIInv /\ UNCHANGED badgesVars => BadgesIInv'
  BY DEF BadgesIInv, badgesVars, Badges!TypeOK, NothingSent, OthersSayNothing, ItemFollows,
     BadgesOn
<1> QED
  BY <1>1, <1>2, <1>3, BadgesStep, PTL DEF SessionSpec

(***************************************************************************)
(* An item shows a badge or a progress bar only while the user's settings  *)
(* allow it, and a bar only while the application wants it, where the      *)
(* application said last, for every range of values and every order of     *)
(* messages, settings, inhibitions and items.                              *)
(***************************************************************************)
THEOREM BadgesAsAllowed == SessionSpec => []ShownAsAllowed
<1>1. BadgesIInv => ShownAsAllowed
  <2> SUFFICES ASSUME BadgesIInv PROVE ShownAsAllowed
    OBVIOUS
  <2>1. ~itsOwn => ~item.countVisible /\ ~item.progressVisible
    BY EntryFields DEF BadgesIInv, OthersSayNothing
  <2> QED
    BY <2>1 DEF BadgesIInv, ItemFollows, BadgesOn, ShownAsAllowed, Badges!ShownAsAllowed
<1> QED
  BY <1>1, BadgesInductive, PTL

(***************************************************************************)
(* A badge the backend would answer now stays one, whatever the            *)
(* application sends and the user sets, until an application inhibits the  *)
(* notifications: only then does the item keep a badge it should not show. *)
(***************************************************************************)
THEOREM OnlyInhibitionLeavesBadges == SessionSpec => BadgesStayRight
<1>1. [SessionNext]_sessionVars => [Badges!Next]_badgesVars
  BY DEF SessionNext, sessionVars, badgesVars
<1>2. BadgesIInv /\ [Badges!Next]_badgesVars =>
          [Badges!BadgeRight /\ ~(inhibited' /\ ~inhibited) => Badges!BadgeRight']_(Badges!vars)
  <2>1. UNCHANGED badgesVars => UNCHANGED Badges!vars
    BY DEF badgesVars, Badges!vars, Badges!settingsVars
  <2> QED
    BY <2>1, RightStep
<1> QED
  BY <1>1, <1>2, BadgesInductive, PTL DEF SessionSpec, BadgesStayRight, Badges!BadgesStayRight

-----------------------------------------------------------------------------
(***************************************************************************)
(* The activity switcher.                                                  *)
(***************************************************************************)
\* Hiding the switcher commits the change of activity; showing it does not.
LEMMA ShownCommitted ==
    ASSUME NEW value, CommittedWhenHidden, current' = current, Switcher!SetShown(value)
    PROVE  CommittedWhenHidden'
  BY DEF Switcher!SetShown, Switcher!Commit, CommittedWhenHidden, Switcher!CommittedWhenHidden

\* One step for each action of the switcher.
LEMMA CommittedStep == CommittedWhenHidden /\ Switcher!Next => CommittedWhenHidden'
<1> SUFFICES ASSUME CommittedWhenHidden, Switcher!Next PROVE CommittedWhenHidden'
  OBVIOUS
<1> USE DEF CommittedWhenHidden, Switcher!CommittedWhenHidden
<1>1. CASE Switcher!PressMeta \/ Switcher!ReleaseMeta
  BY <1>1 DEF Switcher!PressMeta, Switcher!ReleaseMeta, Switcher!activityVars
<1>2. ASSUME NEW step, Switcher!Walk(step) PROVE CommittedWhenHidden'
  BY <1>2 DEF Switcher!Walk
<1>3. ASSUME NEW a \in Activities, Switcher!AskFor(a) PROVE CommittedWhenHidden'
  BY <1>3 DEF Switcher!AskFor, Switcher!showVars
<1>4. CASE Switcher!ActivityChanges
  BY <1>4 DEF Switcher!ActivityChanges, Switcher!Commit, Switcher!showVars
<1>5. ASSUME Switcher!ShowIfNeeded, current' = current PROVE CommittedWhenHidden'
  <2>1. CASE ~invoked \/ dropMode
    BY <1>5, <2>1 DEF Switcher!ShowIfNeeded
  <2>2. CASE ~(~invoked \/ dropMode)
    BY <1>5, <2>2, ShownCommitted DEF Switcher!ShowIfNeeded
  <2> QED
    BY <2>1, <2>2
<1>6. CASE Switcher!ShotOver \/ Switcher!Poll
  BY <1>5, <1>6 DEF Switcher!ShotOver, Switcher!Poll
<1>7. ASSUME NEW value \in BOOLEAN, Switcher!SetDropMode(value) PROVE CommittedWhenHidden'
  <2>1. current' = current
    BY <1>7 DEF Switcher!SetDropMode
  <2>2. CASE value
    BY <1>7, <2>1, <2>2, ShownCommitted DEF Switcher!SetDropMode
  <2>3. CASE ~value
    BY <1>7, <2>1, <2>3 DEF Switcher!SetDropMode
  <2> QED
    BY <2>2, <2>3
<1>8. CASE Switcher!HiderOver \/ Switcher!CloseSidebar
  BY <1>8, ShownCommitted DEF Switcher!HiderOver, Switcher!CloseSidebar
<1>9. CASE Switcher!SecondPasses
  BY <1>9 DEF Switcher!SecondPasses, Switcher!showVars
<1> QED
  BY <1>1, <1>2, <1>3, <1>4, <1>6, <1>7, <1>8, <1>9 DEF Switcher!Next

(***************************************************************************)
(* While the switcher is hidden the change of activity is committed, for   *)
(* every set of activities and however walks, drags, timers and changes    *)
(* from elsewhere follow each other.                                       *)
(***************************************************************************)
THEOREM HiddenMeansCommitted == SessionSpec => []CommittedWhenHidden
<1>1. SessionInit => CommittedWhenHidden
  BY DEF SessionInit, Switcher!Init, CommittedWhenHidden, Switcher!CommittedWhenHidden
<1>2. [SessionNext]_sessionVars => [Switcher!Next]_switcherVars
  BY DEF SessionNext, sessionVars, switcherVars
<1>3. CommittedWhenHidden /\ UNCHANGED switcherVars => CommittedWhenHidden'
  BY DEF switcherVars, CommittedWhenHidden, Switcher!CommittedWhenHidden
<1> QED
  BY <1>1, <1>2, <1>3, CommittedStep, PTL DEF SessionSpec

-----------------------------------------------------------------------------
(***************************************************************************)
(* The automounter: the switch.                                            *)
(***************************************************************************)
\* The daemon runs while mounting is enabled or until kded obeys, and kded is
\* told to load it only then.
SwitchedOff ==
    /\ running \in BOOLEAN
    /\ running => options.enabled \/ order = "unload"
    /\ order = "load" => options.enabled

\* A daemon that starts stays only if mounting is enabled.
LEMMA DaemonStarts ==
    ASSUME NEW isMounted, Automount!StartDaemon(isMounted), Automount!OptionsAssumption,
           options \in Options
    PROVE  /\ running' = options.enabled /\ running' \in BOOLEAN
           /\ ~mounting /\ mounting' => options.enabled
  BY DEF Automount!StartDaemon, Automount!OptionsAssumption

\* No step breaks it, and a mount that is asked for is asked for by a daemon
\* that runs.
LEMMA SwitchedOffStep ==
    ASSUME options \in Options, SwitchedOff, Automount!Next
    PROVE  /\ options' \in Options /\ SwitchedOff'
           /\ ~mounting /\ mounting' => options.enabled \/ order = "unload"
<1> DEFINE Goal == /\ options' \in Options /\ SwitchedOff'
                   /\ ~mounting /\ mounting' => options.enabled \/ order = "unload"
<1>a. \A o \in Options : o.enabled \in BOOLEAN
  BY AutomountAssumption DEF Automount!OptionsAssumption
<1>1. ASSUME UNCHANGED <<options, running, order>>, mounting' = mounting \/ ~mounting' \/ running
      PROVE  Goal
  BY <1>1 DEF SwitchedOff
<1>2. CASE Automount!PlugIn \/ Automount!PullOut
  BY <1>1, <1>2 DEF Automount!PlugIn, Automount!PullOut, Automount!settingsVars,
     Automount!daemonVars
<1>3. ASSUME NEW v \in BOOLEAN, Automount!Mounts(v) PROVE Goal
  BY <1>1, <1>3 DEF Automount!Mounts, Automount!settingsVars, Automount!daemonVars
<1>4. CASE Automount!MountFails
  BY <1>1, <1>4 DEF Automount!MountFails, Automount!settingsVars, Automount!daemonVars
<1>5. CASE Automount!ObeyPage
  <2>1. order # "none" /\ order' = "none" /\ options' = options
    BY <1>5 DEF Automount!ObeyPage
  <2>2. CASE running = (order = "load")
    BY <1>5, <2>1, <2>2 DEF Automount!ObeyPage, SwitchedOff
  <2>3. CASE ~(running = (order = "load")) /\ order = "load"
    <3>1. Automount!StartDaemon(mounted)
      BY <1>5, <2>3 DEF Automount!ObeyPage
    <3> QED
      BY <2>1, <3>1, DaemonStarts, AutomountAssumption DEF SwitchedOff
  <2>4. CASE ~(running = (order = "load")) /\ order # "load"
    <3>1. running' = FALSE /\ mounting' = mounting
      BY <1>5, <2>4 DEF Automount!ObeyPage
    <3> QED
      BY <2>1, <3>1 DEF SwitchedOff
  <2> QED
    BY <2>2, <2>3, <2>4
<1>6. CASE Automount!DeviceAdded
  BY <1>1, <1>6 DEF Automount!DeviceAdded
<1>7. CASE Automount!DeviceMountChanged \/ Automount!DeviceGone
  BY <1>1, <1>7 DEF Automount!DeviceMountChanged, Automount!DeviceGone, Automount!settingsVars
<1>8. CASE Automount!ShowPage \/ Automount!ClosePage
  BY <1>1, <1>8 DEF Automount!ShowPage, Automount!ClosePage, Automount!settingsVars,
     Automount!daemonVars, Automount!deviceVars
<1>9. CASE Automount!PageDeviceAttached \/ Automount!PageDeviceRemoved
  BY <1>1, <1>9 DEF Automount!PageDeviceAttached, Automount!PageDeviceRemoved,
     Automount!settingsVars, Automount!daemonVars
<1>10. ASSUME NEW b \in Automount!Boxes, Automount!Tick(b) PROVE Goal
  BY <1>1, <1>10 DEF Automount!Tick, Automount!settingsVars, Automount!daemonVars,
     Automount!deviceVars
<1>11. CASE Automount!ForgetDevice \/ Automount!AnotherDevice
  BY <1>1, <1>11 DEF Automount!ForgetDevice, Automount!AnotherDevice, Automount!settingsVars,
     Automount!daemonVars, Automount!deviceVars
<1>12. ASSUME NEW o \in Options, Automount!SavePage(o) PROVE Goal
  <2>1. /\ options' = o /\ order' = IF o.enabled THEN "load" ELSE "unload"
        /\ running' = running /\ mounting' = mounting
    BY <1>12 DEF Automount!SavePage, Automount!deviceVars
  <2> QED
    BY <1>a, <2>1 DEF SwitchedOff
<1>13. CASE Automount!Login
  <2>1. Automount!StartDaemon(mounted') /\ order' = "none" /\ options' = options
    BY <1>13 DEF Automount!Login
  <2> QED
    BY <2>1, DaemonStarts, AutomountAssumption DEF SwitchedOff
<1> QED
  BY <1>2, <1>3, <1>4, <1>5, <1>6, <1>7, <1>8, <1>9, <1>10, <1>11, <1>12, <1>13
     DEF Automount!Next

(***************************************************************************)
(* No mount is asked for when mounting is switched off and kded has heard  *)
(* of it, whatever overrides the device has, however the daemon, the page, *)
(* kded and the device's notifications follow each other.                  *)
(***************************************************************************)
THEOREM SwitchedOffMeansOff == SessionSpec => NoMountWhenDisabled
<1> DEFINE IInv == options \in Options /\ SwitchedOff
<1>1. SessionInit => IInv
  BY AutomountAssumption DEF SessionInit, Automount!Init, Automount!OptionsAssumption, SwitchedOff
<1>2. [SessionNext]_sessionVars => [Automount!Next]_automountVars
  BY DEF SessionNext, sessionVars, automountVars
<1>3. IInv /\ UNCHANGED automountVars => IInv'
  BY DEF automountVars, SwitchedOff
<1>4. IInv /\ Automount!Next => IInv'
  BY SwitchedOffStep
<1>5. IInv /\ [Automount!Next]_automountVars
          => [~mounting /\ mounting' => options.enabled \/ order = "unload"]_(Automount!vars)
  <2>1. UNCHANGED automountVars => UNCHANGED Automount!vars
    BY DEF automountVars, Automount!vars, Automount!settingsVars, Automount!daemonVars,
       Automount!pageVars, Automount!deviceVars
  <2> QED
    BY <2>1, SwitchedOffStep
<1> HIDE DEF IInv
<1> QED
  BY <1>1, <1>2, <1>3, <1>4, <1>5, PTL
     DEF SessionSpec, NoMountWhenDisabled, Automount!NoMountWhenDisabled

-----------------------------------------------------------------------------
(***************************************************************************)
(* The record.                                                             *)
(***************************************************************************)
\* Saving a copy that says of an entry what the file says leaves in the file
\* what the copy says then.
LEMMA SavedIsRead ==
    ASSUME NEW disk, NEW copy, NEW values, NEW e,
           Automount!Reads(disk, e) <=> Automount!Reads(copy, e)
    PROVE  Automount!Reads(Automount!Synced(disk, copy, Automount!Write(copy, values)), e)
               <=> Automount!Reads(Automount!Write(copy, values), e)
<1> DEFINE after == [x \in DOMAIN copy \cup DOMAIN values |->
                        IF x \in DOMAIN values THEN values[x] ELSE copy[x]]
           changed == {x \in DOMAIN after : x \notin DOMAIN copy \/ copy[x] # after[x]}
           saved == [x \in DOMAIN disk \cup changed |-> IF x \in changed THEN after[x] ELSE disk[x]]
<1>1. Automount!Write(copy, values) = after /\ DOMAIN copy \ DOMAIN after = {}
  BY DEF Automount!Write
<1>2. Automount!Synced(disk, copy, after) = saved
  BY <1>1 DEF Automount!Synced
<1>3. (e \in DOMAIN saved /\ saved[e]) <=> (e \in DOMAIN after /\ after[e])
  BY DEF Automount!Reads
<1> HIDE DEF after, saved
<1> QED
  BY <1>1, <1>2, <1>3 DEF Automount!Reads

\* Saving a copy leaves in the file what it did not change and did not have
\* to delete.
LEMMA OthersKept ==
    ASSUME NEW disk, NEW copy, NEW values, NEW e, e \notin DOMAIN values
    PROVE  Automount!Reads(Automount!Synced(disk, copy, Automount!Write(copy, values)), e)
               <=> Automount!Reads(disk, e)
<1> DEFINE after == [x \in DOMAIN copy \cup DOMAIN values |->
                        IF x \in DOMAIN values THEN values[x] ELSE copy[x]]
           changed == {x \in DOMAIN after : x \notin DOMAIN copy \/ copy[x] # after[x]}
           saved == [x \in DOMAIN disk \cup changed |-> IF x \in changed THEN after[x] ELSE disk[x]]
<1>1. Automount!Write(copy, values) = after /\ DOMAIN copy \ DOMAIN after = {}
  BY DEF Automount!Write
<1>2. Automount!Synced(disk, copy, after) = saved
  BY <1>1 DEF Automount!Synced
<1>3. (e \in DOMAIN saved /\ saved[e]) <=> (e \in DOMAIN disk /\ disk[e])
  OBVIOUS
<1> HIDE DEF after, saved
<1> QED
  BY <1>1, <1>2, <1>3 DEF Automount!Reads

\* What the daemon saves it can read again.
LEMMA DeviceRecorded ==
    ASSUME NEW type, NEW isMounted, Automount!AutomountDevice(file, type, isMounted)
    PROVE  Automount!Recorded'
<1>1. /\ daemonCopy' = Automount!Write(file, Automount!Seen(isMounted))
      /\ file' = Automount!Synced(file, file, Automount!Write(file, Automount!Seen(isMounted)))
  BY DEF Automount!AutomountDevice
<1> QED
  BY <1>1, SavedIsRead DEF Automount!Recorded, Automount!Reads

\* A daemon that starts has the device recorded.
LEMMA StartRecorded ==
    ASSUME NEW isMounted, Automount!StartDaemon(isMounted)
    PROVE  Automount!Recorded'
<1>1. CASE options.enabled /\ plugged
  BY <1>1, DeviceRecorded DEF Automount!StartDaemon
<1>2. CASE ~(options.enabled /\ plugged)
  BY <1>2 DEF Automount!StartDaemon, Automount!Recorded
<1> QED
  BY <1>1, <1>2

\* No step loses the record but the saving of a page without the device.
LEMMA RecordedStep ==
    ASSUME Automount!Recorded, Automount!Next, ~(pageOpen /\ row = "none")
    PROVE  Automount!Recorded'
<1>1. ASSUME UNCHANGED <<file, daemonCopy>>, running' => running, watched' => watched
      PROVE  Automount!Recorded'
  BY <1>1 DEF Automount!Recorded
<1>2. CASE Automount!PlugIn \/ Automount!PullOut
  BY <1>1, <1>2 DEF Automount!PlugIn, Automount!PullOut, Automount!settingsVars,
     Automount!daemonVars
<1>3. ASSUME NEW v \in BOOLEAN, Automount!Mounts(v) PROVE Automount!Recorded'
  BY <1>1, <1>3 DEF Automount!Mounts, Automount!settingsVars, Automount!daemonVars
<1>4. CASE Automount!MountFails
  BY <1>1, <1>4 DEF Automount!MountFails, Automount!settingsVars, Automount!daemonVars
<1>5. CASE Automount!ObeyPage
  <2>1. CASE running = (order = "load")
    BY <1>1, <1>5, <2>1 DEF Automount!ObeyPage
  <2>2. CASE ~(running = (order = "load")) /\ order = "load"
    BY <1>5, <2>2, StartRecorded DEF Automount!ObeyPage
  <2>3. CASE ~(running = (order = "load")) /\ order # "load"
    BY <1>5, <2>3 DEF Automount!ObeyPage, Automount!Recorded
  <2> QED
    BY <2>1, <2>2, <2>3
<1>6. CASE Automount!DeviceAdded
  <2>1. CASE plugged
    BY <1>6, <2>1, DeviceRecorded DEF Automount!DeviceAdded
  <2>2. CASE ~plugged
    BY <1>6, <2>2 DEF Automount!DeviceAdded, Automount!Recorded
  <2> QED
    BY <2>1, <2>2
<1>7. CASE Automount!DeviceMountChanged
  <2>1. CASE watched
    <3> DEFINE seen == Automount!Seen(Head(toDaemon) = "mounted")
    <3>1. /\ daemonCopy' = Automount!Write(daemonCopy, seen)
          /\ file' = Automount!Synced(file, daemonCopy, Automount!Write(daemonCopy, seen))
      BY <1>7, <2>1 DEF Automount!DeviceMountChanged
    <3>2. \A e \in {"ever", "last"} : Automount!Reads(file, e) <=> Automount!Reads(daemonCopy, e)
      BY <1>7, <2>1 DEF Automount!DeviceMountChanged, Automount!Recorded
    <3> HIDE DEF seen
    <3> QED
      BY <3>1, <3>2, SavedIsRead DEF Automount!Recorded, Automount!Reads
  <2>2. CASE ~watched
    BY <1>1, <1>7, <2>2 DEF Automount!DeviceMountChanged
  <2> QED
    BY <2>1, <2>2
<1>8. CASE Automount!DeviceGone
  BY <1>8 DEF Automount!DeviceGone, Automount!Recorded
<1>9. CASE Automount!ShowPage \/ Automount!ClosePage
  BY <1>1, <1>9 DEF Automount!ShowPage, Automount!ClosePage, Automount!settingsVars,
     Automount!daemonVars
<1>10. CASE Automount!PageDeviceAttached \/ Automount!PageDeviceRemoved
  BY <1>1, <1>10 DEF Automount!PageDeviceAttached, Automount!PageDeviceRemoved,
     Automount!settingsVars, Automount!daemonVars
<1>11. ASSUME NEW b \in Automount!Boxes, Automount!Tick(b) PROVE Automount!Recorded'
  BY <1>1, <1>11 DEF Automount!Tick, Automount!settingsVars, Automount!daemonVars
<1>12. CASE Automount!ForgetDevice
  BY <1>1, <1>12 DEF Automount!ForgetDevice, Automount!settingsVars, Automount!daemonVars
<1>13. ASSUME NEW o \in Options, Automount!SavePage(o) PROVE Automount!Recorded'
  <2> DEFINE ticked == [b \in Automount!Boxes |-> Automount!Reads(boxes, b)]
  <2>1. row # "none"
    BY <1>13 DEF Automount!SavePage
  <2>2. file' = Automount!Synced(file, pageCopy, Automount!Write(pageCopy, ticked))
    BY <1>13, <2>1 DEF Automount!SavePage, Automount!KeptByPage
  <2>3. UNCHANGED <<daemonCopy, running, watched>>
    BY <1>13 DEF Automount!SavePage
  <2>4. \A e \in {"ever", "last"} : e \notin DOMAIN ticked
    BY DEF Automount!Boxes
  <2> HIDE DEF ticked
  <2>5. \A e \in {"ever", "last"} : Automount!Reads(file', e) <=> Automount!Reads(file, e)
    BY <2>2, <2>4, OthersKept
  <2> QED
    BY <2>3, <2>5 DEF Automount!Recorded, Automount!Reads
<1>14. CASE Automount!AnotherDevice
  BY <1>14 DEF Automount!AnotherDevice, Automount!settingsVars, Automount!Recorded
<1>15. CASE Automount!Login
  BY <1>15, StartRecorded DEF Automount!Login
<1> QED
  BY <1>2, <1>3, <1>4, <1>5, <1>6, <1>7, <1>8, <1>9, <1>10, <1>11, <1>12, <1>13, <1>14, <1>15
     DEF Automount!Next

(***************************************************************************)
(* What the daemon recorded of a device stays in the file, for every set   *)
(* of general settings, unless a page is open that does not list it: no    *)
(* other saving, of the daemon or of a page, and no order of the two loses *)
(* it.                                                                     *)
(***************************************************************************)
THEOREM ListedStaysRecorded == SessionSpec => ListedIsRemembered
<1>1. [SessionNext]_sessionVars
          => [Automount!Recorded => Automount!Recorded' \/ (pageOpen /\ row = "none")]_(Automount!vars)
  <2>1. [SessionNext]_sessionVars => [Automount!Next]_automountVars
    BY DEF SessionNext, sessionVars, automountVars
  <2>2. UNCHANGED automountVars => UNCHANGED Automount!vars
    BY DEF automountVars, Automount!vars, Automount!settingsVars, Automount!daemonVars,
       Automount!pageVars, Automount!deviceVars
  <2> QED
    BY <2>1, <2>2, RecordedStep
<1> QED
  BY <1>1, PTL DEF SessionSpec, ListedIsRemembered, Automount!ListedIsRemembered

-----------------------------------------------------------------------------
(***************************************************************************)
(* The input methods: the memory of the engine manager.                    *)
(***************************************************************************)
MemoryTypeOK ==
    /\ history \in Seq(Contexts)
    /\ context \in Contexts \cup {NoContext}

MemoryIInv == MemoryTypeOK /\ RememberedAreInHistory

\* A queue without its first element has the others, and a longer one has all.
LEMMA TailKeeps ==
    ASSUME NEW S, NEW q \in Seq(S), NEW x \in Inputs!ToSet(q), x # Head(q)
    PROVE  x \in Inputs!ToSet(Tail(q))
<1>1. PICK i \in 1 .. Len(q) : x = q[i]
  BY DEF Inputs!ToSet
<1>2. i # 1 /\ Len(q) \in Nat /\ q # <<>>
  BY <1>1
<1>3. i - 1 \in 1 .. Len(Tail(q)) /\ Tail(q)[i - 1] = q[i] /\ Tail(q) \in Seq(S)
  BY <1>1, <1>2
<1>4. DOMAIN Tail(q) = 1 .. Len(Tail(q))
  BY <1>3
<1> QED
  BY <1>1, <1>3, <1>4, Zenon DEF Inputs!ToSet

\* A longer queue has all that the shorter one had, and the new element.
LEMMA AppendKeeps ==
    ASSUME NEW S, NEW q \in Seq(S), NEW c \in S
    PROVE  /\ Append(q, c) \in Seq(S)
           /\ Inputs!ToSet(q) \cup {c} \subseteq Inputs!ToSet(Append(q, c))
<1>1. /\ Append(q, c) \in Seq(S) /\ Len(Append(q, c)) = Len(q) + 1 /\ Len(q) \in Nat
      /\ Append(q, c)[Len(q) + 1] = c
      /\ \A i \in 1 .. Len(q) : Append(q, c)[i] = q[i]
  OBVIOUS
<1> QED
  BY <1>1 DEF Inputs!ToSet

\* What setCurrentEngine remembers has its context in the history.
LEMMA EngineRemembered ==
    ASSUME NEW c \in Contexts \cup {NoContext}, NEW e, MemoryIInv, context' \in Contexts \cup {NoContext},
           Inputs!SetCurrentEngine(c, e)
    PROVE  MemoryIInv'
<1> DEFINE with == [x \in DOMAIN map \cup {c} |-> IF x = c THEN e ELSE map[x]]
           queue == IF c \in DOMAIN map THEN history ELSE Append(history, c)
<1>1. /\ history \in Seq(Contexts) /\ DOMAIN map \subseteq Inputs!ToSet(history)
  BY DEF MemoryIInv, MemoryTypeOK, RememberedAreInHistory, Inputs!RememberedAreInHistory
<1>2. CASE global \/ c = NoContext
  BY <1>1, <1>2 DEF Inputs!SetCurrentEngine, MemoryIInv, MemoryTypeOK, RememberedAreInHistory,
     Inputs!RememberedAreInHistory
<1>3. CASE ~(global \/ c = NoContext)
  <2>1. queue \in Seq(Contexts) /\ DOMAIN with \subseteq Inputs!ToSet(queue) /\ c \in Inputs!ToSet(queue)
    <3>1. CASE c \in DOMAIN map
      BY <1>1, <3>1
    <3>2. CASE c \notin DOMAIN map
      BY <1>1, <1>3, <3>2, AppendKeeps
    <3> QED
      BY <3>1, <3>2
  <2> HIDE DEF queue
  <2>2. CASE Inputs!Cardinality(DOMAIN with) > Threshold
    <3>1. map' = [x \in DOMAIN with \ {Head(queue)} |-> with[x]] /\ history' = Tail(queue)
      BY <1>3, <2>2 DEF Inputs!SetCurrentEngine, queue
    <3>2. queue # <<>>
      BY <2>1 DEF Inputs!ToSet
    <3>3. history' \in Seq(Contexts)
      BY <2>1, <3>1, <3>2
    <3>4. DOMAIN map' \subseteq Inputs!ToSet(history')
      BY <2>1, <3>1, TailKeeps
    <3> QED
      BY <3>3, <3>4 DEF MemoryIInv, MemoryTypeOK, RememberedAreInHistory,
         Inputs!RememberedAreInHistory
  <2>3. CASE ~(Inputs!Cardinality(DOMAIN with) > Threshold)
    <3>1. map' = with /\ history' = queue
      BY <1>3, <2>3 DEF Inputs!SetCurrentEngine, queue
    <3> QED
      BY <2>1, <3>1 DEF MemoryIInv, MemoryTypeOK, RememberedAreInHistory,
         Inputs!RememberedAreInHistory
  <2> QED
    BY <2>2, <2>3
<1> QED
  BY <1>2, <1>3

\* So does what the panel sets, whether the bus accepts it or not.
LEMMA EngineSet ==
    ASSUME NEW c \in Contexts \cup {NoContext}, NEW e, MemoryIInv,
           context' \in Contexts \cup {NoContext}, Inputs!SetEngine(c, e)
    PROVE  MemoryIInv'
<1>1. CASE UNCHANGED <<map, history>>
  BY <1>1 DEF MemoryIInv, MemoryTypeOK, RememberedAreInHistory, Inputs!RememberedAreInHistory
<1>2. CASE Inputs!SetCurrentEngine(c, e)
  BY <1>2, EngineRemembered
<1> QED
  BY <1>1, <1>2 DEF Inputs!SetEngine

\* A memory that is cleared is in order.
LEMMA MemoryCleared ==
    ASSUME map' = Inputs!NoMap, history' \in Seq(Contexts), context' \in Contexts \cup {NoContext}
    PROVE  MemoryIInv'
  BY DEF Inputs!NoMap, MemoryIInv, MemoryTypeOK, RememberedAreInHistory,
     Inputs!RememberedAreInHistory

\* A memory that stays as it is remains in order.
LEMMA MemoryKept ==
    ASSUME MemoryIInv, UNCHANGED <<map, history>>, context' \in Contexts \cup {NoContext}
    PROVE  MemoryIInv'
  BY DEF MemoryIInv, MemoryTypeOK, RememberedAreInHistory, Inputs!RememberedAreInHistory

\* One step for each action of the input methods.
LEMMA MemoryStep == MemoryIInv /\ Inputs!Next => MemoryIInv'
<1> SUFFICES ASSUME MemoryIInv, Inputs!Next PROVE MemoryIInv'
  OBVIOUS
<1>1. /\ context \in Contexts \cup {NoContext} /\ NoContext \in Contexts \cup {NoContext}
      /\ history \in Seq(Contexts) /\ <<>> \in Seq(Contexts)
  BY DEF MemoryIInv, MemoryTypeOK
<1>2. CASE Inputs!Crash
  BY <1>1, <1>2, MemoryCleared DEF Inputs!Crash
<1>3. CASE Inputs!NameAcquired \/ Inputs!NameLost
  BY <1>1, <1>3, MemoryCleared DEF Inputs!NameAcquired, Inputs!NameLost
<1>4. CASE Inputs!BusAcquired
  BY <1>1, <1>2, <1>4, MemoryCleared DEF Inputs!BusAcquired
<1>5. ASSUME NEW names \in Preloads, Inputs!ConfigureEngines(names) PROVE MemoryIInv'
  <2>1. CASE panel = "none"
    BY <1>1, <1>5, <2>1, MemoryKept DEF Inputs!ConfigureEngines, Inputs!memoryVars
  <2>2. CASE panel # "none"
    BY <1>1, <1>2, <1>5, <2>2, MemoryCleared DEF Inputs!ConfigureEngines, Inputs!Loads
  <2> QED
    BY <2>1, <2>2
<1>6. ASSUME NEW value \in BOOLEAN, Inputs!UseOneForAll(value) PROVE MemoryIInv'
  <2>1. history' = history /\ context' = context /\ (map' = map \/ map' = Inputs!NoMap)
    BY <1>6 DEF Inputs!UseOneForAll
  <2> QED
    BY <1>1, <2>1, MemoryKept, MemoryCleared
<1>7. ASSUME NEW e \in Engines, Inputs!AnotherEngine(e) PROVE MemoryIInv'
  BY <1>1, <1>7, MemoryKept DEF Inputs!AnotherEngine, Inputs!memoryVars
<1>8. ASSUME NEW e \in Engines, Inputs!ChooseFromMenu(e) PROVE MemoryIInv'
  BY <1>1, <1>8, EngineSet DEF Inputs!ChooseFromMenu
<1>9. ASSUME NEW c \in Contexts, Inputs!FocusIn(c) PROVE MemoryIInv'
  <2>1. context' = c
    BY <1>9 DEF Inputs!FocusIn
  <2>2. CASE global \/ engines = <<>>
    BY <1>9, <2>1, <2>2, MemoryKept DEF Inputs!FocusIn
  <2>3. CASE ~(global \/ engines = <<>>)
    <3>1. Inputs!SetEngine(c, Inputs!CurrentEngine)
      BY <1>9, <2>3 DEF Inputs!FocusIn
    <3> QED
      BY <2>1, <3>1, EngineSet
  <2> QED
    BY <2>2, <2>3
<1>10. CASE Inputs!FocusOut
  BY <1>1, <1>10, MemoryKept DEF Inputs!FocusOut
<1>11. CASE Inputs!StateChanged \/ Inputs!RegisterProperties
  BY <1>1, <1>11, MemoryKept DEF Inputs!StateChanged, Inputs!RegisterProperties, Inputs!memoryVars
<1>12. ASSUME NEW forward \in BOOLEAN, Inputs!FirstPress(forward) \/ Inputs!NextPress(forward)
       PROVE  MemoryIInv'
  BY <1>1, <1>12, MemoryKept DEF Inputs!FirstPress, Inputs!NextPress, Inputs!memoryVars
<1>13. CASE Inputs!PressWithoutGrab
  BY <1>1, <1>13, EngineSet DEF Inputs!PressWithoutGrab
<1>14. CASE Inputs!ModifiersReleased
  <2>1. CASE panel = "none"
    BY <1>2, <1>14, <2>1 DEF Inputs!ModifiersReleased
  <2>2. CASE panel # "none"
    <3>1. context' = context
      BY <1>14, <2>2 DEF Inputs!ModifiersReleased
    <3>2. CASE selected \in 1 .. Len(engines)
      BY <1>1, <1>14, <2>2, <3>1, <3>2, EngineSet DEF Inputs!ModifiersReleased
    <3>3. CASE selected \notin 1 .. Len(engines)
      BY <1>1, <1>14, <2>2, <3>1, <3>3, MemoryKept DEF Inputs!ModifiersReleased
    <3> QED
      BY <3>2, <3>3
  <2> QED
    BY <2>1, <2>2
<1>15. CASE Inputs!Finalize
  BY <1>2, <1>15 DEF Inputs!Finalize
<1> QED
  BY <1>3, <1>4, <1>5, <1>6, <1>7, <1>8, <1>9, <1>10, <1>11, <1>12, <1>13, <1>14, <1>15
     DEF Inputs!Next

(***************************************************************************)
(* Every context whose engine is remembered is in the history, for every   *)
(* set of contexts and engines and any threshold, however windows, the     *)
(* settings, the bus and crashes of the panel follow each other.           *)
(***************************************************************************)
THEOREM RememberedCanBeForgotten == SessionSpec => []RememberedAreInHistory
<1>1. SessionInit => MemoryIInv
  BY DEF SessionInit, Inputs!Init, Inputs!NoMap, MemoryIInv, MemoryTypeOK,
     RememberedAreInHistory, Inputs!RememberedAreInHistory
<1>2. [SessionNext]_sessionVars => [Inputs!Next]_inputsVars
  BY DEF SessionNext, sessionVars, inputsVars
<1>3. MemoryIInv /\ UNCHANGED inputsVars => MemoryIInv'
  BY DEF inputsVars, MemoryIInv, MemoryTypeOK, RememberedAreInHistory,
     Inputs!RememberedAreInHistory
<1>4. MemoryIInv => RememberedAreInHistory
  BY DEF MemoryIInv
<1> QED
  BY <1>1, <1>2, <1>3, <1>4, MemoryStep, PTL DEF SessionSpec

-----------------------------------------------------------------------------
(***************************************************************************)
(* The walk.                                                               *)
(***************************************************************************)
\* The engine that is registered in the new state is the one walked to.
LEMMA RegisteredShows ==
    ASSUME logo' = Inputs!Registered PROVE Inputs!Shows'
  BY DEF Inputs!Registered, Inputs!Shows

\* One more step of a walk shows where it leads.
LEMMA WalkShows ==
    ASSUME NEW from, NEW forward \in BOOLEAN, UNCHANGED <<panel, engines>>,
           Inputs!WalkFrom(from, forward),
           from \in 1 .. Len(engines) /\ panel = "ready" => logo = engines[from]
    PROVE  Inputs!Shows'
<1>1. CASE Len(engines) < 2
  BY <1>1 DEF Inputs!WalkFrom, Inputs!Shows
<1>2. CASE ~(Len(engines) < 2)
  <2>1. logo' = IF panel = "ready" THEN Inputs!Registered ELSE logo
    BY <1>2 DEF Inputs!WalkFrom
  <2> QED
    BY <2>1, RegisteredShows DEF Inputs!Shows
<1> QED
  BY <1>1, <1>2

\* No step but a change of the engines' settings ends that.
LEMMA ShowsStep == Inputs!Shows /\ Inputs!Next => Inputs!Shows' \/ preload' # preload
<1> SUFFICES ASSUME Inputs!Shows, Inputs!Next, preload' = preload PROVE Inputs!Shows'
  OBVIOUS
<1>1. CASE ~grabbed'
  BY <1>1 DEF Inputs!Shows
<1>2. CASE panel' # "ready"
  BY <1>2 DEF Inputs!Shows
<1>3. CASE UNCHANGED <<grabbed, panel, selected, engines, logo>>
  BY <1>3 DEF Inputs!Shows
<1>4. CASE Inputs!Crash
  BY <1>1, <1>4 DEF Inputs!Crash
<1>5. CASE Inputs!NameAcquired \/ Inputs!NameLost
  BY <1>2, <1>5 DEF Inputs!NameAcquired, Inputs!NameLost
<1>6. CASE Inputs!BusAcquired
  BY <1>4, <1>6, RegisteredShows DEF Inputs!BusAcquired
<1>7. ASSUME NEW names \in Preloads, Inputs!ConfigureEngines(names) PROVE Inputs!Shows'
  BY <1>7 DEF Inputs!ConfigureEngines
<1>8. ASSUME NEW value \in BOOLEAN, Inputs!UseOneForAll(value) PROVE Inputs!Shows'
  BY <1>3, <1>8 DEF Inputs!UseOneForAll, Inputs!keyVars
<1>9. ASSUME NEW e \in Engines, Inputs!AnotherEngine(e) \/ Inputs!ChooseFromMenu(e)
      PROVE  Inputs!Shows'
  BY <1>3, <1>9 DEF Inputs!AnotherEngine, Inputs!ChooseFromMenu, Inputs!keyVars
<1>10. ASSUME NEW c \in Contexts, Inputs!FocusIn(c) PROVE Inputs!Shows'
  BY <1>1, <1>10 DEF Inputs!FocusIn, Inputs!keyVars
<1>11. CASE Inputs!FocusOut \/ Inputs!StateChanged \/ Inputs!PressWithoutGrab
  BY <1>1, <1>11 DEF Inputs!FocusOut, Inputs!StateChanged, Inputs!PressWithoutGrab, Inputs!keyVars
<1>12. CASE Inputs!RegisterProperties
  BY <1>12, RegisteredShows DEF Inputs!RegisterProperties
<1>13. ASSUME NEW forward \in BOOLEAN, Inputs!FirstPress(forward) PROVE Inputs!Shows'
  <2>1. UNCHANGED <<panel, engines>> /\ Inputs!WalkFrom(0, forward)
    BY <1>13 DEF Inputs!FirstPress
  <2> QED
    BY <2>1, WalkShows
<1>14. ASSUME NEW forward \in BOOLEAN, Inputs!NextPress(forward) PROVE Inputs!Shows'
  <2>1. UNCHANGED <<panel, engines>> /\ Inputs!WalkFrom(selected, forward) /\ grabbed
    BY <1>14 DEF Inputs!NextPress
  <2>2. selected \in 1 .. Len(engines) /\ panel = "ready" => logo = engines[selected]
    BY <2>1 DEF Inputs!Shows
  <2> QED
    BY <2>1, <2>2, WalkShows
<1>15. CASE Inputs!ModifiersReleased
  BY <1>1, <1>4, <1>15 DEF Inputs!ModifiersReleased
<1>16. CASE Inputs!Finalize
  BY <1>4, <1>16 DEF Inputs!Finalize
<1> QED
  BY <1>5, <1>6, <1>7, <1>8, <1>9, <1>10, <1>11, <1>12, <1>13, <1>14, <1>15, <1>16
     DEF Inputs!Next

(***************************************************************************)
(* During a walk the panel shows the engine that letting the keys go will  *)
(* choose, for every list of engines and whatever the bus reports, unless  *)
(* the list is configured meanwhile.                                       *)
(***************************************************************************)
THEOREM WalksShowTheirChoice == SessionSpec => WalkShowsItsChoice
<1>1. [SessionNext]_sessionVars
          => [Inputs!Shows => Inputs!Shows' \/ preload' # preload]_(Inputs!vars)
  <2>1. [SessionNext]_sessionVars => [Inputs!Next]_inputsVars
    BY DEF SessionNext, sessionVars, inputsVars
  <2>2. UNCHANGED inputsVars => UNCHANGED Inputs!vars
    BY DEF inputsVars, Inputs!vars, Inputs!settingsVars, Inputs!memoryVars, Inputs!keyVars
  <2> QED
    BY <2>1, <2>2, ShowsStep
<1> QED
  BY <1>1, PTL DEF SessionSpec, WalkShowsItsChoice, Inputs!WalkShowsItsChoice
=============================================================================
