-------------------------- MODULE DesktopViewsProofs --------------------------
(***************************************************************************)
(* Proofs about the desktop's folder views and the mapper they share, for  *)
(* every set of screens, views, files and folders.                         *)
(***************************************************************************)
EXTENDS DesktopViews, WellFoundedInduction, TLAPS

(***************************************************************************)
(* The inductive invariants, as predicates of the maps m and the views vs: *)
(* setUrl passes through states between its two screen changes.            *)
(***************************************************************************)
\* A view is off every screen or on its own; it lists files of its folder.
WellFormed(m, vs) ==
    /\ m \in Mapper
    /\ vs \in [Views -> View]
    /\ \A v \in Views :
        /\ \A u \in vs[v].listed : FolderOf[u] = vs[v].folder
        /\ vs[v].screen \in {Unmapped, ScreenOf[v]}
        /\ vs[v].used => vs[v].screen = ScreenOf[v]
        /\ ~vs[v].alive => vs[v].screen = Unmapped

\* The cached verdicts of a view with a screen agree with the mapping.
Agreed(m, vs) ==
    \A v \in Views :
        vs[v].screen # Unmapped => \A u \in vs[v].shown : m.map[u] = vs[v].screen

ShowsListed(vs) == \A v \in Views : vs[v].shown \subseteq vs[v].listed

\* A screen is announced by a view that is on it.
AvailableHaveViews(m, vs) == \A s \in m.available : \E v \in Views : vs[v].screen = s

BaseIInv ==
    /\ TypeOK
    /\ WellFormed(mapper, view)
    /\ AvailableHaveViews(mapper, view)

AgreedWhenIdle == ~mappingTimer => Agreed(mapper, view)

\* What the theorems suppose of the containments: they are those of one
\* activity, each on a screen of its own.
OneViewPerScreen == \A v, w \in Views : ScreenOf[v] = ScreenOf[w] => v = w

-----------------------------------------------------------------------------
\* -1 is no screen.
LEMMA UnmappedIsNoScreen == Unmapped \notin Screens
  BY ScreensAssumption DEF Unmapped

\* What the filters do to the maps: the mapping changes for adopted files only.
LEMMA FilterMap ==
    ASSUME NEW m \in Mapper, NEW vs \in [Views -> View]
    PROVE  LET n == AfterFilter(m, vs) IN
           /\ n \in Mapper
           /\ n.parked = m.parked /\ n.entries = m.entries
           /\ n.perPath = m.perPath /\ n.available = m.available
           /\ \A u \in Urls :
                \/ \E v \in Views : /\ u \in vs[v].listed /\ Adopts(m, vs[v], u)
                                    /\ n.map[u] = vs[v].screen
                \/ /\ \A v \in Views : ~(u \in vs[v].listed /\ Adopts(m, vs[v], u))
                   /\ n.map[u] = m.map[u]
<1> DEFINE P(u, v) == u \in vs[v].listed /\ Adopts(m, vs[v], u)
           n == AfterFilter(m, vs)
           f == [u \in Urls |-> IF \E v \in Views : P(u, v)
                                THEN vs[CHOOSE v \in Views : P(u, v)].screen ELSE m.map[u]]
<1>1. n = [m EXCEPT !.map = f]
  BY DEF AfterFilter
<1>2. ASSUME NEW u \in Urls, \E v \in Views : P(u, v)
      PROVE  \E v \in Views : P(u, v) /\ f[u] = vs[v].screen
  <2> DEFINE w == CHOOSE v \in Views : P(u, v)
  <2>1. w \in Views /\ P(u, w)
    <3> HIDE DEF P
    <3> QED
      BY <1>2
  <2>2. f[u] = vs[w].screen
    BY <1>2
  <2> QED
    BY <2>1, <2>2
<1>3. ASSUME NEW u \in Urls, ~\E v \in Views : P(u, v)
      PROVE  f[u] = m.map[u]
  BY <1>3
<1>4. \A v \in Views : vs[v].screen \in Screens \cup {Unmapped}
  BY DEF View
<1>5. f \in [Urls -> Screens \cup {Unmapped}]
  <2>1. \A u \in Urls : m.map[u] \in Screens \cup {Unmapped}
    BY DEF Mapper
  <2>2. \A u \in Urls : f[u] \in Screens \cup {Unmapped}
    <3> HIDE DEF f
    <3> QED
      BY <1>2, <1>3, <1>4, <2>1
  <2> QED
    BY <2>2
<1>6. /\ n \in Mapper /\ n.map = f
      /\ n.parked = m.parked /\ n.entries = m.entries
      /\ n.perPath = m.perPath /\ n.available = m.available
  <2> HIDE DEF f, n
  <2> QED
    BY <1>1, <1>5 DEF Mapper
<1> QED
  <2> HIDE DEF f
  <2> QED
    BY <1>2, <1>3, <1>6

\* What the filters do to the views: only the rows shown change.
LEMMA FilterViews ==
    ASSUME NEW m, NEW vs \in [Views -> View]
    PROVE  LET ws == Filtered(m, vs) IN
           /\ ws \in [Views -> View]
           /\ \A v \in Views :
                /\ ws[v].alive = vs[v].alive /\ ws[v].screen = vs[v].screen
                /\ ws[v].used = vs[v].used /\ ws[v].folder = vs[v].folder
                /\ ws[v].listed = vs[v].listed
                /\ ws[v].shown = {u \in vs[v].listed : Accepts(m, vs[v], u)}
  BY DEF Filtered, View

\* A filter run by all views leaves them well formed, and their verdicts in
\* agreement with the mapping: two adopters of a file are on the same screen.
LEMMA FilterSound ==
    ASSUME NEW m, NEW vs, WellFormed(m, vs)
    PROVE  /\ WellFormed(AfterFilter(m, vs), Filtered(m, vs))
           /\ ShowsListed(Filtered(m, vs))
           /\ Agreed(AfterFilter(m, vs), Filtered(m, vs))
<1> DEFINE n == AfterFilter(m, vs)
           ws == Filtered(m, vs)
<1>1. m \in Mapper /\ vs \in [Views -> View]
  BY DEF WellFormed
<1>2. /\ n \in Mapper
      /\ \A u \in Urls :
           \/ \E v \in Views : /\ u \in vs[v].listed /\ Adopts(m, vs[v], u)
                               /\ n.map[u] = vs[v].screen
           \/ /\ \A v \in Views : ~(u \in vs[v].listed /\ Adopts(m, vs[v], u))
              /\ n.map[u] = m.map[u]
  BY <1>1, FilterMap
<1>3. /\ ws \in [Views -> View]
      /\ \A v \in Views :
           /\ ws[v].alive = vs[v].alive /\ ws[v].screen = vs[v].screen
           /\ ws[v].used = vs[v].used /\ ws[v].folder = vs[v].folder
           /\ ws[v].listed = vs[v].listed
           /\ ws[v].shown = {u \in vs[v].listed : Accepts(m, vs[v], u)}
  BY <1>1, FilterViews
<1> HIDE DEF n, ws
<1>4. WellFormed(n, ws)
  BY <1>2, <1>3 DEF WellFormed
<1>5. ASSUME NEW v \in Views, vs[v].screen # Unmapped, NEW u \in ws[v].shown
      PROVE  n.map[u] = vs[v].screen
  <2>1. u \in Urls /\ u \in vs[v].listed /\ Accepts(m, vs[v], u)
    BY <1>1, <1>3, <1>5 DEF View, Files
  <2>2. CASE ScreenForItem(m, u) # Unmapped
    <3>1. m.map[u] = vs[v].screen
      BY <2>1, <2>2 DEF Accepts, ScreenForItem
    <3>2. n.map[u] = m.map[u]
      BY <1>2, <2>1, <2>2 DEF Adopts
    <3> QED
      BY <3>1, <3>2
  <2>3. CASE ScreenForItem(m, u) = Unmapped
    <3>1. Adopts(m, vs[v], u)
      BY <1>5, <2>1, <2>3 DEF Accepts
    <3>2. PICK w \in Views : /\ u \in vs[w].listed /\ Adopts(m, vs[w], u)
                             /\ n.map[u] = vs[w].screen
      BY <1>2, <2>1, <3>1
    <3>3. vs[w].folder = vs[v].folder
      BY <2>1, <3>2 DEF WellFormed
    <3> QED
      BY <3>1, <3>2, <3>3 DEF Adopts
  <2> QED
    BY <2>2, <2>3
<1>6. Agreed(n, ws)
  BY <1>3, <1>5 DEF Agreed
<1>7. ShowsListed(ws)
  BY <1>3 DEF ShowsListed
<1> QED
  BY <1>4, <1>6, <1>7 DEF n, ws

\* removeScreen: files of the folder that were on the screen leave the mapping.
LEMMA RemoveFacts ==
    ASSUME NEW m \in Mapper, NEW s \in Screens \cup {Unmapped}, NEW p \in Paths
    PROVE  LET n == AfterRemove(m, s, p) IN
           /\ n \in Mapper
           /\ n.available = m.available \ {s}
           /\ s \notin m.available => n = m
           /\ s \in m.available =>
                /\ \A u \in Urls : n.map[u] = IF u \in Below[p] /\ m.map[u] = s
                                            THEN Unmapped ELSE m.map[u]
                /\ \A u \in Urls : (\E t \in Screens : u \in n.parked[t])
                       => (\E t \in Screens : u \in m.parked[t]) \/ m.map[u] = s
<1> DEFINE n == ScreenRemoved(m, s, p)
           D == Displaced(m, s, p)
<1>1. /\ m.map \in [Urls -> Screens \cup {Unmapped}]
      /\ m.parked \in [Screens -> SUBSET Urls]
      /\ m.entries \in SUBSET Screens
      /\ m.perPath \in [Paths -> SUBSET Screens]
      /\ m.available \in SUBSET Screens
  BY DEF Mapper
<1>2. CASE s \notin m.available
  BY <1>1, <1>2 DEF AfterRemove
<1>3. CASE s \in m.available
  <2>1. s \in Screens /\ AfterRemove(m, s, p) = n
    BY <1>1, <1>3 DEF AfterRemove
  <2>2. D \in SUBSET Urls /\ \A u \in Urls : u \in D <=> u \in Below[p] /\ m.map[u] = s
    BY PathsAssumption DEF Displaced
  <2>3. /\ n.map = [u \in Urls |-> IF u \in D THEN Unmapped ELSE m.map[u]]
        /\ n.parked = [m.parked EXCEPT ![s] = @ \cup (D \ AllParked(m.parked))]
        /\ n.entries = IF D \subseteq AllParked(m.parked) THEN m.entries ELSE m.entries \cup {s}
        /\ n.perPath = PerPathAfterRemove(m, s, p)
        /\ n.available = m.available \ {s}
    BY DEF ScreenRemoved, ParkedAfterRemove
  <2>4. n.map \in [Urls -> Screens \cup {Unmapped}]
    BY <1>1, <2>3
  <2>5. n.parked \in [Screens -> SUBSET Urls]
    BY <1>1, <2>1, <2>2, <2>3
  <2>6. n.perPath \in [Paths -> SUBSET Screens]
    BY <1>1, <2>3 DEF PerPathAfterRemove
  <2>7. n \in Mapper
    BY <1>1, <2>1, <2>3, <2>4, <2>5, <2>6 DEF Mapper, ScreenRemoved
  <2>8. \A u \in Urls : (\E t \in Screens : u \in n.parked[t])
                       => (\E t \in Screens : u \in m.parked[t]) \/ m.map[u] = s
    BY <1>1, <2>1, <2>2, <2>3
  <2> HIDE DEF n, D
  <2> QED
    BY <1>3, <2>1, <2>2, <2>3, <2>7, <2>8
<1> QED
  BY <1>2, <1>3

\* addScreen: the files of the folder that were parked for the screen are on it.
LEMMA AddFacts ==
    ASSUME NEW m \in Mapper, NEW s \in Screens \cup {Unmapped}, NEW p \in Paths
    PROVE  /\ AfterAdd(m, s, p) \in Mapper
           /\ AfterAdd(m, s, p).available = m.available \cup (Screens \cap {s})
           /\ s \notin Screens \ m.available => AfterAdd(m, s, p) = m
           /\ s \in Screens \ m.available =>
                /\ \A u \in Urls : AfterAdd(m, s, p).map[u] =
                     IF u \in m.parked[s] /\ u \in Below[p] THEN s ELSE m.map[u]
<1> DEFINE n == ScreenAdded(m, s, p)
<1>1. /\ m.map \in [Urls -> Screens \cup {Unmapped}]
      /\ m.parked \in [Screens -> SUBSET Urls]
      /\ m.entries \in SUBSET Screens
      /\ m.perPath \in [Paths -> SUBSET Screens]
      /\ m.available \in SUBSET Screens
  BY DEF Mapper
<1>2. CASE s \notin Screens \ m.available
  BY <1>1, <1>2 DEF AfterAdd
<1>3. CASE s \in Screens \ m.available
  <2>1. AfterAdd(m, s, p) = n
    BY <1>3 DEF AfterAdd
  <2>2. /\ n.map = [u \in Urls |-> IF u \in m.parked[s] \cap Below[p] THEN s ELSE m.map[u]]
        /\ n.parked = [m.parked EXCEPT ![s] = @ \ Below[p]]
        /\ n.entries = IF m.parked[s] \subseteq Below[p] THEN m.entries \ {s} ELSE m.entries
        /\ n.perPath = IF p = NoPath THEN m.perPath ELSE [m.perPath EXCEPT ![p] = @ \cup {s}]
        /\ n.available = m.available \cup {s}
    BY DEF ScreenAdded, Returning
  <2>3. n.map \in [Urls -> Screens \cup {Unmapped}]
    BY <1>1, <1>3, <2>2
  <2>4. n.parked \in [Screens -> SUBSET Urls]
    BY <1>1, <1>3, <2>2
  <2>5. n.perPath \in [Paths -> SUBSET Screens]
    BY <1>1, <1>3, <2>2
  <2>6. n \in Mapper
    BY <1>1, <1>3, <2>2, <2>3, <2>4, <2>5 DEF Mapper, ScreenAdded
  <2> HIDE DEF n
  <2> QED
    BY <1>3, <2>1, <2>2, <2>6
<1> QED
  BY <1>2, <1>3

-----------------------------------------------------------------------------
(***************************************************************************)
(* The steps.                                                              *)
(***************************************************************************)
\* A screen operation leaves the views well formed; one that announces or
\* withdraws a screen also leaves the verdicts in agreement.
LEMMA ChangeSound ==
    ASSUME NEW before, NEW after, NEW vs, WellFormed(after, vs), ShowsListed(vs),
           FilterIfChanged(before, after, vs)
    PROVE  /\ WellFormed(mapper, view)'
           /\ ShowsListed(view)'
           /\ mapper'.available = after.available
           /\ \A v \in Views : view'[v].screen = vs[v].screen
           /\ before.available # after.available => Agreed(mapper, view)'
           /\ before.available = after.available => mapper' = after /\ view' = vs
<1>1. CASE before.available = after.available
  BY <1>1 DEF FilterIfChanged, WellFormed, ShowsListed
<1>2. CASE before.available # after.available
  <2>1. mapper' = AfterFilter(after, vs) /\ view' = Filtered(after, vs)
    BY <1>2 DEF FilterIfChanged, Refilter
  <2>2. after \in Mapper /\ vs \in [Views -> View]
    BY DEF WellFormed
  <2>3. mapper'.available = after.available
    BY <2>1, <2>2, FilterMap
  <2>4. \A v \in Views : view'[v].screen = vs[v].screen
    BY <2>1, <2>2, FilterViews
  <2>5. /\ WellFormed(AfterFilter(after, vs), Filtered(after, vs))
        /\ ShowsListed(Filtered(after, vs))
        /\ Agreed(AfterFilter(after, vs), Filtered(after, vs))
    BY FilterSound
  <2>6. WellFormed(mapper, view)' /\ ShowsListed(view)' /\ Agreed(mapper, view)'
    BY <2>1, <2>5 DEF WellFormed, ShowsListed, Agreed
  <2> QED
    BY <1>2, <2>3, <2>4, <2>6
<1> QED
  BY <1>1, <1>2

\* Views without files are added and taken away, and change their folder.
LEMMA WellFormedParts ==
    ASSUME NEW m \in Mapper, NEW n \in Mapper, NEW vs
    PROVE  WellFormed(m, vs) => WellFormed(n, vs)
  BY DEF WellFormed

\* What a step shows to preserve the invariant.
LEMMA BaseParts ==
    ASSUME WellFormed(mapper, view)', ShowsListed(view)',
           AvailableHaveViews(mapper, view)',
           mappingTimer' \in BOOLEAN, exists' \in SUBSET Files
    PROVE  BaseIInv'
  BY DEF BaseIInv, TypeOK, WellFormed, ShowsListed

\* A view given another url: its rows go, and what its old folder lost is
\* filtered anew.
LEMMA SetUrlSound ==
    ASSUME BaseIInv, NEW v \in Views, NEW p \in Folders, SetUrl(v, p)
    PROVE  BaseIInv' /\ (AgreedWhenIdle => AgreedWhenIdle')
<1> DEFINE s == view[v].screen
           vs == [view EXCEPT ![v].folder = p, ![v].listed = {}, ![v].shown = {}]
           m1 == AfterRemove(mapper, s, view[v].folder)
           m2 == IF m1.available = mapper.available THEN m1 ELSE AfterFilter(m1, vs)
           vs2 == IF m1.available = mapper.available THEN vs ELSE Filtered(m1, vs)
           m3 == AfterAdd(m2, s, p)
<1>1. /\ mapper \in Mapper /\ view \in [Views -> View]
      /\ mappingTimer \in BOOLEAN /\ exists \in SUBSET Files
      /\ WellFormed(mapper, view) /\ ShowsListed(view)
      /\ AvailableHaveViews(mapper, view)
      /\ s \in Screens \cup {Unmapped} /\ view[v].folder \in Paths
      /\ p \in Paths
  BY DEF BaseIInv, TypeOK, View, ShowsListed, Folders
<1>2. /\ FilterIfChanged(m2, m3, vs2)
      /\ mappingTimer' = (mappingTimer \/ mapper.map # mapper'.map)
      /\ exists' = exists
  BY DEF SetUrl, TimerAfter
<1>3. /\ vs \in [Views -> View]
      /\ \A w \in Views : vs[w].screen = view[w].screen
      /\ \A w \in Views : vs[w].used = view[w].used /\ vs[w].alive = view[w].alive
      /\ vs[v].listed = {} /\ vs[v].shown = {}
      /\ \A w \in Views \ {v} : vs[w] = view[w]
  BY <1>1 DEF View
<1>4. WellFormed(mapper, vs) /\ ShowsListed(vs)
  <2> HIDE DEF vs
  <2> QED
    BY <1>1, <1>3 DEF WellFormed, ShowsListed
<1>5. /\ m1 \in Mapper
      /\ m1.available = mapper.available \ {s}
      /\ s \notin mapper.available => m1 = mapper
  BY <1>1, RemoveFacts
<1> HIDE DEF vs, m1
<1>6. /\ WellFormed(m2, vs2) /\ ShowsListed(vs2)
      /\ m2.available = m1.available
      /\ \A w \in Views : vs2[w].screen = view[w].screen
  <2>1. WellFormed(m1, vs)
    BY <1>1, <1>4, <1>5, WellFormedParts
  <2>2. CASE m1.available = mapper.available
    BY <1>3, <1>4, <2>1, <2>2
  <2>3. CASE m1.available # mapper.available
    BY <1>3, <1>5, <2>1, <2>3, FilterSound, FilterMap, FilterViews
  <2> QED
    BY <2>2, <2>3
<1>7. m2 \in Mapper
  BY <1>6 DEF WellFormed
<1> HIDE DEF m2, vs2
<1>8. /\ m3 \in Mapper
      /\ m3.available = m2.available \cup (Screens \cap {s})
      /\ s \notin Screens \ m2.available => m3 = m2
  BY <1>1, <1>7, AddFacts
<1> HIDE DEF s, m3
<1>9. WellFormed(m3, vs2)
  BY <1>6, <1>7, <1>8, WellFormedParts
<1>10. /\ WellFormed(mapper, view)' /\ ShowsListed(view)'
       /\ mapper'.available = m3.available
       /\ \A w \in Views : view'[w].screen = view[w].screen
       /\ m2.available # m3.available => Agreed(mapper, view)'
       /\ m2.available = m3.available => mapper' = m3 /\ view' = vs2
  BY <1>2, <1>6, <1>9, ChangeSound
<1>11. AvailableHaveViews(mapper, view)'
  <2>1. \A t \in mapper'.available : t \in mapper.available \/ t = s
    BY <1>5, <1>6, <1>8, <1>10
  <2> QED
    BY <1>1, <1>10, <2>1 DEF AvailableHaveViews, s
<1>12. BaseIInv'
  BY <1>1, <1>2, <1>10, <1>11, BaseParts
<1>13. AgreedWhenIdle => AgreedWhenIdle'
  <2>1. CASE s \in Screens
    BY <1>5, <1>6, <1>8, <1>10, <2>1 DEF AgreedWhenIdle
  <2>2. CASE s \notin Screens
    <3>1. s = Unmapped /\ s \notin mapper.available
      BY <1>1, <2>2 DEF Mapper
    <3>2. mapper' = mapper /\ view' = vs
      BY <1>5, <1>6, <1>8, <1>10, <2>2, <3>1 DEF m2, vs2
    <3>3. Agreed(mapper, view) => Agreed(mapper, view)'
      BY <1>3, <3>1, <3>2 DEF Agreed
    <3> QED
      BY <1>2, <3>3 DEF AgreedWhenIdle
  <2> QED
    BY <2>1, <2>2
<1> QED
  BY <1>12, <1>13

\* A view that gets its screen: nobody else has it, so that no verdict is
\* contradicted.
LEMMA SetScreenSound ==
    ASSUME BaseIInv, NEW v \in Views, SetScreen(v)
    PROVE  BaseIInv' /\ (OneViewPerScreen /\ AgreedWhenIdle => AgreedWhenIdle')
<1> DEFINE s == ScreenOf[v]
           vs == [view EXCEPT ![v].used = TRUE, ![v].screen = s]
           m1 == AfterAdd(mapper, s, view[v].folder)
<1>1. /\ mapper \in Mapper /\ view \in [Views -> View]
      /\ mappingTimer \in BOOLEAN /\ exists \in SUBSET Files
      /\ WellFormed(mapper, view) /\ ShowsListed(view)
      /\ AvailableHaveViews(mapper, view)
      /\ s \in Screens /\ view[v].folder \in Paths
  BY ViewsAssumption DEF BaseIInv, TypeOK, View, ShowsListed
<1>2. /\ view[v].alive
      /\ view[v].screen = s => mapper' = mapper /\ view' = vs
      /\ view[v].screen # s => FilterIfChanged(mapper, m1, vs)
      /\ mappingTimer' = (mappingTimer \/ mapper.map # mapper'.map)
      /\ exists' = exists
  BY DEF SetScreen, TimerAfter
<1>3. /\ vs \in [Views -> View]
      /\ vs[v].screen = s /\ vs[v].folder = view[v].folder /\ vs[v].alive = view[v].alive
      /\ vs[v].listed = view[v].listed /\ vs[v].shown = view[v].shown
      /\ \A w \in Views \ {v} : vs[w] = view[w]
  BY <1>1 DEF View
<1>4. WellFormed(mapper, vs) /\ ShowsListed(vs)
  <2>1. vs[v].alive
    BY <1>2, <1>3
  <2> HIDE DEF vs
  <2>2. WellFormed(mapper, vs)
    BY <1>1, <1>3, <2>1 DEF WellFormed
  <2>3. ShowsListed(vs)
    BY <1>1, <1>3 DEF ShowsListed
  <2> QED
    BY <2>2, <2>3
<1>5. /\ m1 \in Mapper
      /\ m1.available = mapper.available \cup (Screens \cap {s})
      /\ s \notin Screens \ mapper.available => m1 = mapper
  BY <1>1, AddFacts
<1> HIDE DEF vs, m1
<1>6. WellFormed(m1, vs)
  BY <1>1, <1>4, <1>5, WellFormedParts
<1>7. CASE view[v].screen = s
  <2>1. WellFormed(mapper, view)' /\ ShowsListed(view)'
    BY <1>2, <1>4, <1>7
  <2>2. AvailableHaveViews(mapper, view)'
    BY <1>1, <1>2, <1>3, <1>7 DEF AvailableHaveViews
  <2>3. Agreed(mapper, view) => Agreed(mapper, view)'
    BY <1>2, <1>3, <1>7 DEF Agreed
  <2> QED
    BY <1>1, <1>2, <1>7, <2>1, <2>2, <2>3, BaseParts DEF AgreedWhenIdle
<1>8. CASE view[v].screen # s
  <2>1. /\ WellFormed(mapper, view)' /\ ShowsListed(view)'
        /\ mapper'.available = m1.available
        /\ \A w \in Views : view'[w].screen = vs[w].screen
        /\ mapper.available # m1.available => Agreed(mapper, view)'
    BY <1>2, <1>4, <1>6, <1>8, ChangeSound
  <2>2. view[v].screen = Unmapped
    BY <1>1, <1>8 DEF WellFormed
  <2>3. AvailableHaveViews(mapper, view)'
    <3>1. \A t \in mapper'.available : t \in mapper.available \/ t = s
      BY <1>5, <2>1
    <3>2. Unmapped \notin mapper.available
      BY <1>1, UnmappedIsNoScreen DEF Mapper
    <3> QED
      BY <1>1, <1>3, <2>1, <2>2, <3>1, <3>2 DEF AvailableHaveViews
  <2>4. ASSUME OneViewPerScreen PROVE s \notin mapper.available
    <3>1. ASSUME NEW w \in Views, view[w].screen = s PROVE FALSE
      <4>1. s # Unmapped
        BY <1>1, UnmappedIsNoScreen
      <4>2. ScreenOf[w] = s
        BY <1>1, <3>1, <4>1 DEF WellFormed
      <4> QED
        BY <1>8, <2>4, <3>1, <4>2 DEF OneViewPerScreen, s
    <3> QED
      BY <1>1, <3>1 DEF AvailableHaveViews
  <2> QED
    BY <1>1, <1>2, <1>5, <2>1, <2>3, <2>4, BaseParts DEF AgreedWhenIdle
<1> QED
  BY <1>7, <1>8

\* A view that goes takes its rows and its screen with it.
LEMMA DestroyViewSound ==
    ASSUME BaseIInv, NEW v \in Views, DestroyView(v)
    PROVE  BaseIInv' /\ (AgreedWhenIdle => AgreedWhenIdle')
<1> DEFINE s == view[v].screen
           vs == [view EXCEPT ![v] = NoView]
           m1 == AfterRemove(mapper, s, view[v].folder)
<1>1. /\ mapper \in Mapper /\ view \in [Views -> View]
      /\ mappingTimer \in BOOLEAN /\ exists \in SUBSET Files
      /\ WellFormed(mapper, view) /\ ShowsListed(view)
      /\ AvailableHaveViews(mapper, view)
      /\ s \in Screens \cup {Unmapped} /\ view[v].folder \in Paths
  BY DEF BaseIInv, TypeOK, View, ShowsListed
<1>2. /\ FilterIfChanged(mapper, m1, vs)
      /\ mappingTimer' = (mappingTimer \/ mapper.map # mapper'.map)
      /\ exists' = exists
  BY DEF DestroyView, TimerAfter
<1>3. /\ vs \in [Views -> View]
      /\ vs[v] = NoView
      /\ \A w \in Views \ {v} : vs[w] = view[w]
  BY <1>1, PathsAssumption DEF View, NoView
<1>4. WellFormed(mapper, vs) /\ ShowsListed(vs)
  <2> HIDE DEF vs
  <2> QED
    BY <1>1, <1>3 DEF WellFormed, ShowsListed, NoView
<1>5. /\ m1 \in Mapper
      /\ m1.available = mapper.available \ {s}
      /\ s \notin mapper.available => m1 = mapper
  BY <1>1, RemoveFacts
<1> HIDE DEF vs, m1
<1>6. WellFormed(m1, vs)
  BY <1>1, <1>4, <1>5, WellFormedParts
<1>7. /\ WellFormed(mapper, view)' /\ ShowsListed(view)'
      /\ mapper'.available = m1.available
      /\ \A w \in Views : view'[w].screen = vs[w].screen
      /\ mapper.available # m1.available => Agreed(mapper, view)'
      /\ mapper.available = m1.available => mapper' = m1 /\ view' = vs
  BY <1>2, <1>4, <1>6, ChangeSound
<1>8. AvailableHaveViews(mapper, view)'
  <2>1. \A t \in mapper'.available : t \in mapper.available /\ t # s
    BY <1>5, <1>7
  <2> QED
    BY <1>1, <1>3, <1>7, <2>1 DEF AvailableHaveViews
<1>9. mapper.available = m1.available /\ Agreed(mapper, view) => Agreed(mapper, view)'
  <2>1. mapper.available = m1.available => mapper' = mapper /\ view' = vs
    BY <1>5, <1>7
  <2> QED
    BY <1>3, <2>1 DEF Agreed, NoView
<1> QED
  BY <1>1, <1>2, <1>7, <1>8, <1>9, BaseParts DEF AgreedWhenIdle

\* A screen that comes or goes filters every view anew.
LEMMA HotplugSound ==
    ASSUME BaseIInv, NEW s \in Screens, ScreenPlugged(s) \/ ScreenUnplugged(s)
    PROVE  BaseIInv' /\ Agreed(mapper, view)'
<1>1. /\ mapper \in Mapper /\ view \in [Views -> View]
      /\ mappingTimer \in BOOLEAN /\ exists \in SUBSET Files
      /\ WellFormed(mapper, view) /\ ShowsListed(view)
      /\ AvailableHaveViews(mapper, view)
      /\ NoPath \in Paths
  BY PathsAssumption DEF BaseIInv, TypeOK, View, ShowsListed
<1>2. PICK m, vs :
        /\ mapper' = AfterFilter(m, vs) /\ view' = Filtered(m, vs)
        /\ m \in Mapper /\ WellFormed(mapper, vs)
        /\ AvailableHaveViews(m, vs)
        /\ mappingTimer' \in BOOLEAN /\ exists' = exists
  <2>1. CASE ScreenPlugged(s)
    <3> DEFINE m == ScreenAdded(mapper, s, NoPath)
    <3>1. /\ mapper' = AfterFilter(m, view) /\ view' = Filtered(m, view)
          /\ mappingTimer' = (mappingTimer \/ mapper.map # mapper'.map) /\ exists' = exists
          /\ s \notin mapper.available
          /\ \E v \in Views : view[v].screen = s
      BY <2>1 DEF ScreenPlugged, Refilter, TimerAfter
    <3>2. m = AfterAdd(mapper, s, NoPath)
      BY <3>1 DEF AfterAdd
    <3>3. m \in Mapper /\ m.available = mapper.available \cup (Screens \cap {s})
      BY <1>1, <3>2, AddFacts
    <3> HIDE DEF m
    <3>4. AvailableHaveViews(m, view)
      BY <1>1, <3>1, <3>3 DEF AvailableHaveViews
    <3> QED
      BY <1>1, <3>1, <3>3, <3>4
  <2>2. CASE ScreenUnplugged(s)
    <3> DEFINE m == ScreenRemoved(mapper, s, NoPath)
               vs == [v \in Views |-> IF view[v].screen = s
                                      THEN [view[v] EXCEPT !.used = FALSE] ELSE view[v]]
    <3>1. /\ mapper' = AfterFilter(m, vs) /\ view' = Filtered(m, vs)
          /\ mappingTimer' = (mappingTimer \/ mapper.map # mapper'.map) /\ exists' = exists
          /\ s \in mapper.available
      BY <2>2 DEF ScreenUnplugged, Refilter, TimerAfter
    <3>2. m = AfterRemove(mapper, s, NoPath)
      BY <3>1 DEF AfterRemove
    <3>3. m \in Mapper /\ m.available = mapper.available \ {s}
      BY <1>1, <3>2, RemoveFacts
    <3>4. /\ vs \in [Views -> View]
          /\ \A v \in Views : vs[v].screen = view[v].screen
          /\ \A v \in Views : vs[v].folder = view[v].folder /\ vs[v].listed = view[v].listed
          /\ \A v \in Views : vs[v].alive = view[v].alive
          /\ \A v \in Views : vs[v].used => view[v].used
      BY <1>1 DEF View
    <3> HIDE DEF m, vs
    <3>5. WellFormed(mapper, vs)
      BY <1>1, <3>4 DEF WellFormed
    <3>6. AvailableHaveViews(m, vs)
      BY <1>1, <3>3, <3>4 DEF AvailableHaveViews
    <3> QED
      BY <1>1, <3>1, <3>3, <3>5, <3>6
  <2> QED
    BY <2>1, <2>2
<1>3. WellFormed(m, vs)
  BY <1>1, <1>2, WellFormedParts
<1>4. WellFormed(mapper, view)' /\ ShowsListed(view)' /\ Agreed(mapper, view)'
  BY <1>2, <1>3, FilterSound
<1>5. AvailableHaveViews(mapper, view)'
  <2>1. /\ mapper'.available = m.available
        /\ \A v \in Views : view'[v].screen = vs[v].screen
    BY <1>2, <1>3, FilterMap, FilterViews DEF WellFormed
  <2> QED
    BY <1>2, <2>1 DEF AvailableHaveViews
<1> QED
  BY <1>1, <1>2, <1>4, <1>5, BaseParts

\* A new row is filtered alone, by the mapping the other rows were filtered by.
LEMMA RowInsertedSound ==
    ASSUME BaseIInv, NEW v \in Views, NEW u \in Files, RowInserted(v, u)
    PROVE  BaseIInv' /\ (AgreedWhenIdle => AgreedWhenIdle')
<1> DEFINE row == [w \in Views |-> IF w = v THEN [view[v] EXCEPT !.listed = {u}] ELSE NoView]
           new == Filtered(mapper, row)[v].shown
<1>1. /\ mapper \in Mapper /\ view \in [Views -> View]
      /\ mappingTimer \in BOOLEAN /\ exists \in SUBSET Files
      /\ WellFormed(mapper, view) /\ ShowsListed(view)
      /\ AvailableHaveViews(mapper, view)
  BY DEF BaseIInv, TypeOK, View, ShowsListed
<1>2. /\ FolderOf[u] = view[v].folder
      /\ mapper' = AfterFilter(mapper, row)
      /\ view' = [view EXCEPT ![v].listed = @ \cup {u}, ![v].shown = @ \cup new]
      /\ mappingTimer' = (mappingTimer \/ mapper.map # mapper'.map)
      /\ exists' = exists
  BY DEF RowInserted, TimerAfter
<1>3. /\ row \in [Views -> View]
      /\ row[v].screen = view[v].screen /\ row[v].used = view[v].used
      /\ row[v].alive = view[v].alive /\ row[v].folder = view[v].folder
      /\ row[v].listed = {u}
      /\ \A w \in Views \ {v} : row[w] = NoView
  BY <1>1, PathsAssumption DEF View, NoView
<1> HIDE DEF row
<1>4. WellFormed(mapper, row)
  <2>1. \A w \in Views : row[w].screen \in {Unmapped, ScreenOf[w]}
    BY <1>1, <1>3 DEF WellFormed, NoView
  <2>2. \A w \in Views : row[w].used => row[w].screen = ScreenOf[w]
    BY <1>1, <1>3 DEF WellFormed, NoView
  <2>3. \A w \in Views : ~row[w].alive => row[w].screen = Unmapped
    BY <1>1, <1>3 DEF WellFormed, NoView
  <2>4. \A w \in Views : \A x \in row[w].listed : FolderOf[x] = row[w].folder
    BY <1>1, <1>2, <1>3 DEF NoView
  <2> QED
    BY <1>1, <1>3, <2>1, <2>2, <2>3, <2>4 DEF WellFormed
<1>5. /\ Agreed(AfterFilter(mapper, row), Filtered(mapper, row))
      /\ ShowsListed(Filtered(mapper, row))
  BY <1>4, FilterSound
<1>6. /\ Filtered(mapper, row)[v].listed = {u}
      /\ Filtered(mapper, row)[v].screen = view[v].screen
      /\ mapper' \in Mapper /\ mapper'.available = mapper.available
  <2>1. /\ Filtered(mapper, row)[v].listed = {u}
        /\ Filtered(mapper, row)[v].screen = view[v].screen
    BY <1>1, <1>3, FilterViews
  <2>2. mapper' \in Mapper /\ mapper'.available = mapper.available
    BY <1>1, <1>2, <1>3, FilterMap
  <2> QED
    BY <2>1, <2>2
<1>7. /\ new \subseteq {u}
      /\ view[v].screen # Unmapped => \A x \in new : mapper'.map[x] = view[v].screen
  BY <1>2, <1>5, <1>6 DEF Agreed, ShowsListed
<1> HIDE DEF new
<1>8. /\ view' \in [Views -> View]
      /\ view'[v].screen = view[v].screen /\ view'[v].used = view[v].used
      /\ view'[v].alive = view[v].alive /\ view'[v].folder = view[v].folder
      /\ view'[v].listed = view[v].listed \cup {u}
      /\ view'[v].shown = view[v].shown \cup new
      /\ \A w \in Views \ {v} : view'[w] = view[w]
  BY <1>1, <1>2, <1>7 DEF View
<1>9. WellFormed(mapper, view)' /\ ShowsListed(view)'
  <2>1. WellFormed(mapper, view)'
    BY <1>1, <1>2, <1>6, <1>8 DEF WellFormed
  <2>2. ShowsListed(view)'
    BY <1>1, <1>7, <1>8 DEF ShowsListed
  <2> QED
    BY <2>1, <2>2
<1>10. AvailableHaveViews(mapper, view)'
  BY <1>1, <1>6, <1>8 DEF AvailableHaveViews
<1>11. mapper.map = mapper'.map /\ Agreed(mapper, view) => Agreed(mapper, view)'
  BY <1>7, <1>8 DEF Agreed
<1> QED
  BY <1>1, <1>2, <1>9, <1>10, <1>11, BaseParts DEF AgreedWhenIdle

\* Steps that change the mapping only, and start the timer.
LEMMA RemappingSound ==
    ASSUME BaseIInv, mapper' \in Mapper, mapper'.available = mapper.available,
           mappingTimer' = TRUE, UNCHANGED <<exists, view>>
    PROVE  BaseIInv' /\ AgreedWhenIdle'
<1>1. /\ WellFormed(mapper, view) /\ ShowsListed(view) /\ AvailableHaveViews(mapper, view)
      /\ exists \in SUBSET Files
  BY DEF BaseIInv, TypeOK, ShowsListed
<1>2. WellFormed(mapper, view)'
  BY <1>1 DEF WellFormed
<1>3. ShowsListed(view)' /\ AvailableHaveViews(mapper, view)'
  BY <1>1 DEF ShowsListed, AvailableHaveViews
<1> QED
  BY <1>1, <1>2, <1>3, BaseParts DEF AgreedWhenIdle

\* What a new mapping of one file leaves alone.
LEMMA MappedFacts ==
    ASSUME NEW m \in Mapper, NEW u \in Urls, NEW s \in Screens \cup {Unmapped}
    PROVE  /\ Mapped(m, u, s) \in Mapper
           /\ Mapped(m, u, s).available = m.available
           /\ Mapped(m, u, s).perPath = m.perPath
           /\ Mapped(m, u, s).parked = m.parked
           /\ Mapped(m, u, s).map = [m.map EXCEPT ![u] = s]
  BY DEF Mapper, Mapped

\* What taking one file off the parked lists leaves alone.
LEMMA UnparkedFacts ==
    ASSUME NEW m \in Mapper, NEW u \in Urls
    PROVE  /\ Unparked(m, u) \in Mapper
           /\ Unparked(m, u).available = m.available
           /\ Unparked(m, u).perPath = m.perPath
           /\ Unparked(m, u).map = m.map
  BY DEF Mapper, Unparked

\* A deleted file leaves every view.
LEMMA FileDeletedSound ==
    ASSUME BaseIInv, NEW u \in Files, FileDeleted(u)
    PROVE  BaseIInv' /\ (AgreedWhenIdle => AgreedWhenIdle')
<1>1. /\ mapper \in Mapper /\ view \in [Views -> View]
      /\ mappingTimer \in BOOLEAN /\ exists \in SUBSET Files
      /\ WellFormed(mapper, view) /\ ShowsListed(view)
      /\ AvailableHaveViews(mapper, view)
      /\ u \in Urls
  BY DEF BaseIInv, TypeOK, View, ShowsListed, Files
<1>2. /\ view' \in [Views -> View]
      /\ \A w \in Views : view'[w].screen = view[w].screen /\ view'[w].folder = view[w].folder
      /\ \A w \in Views : view'[w].used = view[w].used
      /\ \A w \in Views : view'[w].alive = view[w].alive
      /\ \A w \in Views : view'[w].listed = view[w].listed \ {u}
      /\ \A w \in Views : view'[w].shown = view[w].shown \ {u}
      /\ exists' = exists \ {u}
  BY <1>1 DEF FileDeleted, View
<1>3. \/ mapper' = Mapped(mapper, u, Unmapped) /\ mappingTimer' = TRUE
      \/ mapper' = mapper /\ mappingTimer' = mappingTimer
  BY DEF FileDeleted
<1>4. mapper' \in Mapper /\ mapper'.available = mapper.available
  <2>1. /\ Mapped(mapper, u, Unmapped) \in Mapper
        /\ Mapped(mapper, u, Unmapped).available = mapper.available
    <3>1. Unmapped \in Screens \cup {Unmapped}
      OBVIOUS
    <3> QED
      BY <1>1, <3>1, MappedFacts
  <2> QED
    BY <1>1, <1>3, <2>1
<1>5. WellFormed(mapper, view)'
  BY <1>1, <1>2, <1>4 DEF WellFormed
<1>6. ShowsListed(view)' /\ AvailableHaveViews(mapper, view)'
  BY <1>1, <1>2, <1>4 DEF ShowsListed, AvailableHaveViews
<1>7. mapper' = mapper /\ Agreed(mapper, view) => Agreed(mapper, view)'
  BY <1>2 DEF Agreed
<1> QED
  BY <1>1, <1>2, <1>3, <1>5, <1>6, <1>7, BaseParts DEF AgreedWhenIdle

\* No view exists at first, and no file is mapped.
LEMMA InitBase == Init => BaseIInv /\ AgreedWhenIdle
<1> SUFFICES ASSUME Init PROVE BaseIInv /\ AgreedWhenIdle
  OBVIOUS
<1>1. mapper \in Mapper
  BY DEF Init, Mapper
<1>2. view \in [Views -> View] /\ \A v \in Views : view[v] = NoView
  BY PathsAssumption DEF Init, View, NoView
<1>3. BaseIInv
  BY <1>1, <1>2 DEF Init, BaseIInv, TypeOK, WellFormed, AvailableHaveViews, NoView
<1>4. AgreedWhenIdle
  BY <1>2 DEF AgreedWhenIdle, Agreed, NoView
<1> QED
  BY <1>3, <1>4

\* Every step preserves the base invariant and, with a screen for each view,
\* the agreement of the verdicts.
LEMMA StepBase ==
    ASSUME BaseIInv, [Next]_vars
    PROVE  BaseIInv' /\ (OneViewPerScreen /\ AgreedWhenIdle => AgreedWhenIdle')
<1>0. /\ mapper \in Mapper /\ view \in [Views -> View]
      /\ mappingTimer \in BOOLEAN /\ exists \in SUBSET Files
      /\ WellFormed(mapper, view) /\ ShowsListed(view)
      /\ AvailableHaveViews(mapper, view)
      /\ \A v \in Views : view[v].screen \in Screens \cup {Unmapped}
      /\ Files \subseteq Urls
  BY DEF BaseIInv, TypeOK, View, ShowsListed, Files
<1>1. ASSUME NEW v \in Views, CreateView(v)
      PROVE  BaseIInv' /\ (AgreedWhenIdle => AgreedWhenIdle')
  <2>1. /\ view[v].screen = Unmapped
        /\ view' = [view EXCEPT ![v] = [NoView EXCEPT !.alive = TRUE]]
        /\ mapper' = mapper /\ mappingTimer' = mappingTimer /\ exists' = exists
    BY <1>0, <1>1 DEF CreateView, WellFormed
  <2>2. /\ view' \in [Views -> View]
        /\ view'[v].screen = Unmapped /\ view'[v].used = FALSE
        /\ view'[v].listed = {} /\ view'[v].shown = {}
        /\ \A w \in Views \ {v} : view'[w] = view[w]
    BY <1>0, <2>1, PathsAssumption DEF View, NoView
  <2>3. WellFormed(mapper, view)' /\ ShowsListed(view)'
    BY <1>0, <2>1, <2>2 DEF WellFormed, ShowsListed
  <2>4. AvailableHaveViews(mapper, view)'
    BY <1>0, <2>1, <2>2 DEF AvailableHaveViews
  <2>5. AgreedWhenIdle => AgreedWhenIdle'
    BY <2>1, <2>2 DEF AgreedWhenIdle, Agreed
  <2> QED
    BY <1>0, <2>1, <2>3, <2>4, <2>5, BaseParts
<1>2. ASSUME NEW v \in Views, NEW u \in Files, DropFile(v, u) \/ ClaimNewFile(v, u)
      PROVE  BaseIInv' /\ AgreedWhenIdle'
  <2> DEFINE m == Mapped(mapper, u, view[v].screen)
  <2>1. m \in Mapper /\ m.available = mapper.available
    <3>1. mapper \in Mapper /\ u \in Urls /\ view[v].screen \in Screens \cup {Unmapped}
      BY <1>0
    <3> QED
      BY <3>1, MappedFacts, Zenon
  <2>2. /\ mapper' \in {m, Unparked(m, u)}
        /\ mappingTimer' = TRUE /\ UNCHANGED <<exists, view>>
    BY <1>2 DEF DropFile, ClaimNewFile
  <2> HIDE DEF m
  <2>3. mapper' \in Mapper /\ mapper'.available = mapper.available
    BY <1>0, <2>1, <2>2, UnparkedFacts
  <2> QED
    BY <2>2, <2>3, RemappingSound
<1>3. ASSUME NEW u \in Files, FileCreated(u)
      PROVE  BaseIInv' /\ (AgreedWhenIdle => AgreedWhenIdle')
  BY <1>0, <1>3 DEF FileCreated, BaseIInv, TypeOK, AgreedWhenIdle
<1>4. CASE MappingTimeout
  <2>1. /\ mapper' = AfterFilter(mapper, view) /\ view' = Filtered(mapper, view)
        /\ mappingTimer' \in BOOLEAN /\ exists' = exists
    BY <1>4 DEF MappingTimeout, Refilter
  <2>2. WellFormed(mapper, view)' /\ ShowsListed(view)' /\ Agreed(mapper, view)'
    BY <1>0, <2>1, FilterSound
  <2>3. AvailableHaveViews(mapper, view)'
    BY <1>0, <2>1, FilterMap, FilterViews DEF AvailableHaveViews
  <2> QED
    BY <1>0, <2>1, <2>2, <2>3, BaseParts DEF AgreedWhenIdle
<1>5. CASE UNCHANGED vars
  BY <1>5 DEF vars, BaseIInv, TypeOK, AgreedWhenIdle
<1>6. ASSUME NEW v \in Views, NEW p \in Folders, SetUrl(v, p)
      PROVE  BaseIInv' /\ (AgreedWhenIdle => AgreedWhenIdle')
  BY <1>6, SetUrlSound
<1>7. ASSUME NEW v \in Views, SetScreen(v)
      PROVE  BaseIInv' /\ (OneViewPerScreen /\ AgreedWhenIdle => AgreedWhenIdle')
  BY <1>7, SetScreenSound
<1>8. ASSUME NEW v \in Views, DestroyView(v)
      PROVE  BaseIInv' /\ (AgreedWhenIdle => AgreedWhenIdle')
  BY <1>8, DestroyViewSound
<1>9. ASSUME NEW v \in Views, NEW u \in Files, RowInserted(v, u)
      PROVE  BaseIInv' /\ (AgreedWhenIdle => AgreedWhenIdle')
  BY <1>9, RowInsertedSound
<1>10. ASSUME NEW s \in Screens, ScreenPlugged(s) \/ ScreenUnplugged(s)
       PROVE  BaseIInv' /\ AgreedWhenIdle'
  BY <1>10, HotplugSound DEF AgreedWhenIdle
<1>11. ASSUME NEW u \in Files, FileDeleted(u)
       PROVE  BaseIInv' /\ (AgreedWhenIdle => AgreedWhenIdle')
  BY <1>11, FileDeletedSound
<1> QED
  BY <1>1, <1>2, <1>3, <1>4, <1>5, <1>6, <1>7, <1>8, <1>9, <1>10, <1>11 DEF Next

(***************************************************************************)
(* The first results.                                                      *)
(***************************************************************************)
\* The maps of the mapper and the rows of the views stay well formed, and no
\* view shows a row its lister did not deliver, whatever screens and views
\* come and go (foldermodel.cpp and screenmapper.cpp).
THEOREM DesktopTypeCorrect == Spec => []TypeOK
<1>1. Init => BaseIInv
  BY InitBase
<1>2. BaseIInv /\ [Next]_vars => BaseIInv'
  BY StepBase
<1>3. BaseIInv => TypeOK
  BY DEF BaseIInv
<1> QED
  BY <1>1, <1>2, <1>3, PTL DEF Spec

\* Two attached views on different screens show no file in common: each shows
\* it because it is mapped to its own screen.
LEMMA AgreedMeansOneScreen ==
    BaseIInv /\ AgreedWhenIdle => OneScreenPerFile
<1> SUFFICES ASSUME BaseIInv, Agreed(mapper, view),
                    NEW v \in Views, view[v].used,
                    NEW w \in Views, view[w].used,
                    NEW u \in view[v].shown, u \in view[w].shown
             PROVE  view[v].screen = view[w].screen
  BY DEF AgreedWhenIdle, OneScreenPerFile
<1>1. ScreenOf[v] # Unmapped /\ ScreenOf[w] # Unmapped
  BY ViewsAssumption, UnmappedIsNoScreen
<1>2. view[v].screen = ScreenOf[v] /\ view[w].screen = ScreenOf[w]
  BY DEF BaseIInv, WellFormed
<1> QED
  BY <1>1, <1>2 DEF Agreed

\* While the containments are those of one activity, each on a screen of its
\* own, no file is on two screens once the mapper's timer is idle: the cached
\* verdicts of filterAcceptsRow agree with the mapping, although they were
\* taken at different times.
THEOREM FilesOnOneScreen == OneViewPerScreen => (Spec => []OneScreenPerFile)
<1> SUFFICES ASSUME OneViewPerScreen PROVE Spec => []OneScreenPerFile
  OBVIOUS
<1> DEFINE Inv == BaseIInv /\ AgreedWhenIdle
<1>1. Init => Inv
  BY InitBase
<1>2. Inv /\ [Next]_vars => Inv'
  BY StepBase
<1>3. Inv => OneScreenPerFile
  BY AgreedMeansOneScreen
<1> QED
  BY <1>1, <1>2, <1>3, PTL DEF Spec

\* No filter moves a file that is on an available screen.
LEMMA FilterKeepsPlaced ==
    ASSUME NEW m \in Mapper, NEW vs \in [Views -> View], NEW u \in Urls,
           m.map[u] \in m.available
    PROVE  AfterFilter(m, vs).map[u] = m.map[u]
<1>1. ScreenForItem(m, u) # Unmapped
  BY UnmappedIsNoScreen DEF ScreenForItem, Mapper
<1> QED
  BY <1>1, FilterMap DEF Adopts

\* Nor does a screen operation followed by the filters.
LEMMA ChangeKeepsPlaced ==
    ASSUME NEW before, NEW after \in Mapper, NEW vs \in [Views -> View], NEW u \in Urls,
           after.map[u] \in after.available, FilterIfChanged(before, after, vs)
    PROVE  mapper'.map[u] = after.map[u]
  BY FilterKeepsPlaced DEF FilterIfChanged, Refilter

\* A view that switches to another folder lists nothing of it yet.
LEMMA FolderSwitched ==
    ASSUME NEW vs \in [Views -> View], NEW v \in Views, NEW p \in Folders
    PROVE  LET ws == [vs EXCEPT ![v].folder = p, ![v].listed = {}, ![v].shown = {}]
           IN  ws \in [Views -> View] /\ ws[v].folder = p
<1> DEFINE r == [vs[v] EXCEPT !.folder = p, !.listed = {}, !.shown = {}]
           ws == [vs EXCEPT ![v].folder = p, ![v].listed = {}, ![v].shown = {}]
<1>1. r \in View /\ r.folder = p
  BY DEF View, Folders
<1>2. ws = [vs EXCEPT ![v] = r]
  OBVIOUS
<1> HIDE DEF ws, r
<1>3. ws \in [Views -> View] /\ ws[v].folder = p
  BY <1>1, <1>2
<1> QED
  BY <1>3 DEF ws

\* The step of another view to a new url leaves a placed file alone: its
\* screen is not the one that goes, and it does not wait for the one that comes.
LEMMA SetUrlKeepsPlaced ==
    ASSUME BaseIInv, NEW v \in Views, NEW p \in Folders, SetUrl(v, p),
           NEW u \in Files, mapper.map[u] \in mapper.available,
           view[v].screen # mapper.map[u], u \notin AllParked(mapper.parked)
    PROVE  mapper'.map[u] = mapper.map[u]
<1> DEFINE s == view[v].screen
           vs == [view EXCEPT ![v].folder = p, ![v].listed = {}, ![v].shown = {}]
           m1 == AfterRemove(mapper, s, view[v].folder)
           m2 == IF m1.available = mapper.available THEN m1 ELSE AfterFilter(m1, vs)
           vs2 == IF m1.available = mapper.available THEN vs ELSE Filtered(m1, vs)
           m3 == AfterAdd(m2, s, p)
<1>1. /\ mapper \in Mapper /\ view \in [Views -> View]
      /\ s \in Screens \cup {Unmapped} /\ view[v].folder \in Paths
      /\ p \in Paths /\ u \in Urls
  BY DEF BaseIInv, TypeOK, View, Folders, Files
<1>2. FilterIfChanged(m2, m3, vs2)
  BY DEF SetUrl
<1>3. vs \in [Views -> View]
  BY <1>1, FolderSwitched DEF Folders
<1>4. /\ m1 \in Mapper
      /\ m1.available = mapper.available \ {s}
      /\ m1.map[u] = mapper.map[u]
      /\ ~\E t \in Screens : u \in m1.parked[t]
  <2>1. ~\E t \in Screens : u \in mapper.parked[t]
    BY DEF AllParked
  <2>2. CASE s \in mapper.available
    BY <1>1, <2>1, <2>2, RemoveFacts
  <2>3. CASE s \notin mapper.available
    BY <1>1, <2>1, <2>3, RemoveFacts
  <2> QED
    BY <2>2, <2>3
<1> HIDE DEF m1, vs
<1>5. /\ m2 \in Mapper /\ vs2 \in [Views -> View]
      /\ m2.available = m1.available /\ m2.parked = m1.parked
      /\ m2.map[u] = m1.map[u]
  <2>1. CASE m1.available = mapper.available
    BY <1>3, <1>4, <2>1
  <2>2. CASE m1.available # mapper.available
    <3>1. m1.map[u] \in m1.available
      BY <1>4
    <3>2. /\ AfterFilter(m1, vs) \in Mapper
          /\ AfterFilter(m1, vs).available = m1.available
          /\ AfterFilter(m1, vs).parked = m1.parked
      BY <1>3, <1>4, FilterMap
    <3>3. AfterFilter(m1, vs).map[u] = m1.map[u]
      BY <1>1, <1>3, <1>4, <3>1, FilterKeepsPlaced
    <3>4. Filtered(m1, vs) \in [Views -> View]
      BY <1>3, <1>4, FilterViews
    <3> QED
      BY <2>2, <3>2, <3>3, <3>4
  <2> QED
    BY <2>1, <2>2
<1> HIDE DEF m2, vs2
<1>6. /\ m3 \in Mapper
      /\ m3.available = m2.available \cup (Screens \cap {s})
      /\ m3.map[u] = m2.map[u]
  <2>1. CASE s \in Screens \ m2.available
    <3>1. u \notin m2.parked[s]
      BY <1>4, <1>5, <2>1
    <3> QED
      BY <1>1, <1>5, <2>1, <3>1, AddFacts
  <2>2. CASE s \notin Screens \ m2.available
    BY <1>1, <1>5, <2>2, AddFacts
  <2> QED
    BY <2>1, <2>2
<1> HIDE DEF m3
<1>7. m3.map[u] \in m3.available
  BY <1>4, <1>5, <1>6
<1> QED
  BY <1>1, <1>2, <1>4, <1>5, <1>6, <1>7, ChangeKeepsPlaced

\* What excuses a file for leaving its screen in PlacedFilesStay.
ViewLeaves(u) ==
    \E v \in Views : view[v].screen = ScreenForItem(mapper, u)
        /\ \/ view'[v].folder # view[v].folder
           \/ view'[v].screen # ScreenForItem(mapper, u)

\* No step but the user's changes the mapping of a file on a screen that stays.
LEMMA StepKeepsPlaced ==
    ASSUME BaseIInv, BaseIInv', [Next]_vars, NEW u \in Files,
           ScreenForItem(mapper, u) # Unmapped,
           ScreenForItem(mapper, u) \in mapper'.available,
           u \notin AllParked(mapper.parked), ~ViewLeaves(u), ~UserMoves(u)
    PROVE  mapper'.map[u] = mapper.map[u]
<1> DEFINE s == mapper.map[u]
<1>1. /\ mapper \in Mapper /\ view \in [Views -> View] /\ u \in Urls
      /\ mapper' \in Mapper /\ view' \in [Views -> View]
      /\ NoPath \in Paths
  BY PathsAssumption DEF BaseIInv, TypeOK, Files
<1>2. /\ ScreenForItem(mapper, u) = s
      /\ s \in mapper.available /\ s \in mapper'.available
      /\ s \in Screens /\ s # Unmapped
      /\ ~\E t \in Screens : u \in mapper.parked[t]
  BY <1>1 DEF ScreenForItem, AllParked, Mapper
<1>3. \A v \in Views : view[v].screen = s =>
        view'[v].folder = view[v].folder /\ view'[v].screen = s
  BY <1>2 DEF ViewLeaves
<1> HIDE DEF s
<1>4. ASSUME NEW v \in Views, CreateView(v) PROVE mapper'.map[u] = s
  BY <1>4 DEF CreateView, s
<1>5. ASSUME NEW v \in Views, NEW p \in Folders, SetUrl(v, p)
      PROVE  mapper'.map[u] = s
  <2>1. view'[v].folder = p /\ p # view[v].folder
    <3> DEFINE vs == [view EXCEPT ![v].folder = p, ![v].listed = {}, ![v].shown = {}]
               m1 == AfterRemove(mapper, view[v].screen, view[v].folder)
               m2 == IF m1.available = mapper.available THEN m1 ELSE AfterFilter(m1, vs)
               vs2 == IF m1.available = mapper.available THEN vs ELSE Filtered(m1, vs)
               m3 == AfterAdd(m2, view[v].screen, p)
    <3>1. FilterIfChanged(m2, m3, vs2) /\ p # view[v].folder
      BY <1>5 DEF SetUrl
    <3>2. vs \in [Views -> View] /\ vs[v].folder = p
      <4>1. vs \in [Views -> View]
        BY <1>1, FolderSwitched
      <4>2. vs[v].folder = p
        BY <1>1 DEF View, Folders
      <4> QED
        BY <4>1, <4>2
    <3> HIDE DEF vs, m1, m3
    <3>3. vs2 \in [Views -> View] /\ vs2[v].folder = p
      BY <3>2, FilterViews
    <3> HIDE DEF m2, vs2
    <3>4. view' = vs2 \/ view' = Filtered(m3, vs2)
      BY <3>1 DEF FilterIfChanged, Refilter
    <3> QED
      BY <3>1, <3>3, <3>4, FilterViews
  <2>2. view[v].screen # s
    BY <1>3, <2>1
  <2> QED
    BY <1>2, <1>5, <2>2, SetUrlKeepsPlaced DEF s
<1>6. ASSUME NEW v \in Views, SetScreen(v) PROVE mapper'.map[u] = s
  <2> DEFINE vs == [view EXCEPT ![v].used = TRUE, ![v].screen = ScreenOf[v]]
             m1 == AfterAdd(mapper, ScreenOf[v], view[v].folder)
  <2>1. ScreenOf[v] \in Screens /\ view[v].folder \in Paths
    BY <1>1, ViewsAssumption DEF View
  <2>2. vs \in [Views -> View]
    <3>1. [view[v] EXCEPT !.used = TRUE, !.screen = ScreenOf[v]] \in View
      BY <1>1, <2>1 DEF View
    <3>2. vs = [view EXCEPT ![v] = [view[v] EXCEPT !.used = TRUE, !.screen = ScreenOf[v]]]
      BY <1>1
    <3> HIDE DEF vs
    <3> QED
      BY <1>1, <3>1, <3>2
  <2>3. mapper' = mapper \/ FilterIfChanged(mapper, m1, vs)
    BY <1>6 DEF SetScreen
  <2>4. m1 \in Mapper /\ m1.map[u] = s /\ s \in m1.available
    BY <1>1, <1>2, <2>1, AddFacts DEF s
  <2> HIDE DEF m1, vs
  <2> QED
    BY <1>1, <2>2, <2>3, <2>4, ChangeKeepsPlaced DEF s
<1>7. ASSUME NEW v \in Views, DestroyView(v) PROVE mapper'.map[u] = s
  <2> DEFINE vs == [view EXCEPT ![v] = NoView]
             m1 == AfterRemove(mapper, view[v].screen, view[v].folder)
  <2>1. view[v].screen \in Screens \cup {Unmapped} /\ view[v].folder \in Paths
    BY <1>1 DEF View
  <2>2. vs \in [Views -> View] /\ vs[v].screen = Unmapped
    BY <1>1 DEF View, NoView
  <2>3. FilterIfChanged(mapper, m1, vs)
    BY <1>7 DEF DestroyView
  <2>4. view[v].screen # s
    <3>1. view' = vs \/ view' = Filtered(m1, vs)
      BY <2>3 DEF FilterIfChanged, Refilter
    <3> HIDE DEF vs, m1
    <3>2. view'[v].screen = Unmapped
      BY <2>2, <3>1, FilterViews
    <3> QED
      BY <1>2, <1>3, <3>2
  <2>5. m1 \in Mapper /\ m1.map[u] = s /\ s \in m1.available
    <3>1. CASE view[v].screen \in mapper.available
      BY <1>1, <1>2, <2>1, <2>4, <3>1, RemoveFacts DEF s
    <3>2. CASE view[v].screen \notin mapper.available
      BY <1>1, <1>2, <2>1, <3>2, RemoveFacts DEF s
    <3> QED
      BY <3>1, <3>2
  <2> HIDE DEF m1, vs
  <2> QED
    BY <1>1, <2>2, <2>3, <2>5, ChangeKeepsPlaced
<1>8. ASSUME NEW v \in Views, NEW x \in Files, RowInserted(v, x)
      PROVE  mapper'.map[u] = s
  <2> DEFINE row == [w \in Views |-> IF w = v THEN [view[v] EXCEPT !.listed = {x}] ELSE NoView]
  <2>1. row \in [Views -> View]
    BY <1>1 DEF View, NoView
  <2>2. mapper' = AfterFilter(mapper, row)
    BY <1>8 DEF RowInserted
  <2> HIDE DEF row
  <2> QED
    BY <1>1, <1>2, <2>1, <2>2, FilterKeepsPlaced DEF s
<1>9. ASSUME NEW v \in Views, NEW x \in Files, DropFile(v, x) \/ ClaimNewFile(v, x)
      PROVE  mapper'.map[u] = s
  <2>1. x # u
    BY <1>9 DEF UserMoves
  <2>2. mapper'.map = [mapper.map EXCEPT ![x] = view[v].screen]
    <3> DEFINE m == Mapped(mapper, x, view[v].screen)
    <3>1. mapper' \in {m, Unparked(m, x)}
      BY <1>9 DEF DropFile, ClaimNewFile
    <3>2. m.map = [mapper.map EXCEPT ![x] = view[v].screen]
      BY <1>1 DEF Mapped, Mapper
    <3>3. m \in Mapper
      BY <1>1, MappedFacts DEF View, Files
    <3> HIDE DEF m
    <3> QED
      BY <1>1, <3>1, <3>2, <3>3, UnparkedFacts DEF Files
  <2>3. mapper.map \in [Urls -> Screens \cup {Unmapped}]
    BY <1>1 DEF Mapper
  <2> QED
    BY <1>1, <2>1, <2>2, <2>3 DEF s
<1>10. ASSUME NEW t \in Screens, ScreenPlugged(t) PROVE mapper'.map[u] = s
  <2> DEFINE m == AfterAdd(mapper, t, NoPath)
  <2>1. mapper' = AfterFilter(m, view)
    BY <1>10 DEF ScreenPlugged, Refilter, AfterAdd
  <2>2. m \in Mapper /\ m.map[u] = s /\ s \in m.available
    BY <1>1, <1>2, AddFacts DEF s
  <2> HIDE DEF m
  <2> QED
    BY <1>1, <2>1, <2>2, FilterKeepsPlaced
<1>11. ASSUME NEW t \in Screens, ScreenUnplugged(t) PROVE mapper'.map[u] = s
  <2> DEFINE m == AfterRemove(mapper, t, NoPath)
             vs == [v \in Views |-> IF view[v].screen = t
                                    THEN [view[v] EXCEPT !.used = FALSE] ELSE view[v]]
  <2>1. mapper' = AfterFilter(m, vs) /\ t \in mapper.available
    BY <1>11 DEF ScreenUnplugged, Refilter, AfterRemove
  <2>2. vs \in [Views -> View]
    BY <1>1 DEF View
  <2>3. m \in Mapper /\ m.available = mapper.available \ {t}
    BY <1>1, RemoveFacts
  <2>4. t # s
    <3> HIDE DEF m, vs
    <3>1. mapper'.available = m.available
      BY <2>1, <2>2, <2>3, FilterMap
    <3> QED
      BY <1>2, <2>3, <3>1
  <2>5. m.map[u] = s /\ s \in m.available
    BY <1>1, <1>2, <2>1, <2>4, RemoveFacts DEF s
  <2> HIDE DEF m, vs
  <2> QED
    BY <1>1, <2>1, <2>2, <2>3, <2>5, FilterKeepsPlaced
<1>12. ASSUME NEW x \in Files, FileCreated(x) \/ FileDeleted(x)
       PROVE  mapper'.map[u] = s
  <2>1. FileDeleted(x) => x # u
    BY DEF UserMoves
  <2>2. mapper' = mapper \/ (FileDeleted(x) /\ mapper'.map = [mapper.map EXCEPT ![x] = Unmapped])
    <3>1. \/ mapper' = mapper
          \/ FileDeleted(x) /\ mapper' = Mapped(mapper, x, Unmapped)
      BY <1>12 DEF FileCreated, FileDeleted
    <3>2. Mapped(mapper, x, Unmapped).map = [mapper.map EXCEPT ![x] = Unmapped]
      BY <1>1 DEF Mapped, Mapper
    <3> QED
      BY <3>1, <3>2
  <2>3. mapper.map \in [Urls -> Screens \cup {Unmapped}]
    BY <1>1 DEF Mapper
  <2> QED
    BY <1>1, <2>1, <2>2, <2>3 DEF s
<1>13. CASE MappingTimeout
  <2>1. mapper' = AfterFilter(mapper, view)
    BY <1>13 DEF MappingTimeout, Refilter
  <2> QED
    BY <1>1, <1>2, <2>1, FilterKeepsPlaced DEF s
<1>14. CASE UNCHANGED vars
  BY <1>14 DEF vars, s
<1> QED
  BY <1>4, <1>5, <1>6, <1>7, <1>8, <1>9, <1>10, <1>11, <1>12, <1>13, <1>14
  DEF Next, s

\* Only the user moves a file off a screen that stays: whatever views open,
\* close, switch folders or filter, and whatever screens come and go, a file
\* on an available screen is there after the step too.
THEOREM PlacedFilesStayPut == Spec => PlacedFilesStay
<1> DEFINE Stays == \A u \in Files :
              LET s == ScreenForItem(mapper, u)
                  leaves == \E v \in Views : view[v].screen = s
                               /\ \/ view'[v].folder # view[v].folder
                                  \/ view'[v].screen # s
              IN  (/\ s # Unmapped
                   /\ s \in mapper'.available
                   /\ u \notin AllParked(mapper.parked)
                   /\ ~leaves
                   /\ ~UserMoves(u))
                  => ScreenForItem(mapper', u) = s
<1>1. Init => BaseIInv
  BY InitBase
<1>2. BaseIInv /\ [Next]_vars => BaseIInv'
  BY StepBase
<1>3. BaseIInv /\ BaseIInv' /\ [Next]_vars => Stays
  BY StepKeepsPlaced DEF ScreenForItem, ViewLeaves
<1>4. BaseIInv /\ BaseIInv' /\ [Next]_vars => [Stays]_vars
  BY <1>3
<1> HIDE DEF Stays
<1>5. Spec => [][Stays]_vars
  BY <1>1, <1>2, <1>4, PTL DEF Spec
<1> QED
  BY <1>5 DEF PlacedFilesStay, Stays
-----------------------------------------------------------------------------
(***************************************************************************)
(* While no screen is unplugged: registrations follow the views, and files *)
(* follow the registrations.  The views in D are those a step has taken    *)
(* off their screen and not put back yet.                                  *)
(***************************************************************************)
\* A folder's files are the urls below it, and below no other folder.
FoldersApart == \A u \in Files, p \in Folders : u \in Below[p] <=> FolderOf[u] = p

\* An attached view has a screen, which has been announced.
Attached(m, vs, D) ==
    \A v \in Views :
        /\ vs[v].used <=> vs[v].screen # Unmapped
        /\ vs[v].used => vs[v].alive
        /\ vs[v].used /\ v \notin D => vs[v].screen \in m.available

\* The screens registered for a folder are those of the views that show it.
Registered(m, vs, D) ==
    \A p \in Folders, s \in Screens :
        s \in m.perPath[p] <=> \E v \in Views \ D : vs[v].screen = s /\ vs[v].folder = p

\* A file is mapped to the screen of a view of its folder, or of one that was
\* given the parked files of every folder because it has no url yet.
MappedForView(m, vs, D) ==
    \A u \in Files : m.map[u] # Unmapped =>
        \E v \in Views \ D : /\ vs[v].screen = m.map[u]
                             /\ vs[v].folder \in {FolderOf[u], NoPath}

Steady(m, vs, D) ==
    WellFormed(m, vs) /\ Attached(m, vs, D) /\ Registered(m, vs, D) /\ MappedForView(m, vs, D)

\* The cached verdicts are those of a filter run on the mapping as it is.
Settled(m, vs) ==
    \A v \in Views : vs[v].used => \A u \in vs[v].listed :
        /\ m.map[u] = vs[v].screen => u \in vs[v].shown
        /\ vs[v].screen = FirstAvailableScreen(m, vs[v].folder)
           => ScreenForItem(m, u) # Unmapped

SettledIInv ==
    /\ BaseIInv
    /\ Steady(mapper, view, {})
    /\ ~mappingTimer => Settled(mapper, view)

\* Two views with one screen are the same view.
LEMMA OneViewOnIt ==
    ASSUME OneViewPerScreen, NEW m, NEW vs, WellFormed(m, vs),
           NEW v \in Views, NEW w \in Views,
           vs[v].screen = vs[w].screen, vs[v].screen # Unmapped
    PROVE  v = w
  BY DEF OneViewPerScreen, WellFormed

\* Filters take no view off its screen and map files to registered screens only.
LEMMA FilterSteady ==
    ASSUME NEW m, NEW vs, NEW D \in SUBSET Views, Steady(m, vs, D),
           \A v \in D : vs[v].listed = {}
    PROVE  Steady(AfterFilter(m, vs), Filtered(m, vs), D)
<1> DEFINE n == AfterFilter(m, vs)
           ws == Filtered(m, vs)
<1>1. m \in Mapper /\ vs \in [Views -> View] /\ WellFormed(m, vs)
  BY DEF Steady, WellFormed
<1>2. /\ n.perPath = m.perPath /\ n.available = m.available
      /\ \A u \in Urls :
           \/ \E v \in Views : u \in vs[v].listed /\ n.map[u] = vs[v].screen
           \/ n.map[u] = m.map[u]
  BY <1>1, FilterMap
<1>3. \A v \in Views : /\ ws[v].alive = vs[v].alive /\ ws[v].screen = vs[v].screen
                        /\ ws[v].used = vs[v].used /\ ws[v].folder = vs[v].folder
  BY <1>1, FilterViews
<1>4. WellFormed(n, ws)
  BY <1>1, FilterSound
<1> HIDE DEF n, ws
<1>5. Attached(n, ws, D)
  BY <1>2, <1>3 DEF Attached, Steady
<1>6. Registered(n, ws, D)
  BY <1>2, <1>3 DEF Registered, Steady
<1>7. MappedForView(n, ws, D)
  <2> SUFFICES ASSUME NEW u \in Files, n.map[u] # Unmapped
               PROVE  \E v \in Views \ D : /\ ws[v].screen = n.map[u]
                                           /\ ws[v].folder \in {FolderOf[u], NoPath}
    BY DEF MappedForView
  <2>1. CASE \E v \in Views : u \in vs[v].listed /\ n.map[u] = vs[v].screen
    <3>1. PICK v \in Views : u \in vs[v].listed /\ n.map[u] = vs[v].screen
      BY <2>1
    <3>2. v \notin D /\ vs[v].folder = FolderOf[u]
      BY <1>1, <3>1 DEF WellFormed
    <3> QED
      BY <1>3, <3>1, <3>2
  <2>2. CASE n.map[u] = m.map[u]
    BY <1>3, <2>2 DEF Steady, MappedForView
  <2> QED
    BY <1>2, <2>1, <2>2 DEF Files
<1> QED
  BY <1>4, <1>5, <1>6, <1>7 DEF Steady, n, ws

\* After the filters a file that is mapped to a view's screen is shown there,
\* and a file the folder's first view lists has a screen.
LEMMA FilterSettles ==
    ASSUME OneViewPerScreen, NEW m, NEW vs, Steady(m, vs, {})
    PROVE  Settled(AfterFilter(m, vs), Filtered(m, vs))
<1> DEFINE n == AfterFilter(m, vs)
           ws == Filtered(m, vs)
<1>1. m \in Mapper /\ vs \in [Views -> View] /\ WellFormed(m, vs) /\ Attached(m, vs, {})
  BY DEF Steady, WellFormed
<1>2. /\ n.perPath = m.perPath /\ n.available = m.available
      /\ \A u \in Urls :
           \/ \E v \in Views : /\ u \in vs[v].listed /\ Adopts(m, vs[v], u)
                               /\ n.map[u] = vs[v].screen
           \/ /\ \A v \in Views : ~(u \in vs[v].listed /\ Adopts(m, vs[v], u))
              /\ n.map[u] = m.map[u]
  BY <1>1, FilterMap
<1>3. \A v \in Views : /\ ws[v].screen = vs[v].screen /\ ws[v].used = vs[v].used
                        /\ ws[v].folder = vs[v].folder /\ ws[v].listed = vs[v].listed
                        /\ ws[v].shown = {u \in vs[v].listed : Accepts(m, vs[v], u)}
  BY <1>1, FilterViews
<1> HIDE DEF n, ws
<1> SUFFICES ASSUME NEW v \in Views, vs[v].used, NEW u \in vs[v].listed
             PROVE  /\ n.map[u] = vs[v].screen => Accepts(m, vs[v], u)
                    /\ vs[v].screen = FirstAvailableScreen(m, vs[v].folder)
                       => ScreenForItem(n, u) # Unmapped
  <2> SUFFICES ASSUME NEW v \in Views, ws[v].used, NEW u \in ws[v].listed
               PROVE  /\ n.map[u] = ws[v].screen => u \in ws[v].shown
                      /\ ws[v].screen = FirstAvailableScreen(n, ws[v].folder)
                         => ScreenForItem(n, u) # Unmapped
    <3> Settled(n, ws)
      BY DEF Settled
    <3> QED
      BY DEF n, ws
  <2>1. vs[v].used /\ u \in vs[v].listed
    BY <1>3
  <2>2. FirstAvailableScreen(n, ws[v].folder) = FirstAvailableScreen(m, vs[v].folder)
    <3> DEFINE Lowest(S) == IF S = {} THEN Unmapped
                            ELSE CHOOSE s \in S : \A t \in S : s <= t
    <3>1. n.perPath[ws[v].folder] = m.perPath[vs[v].folder]
      BY <1>2, <1>3
    <3>2. /\ FirstAvailableScreen(n, ws[v].folder) = Lowest(n.perPath[ws[v].folder])
          /\ FirstAvailableScreen(m, vs[v].folder) = Lowest(m.perPath[vs[v].folder])
      BY DEF FirstAvailableScreen
    <3> HIDE DEF Lowest
    <3> QED
      BY <3>1, <3>2
  <2>3. u \in ws[v].shown <=> Accepts(m, vs[v], u)
    BY <1>3, <2>1
  <2> QED
    BY <1>3, <2>1, <2>2, <2>3
<1>4. /\ u \in Urls /\ Unmapped \notin m.available
      /\ \A w \in Views : vs[w].used => vs[w].screen \in m.available
  BY <1>1, UnmappedIsNoScreen DEF View, Files, Attached, Mapper
<1>5. CASE ScreenForItem(m, u) # Unmapped
  <2>1. n.map[u] = m.map[u] /\ m.map[u] \in n.available
    BY <1>2, <1>4, <1>5 DEF Adopts, ScreenForItem
  <2> QED
    BY <1>4, <1>5, <2>1 DEF Accepts, ScreenForItem
<1>6. CASE ScreenForItem(m, u) = Unmapped
  <2>1. CASE \E w \in Views : /\ u \in vs[w].listed /\ Adopts(m, vs[w], u)
                              /\ n.map[u] = vs[w].screen
    <3>1. PICK w \in Views : /\ u \in vs[w].listed /\ Adopts(m, vs[w], u)
                            /\ n.map[u] = vs[w].screen
      BY <2>1
    <3>2. n.map[u] \in n.available
      BY <1>2, <1>4, <3>1 DEF Adopts
    <3>3. n.map[u] = vs[v].screen => w = v
      BY <1>1, <1>4, <3>1, OneViewOnIt
    <3> QED
      BY <1>2, <1>4, <1>6, <3>1, <3>2, <3>3 DEF Accepts, ScreenForItem
  <2>2. CASE /\ \A w \in Views : ~(u \in vs[w].listed /\ Adopts(m, vs[w], u))
             /\ n.map[u] = m.map[u]
    <3>1. m.map[u] \notin m.available
      BY <1>4, <1>6 DEF ScreenForItem
    <3>2. vs[v].screen # FirstAvailableScreen(m, vs[v].folder)
      BY <1>6, <2>2 DEF Adopts
    <3> QED
      BY <1>4, <2>2, <3>1, <3>2
  <2> QED
    BY <1>2, <1>4, <2>1, <2>2
<1> QED
  BY <1>5, <1>6

\* Which screens are registered for a folder after removeScreen and addScreen.
LEMMA RemoveRegisters ==
    ASSUME NEW m \in Mapper, NEW s \in m.available, NEW p \in Paths,
           NEW q \in Paths, NEW t \in Screens
    PROVE  t \in AfterRemove(m, s, p).perPath[q]
           <=> t \in m.perPath[q] /\ ~(t = s /\ p \in {q, NoPath})
<1> DEFINE f == PerPathAfterRemove(m, s, p)
<1>1. AfterRemove(m, s, p).perPath = f
  BY DEF AfterRemove, ScreenRemoved
<1>2. f[q] = IF p \in {q, NoPath} THEN m.perPath[q] \ {s} ELSE m.perPath[q]
  BY DEF PerPathAfterRemove
<1> HIDE DEF f
<1> QED
  BY <1>1, <1>2

\* A screen that is added is registered for its folder, and nothing else is.
LEMMA AddRegisters ==
    ASSUME NEW m \in Mapper, NEW s \in Screens \ m.available, NEW p \in Paths,
           NEW q \in Paths, NEW t \in Screens, q # NoPath
    PROVE  t \in AfterAdd(m, s, p).perPath[q] <=> t \in m.perPath[q] \/ (t = s /\ p = q)
<1> DEFINE f == IF p = NoPath THEN m.perPath ELSE [m.perPath EXCEPT ![p] = @ \cup {s}]
<1>1. AfterAdd(m, s, p).perPath = f
  BY DEF AfterAdd, ScreenAdded
<1>2. m.perPath \in [Paths -> SUBSET Screens]
  BY DEF Mapper
<1>3. CASE p = NoPath
  BY <1>1, <1>3
<1>4. CASE p # NoPath
  <2>1. f = [m.perPath EXCEPT ![p] = @ \cup {s}]
    BY <1>4
  <2> HIDE DEF f
  <2> QED
    BY <1>1, <1>2, <2>1
<1> QED
  BY <1>3, <1>4

\* The screen of view v leaves the folder v showed: every file that was mapped
\* to it was of that folder.
LEMMA RemoveSteady ==
    ASSUME OneViewPerScreen, FoldersApart, NEW m, NEW vs, NEW ws, NEW v \in Views,
           Steady(m, vs, {}), WellFormed(m, ws),
           \A w \in Views \ {v} : ws[w] = vs[w],
           ws[v].used <=> ws[v].screen # Unmapped, ws[v].used => ws[v].alive
    PROVE  Steady(AfterRemove(m, vs[v].screen, vs[v].folder), ws, {v})
<1> DEFINE s == vs[v].screen
           f == vs[v].folder
           n == AfterRemove(m, s, f)
<1>1. /\ m \in Mapper /\ WellFormed(m, vs)
      /\ s \in Screens \cup {Unmapped} /\ f \in Paths
      /\ Attached(m, vs, {}) /\ Registered(m, vs, {}) /\ MappedForView(m, vs, {})
  BY DEF Steady, WellFormed, View
<1>2. n \in Mapper /\ n.available = m.available \ {s}
  BY <1>1, RemoveFacts
<1>3. ASSUME s = Unmapped PROVE n = m
  BY <1>1, <1>3, UnmappedIsNoScreen, RemoveFacts DEF Mapper
<1>4. ASSUME s # Unmapped
      PROVE  /\ s \in m.available /\ s \in Screens
             /\ \A u \in Urls : n.map[u] = IF u \in Below[f] /\ m.map[u] = s
                                         THEN Unmapped ELSE m.map[u]
             /\ \A q \in Paths, t \in Screens :
                  t \in n.perPath[q] <=> t \in m.perPath[q] /\ ~(t = s /\ f \in {q, NoPath})
             /\ \A w \in Views \ {v} : vs[w].screen # s
  <2>1. s \in m.available /\ s \in Screens
    BY <1>1, <1>4 DEF Attached
  <2>2. \A w \in Views \ {v} : vs[w].screen # s
    BY <1>1, <1>4, OneViewOnIt
  <2>3. \A u \in Urls : n.map[u] = IF u \in Below[f] /\ m.map[u] = s
                                  THEN Unmapped ELSE m.map[u]
    BY <1>1, <2>1, RemoveFacts
  <2>4. \A q \in Paths, t \in Screens :
          t \in n.perPath[q] <=> t \in m.perPath[q] /\ ~(t = s /\ f \in {q, NoPath})
    BY <1>1, <2>1, RemoveRegisters
  <2> HIDE DEF n
  <2> QED
    BY <2>1, <2>2, <2>3, <2>4
<1> HIDE DEF n
<1>5. WellFormed(n, ws)
  BY <1>2, WellFormedParts DEF WellFormed
<1>6. Attached(n, ws, {v})
  <2>1. \A w \in Views \ {v} : vs[w].used => vs[w].screen # s
    BY <1>1, <1>4 DEF Attached
  <2> QED
    BY <1>1, <1>2, <2>1 DEF Attached
<1>7. ASSUME NEW q \in Folders, NEW t \in Screens
      PROVE  t \in n.perPath[q] <=> \E w \in Views \ {v} : ws[w].screen = t /\ ws[w].folder = q
  <2>1. t \in m.perPath[q] <=> \E w \in Views : vs[w].screen = t /\ vs[w].folder = q
    BY <1>1 DEF Registered
  <2>2. t # Unmapped /\ q \in Paths
    BY UnmappedIsNoScreen DEF Folders
  <2>3. CASE s = Unmapped
    BY <1>3, <2>1, <2>2, <2>3
  <2>4. CASE s # Unmapped /\ t = s
    <3>1. t \in m.perPath[q] => q = f
      BY <1>4, <2>1, <2>4
    <3>2. t \notin n.perPath[q]
      BY <1>4, <2>2, <2>4, <3>1
    <3> QED
      BY <1>4, <2>4, <3>2
  <2>5. CASE s # Unmapped /\ t # s
    <3>1. t \in n.perPath[q] <=> t \in m.perPath[q]
      BY <1>4, <2>2, <2>5
    <3> QED
      BY <2>1, <2>5, <3>1
  <2> QED
    BY <2>3, <2>4, <2>5
<1>8. ASSUME NEW u \in Files, n.map[u] # Unmapped
      PROVE  \E w \in Views \ {v} : ws[w].screen = n.map[u] /\ ws[w].folder \in {FolderOf[u], NoPath}
  <2>1. u \in Urls /\ u \in Below[NoPath]
    BY PathsAssumption DEF Files
  <2>2. n.map[u] = m.map[u]
    BY <1>3, <1>4, <1>8, <2>1
  <2>3. PICK w \in Views : vs[w].screen = m.map[u] /\ vs[w].folder \in {FolderOf[u], NoPath}
    BY <1>1, <1>8, <2>2 DEF MappedForView
  <2>4. w # v
    <3> SUFFICES ASSUME w = v PROVE FALSE
      OBVIOUS
    <3>1. m.map[u] = s /\ s # Unmapped /\ f \in {FolderOf[u], NoPath}
      BY <1>8, <2>2, <2>3
    <3>2. u \in Below[f]
      BY <1>1, <2>1, <3>1 DEF FoldersApart, Folders
    <3> QED
      BY <1>4, <1>8, <2>1, <3>1, <3>2
  <2> QED
    BY <2>2, <2>3, <2>4
<1> QED
  BY <1>5, <1>6, <1>7, <1>8 DEF Steady, Registered, MappedForView, n

\* The screen of view v joins the folder v shows.
LEMMA AddSteady ==
    ASSUME FoldersApart, NEW m, NEW vs, NEW v \in Views, Steady(m, vs, {v}),
           vs[v].screen \notin m.available
    PROVE  Steady(AfterAdd(m, vs[v].screen, vs[v].folder), vs, {})
<1> DEFINE s == vs[v].screen
           f == vs[v].folder
           n == AfterAdd(m, s, f)
<1>1. /\ m \in Mapper /\ WellFormed(m, vs)
      /\ s \in Screens \cup {Unmapped} /\ f \in Paths /\ s \notin m.available
      /\ Attached(m, vs, {v}) /\ Registered(m, vs, {v}) /\ MappedForView(m, vs, {v})
  BY DEF Steady, WellFormed, View
<1>2. n \in Mapper /\ n.available = m.available \cup (Screens \cap {s})
  BY <1>1, AddFacts
<1>3. ASSUME s = Unmapped PROVE n = m
  BY <1>1, <1>3, UnmappedIsNoScreen, AddFacts
<1>4. ASSUME s # Unmapped
      PROVE  /\ s \in Screens
             /\ \A u \in Urls : n.map[u] =
                  IF u \in m.parked[s] /\ u \in Below[f] THEN s ELSE m.map[u]
             /\ \A q \in Folders, t \in Screens :
                  t \in n.perPath[q] <=> t \in m.perPath[q] \/ (t = s /\ f = q)
  <2>1. s \in Screens \ m.available
    BY <1>1, <1>4
  <2>2. \A u \in Urls : n.map[u] =
          IF u \in m.parked[s] /\ u \in Below[f] THEN s ELSE m.map[u]
    BY <1>1, <2>1, AddFacts
  <2>3. \A q \in Folders, t \in Screens :
          t \in n.perPath[q] <=> t \in m.perPath[q] \/ (t = s /\ f = q)
    BY <1>1, <2>1, AddRegisters DEF Folders
  <2> HIDE DEF n
  <2> QED
    BY <2>1, <2>2, <2>3
<1> HIDE DEF n
<1>5. WellFormed(n, vs)
  BY <1>1, <1>2, WellFormedParts
<1>6. Attached(n, vs, {})
  BY <1>1, <1>2, <1>4 DEF Attached
<1>7. ASSUME NEW q \in Folders, NEW t \in Screens
      PROVE  t \in n.perPath[q] <=> \E w \in Views : vs[w].screen = t /\ vs[w].folder = q
  <2>1. t \in m.perPath[q] <=> \E w \in Views \ {v} : vs[w].screen = t /\ vs[w].folder = q
    BY <1>1 DEF Registered
  <2>2. t # Unmapped /\ q \in Paths /\ q # NoPath
    BY UnmappedIsNoScreen DEF Folders
  <2>3. CASE s = Unmapped
    BY <1>3, <2>1, <2>2, <2>3
  <2>4. CASE s # Unmapped
    BY <1>4, <2>1, <2>4
  <2> QED
    BY <2>3, <2>4
<1>8. ASSUME NEW u \in Files, n.map[u] # Unmapped
      PROVE  \E w \in Views : vs[w].screen = n.map[u] /\ vs[w].folder \in {FolderOf[u], NoPath}
  <2>1. u \in Urls
    BY DEF Files
  <2>2. CASE n.map[u] = m.map[u]
    BY <1>1, <1>8, <2>2 DEF MappedForView
  <2>3. CASE n.map[u] # m.map[u]
    <3>1. n.map[u] = s /\ u \in Below[f]
      BY <1>3, <1>4, <2>1, <2>3
    <3>2. f \in {FolderOf[u], NoPath}
      BY <1>1, <3>1 DEF FoldersApart, Folders
    <3> QED
      BY <3>1, <3>2
  <2> QED
    BY <2>2, <2>3
<1> QED
  BY <1>5, <1>6, <1>7, <1>8 DEF Steady, Registered, MappedForView, n

\* When every view filters anew the desktop is steady and settled.
LEMMA Refiltered ==
    ASSUME OneViewPerScreen, NEW m, NEW vs, Steady(m, vs, {}),
           mapper' = AfterFilter(m, vs), view' = Filtered(m, vs)
    PROVE  Steady(mapper', view', {}) /\ Settled(mapper', view')
  BY FilterSteady, FilterSettles

\* A change of the mapper is steady after the filters it causes, if it causes
\* any.
LEMMA ChangeSteady ==
    ASSUME OneViewPerScreen, NEW before, NEW after, NEW vs, Steady(after, vs, {}),
           FilterIfChanged(before, after, vs)
    PROVE  /\ Steady(mapper', view', {})
           /\ before.available # after.available => Settled(mapper', view')
           /\ before.available = after.available => mapper' = after /\ view' = vs
  BY Refiltered DEF FilterIfChanged, Refilter

\* One view changes, and is well formed itself.
LEMMA WellFormedBut ==
    ASSUME NEW m, NEW vs, NEW ws \in [Views -> View], NEW v \in Views, WellFormed(m, vs),
           \A w \in Views \ {v} : ws[w] = vs[w],
           \A u \in ws[v].listed : FolderOf[u] = ws[v].folder,
           ws[v].screen \in {Unmapped, ScreenOf[v]},
           ws[v].used => ws[v].screen = ScreenOf[v],
           ~ws[v].alive => ws[v].screen = Unmapped
    PROVE  WellFormed(m, ws)
<1>1. ASSUME NEW w \in Views
      PROVE  /\ \A u \in ws[w].listed : FolderOf[u] = ws[w].folder
             /\ ws[w].screen \in {Unmapped, ScreenOf[w]}
             /\ ws[w].used => ws[w].screen = ScreenOf[w]
             /\ ~ws[w].alive => ws[w].screen = Unmapped
  <2>1. CASE w = v
    BY <2>1
  <2>2. CASE w # v
    <3>1. ws[w] = vs[w]
      BY <2>2
    <3> QED
      BY <3>1 DEF WellFormed
  <2> QED
    BY <2>1, <2>2
<1> QED
  BY <1>1 DEF WellFormed

\* The two steps of setUrl, and the filters between them, leave the desktop
\* steady.
LEMMA SetUrlSteady ==
    ASSUME OneViewPerScreen, FoldersApart, BaseIInv, Steady(mapper, view, {}),
           NEW v \in Views, NEW p \in Folders, SetUrl(v, p)
    PROVE  /\ Steady(mapper', view', {})
           /\ \/ Settled(mapper', view')
              \/ Settled(mapper, view) => Settled(mapper', view')
<1> DEFINE s == view[v].screen
           vs == [view EXCEPT ![v].folder = p, ![v].listed = {}, ![v].shown = {}]
           m1 == AfterRemove(mapper, s, view[v].folder)
           m2 == IF m1.available = mapper.available THEN m1 ELSE AfterFilter(m1, vs)
           vs2 == IF m1.available = mapper.available THEN vs ELSE Filtered(m1, vs)
           m3 == AfterAdd(m2, s, p)
<1>1. /\ mapper \in Mapper /\ view \in [Views -> View]
      /\ WellFormed(mapper, view)
      /\ Attached(mapper, view, {})
      /\ s \in Screens \cup {Unmapped} /\ view[v].folder \in Paths
      /\ p \in Paths /\ view[v].alive
  BY DEF BaseIInv, TypeOK, View, Folders, Steady, SetUrl
<1>2. FilterIfChanged(m2, m3, vs2)
  BY DEF SetUrl
<1>3. /\ vs \in [Views -> View]
      /\ vs[v].screen = s /\ vs[v].used = view[v].used /\ vs[v].alive = view[v].alive
      /\ vs[v].listed = {} /\ vs[v].folder = p
      /\ \A w \in Views \ {v} : vs[w] = view[w]
  <2>1. vs \in [Views -> View]
    BY <1>1, FolderSwitched
  <2> QED
    BY <1>1, <2>1 DEF View
<1> HIDE DEF vs
<1>4. WellFormed(mapper, vs)
  <2>1. /\ s \in {Unmapped, ScreenOf[v]}
        /\ view[v].used => s = ScreenOf[v]
    BY <1>1 DEF WellFormed
  <2> QED
    BY <1>1, <1>3, <2>1, WellFormedBut
<1>5. Steady(m1, vs, {v})
  BY <1>1, <1>3, <1>4, RemoveSteady DEF Attached
<1>6. /\ m1 \in Mapper
      /\ m1.available = mapper.available \ {s}
      /\ s \notin mapper.available => m1 = mapper
  BY <1>1, RemoveFacts
<1> HIDE DEF m1
<1>7. /\ Steady(m2, vs2, {v})
      /\ m2.available = m1.available
      /\ vs2[v].screen = s /\ vs2[v].folder = p
  <2>1. CASE m1.available = mapper.available
    BY <1>3, <1>5, <2>1
  <2>2. CASE m1.available # mapper.available
    <3>1. Steady(AfterFilter(m1, vs), Filtered(m1, vs), {v})
      BY <1>3, <1>5, FilterSteady
    <3>2. AfterFilter(m1, vs).available = m1.available
      BY <1>3, <1>6, FilterMap
    <3>3. Filtered(m1, vs)[v].screen = s /\ Filtered(m1, vs)[v].folder = p
      BY <1>3, FilterViews
    <3> QED
      BY <2>2, <3>1, <3>2, <3>3
  <2> QED
    BY <2>1, <2>2
<1>8. m2 \in Mapper
  BY <1>7 DEF Steady, WellFormed
<1> HIDE DEF m2, vs2
<1>9. Steady(m3, vs2, {})
  BY <1>6, <1>7, AddSteady
<1>10. /\ m3.available = m2.available \cup (Screens \cap {s})
       /\ s \notin Screens \ m2.available => m3 = m2
  BY <1>1, <1>8, AddFacts
<1> HIDE DEF m3
<1>11. /\ Steady(mapper', view', {})
       /\ m2.available # m3.available => Settled(mapper', view')
       /\ m2.available = m3.available => mapper' = m3 /\ view' = vs2
  BY <1>2, <1>9, ChangeSteady
<1>12. CASE s \in Screens
  BY <1>6, <1>7, <1>10, <1>11, <1>12
<1>13. CASE s \notin Screens
  <2>1. s = Unmapped /\ s \notin mapper.available
    BY <1>1, <1>13 DEF Mapper
  <2>2. mapper' = mapper /\ view' = vs
    BY <1>6, <1>7, <1>10, <1>11, <1>13, <2>1 DEF m2, vs2
  <2>3. ~vs[v].used
    BY <1>1, <1>3, <2>1 DEF Attached
  <2> QED
    BY <1>3, <1>11, <2>2, <2>3 DEF Settled
<1> QED
  BY <1>11, <1>12, <1>13

\* A view that gets a screen registers it, and settles the desktop.
LEMMA SetScreenSteady ==
    ASSUME OneViewPerScreen, FoldersApart, BaseIInv, Steady(mapper, view, {}),
           NEW v \in Views, SetScreen(v)
    PROVE  Steady(mapper', view', {}) /\ Settled(mapper', view')
<1> DEFINE s == ScreenOf[v]
           vs == [view EXCEPT ![v].used = TRUE, ![v].screen = s]
           m1 == AfterAdd(mapper, s, view[v].folder)
<1>1. /\ mapper \in Mapper /\ view \in [Views -> View]
      /\ WellFormed(mapper, view) /\ AvailableHaveViews(mapper, view)
      /\ Attached(mapper, view, {}) /\ Registered(mapper, view, {})
      /\ MappedForView(mapper, view, {})
      /\ s \in Screens /\ view[v].folder \in Paths /\ s # Unmapped
  BY ViewsAssumption, UnmappedIsNoScreen DEF BaseIInv, TypeOK, View, Steady
<1>2. view[v].alive /\ ~view[v].used /\ view[v].screen = Unmapped
  BY <1>1 DEF SetScreen, Attached
<1>3. FilterIfChanged(mapper, m1, vs)
  BY <1>1, <1>2 DEF SetScreen
<1>4. /\ vs \in [Views -> View]
      /\ vs[v].screen = s /\ vs[v].used = TRUE /\ vs[v].alive = view[v].alive
      /\ vs[v].folder = view[v].folder /\ vs[v].listed = view[v].listed
      /\ \A w \in Views \ {v} : vs[w] = view[w]
  BY <1>1 DEF View
<1> HIDE DEF vs
<1>5. s \notin mapper.available
  <2>1. ASSUME NEW w \in Views, view[w].screen = s PROVE FALSE
    <3>1. ScreenOf[w] = s
      BY <1>1, <2>1 DEF WellFormed
    <3> QED
      BY <1>1, <1>2, <2>1, <3>1 DEF OneViewPerScreen, s
  <2> QED
    BY <1>1, <2>1 DEF AvailableHaveViews
<1>6. Steady(mapper, vs, {v})
  <2>1. WellFormed(mapper, vs)
    <3>1. \A u \in view[v].listed : FolderOf[u] = view[v].folder
      BY <1>1 DEF WellFormed
    <3> QED
      BY <1>1, <1>2, <1>4, <3>1, WellFormedBut
  <2>2. Attached(mapper, vs, {v})
    BY <1>1, <1>2, <1>4 DEF Attached
  <2>3. Registered(mapper, vs, {v})
    BY <1>1, <1>2, <1>4, UnmappedIsNoScreen DEF Registered
  <2>4. MappedForView(mapper, vs, {v})
    BY <1>1, <1>2, <1>4 DEF MappedForView
  <2> QED
    BY <2>1, <2>2, <2>3, <2>4 DEF Steady
<1>7. Steady(m1, vs, {})
  BY <1>4, <1>5, <1>6, AddSteady
<1>8. m1.available # mapper.available
  BY <1>1, <1>5, AddFacts
<1> HIDE DEF m1
<1> QED
  BY <1>3, <1>7, <1>8, ChangeSteady

\* A view that goes unregisters its screen.
LEMMA DestroyViewSteady ==
    ASSUME OneViewPerScreen, FoldersApart, BaseIInv, Steady(mapper, view, {}),
           NEW v \in Views, DestroyView(v)
    PROVE  /\ Steady(mapper', view', {})
           /\ \/ Settled(mapper', view')
              \/ Settled(mapper, view) => Settled(mapper', view')
<1> DEFINE s == view[v].screen
           vs == [view EXCEPT ![v] = NoView]
           m1 == AfterRemove(mapper, s, view[v].folder)
<1>1. /\ mapper \in Mapper /\ view \in [Views -> View]
      /\ WellFormed(mapper, view) /\ Attached(mapper, view, {})
      /\ s \in Screens \cup {Unmapped} /\ view[v].folder \in Paths
  BY DEF BaseIInv, TypeOK, View, Steady
<1>2. FilterIfChanged(mapper, m1, vs)
  BY DEF DestroyView
<1>3. /\ vs \in [Views -> View]
      /\ vs[v].screen = Unmapped /\ vs[v].used = FALSE /\ vs[v].listed = {}
      /\ \A w \in Views \ {v} : vs[w] = view[w]
  BY <1>1, PathsAssumption DEF View, NoView
<1> HIDE DEF vs
<1>4. WellFormed(mapper, vs)
  BY <1>1, <1>3 DEF WellFormed
<1>5. Steady(m1, vs, {v})
  BY <1>1, <1>3, <1>4, RemoveSteady
<1>6. m1.available = mapper.available \ {s} /\ (s \notin mapper.available => m1 = mapper)
  BY <1>1, RemoveFacts
<1> HIDE DEF m1
<1>7. Steady(m1, vs, {})
  <2>1. m1 \in Mapper /\ vs[v].folder \in Paths
    BY <1>3, <1>5 DEF Steady, WellFormed, View
  <2>2. Unmapped \notin m1.available
    BY <2>1, UnmappedIsNoScreen DEF Mapper
  <2>3. AfterAdd(m1, vs[v].screen, vs[v].folder) = m1
    BY <1>3, UnmappedIsNoScreen DEF AfterAdd
  <2> QED
    BY <1>3, <1>5, <2>2, <2>3, AddSteady
<1>8. /\ Steady(mapper', view', {})
      /\ mapper.available # m1.available => Settled(mapper', view')
      /\ mapper.available = m1.available => mapper' = m1 /\ view' = vs
  BY <1>2, <1>7, ChangeSteady
<1>9. CASE s \in mapper.available
  BY <1>6, <1>8, <1>9
<1>10. CASE s \notin mapper.available
  BY <1>3, <1>6, <1>8, <1>10 DEF Settled
<1> QED
  BY <1>8, <1>9, <1>10

\* A delivered row is the only one that is filtered, by its own view.
LEMMA RowInsertedFacts ==
    ASSUME BaseIInv, NEW v \in Views, NEW u \in Files, RowInserted(v, u)
    PROVE  /\ mapper' \in Mapper /\ mapper'.available = mapper.available
           /\ mapper'.perPath = mapper.perPath
           /\ \A x \in Urls \ {u} : mapper'.map[x] = mapper.map[x]
           /\ Adopts(mapper, view[v], u) => mapper'.map[u] = view[v].screen
           /\ ~Adopts(mapper, view[v], u) => mapper'.map[u] = mapper.map[u]
           /\ view' \in [Views -> View]
           /\ view'[v].screen = view[v].screen /\ view'[v].used = view[v].used
           /\ view'[v].alive = view[v].alive /\ view'[v].folder = view[v].folder
           /\ view'[v].listed = view[v].listed \cup {u}
           /\ view[v].shown \subseteq view'[v].shown
           /\ Accepts(mapper, view[v], u) => u \in view'[v].shown
           /\ \A w \in Views \ {v} : view'[w] = view[w]
<1> DEFINE row == [w \in Views |-> IF w = v THEN [view[v] EXCEPT !.listed = {u}] ELSE NoView]
           new == Filtered(mapper, row)[v].shown
<1>1. /\ mapper \in Mapper /\ view \in [Views -> View] /\ Files \subseteq Urls
  BY DEF BaseIInv, TypeOK, Files
<1>2. /\ mapper' = AfterFilter(mapper, row)
      /\ view' = [view EXCEPT ![v].listed = @ \cup {u}, ![v].shown = @ \cup new]
  BY DEF RowInserted
<1>3. /\ row \in [Views -> View]
      /\ row[v].screen = view[v].screen /\ row[v].used = view[v].used
      /\ row[v].folder = view[v].folder /\ row[v].listed = {u}
      /\ \A w \in Views \ {v} : row[w].listed = {}
  BY <1>1, PathsAssumption DEF View, NoView
<1> HIDE DEF row
<1>4. /\ Adopts(mapper, row[v], u) <=> Adopts(mapper, view[v], u)
      /\ Accepts(mapper, row[v], u) <=> Accepts(mapper, view[v], u)
  BY <1>3 DEF Adopts, Accepts
<1>5. /\ mapper' \in Mapper /\ mapper'.available = mapper.available
      /\ mapper'.perPath = mapper.perPath
  BY <1>1, <1>2, <1>3, FilterMap
<1>6. \A x \in Urls :
        \/ \E w \in Views : /\ x \in row[w].listed /\ Adopts(mapper, row[w], x)
                            /\ mapper'.map[x] = row[w].screen
        \/ /\ \A w \in Views : ~(x \in row[w].listed /\ Adopts(mapper, row[w], x))
           /\ mapper'.map[x] = mapper.map[x]
  <2> DEFINE n == AfterFilter(mapper, row)
  <2>1. \A x \in Urls :
          \/ \E w \in Views : /\ x \in row[w].listed /\ Adopts(mapper, row[w], x)
                              /\ n.map[x] = row[w].screen
          \/ /\ \A w \in Views : ~(x \in row[w].listed /\ Adopts(mapper, row[w], x))
             /\ n.map[x] = mapper.map[x]
    BY <1>1, <1>3, FilterMap
  <2> HIDE DEF n
  <2> QED
    BY <1>2, <2>1 DEF n
<1>7. \A x \in Urls, w \in Views : x \in row[w].listed => x = u /\ w = v
  BY <1>3
<1>8. \A x \in Urls \ {u} : mapper'.map[x] = mapper.map[x]
  BY <1>6, <1>7
<1>9. /\ Adopts(mapper, view[v], u) => mapper'.map[u] = view[v].screen
      /\ ~Adopts(mapper, view[v], u) => mapper'.map[u] = mapper.map[u]
  BY <1>1, <1>3, <1>4, <1>6, <1>7
<1>10. new = {x \in {u} : Accepts(mapper, row[v], x)}
  BY <1>3, FilterViews
<1> HIDE DEF new
<1>11. /\ view' \in [Views -> View]
       /\ view'[v].screen = view[v].screen /\ view'[v].used = view[v].used
       /\ view'[v].alive = view[v].alive /\ view'[v].folder = view[v].folder
       /\ view'[v].listed = view[v].listed \cup {u}
       /\ view'[v].shown = view[v].shown \cup new
       /\ \A w \in Views \ {v} : view'[w] = view[w]
  <2>1. new \in SUBSET Files
    BY <1>10
  <2> QED
    BY <1>1, <1>2, <2>1 DEF View
<1>12. Accepts(mapper, view[v], u) => u \in new
  BY <1>4, <1>10
<1> QED
  BY <1>5, <1>8, <1>9, <1>11, <1>12

\* A new row is adopted by the first available screen, or is shown where it
\* belongs.
LEMMA RowInsertedSteady ==
    ASSUME BaseIInv, BaseIInv', Steady(mapper, view, {}),
           NEW v \in Views, NEW u \in Files, RowInserted(v, u)
    PROVE  /\ Steady(mapper', view', {})
           /\ ~mappingTimer' => (Settled(mapper, view) => Settled(mapper', view'))
<1>1. /\ WellFormed(mapper, view) /\ WellFormed(mapper', view')
      /\ Attached(mapper, view, {}) /\ Registered(mapper, view, {})
      /\ MappedForView(mapper, view, {})
      /\ mapper \in Mapper /\ u \in Urls /\ FolderOf[u] = view[v].folder
  BY DEF BaseIInv, Steady, WellFormed, RowInserted, Files
<1>2. /\ mapper'.available = mapper.available /\ mapper'.perPath = mapper.perPath
      /\ \A x \in Urls \ {u} : mapper'.map[x] = mapper.map[x]
      /\ Adopts(mapper, view[v], u) => mapper'.map[u] = view[v].screen
      /\ ~Adopts(mapper, view[v], u) => mapper'.map[u] = mapper.map[u]
  BY RowInsertedFacts
<1>3. /\ view'[v].screen = view[v].screen /\ view'[v].used = view[v].used
      /\ view'[v].alive = view[v].alive /\ view'[v].folder = view[v].folder
      /\ \A w \in Views \ {v} : view'[w] = view[w]
  BY RowInsertedFacts
<1>4. /\ view'[v].listed = view[v].listed \cup {u}
      /\ view[v].shown \subseteq view'[v].shown
      /\ Accepts(mapper, view[v], u) => u \in view'[v].shown
  BY RowInsertedFacts
<1>5. \A w \in Views : /\ view'[w].screen = view[w].screen /\ view'[w].used = view[w].used
                       /\ view'[w].alive = view[w].alive /\ view'[w].folder = view[w].folder
  BY <1>3
<1>6. Attached(mapper', view', {})
  BY <1>1, <1>2, <1>5 DEF Attached
<1>7. Registered(mapper', view', {})
  BY <1>1, <1>2, <1>5 DEF Registered
<1>8. MappedForView(mapper', view', {})
  <2> SUFFICES ASSUME NEW x \in Files, mapper'.map[x] # Unmapped
               PROVE  \E w \in Views : /\ view'[w].screen = mapper'.map[x]
                                      /\ view'[w].folder \in {FolderOf[x], NoPath}
    BY DEF MappedForView
  <2>1. CASE mapper'.map[x] = mapper.map[x]
    BY <1>1, <1>5, <2>1 DEF MappedForView
  <2>2. CASE mapper'.map[x] # mapper.map[x]
    <3>1. x = u /\ mapper'.map[u] = view[v].screen
      BY <1>2, <2>2 DEF Files
    <3> QED
      BY <1>1, <1>3, <3>1
  <2> QED
    BY <2>1, <2>2
<1>9. ASSUME ~mappingTimer', Settled(mapper, view), NEW w \in Views, view'[w].used,
             NEW x \in view'[w].listed
      PROVE  /\ mapper'.map[x] = view'[w].screen => x \in view'[w].shown
             /\ view'[w].screen = FirstAvailableScreen(mapper', view'[w].folder)
                => ScreenForItem(mapper', x) # Unmapped
  <2>1. mapper'.map = mapper.map
    BY <1>9 DEF RowInserted, TimerAfter
  <2>2. /\ FirstAvailableScreen(mapper', view'[w].folder)
             = FirstAvailableScreen(mapper, view[w].folder)
        /\ ScreenForItem(mapper', x) = ScreenForItem(mapper, x)
    <3>1. mapper'.perPath = mapper.perPath /\ view'[w].folder = view[w].folder
      BY <1>2, <1>5
    <3> QED
      BY <1>2, <2>1, <3>1 DEF FirstAvailableScreen, ScreenForItem
  <2>3. view[w].used /\ view'[w].screen = view[w].screen
    BY <1>5, <1>9
  <2>4. view[w].screen \in mapper.available /\ Unmapped \notin mapper.available
    BY <1>1, <2>3, UnmappedIsNoScreen DEF Attached, Mapper
  <2>5. CASE x \in view[w].listed
    BY <1>3, <1>4, <1>9, <2>1, <2>2, <2>3, <2>5 DEF Settled
  <2>6. CASE x \notin view[w].listed
    <3>1. w = v /\ x = u
      BY <1>3, <1>4, <1>9, <2>6
    <3>2. CASE ScreenForItem(mapper, u) # Unmapped
      BY <1>4, <2>1, <2>2, <2>3, <2>4, <3>1, <3>2 DEF Accepts, ScreenForItem
    <3>3. CASE ScreenForItem(mapper, u) = Unmapped
      <4>1. mapper.map[u] \notin mapper.available
        BY <2>4, <3>3 DEF ScreenForItem
      <4>2. ~Adopts(mapper, view[v], u)
        BY <1>2, <2>1, <2>3, <2>4, <3>1, <4>1
      <4>3. view[v].screen # FirstAvailableScreen(mapper, view[v].folder)
        BY <2>3, <3>1, <3>3, <4>2 DEF Adopts
      <4> QED
        BY <1>3, <2>1, <2>2, <2>3, <2>4, <3>1, <4>1, <4>3
    <3> QED
      BY <3>2, <3>3
  <2> QED
    BY <2>5, <2>6
<1> QED
  BY <1>1, <1>6, <1>7, <1>8, <1>9 DEF Steady, Settled

\* What the theorems suppose of the folders and screens: the containments of
\* one activity, folders that are not below one another, no screen unplugged.
FixedScreens == OneViewPerScreen /\ FoldersApart /\ ~Hotplug

\* Steps that change the mapping of one file: to nothing, or to the screen of
\* an attached view of its folder.
LEMMA RemappingSteady ==
    ASSUME Steady(mapper, view, {}), WellFormed(mapper', view'), NEW u \in Files,
           mapper'.available = mapper.available, mapper'.perPath = mapper.perPath,
           \A x \in Files \ {u} : mapper'.map[x] = mapper.map[x],
           \/ mapper'.map[u] = Unmapped
           \/ \E v \in Views : /\ mapper'.map[u] = view[v].screen
                               /\ view[v].folder = FolderOf[u],
           \A w \in Views : view'[w].screen = view[w].screen /\ view'[w].folder = view[w].folder,
           \A w \in Views : view'[w].used = view[w].used /\ view'[w].alive = view[w].alive
    PROVE  Steady(mapper', view', {})
<1>1. Attached(mapper', view', {})
  BY DEF Steady, Attached
<1>2. Registered(mapper', view', {})
  BY DEF Steady, Registered
<1>3. ASSUME NEW x \in Files, mapper'.map[x] # Unmapped
      PROVE  \E w \in Views : /\ view'[w].screen = mapper'.map[x]
                             /\ view'[w].folder \in {FolderOf[x], NoPath}
  <2>1. CASE x = u
    BY <1>3, <2>1
  <2>2. CASE x # u
    BY <1>3, <2>2 DEF Steady, MappedForView
  <2> QED
    BY <2>1, <2>2
<1> QED
  BY <1>1, <1>2, <1>3 DEF Steady, MappedForView

\* A drop maps the file to a screen that shows its folder.
LEMMA DropSteady ==
    ASSUME BaseIInv, BaseIInv', Steady(mapper, view, {}), NEW v \in Views, NEW u \in Files,
           DropFile(v, u) \/ ClaimNewFile(v, u)
    PROVE  Steady(mapper', view', {}) /\ mappingTimer'
<1> DEFINE m == Mapped(mapper, u, view[v].screen)
<1>1. /\ mapper \in Mapper /\ view[v].screen \in Screens \cup {Unmapped} /\ u \in Urls
      /\ WellFormed(mapper', view')
  BY DEF BaseIInv, TypeOK, View, Files
<1>2. /\ mapper' \in {m, Unparked(m, u)} /\ view' = view /\ mappingTimer' = TRUE
      /\ FolderOf[u] = view[v].folder
  BY DEF DropFile, ClaimNewFile
<1>3. /\ m \in Mapper /\ m.available = mapper.available /\ m.perPath = mapper.perPath
      /\ m.map = [mapper.map EXCEPT ![u] = view[v].screen]
  BY <1>1, MappedFacts
<1> HIDE DEF m
<1>4. /\ mapper'.available = mapper.available /\ mapper'.perPath = mapper.perPath
      /\ mapper'.map = m.map
  BY <1>1, <1>2, <1>3, UnparkedFacts
<1>5. /\ mapper'.map[u] = view[v].screen
      /\ \A x \in Files \ {u} : mapper'.map[x] = mapper.map[x]
  <2>1. mapper.map \in [Urls -> Screens \cup {Unmapped}] /\ Files \subseteq Urls
    BY <1>1 DEF Mapper, Files
  <2> QED
    BY <1>1, <1>3, <1>4, <2>1
<1> QED
  BY <1>1, <1>2, <1>4, <1>5, RemappingSteady

\* A deleted file that was listed is mapped to no screen; one that was not listed
\* is in no view's rows, and its mapping stays.
LEMMA FileDeletedSteady ==
    ASSUME BaseIInv, BaseIInv', Steady(mapper, view, {}), NEW u \in Files, FileDeleted(u)
    PROVE  /\ Steady(mapper', view', {})
           /\ ~mappingTimer' => (Settled(mapper, view) => Settled(mapper', view'))
<1>1. /\ mapper \in Mapper /\ view \in [Views -> View] /\ u \in Urls
      /\ WellFormed(mapper', view') /\ \A w \in Views : view[w].listed \subseteq Files
  BY DEF BaseIInv, TypeOK, View, Files
<1>2. /\ \A w \in Views : view'[w].screen = view[w].screen /\ view'[w].folder = view[w].folder
      /\ \A w \in Views : view'[w].used = view[w].used /\ view'[w].alive = view[w].alive
      /\ \A w \in Views : view'[w].listed = view[w].listed \ {u}
      /\ \A w \in Views : view'[w].shown = view[w].shown \ {u}
  BY <1>1 DEF FileDeleted, View
<1>3. \/ mapper' = Mapped(mapper, u, Unmapped) /\ mappingTimer' = TRUE
      \/ mapper' = mapper
  BY DEF FileDeleted
<1>4. CASE mapper' = mapper
  <2>1. Steady(mapper', view', {})
    <3>1. Attached(mapper', view', {}) /\ Registered(mapper', view', {})
      BY <1>2, <1>4 DEF Steady, Attached, Registered
    <3>2. MappedForView(mapper', view', {})
      BY <1>2, <1>4 DEF Steady, MappedForView
    <3> QED
      BY <1>1, <3>1, <3>2 DEF Steady
  <2>2. Settled(mapper, view) => Settled(mapper', view')
    BY <1>2, <1>4 DEF Settled
  <2> QED
    BY <2>1, <2>2
<1>5. CASE mapper' = Mapped(mapper, u, Unmapped) /\ mappingTimer' = TRUE
  <2> DEFINE m == Mapped(mapper, u, Unmapped)
  <2>1. Unmapped \in Screens \cup {Unmapped}
    OBVIOUS
  <2>2. /\ m.available = mapper.available /\ m.perPath = mapper.perPath
        /\ m.map = [mapper.map EXCEPT ![u] = Unmapped]
    BY <1>1, <2>1, MappedFacts
  <2> HIDE DEF m
  <2>3. /\ mapper'.map[u] = Unmapped
        /\ \A x \in Files \ {u} : mapper'.map[x] = mapper.map[x]
    <3>1. mapper.map \in [Urls -> Screens \cup {Unmapped}] /\ Files \subseteq Urls
      BY <1>1 DEF Mapper, Files
    <3> QED
      BY <1>1, <1>5, <2>2, <3>1 DEF m
  <2>4. mapper'.available = mapper.available /\ mapper'.perPath = mapper.perPath
    BY <1>5, <2>2 DEF m
  <2> QED
    BY <1>1, <1>2, <1>5, <2>3, <2>4, RemappingSteady
<1> QED
  BY <1>3, <1>4, <1>5

\* The desktop begins settled, without views.
LEMMA InitSettled == Init => SettledIInv
<1> SUFFICES ASSUME Init PROVE SettledIInv
  OBVIOUS
<1>1. BaseIInv
  BY InitBase
<1>2. \A v \in Views : view[v] = NoView
  BY DEF Init
<1>3. Attached(mapper, view, {}) /\ Settled(mapper, view)
  BY <1>2 DEF Attached, Settled, NoView
<1>4. Registered(mapper, view, {})
  BY <1>2, UnmappedIsNoScreen DEF Registered, NoView, Init, Folders
<1>5. MappedForView(mapper, view, {})
  BY DEF MappedForView, Init, Files
<1> QED
  BY <1>1, <1>3, <1>4, <1>5 DEF SettledIInv, Steady, BaseIInv

\* One step for each action, while screens stay.
LEMMA StepSettled ==
    ASSUME FixedScreens, SettledIInv, [Next]_vars
    PROVE  SettledIInv'
<1>1. BaseIInv /\ BaseIInv' /\ OneViewPerScreen /\ FoldersApart /\ Steady(mapper, view, {})
  BY StepBase DEF SettledIInv, FixedScreens
<1> SUFFICES /\ Steady(mapper', view', {})
             /\ ~mappingTimer' => Settled(mapper', view')
  BY <1>1 DEF SettledIInv, Steady, Settled, WellFormed, Attached, Registered, MappedForView
<1>2. ~mappingTimer => Settled(mapper, view)
  BY DEF SettledIInv
<1>3. ASSUME NEW v \in Views, CreateView(v)
      PROVE  Steady(mapper', view', {}) /\ (Settled(mapper, view) => Settled(mapper', view'))
  <2>1. /\ mapper' = mapper /\ view \in [Views -> View]
        /\ view' = [view EXCEPT ![v] = [NoView EXCEPT !.alive = TRUE]]
        /\ view[v].screen = Unmapped /\ WellFormed(mapper', view')
    BY <1>1, <1>3 DEF CreateView, BaseIInv, TypeOK, WellFormed
  <2>2. /\ view'[v].screen = Unmapped /\ view'[v].used = FALSE
        /\ \A w \in Views \ {v} : view'[w] = view[w]
    BY <2>1 DEF NoView
  <2>3. Attached(mapper', view', {})
    BY <1>1, <2>1, <2>2 DEF Attached, Steady
  <2>4. Registered(mapper', view', {})
    BY <1>1, <2>1, <2>2, UnmappedIsNoScreen DEF Registered, Steady
  <2>5. MappedForView(mapper', view', {})
    BY <1>1, <2>1, <2>2 DEF MappedForView, Steady
  <2>6. Settled(mapper, view) => Settled(mapper', view')
    BY <2>1, <2>2 DEF Settled
  <2> QED
    BY <2>1, <2>3, <2>4, <2>5, <2>6 DEF Steady
<1>4. ASSUME NEW v \in Views, NEW p \in Folders, SetUrl(v, p)
      PROVE  Steady(mapper', view', {}) /\ (~mappingTimer' => Settled(mapper', view'))
  <2>1. ~mappingTimer' => ~mappingTimer
    BY <1>4 DEF SetUrl, TimerAfter
  <2> QED
    BY <1>1, <1>2, <1>4, <2>1, SetUrlSteady
<1>5. ASSUME NEW v \in Views, SetScreen(v)
      PROVE  Steady(mapper', view', {}) /\ Settled(mapper', view')
  BY <1>1, <1>5, SetScreenSteady
<1>6. ASSUME NEW v \in Views, DestroyView(v)
      PROVE  Steady(mapper', view', {}) /\ (~mappingTimer' => Settled(mapper', view'))
  <2>1. ~mappingTimer' => ~mappingTimer
    BY <1>6 DEF DestroyView, TimerAfter
  <2> QED
    BY <1>1, <1>2, <1>6, <2>1, DestroyViewSteady
<1>7. ASSUME NEW v \in Views, NEW u \in Files, RowInserted(v, u)
      PROVE  Steady(mapper', view', {}) /\ (~mappingTimer' => Settled(mapper', view'))
  <2>1. ~mappingTimer' => ~mappingTimer
    BY <1>7 DEF RowInserted, TimerAfter
  <2> QED
    BY <1>1, <1>2, <1>7, <2>1, RowInsertedSteady
<1>8. ASSUME NEW v \in Views, NEW u \in Files, DropFile(v, u) \/ ClaimNewFile(v, u)
      PROVE  Steady(mapper', view', {}) /\ (~mappingTimer' => Settled(mapper', view'))
  BY <1>1, <1>8, DropSteady
<1>9. ASSUME NEW u \in Files, FileCreated(u)
      PROVE  Steady(mapper', view', {}) /\ (~mappingTimer' => Settled(mapper', view'))
  BY <1>1, <1>2, <1>9 DEF FileCreated
<1>10. ASSUME NEW u \in Files, FileDeleted(u)
       PROVE  Steady(mapper', view', {}) /\ (~mappingTimer' => Settled(mapper', view'))
  <2>1. ~mappingTimer' => ~mappingTimer
    BY <1>10 DEF FileDeleted
  <2> QED
    BY <1>1, <1>2, <1>10, <2>1, FileDeletedSteady
<1>11. CASE MappingTimeout
  BY <1>1, <1>11, Refiltered DEF MappingTimeout, Refilter
<1>12. CASE UNCHANGED vars
  BY <1>1, <1>2, <1>12 DEF vars
<1>13. ASSUME NEW s \in Screens PROVE ~ScreenPlugged(s) /\ ~ScreenUnplugged(s)
  BY DEF FixedScreens, ScreenPlugged, ScreenUnplugged
<1>14. \A v \in Views : CreateView(v) => mappingTimer' = mappingTimer
  BY DEF CreateView
<1> QED
  BY <1>2, <1>3, <1>4, <1>5, <1>6, <1>7, <1>8, <1>9, <1>10, <1>11, <1>12, <1>13, <1>14
  DEF Next
(***************************************************************************)
(* The results for a desktop whose screens stay.                           *)
(***************************************************************************)
\* Whatever urls the views are given, in whatever order they get screens and
\* go, an attached view's screen is registered for the folder it shows once
\* every view has its url: firstAvailableScreen decides among the right screens.
THEOREM ScreensFollowViews == FixedScreens => (Spec => []AttachedViewsRegistered)
<1> SUFFICES ASSUME FixedScreens PROVE Spec => []AttachedViewsRegistered
  OBVIOUS
<1>1. Init => SettledIInv
  BY InitSettled
<1>2. SettledIInv /\ [Next]_vars => SettledIInv'
  BY StepSettled
<1>3. SettledIInv => AttachedViewsRegistered
  <2> SUFFICES ASSUME SettledIInv, Configured, NEW v \in Views, view[v].used
               PROVE  view[v].screen \in mapper.perPath[view[v].folder]
    BY DEF AttachedViewsRegistered
  <2>1. view[v].folder \in Folders /\ view[v].screen \in Screens
    BY DEF SettledIInv, BaseIInv, TypeOK, Configured, View, Mapper, Folders
  <2> QED
    BY <2>1 DEF SettledIInv, Steady, Registered
<1> QED
  BY <1>1, <1>2, <1>3, PTL DEF Spec

\* The lowest of a set of screens, which firstAvailableScreen returns, is one.
LEMMA LowestScreen ==
    ASSUME NEW S \in SUBSET Screens, NEW s \in S
    PROVE  \E t \in S : \A r \in S : t <= r
<1> DEFINE R == OpToRel(<, Nat)
<1>1. S \subseteq Nat /\ S # {}
  BY ScreensAssumption
<1>2. \A x, y \in Nat : x < y => <<x, y>> \in R
  BY DEF OpToRel
<1>3. IsWellFoundedOn(R, Nat)
  BY NatLessThanWellFounded
<1> HIDE DEF R
<1>4. PICK t \in S : \A r \in S : ~(<<r, t>> \in R)
  BY <1>1, <1>3, WFMin
<1>5. ASSUME NEW r \in S PROVE t <= r
  <2>1. t \in Nat /\ r \in Nat
    BY <1>1
  <2>2. ~(r < t)
    BY <1>2, <1>4, <2>1
  <2> QED
    BY <2>1, <2>2
<1> QED
  BY <1>5

\* With the timer idle, a file that every view of its folder lists is shown by
\* one of them: by the view of the screen it is mapped to, or else it would
\* have been adopted by the first one.
LEMMA SettledMeansShown == SettledIInv => NoFileHidden
<1> SUFFICES ASSUME SettledIInv, ~mappingTimer, Configured, NEW u \in exists,
                    NEW v \in Listers(u), view[v].used,
                    \A w \in Listers(u) : u \in view[w].listed
             PROVE  \E w \in Listers(u) : u \in view[w].shown
  BY DEF NoFileHidden
<1>1. /\ mapper \in Mapper /\ view \in [Views -> View] /\ u \in Files /\ u \in Urls
      /\ WellFormed(mapper, view) /\ Attached(mapper, view, {})
      /\ Registered(mapper, view, {}) /\ MappedForView(mapper, view, {})
      /\ Settled(mapper, view)
  BY DEF SettledIInv, BaseIInv, TypeOK, Steady, Files
<1>2. v \in Views /\ view[v].folder = FolderOf[u]
  BY DEF Listers
<1>3. \A w \in Views : view[w].screen # Unmapped =>
        /\ view[w].used /\ view[w].alive /\ view[w].folder # NoPath
        /\ view[w].screen \in mapper.available
  BY <1>1 DEF Attached, Configured
<1>4. CASE ScreenForItem(mapper, u) # Unmapped
  <2>1. mapper.map[u] # Unmapped
    BY <1>1, <1>4 DEF ScreenForItem
  <2>2. PICK w \in Views : /\ view[w].screen = mapper.map[u]
                          /\ view[w].folder \in {FolderOf[u], NoPath}
    BY <1>1, <2>1 DEF MappedForView
  <2>3. view[w].used /\ view[w].alive /\ view[w].folder = FolderOf[u]
    BY <1>3, <2>1, <2>2
  <2>4. w \in Listers(u) /\ u \in view[w].listed
    BY <2>3 DEF Listers
  <2> QED
    BY <1>1, <2>2, <2>3, <2>4 DEF Settled
<1>5. CASE ScreenForItem(mapper, u) = Unmapped
  <2> DEFINE S == mapper.perPath[FolderOf[u]]
             first == FirstAvailableScreen(mapper, FolderOf[u])
  <2>1. /\ FolderOf[u] \in Folders /\ S \in SUBSET Screens
        /\ view[v].screen \in Screens
    BY <1>1, <1>2, ViewsAssumption DEF Folders, Mapper, Configured
  <2>2. view[v].screen \in S
    BY <1>1, <1>2, <2>1 DEF Registered
  <2>3. first \in S
    <3> HIDE DEF S
    <3>1. \E t \in S : \A r \in S : t <= r
      BY <2>1, <2>2, LowestScreen
    <3>2. first = CHOOSE t \in S : \A r \in S : t <= r
      BY <2>2 DEF FirstAvailableScreen, S
    <3> HIDE DEF first
    <3> QED
      BY <3>1, <3>2
  <2> HIDE DEF first
  <2>4. PICK w \in Views : view[w].screen = first /\ view[w].folder = FolderOf[u]
    BY <1>1, <2>1, <2>3 DEF Registered
  <2>5. first # Unmapped
    BY <2>1, <2>3, UnmappedIsNoScreen
  <2>6. view[w].used /\ view[w].alive
    BY <1>3, <2>4, <2>5
  <2>7. u \in view[w].listed
    BY <2>4, <2>6 DEF Listers
  <2> QED
    BY <1>1, <1>5, <2>4, <2>6, <2>7 DEF Settled, first
<1> QED
  BY <1>4, <1>5

\* No file of a configured desktop is hidden from every screen once the timer
\* is idle, whatever views opened, closed or switched folders since it was
\* placed: the filters that assign screens never miss the last file.
THEOREM FilesStayVisible == FixedScreens => (Spec => []NoFileHidden)
<1> SUFFICES ASSUME FixedScreens PROVE Spec => []NoFileHidden
  OBVIOUS
<1>1. Init => SettledIInv
  BY InitSettled
<1>2. SettledIInv /\ [Next]_vars => SettledIInv'
  BY StepSettled
<1>3. SettledIInv => NoFileHidden
  BY SettledMeansShown
<1> QED
  BY <1>1, <1>2, <1>3, PTL DEF Spec
=============================================================================
