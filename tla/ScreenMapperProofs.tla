-------------------------- MODULE ScreenMapperProofs --------------------------
(***************************************************************************)
(* Proofs about the screen mapper, for every set of screens, files and     *)
(* folders: its type invariant, that a file is parked for one screen at    *)
(* most, that an idle mapper has everything on disk, and that screens      *)
(* coming and going never change the screen a file belongs to.             *)
(***************************************************************************)
EXTENDS ScreenMapper, TLAPS

\* A url is parked exactly if some screen's list has it.
LEMMA AllParkedDef ==
    ASSUME NEW parked, NEW u
    PROVE  u \in AllParked(parked) <=> \E s \in Screens : u \in parked[s]
  BY DEF AllParked

-----------------------------------------------------------------------------
(***************************************************************************)
(* What reading the saved lists preserves, whatever order it meets them in.*)
(***************************************************************************)
\* Reading saved lists keeps them well formed, disjoint and covered by their
\* entries, and parks no file that was not parked.
LEMMA ReadingsSound ==
    ASSUME NEW c \in Saved, NEW r \in Readings(c),
           Disjoint(c.parked), EntriesCover(c.parked, c.entries)
    PROVE  /\ r.parked \in [Screens -> SUBSET Urls]
           /\ r.entries \in SUBSET Screens
           /\ Disjoint(r.parked)
           /\ EntriesCover(r.parked, r.entries)
           /\ AllParked(r.parked) \ {Junk} \subseteq AllParked(c.parked)
<1>1. CASE EmptyEntries(c) = {}
  BY <1>1 DEF Readings, Saved
<1>2. CASE EmptyEntries(c) # {}
  <2>1. PICK e \in EmptyEntries(c), before \in SUBSET (c.entries \ EmptyEntries(c)) :
             r = Misread(c, e, before)
    BY <1>2 DEF Readings
  <2> DEFINE after == c.entries \ (before \cup {e})
  <2>2. /\ e \in Screens
        /\ e \notin before
        /\ before \subseteq Screens
        /\ after \subseteq Screens
        /\ c.parked \in [Screens -> SUBSET Urls]
    BY <2>1 DEF EmptyEntries, Saved
  <2>3. r.parked = [s \in Screens |->
                      IF s \in before THEN c.parked[s]
                      ELSE IF s = e /\ after # {}
                      THEN {Junk} \cup UNION {c.parked[t] : t \in after}
                      ELSE {}]
    BY <2>1 DEF Misread
  <2>4. r.entries = IF after = {} THEN before ELSE before \cup {e}
    BY <2>1 DEF Misread
  <2>5. \A u : u \in UNION {c.parked[t] : t \in after} => \E t \in after : u \in c.parked[t]
    OBVIOUS
  <2>6. UNION {c.parked[t] : t \in after} \in SUBSET Urls
    BY <2>2, <2>5
  <2>7. r.parked \in [Screens -> SUBSET Urls]
    BY <2>2, <2>3, <2>6, JunkAssumption
  <2>8. \A s \in Screens : s \in before => r.parked[s] = c.parked[s]
    BY <2>3
  <2>9. \A s \in Screens : \A u \in r.parked[s] :
            s \notin before => s = e /\ after # {} /\ (u = Junk \/ \E t \in after : u \in c.parked[t])
    BY <2>3, <2>5
  <2>10. Disjoint(r.parked)
    BY <2>2, <2>8, <2>9 DEF Disjoint
  <2>11. EntriesCover(r.parked, r.entries)
    BY <2>4, <2>9, <2>7 DEF EntriesCover
  <2>12. AllParked(r.parked) \ {Junk} \subseteq AllParked(c.parked)
    BY <2>2, <2>8, <2>9, AllParkedDef
  <2> QED
    BY <2>2, <2>4, <2>7, <2>10, <2>11, <2>12
<1> QED
  BY <1>1, <1>2

-----------------------------------------------------------------------------
(***************************************************************************)
(* What the two screen operations preserve.                                *)
(***************************************************************************)
\* removeScreen parks no file twice and changes no file's home.
LEMMA ScreenRemovedSound ==
    ASSUME NEW m \in Mapper, NEW s \in Screens, NEW p \in Paths,
           Disjoint(m.parked), EntriesCover(m.parked, m.entries)
    PROVE  LET n == ScreenRemoved(m, s, p) IN
           /\ n \in Mapper
           /\ Disjoint(n.parked)
           /\ EntriesCover(n.parked, n.entries)
           /\ \A u \in Files : HomeIn(n.parked, n.map, u) = HomeIn(m.parked, m.map, u)
           /\ Displaced(m, s, p) = {} => n.map = m.map /\ n.parked = m.parked
<1> DEFINE n == ScreenRemoved(m, s, p)
           D == Displaced(m, s, p)
<1>1. /\ m.map \in [Urls -> Screens \cup {Unmapped}]
      /\ m.parked \in [Screens -> SUBSET Urls]
      /\ m.entries \in SUBSET Screens
      /\ m.perPath \in [Paths -> SUBSET Screens]
      /\ m.available \in SUBSET Screens
  BY DEF Mapper
<1>2. D \in SUBSET Urls /\ \A u \in D : m.map[u] = s
  BY PathsAssumption DEF Displaced
<1>3. /\ n.map = [u \in Urls |-> IF u \in D THEN Unmapped ELSE m.map[u]]
      /\ n.parked = [m.parked EXCEPT ![s] = @ \cup (D \ AllParked(m.parked))]
      /\ n.entries = IF D \subseteq AllParked(m.parked) THEN m.entries ELSE m.entries \cup {s}
      /\ n.perPath = PerPathAfterRemove(m, s, p)
      /\ n.available = m.available \ {s}
  BY DEF ScreenRemoved, ParkedAfterRemove
<1>4. n \in Mapper
  <2>1. n.map \in [Urls -> Screens \cup {Unmapped}]
    BY <1>1, <1>3
  <2>2. n.parked \in [Screens -> SUBSET Urls]
    BY <1>1, <1>2, <1>3
  <2>3. n.entries \in SUBSET Screens /\ n.available \in SUBSET Screens
    BY <1>1, <1>3
  <2>4. n.perPath \in [Paths -> SUBSET Screens]
    BY <1>1, <1>3 DEF PerPathAfterRemove
  <2> QED
    BY <2>1, <2>2, <2>3, <2>4 DEF Mapper, ScreenRemoved
<1>5. \A t \in Screens : \A u :
          u \in n.parked[t] <=> \/ u \in m.parked[t]
                                \/ t = s /\ u \in D /\ \A r \in Screens : u \notin m.parked[r]
  BY <1>1, <1>3, AllParkedDef
<1>6. Disjoint(n.parked)
  BY <1>5 DEF Disjoint
<1>7. EntriesCover(n.parked, n.entries)
  BY <1>1, <1>3, <1>5 DEF EntriesCover
<1>8. ASSUME NEW u \in Files
      PROVE  HomeIn(n.parked, n.map, u) = HomeIn(m.parked, m.map, u)
  <2>1. CASE \E t \in Screens : u \in m.parked[t]
    <3>1. \A t \in Screens : u \in n.parked[t] <=> u \in m.parked[t]
      BY <2>1, <1>5
    <3> QED
      BY <2>1, <3>1 DEF HomeIn
  <2>2. CASE (\A t \in Screens : u \notin m.parked[t]) /\ u \in D
    <3>1. \A t \in Screens : u \in n.parked[t] <=> t = s
      BY <2>2, <1>5
    <3>2. HomeIn(n.parked, n.map, u) = s
      BY <3>1 DEF HomeIn
    <3> QED
      BY <2>2, <3>2, <1>2 DEF HomeIn
  <2>3. CASE (\A t \in Screens : u \notin m.parked[t]) /\ u \notin D
    <3>1. \A t \in Screens : u \notin n.parked[t]
      BY <2>3, <1>5
    <3> QED
      BY <2>3, <3>1, <1>3 DEF HomeIn, Files
  <2> QED
    BY <2>1, <2>2, <2>3
<1>9. D = {} => n.map = m.map /\ n.parked = m.parked
  BY <1>1, <1>3
<1> QED
  BY <1>4, <1>6, <1>7, <1>8, <1>9

\* addScreen parks nothing and changes no file's home.
LEMMA ScreenAddedSound ==
    ASSUME NEW m \in Mapper, NEW s \in Screens, NEW p \in Paths,
           Disjoint(m.parked), EntriesCover(m.parked, m.entries)
    PROVE  LET n == ScreenAdded(m, s, p) IN
           /\ n \in Mapper
           /\ Disjoint(n.parked)
           /\ EntriesCover(n.parked, n.entries)
           /\ AllParked(n.parked) \subseteq AllParked(m.parked)
           /\ \A u \in Files : HomeIn(n.parked, n.map, u) = HomeIn(m.parked, m.map, u)
           /\ Returning(m, s, p) = {} => n.map = m.map /\ n.parked = m.parked
<1> DEFINE n == ScreenAdded(m, s, p)
           R == Returning(m, s, p)
<1>1. /\ m.map \in [Urls -> Screens \cup {Unmapped}]
      /\ m.parked \in [Screens -> SUBSET Urls]
      /\ m.entries \in SUBSET Screens
      /\ m.perPath \in [Paths -> SUBSET Screens]
      /\ m.available \in SUBSET Screens
  BY DEF Mapper
<1>2. R = m.parked[s] \cap Below[p]
  BY DEF Returning
<1>3. /\ n.map = [u \in Urls |-> IF u \in R THEN s ELSE m.map[u]]
      /\ n.parked = [m.parked EXCEPT ![s] = @ \ Below[p]]
      /\ n.entries = IF m.parked[s] \subseteq Below[p] THEN m.entries \ {s} ELSE m.entries
      /\ n.perPath = IF p = NoPath THEN m.perPath ELSE [m.perPath EXCEPT ![p] = @ \cup {s}]
      /\ n.available = m.available \cup {s}
  BY DEF ScreenAdded
<1>4. n \in Mapper
  <2>1. n.map \in [Urls -> Screens \cup {Unmapped}]
    BY <1>1, <1>3
  <2>2. n.parked \in [Screens -> SUBSET Urls]
    BY <1>1, <1>3
  <2>3. n.entries \in SUBSET Screens /\ n.available \in SUBSET Screens
    BY <1>1, <1>3
  <2>4. n.perPath \in [Paths -> SUBSET Screens]
    BY <1>1, <1>3
  <2> QED
    BY <2>1, <2>2, <2>3, <2>4 DEF Mapper, ScreenAdded
<1>5. \A t \in Screens : \A u :
          u \in n.parked[t] <=> u \in m.parked[t] /\ ~(t = s /\ u \in R)
  BY <1>1, <1>2, <1>3
<1>6. Disjoint(n.parked)
  BY <1>5 DEF Disjoint
<1>7. EntriesCover(n.parked, n.entries)
  BY <1>1, <1>2, <1>3, <1>5 DEF EntriesCover
<1>8. AllParked(n.parked) \subseteq AllParked(m.parked)
  BY <1>5, AllParkedDef
<1>9. ASSUME NEW u \in Files
      PROVE  HomeIn(n.parked, n.map, u) = HomeIn(m.parked, m.map, u)
  <2>1. CASE u \in R
    <3>1. \A t \in Screens : u \in m.parked[t] <=> t = s
      BY <2>1, <1>2 DEF Disjoint, Files
    <3>2. \A t \in Screens : u \notin n.parked[t]
      BY <2>1, <3>1, <1>5
    <3>3. HomeIn(m.parked, m.map, u) = s
      BY <3>1 DEF HomeIn
    <3>4. HomeIn(n.parked, n.map, u) = s
      BY <2>1, <3>2, <1>3 DEF HomeIn, Files
    <3> QED
      BY <3>3, <3>4
  <2>2. CASE u \notin R
    <3>1. \A t \in Screens : u \in n.parked[t] <=> u \in m.parked[t]
      BY <2>2, <1>5
    <3>2. n.map[u] = m.map[u]
      BY <2>2, <1>3 DEF Files
    <3> QED
      BY <3>1, <3>2 DEF HomeIn
  <2> QED
    BY <2>1, <2>2
<1>10. ASSUME R = {}
       PROVE  n.map = m.map /\ n.parked = m.parked
  <2>1. n.map = m.map
    <3>1. \A u \in Urls : u \notin R
      BY <1>10
    <3>2. n.map = [u \in Urls |-> m.map[u]]
      BY <1>3, <3>1
    <3> QED
      BY <1>1, <3>2
  <2>2. m.parked[s] \ Below[p] = m.parked[s]
    BY <1>2, <1>10
  <2>3. n.parked = m.parked
    <3>1. n.parked = [m.parked EXCEPT ![s] = m.parked[s]]
      BY <1>3, <2>2
    <3>2. [m.parked EXCEPT ![s] = m.parked[s]] = m.parked
      BY <1>1
    <3> QED
      BY <3>1, <3>2
  <2> QED
    BY <2>1, <2>3
<1> QED
  BY <1>4, <1>6, <1>7, <1>8, <1>9, <1>10

\* addMapping and removeItemFromDisabledScreen keep the maps well formed and
\* park nothing.
LEMMA RemappingSound ==
    ASSUME NEW m \in Mapper, NEW u \in Urls, NEW s \in Screens \cup {Unmapped},
           Disjoint(m.parked), EntriesCover(m.parked, m.entries)
    PROVE  /\ Mapped(m, u, s) \in Mapper
           /\ Mapped(m, u, s).parked = m.parked
           /\ Mapped(m, u, s).entries = m.entries
           /\ Unparked(m, u) \in Mapper
           /\ Disjoint(Unparked(m, u).parked)
           /\ EntriesCover(Unparked(m, u).parked, m.entries)
           /\ Unparked(m, u).entries = m.entries
           /\ AllParked(Unparked(m, u).parked) \subseteq AllParked(m.parked)
<1>1. Mapped(m, u, s) \in Mapper /\ Mapped(m, u, s).parked = m.parked
      /\ Mapped(m, u, s).entries = m.entries
  BY DEF Mapper, Mapped
<1>2. Unparked(m, u) \in Mapper /\ Unparked(m, u).entries = m.entries
  BY DEF Mapper, Unparked
<1>3. \A t \in Screens : \A v : v \in Unparked(m, u).parked[t] <=> v \in m.parked[t] /\ v # u
  BY DEF Mapper, Unparked
<1>4. Disjoint(Unparked(m, u).parked)
  BY <1>3 DEF Disjoint
<1>5. EntriesCover(Unparked(m, u).parked, m.entries)
  BY <1>3 DEF EntriesCover
<1>6. AllParked(Unparked(m, u).parked) \subseteq AllParked(m.parked)
  BY <1>3, AllParkedDef
<1> QED
  BY <1>1, <1>2, <1>4, <1>5, <1>6

-----------------------------------------------------------------------------
\* The mapper starts with empty maps, and nothing owed to the configuration.
LEMMA InitIInv == MapperInit => MapperIInv
<1> SUFFICES ASSUME MapperInit PROVE MapperIInv
  OBVIOUS
<1> USE DEF MapperInit, EmptySaved
<1>1. MapperTypeOK
  BY DEF MapperTypeOK, Mapper, Saved
<1>2. ParkedForOneScreen /\ AllEntriesCover
  BY DEF ParkedForOneScreen, Disjoint, AllEntriesCover, EntriesCover
<1>3. ConfigKnowsHomes /\ NothingForgottenWhenIdle
  BY DEF ConfigKnowsHomes, NothingForgottenWhenIdle
<1> QED
  BY <1>1, <1>2, <1>3 DEF MapperIInv

\* What every screen change establishes once the lists are saved.
LEMMA ParkedSavedSound ==
    ASSUME NEW c \in Saved, NEW m \in Mapper
    PROVE  /\ ParkedSaved(c, m) \in Saved
           /\ ParkedSaved(c, m).parked = m.parked
           /\ ParkedSaved(c, m).entries = m.entries
           /\ ParkedSaved(c, m).map = c.map
  BY DEF Saved, Mapper, ParkedSaved

\* A restart establishes the invariant, if the group it reads is well formed.
LEMMA StartPreservesIInv ==
    ASSUME NEW c \in Saved, Disjoint(c.parked), EntriesCover(c.parked, c.entries),
           StartFrom(c)
    PROVE  MapperIInv'
<1>1. PICK r \in Readings(c) :
           mapper' = [map       |-> c.map,
                      parked    |-> r.parked,
                      entries   |-> r.entries,
                      perPath   |-> [p \in Paths |-> {}],
                      available |-> {}]
  BY DEF StartFrom
<1>2. /\ r.parked \in [Screens -> SUBSET Urls]
      /\ r.entries \in SUBSET Screens
      /\ Disjoint(r.parked)
      /\ EntriesCover(r.parked, r.entries)
      /\ AllParked(r.parked) \ {Junk} \subseteq AllParked(c.parked)
  BY ReadingsSound
<1>3. mappingTimer' = FALSE /\ config' = c /\ disk' = c
  BY DEF StartFrom
<1>4. MapperTypeOK'
  BY <1>1, <1>2, <1>3 DEF MapperTypeOK, Mapper, Saved
<1>5. ParkedForOneScreen' /\ AllEntriesCover'
  BY <1>1, <1>2, <1>3 DEF ParkedForOneScreen, AllEntriesCover
<1>6. ConfigKnowsHomes' /\ NothingForgottenWhenIdle'
  BY <1>1, <1>2, <1>3 DEF ConfigKnowsHomes, NothingForgottenWhenIdle
<1> QED
  BY <1>4, <1>5, <1>6 DEF MapperIInv

\* Every call, save, crash and restart preserves the inductive invariant.
LEMMA StepIInv == MapperIInv /\ [MapperNext]_mapperVars => MapperIInv'
<1> SUFFICES ASSUME MapperIInv, [MapperNext]_mapperVars
             PROVE  MapperIInv'
  OBVIOUS
<1> USE DEF MapperIInv
<1>0. /\ mapper \in Mapper
      /\ Disjoint(mapper.parked) /\ EntriesCover(mapper.parked, mapper.entries)
      /\ config \in Saved
      /\ Disjoint(config.parked) /\ EntriesCover(config.parked, config.entries)
      /\ disk \in Saved
      /\ Disjoint(disk.parked) /\ EntriesCover(disk.parked, disk.entries)
  BY DEF MapperTypeOK, ParkedForOneScreen, AllEntriesCover
<1>1. ASSUME NEW s \in Screens, NEW p \in Paths, RemoveScreen(s, p)
      PROVE  MapperIInv'
  <2>1. /\ mapper' = ScreenRemoved(mapper, s, p)
        /\ config' = ParkedSaved(config, mapper')
        /\ mappingTimer' = (mappingTimer \/ Displaced(mapper, s, p) # {})
        /\ disk' = disk
    BY <1>1 DEF RemoveScreen
  <2>2. /\ mapper' \in Mapper
        /\ Disjoint(mapper'.parked)
        /\ EntriesCover(mapper'.parked, mapper'.entries)
        /\ Displaced(mapper, s, p) = {} => mapper'.map = mapper.map /\ mapper'.parked = mapper.parked
    BY <1>0, <2>1, ScreenRemovedSound
  <2>3. /\ config' \in Saved
        /\ config'.parked = mapper'.parked
        /\ config'.entries = mapper'.entries
        /\ config'.map = config.map
    BY <1>0, <2>1, <2>2, ParkedSavedSound
  <2>4. MapperTypeOK'
    BY <1>0, <2>1, <2>2, <2>3 DEF MapperTypeOK
  <2>5. ParkedForOneScreen' /\ AllEntriesCover'
    BY <1>0, <2>1, <2>2, <2>3 DEF ParkedForOneScreen, AllEntriesCover
  <2>6. ConfigKnowsHomes'
    BY <2>1, <2>2, <2>3 DEF ConfigKnowsHomes
  <2>7. NothingForgottenWhenIdle'
    BY <2>1, <2>2 DEF NothingForgottenWhenIdle
  <2> QED
    BY <2>4, <2>5, <2>6, <2>7
<1>2. ASSUME NEW s \in Screens, NEW p \in Paths, AddScreen(s, p)
      PROVE  MapperIInv'
  <2>1. /\ mapper' = ScreenAdded(mapper, s, p)
        /\ config' = ParkedSaved(config, mapper')
        /\ mappingTimer' = (mappingTimer \/ Returning(mapper, s, p) # {})
        /\ disk' = disk
    BY <1>2 DEF AddScreen
  <2>2. /\ mapper' \in Mapper
        /\ Disjoint(mapper'.parked)
        /\ EntriesCover(mapper'.parked, mapper'.entries)
        /\ Returning(mapper, s, p) = {} => mapper'.map = mapper.map /\ mapper'.parked = mapper.parked
    BY <1>0, <2>1, ScreenAddedSound
  <2>3. /\ config' \in Saved
        /\ config'.parked = mapper'.parked
        /\ config'.entries = mapper'.entries
        /\ config'.map = config.map
    BY <1>0, <2>1, <2>2, ParkedSavedSound
  <2>4. MapperTypeOK'
    BY <1>0, <2>1, <2>2, <2>3 DEF MapperTypeOK
  <2>5. ParkedForOneScreen' /\ AllEntriesCover'
    BY <1>0, <2>1, <2>2, <2>3 DEF ParkedForOneScreen, AllEntriesCover
  <2>6. ConfigKnowsHomes'
    BY <2>1, <2>2, <2>3 DEF ConfigKnowsHomes
  <2>7. NothingForgottenWhenIdle'
    BY <2>1, <2>2 DEF NothingForgottenWhenIdle
  <2> QED
    BY <2>4, <2>5, <2>6, <2>7
<1>3. ASSUME NEW u \in Files, NEW s \in Screens \cup {Unmapped},
             mapper' = Mapped(mapper, u, s), mappingTimer' = TRUE, UNCHANGED <<config, disk>>
      PROVE  MapperIInv'
  <2>1. /\ mapper' \in Mapper
        /\ mapper'.parked = mapper.parked
        /\ mapper'.entries = mapper.entries
    BY <1>0, <1>3, RemappingSound DEF Files
  <2>2. MapperTypeOK' /\ ParkedForOneScreen' /\ AllEntriesCover'
    BY <1>0, <1>3, <2>1 DEF MapperTypeOK, ParkedForOneScreen, AllEntriesCover
  <2>3. ConfigKnowsHomes' /\ NothingForgottenWhenIdle'
    BY <1>3, <2>1 DEF ConfigKnowsHomes, NothingForgottenWhenIdle
  <2> QED
    BY <2>2, <2>3
<1>4. ASSUME NEW u \in Files, NEW s \in Screens, AddMapping(u, s)
      PROVE  MapperIInv'
  BY <1>3, <1>4 DEF AddMapping
<1>5. ASSUME NEW u \in Files, NEW s \in Screens, DropItem(u, s)
      PROVE  MapperIInv'
  <2> DEFINE m == Mapped(mapper, u, s)
  <2>1. m \in Mapper /\ m.parked = mapper.parked /\ m.entries = mapper.entries
    BY <1>0, RemappingSound DEF Files
  <2>2. /\ mapper' = Unparked(m, u)
        /\ mappingTimer' = TRUE
        /\ config' = config /\ disk' = disk
    BY <1>5 DEF DropItem
  <2>3. /\ mapper' \in Mapper
        /\ Disjoint(mapper'.parked)
        /\ EntriesCover(mapper'.parked, mapper'.entries)
        /\ AllParked(mapper'.parked) \subseteq AllParked(mapper.parked)
    <3> HIDE DEF m
    <3> QED
      BY <1>0, <2>1, <2>2, RemappingSound DEF Files
  <2>4. MapperTypeOK' /\ ParkedForOneScreen' /\ AllEntriesCover'
    BY <1>0, <2>2, <2>3 DEF MapperTypeOK, ParkedForOneScreen, AllEntriesCover
  <2>5. ConfigKnowsHomes' /\ NothingForgottenWhenIdle'
    BY <2>2, <2>3 DEF ConfigKnowsHomes, NothingForgottenWhenIdle
  <2> QED
    BY <2>4, <2>5
<1>6. ASSUME NEW u \in Files, RemoveFromMap(u)
      PROVE  MapperIInv'
  BY <1>3, <1>6 DEF RemoveFromMap
<1>7. CASE SaveMapping
  <2>1. /\ mapper' = mapper
        /\ mappingTimer' = FALSE
        /\ config' = [config EXCEPT !.map = mapper.map]
        /\ disk' = config'
    BY <1>7 DEF SaveMapping
  <2>2. /\ config' \in Saved
        /\ config'.map = mapper.map
        /\ config'.parked = config.parked
        /\ config'.entries = config.entries
    BY <1>0, <2>1 DEF Saved, Mapper
  <2>3. MapperTypeOK' /\ ParkedForOneScreen' /\ AllEntriesCover'
    BY <1>0, <2>1, <2>2 DEF MapperTypeOK, ParkedForOneScreen, AllEntriesCover
  <2>4. ConfigKnowsHomes' /\ NothingForgottenWhenIdle'
    BY <2>1, <2>2 DEF ConfigKnowsHomes, NothingForgottenWhenIdle
  <2> QED
    BY <2>3, <2>4
<1>8. CASE CoronaSync
  <2>1. /\ disk' = config
        /\ mapper' = mapper /\ mappingTimer' = mappingTimer /\ config' = config
    BY <1>8 DEF CoronaSync
  <2>2. MapperTypeOK' /\ ParkedForOneScreen' /\ AllEntriesCover' /\ ConfigKnowsHomes'
    BY <1>0, <2>1 DEF MapperTypeOK, ParkedForOneScreen, AllEntriesCover, ConfigKnowsHomes
  <2>3. NothingForgottenWhenIdle'
    BY <2>1, <2>2 DEF NothingForgottenWhenIdle, ConfigKnowsHomes
  <2> QED
    BY <2>2, <2>3
<1>9. CASE Crash \/ CleanRestart
  BY <1>0, <1>9, StartPreservesIInv DEF Crash, CleanRestart
<1>10. CASE UNCHANGED mapperVars
  BY <1>10 DEF mapperVars, MapperTypeOK, ParkedForOneScreen, AllEntriesCover,
               ConfigKnowsHomes, NothingForgottenWhenIdle
<1> QED
  BY <1>1, <1>2, <1>4, <1>5, <1>6, <1>7, <1>8, <1>9, <1>10 DEF MapperNext

-----------------------------------------------------------------------------
(***************************************************************************)
(* The theorems.                                                           *)
(***************************************************************************)
\* The inductive invariant holds of every behaviour of the mapper.
LEMMA IInvHolds == MapperSpec => []MapperIInv
<1>1. MapperInit => MapperIInv
  BY InitIInv
<1>2. MapperIInv /\ [MapperNext]_mapperVars => MapperIInv'
  BY StepIInv
<1> QED
  BY <1>1, <1>2, PTL DEF MapperSpec

\* The maps, the configuration and its file stay well formed through every
\* call, crash and restart.
THEOREM MapperTypeCorrect == MapperSpec => []MapperTypeOK
  BY IInvHolds, PTL DEF MapperIInv

\* No sequence of screen changes, drops, saves and restarts parks a file for
\* two screens, in memory or in the saved lists.
THEOREM OneParkingPlace == MapperSpec => []ParkedForOneScreen
  BY IInvHolds, PTL DEF MapperIInv

\* With the mapping timer idle a crash loses no file's home.
THEOREM IdleMeansSaved == MapperSpec => []NothingForgottenWhenIdle
  BY IInvHolds, PTL DEF MapperIInv

\* Removing and adding screens never changes the screen a file belongs to.
THEOREM HomesAreStable == MapperSpec => HomesSurviveScreenChanges
<1>1. ASSUME MapperIInv, ScreensComeAndGo
      PROVE  \A u \in Files : Home(u)' = Home(u)
  <2>1. /\ mapper \in Mapper
        /\ Disjoint(mapper.parked)
        /\ EntriesCover(mapper.parked, mapper.entries)
    BY <1>1 DEF MapperIInv, MapperTypeOK, ParkedForOneScreen, AllEntriesCover
  <2>2. ASSUME NEW s \in Screens, NEW p \in Paths, RemoveScreen(s, p)
        PROVE  \A u \in Files : Home(u)' = Home(u)
    BY <2>1, <2>2, ScreenRemovedSound DEF RemoveScreen, Home
  <2>3. ASSUME NEW s \in Screens, NEW p \in Paths, AddScreen(s, p)
        PROVE  \A u \in Files : Home(u)' = Home(u)
    BY <2>1, <2>3, ScreenAddedSound DEF AddScreen, Home
  <2> QED
    BY <1>1, <2>2, <2>3 DEF ScreensComeAndGo
<1>2. MapperIInv => [ScreensComeAndGo => \A u \in Files : Home(u)' = Home(u)]_mapperVars
  BY <1>1
<1> QED
  BY <1>2, IInvHolds, PTL DEF MapperSpec, HomesSurviveScreenChanges

=============================================================================
