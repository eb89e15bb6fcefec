--------------------------- MODULE KeyboardProofs ---------------------------
(***************************************************************************)
(* Theorems about the keyboard daemon and its layout memory, for any       *)
(* windows, desktops and configurations, any layouts other programs load   *)
(* and any number of events that wait.                                     *)
(***************************************************************************)
EXTENDS Keyboard, WellFoundedInduction, TLAPS

USE DEF NoLooping

-----------------------------------------------------------------------------
(***************************************************************************)
(* Sequences.                                                              *)
(***************************************************************************)

\* There is a least one in any set of numbers that has some.
LEMMA LeastOfNaturals ==
    ASSUME NEW N, N \subseteq Nat, N # {}
    PROVE  \E n \in N : \A i \in N : n =< i
PROOF
<1> DEFINE R == OpToRel(<, Nat)
<1>1. \A i, n \in Nat : i < n => <<i, n>> \in R
    BY DEF OpToRel
<1>2. IsWellFoundedOn(R, Nat)
    BY NatLessThanWellFounded
<1> HIDE DEF R
<1>3. PICK n \in N : \A i \in N : ~ (<<i, n>> \in R)
    BY <1>2, WFMin
<1>4. ASSUME NEW i \in N PROVE n =< i
  <2>1. i \in Nat /\ n \in Nat
      OBVIOUS
  <2>2. ~ (i < n)
      BY <1>1, <1>3, <2>1
  <2> QED BY <2>1, <2>2
<1> QED BY <1>4

\* The first place of what is in a sequence is one where it is: the minimum
\* that SelectInSeq takes is that of a set of places, not an empty one.
LEMMA FirstPlaceHolds ==
    ASSUME NEW S, NEW s \in Seq(S), NEW e, Contains(s, e)
    PROVE  /\ FirstPlace(s, e) \in 1 .. Len(s)
           /\ s[FirstPlace(s, e)] = e
PROOF
<1> DEFINE P == {i \in 1 .. Len(s) : s[i] = e}
           Least(n) == n \in P /\ \A i \in P : n <= i
<1>1. PICK j \in 1 .. Len(s) : s[j] = e
    BY DEF Contains
<1>2. FirstPlace(s, e) = CHOOSE n \in P : \A i \in P : n =< i
    BY <1>1 DEF FirstPlace, SelectInSeq, Min
<1>3. \E n \in P : \A i \in P : n =< i
  <2>1. P \subseteq Nat /\ P # {}
      BY <1>1
  <2> QED BY <2>1, LeastOfNaturals
<1> QED BY <1>2, <1>3

Events == {"layout", "map", "window", "desktop"}

\* What two sequences of events joined contain.
LEMMA ContainsJoined ==
    ASSUME NEW s \in Seq(Events), NEW t \in Seq(Events), NEW e
    PROVE  Contains(s \o t, e) <=> Contains(s, e) \/ Contains(t, e)
PROOF
<1>1. ASSUME NEW i \in 1 .. Len(s), s[i] = e
      PROVE  Contains(s \o t, e)
  <2>1. i \in 1 .. Len(s \o t) /\ (s \o t)[i] = e
      BY <1>1
  <2> QED BY <2>1 DEF Contains
<1>2. ASSUME NEW i \in 1 .. Len(t), t[i] = e
      PROVE  Contains(s \o t, e)
  <2>1. Len(s) + i \in 1 .. Len(s \o t) /\ (s \o t)[Len(s) + i] = e
      BY <1>2
  <2> QED BY <2>1 DEF Contains
<1>3. ASSUME NEW i \in 1 .. Len(s \o t), (s \o t)[i] = e
      PROVE  Contains(s, e) \/ Contains(t, e)
  <2>1. CASE i <= Len(s)
    <3>1. i \in 1 .. Len(s) /\ s[i] = e
        BY <1>3, <2>1
    <3> QED BY <3>1 DEF Contains
  <2>2. CASE i > Len(s)
    <3>1. i - Len(s) \in 1 .. Len(t) /\ t[i - Len(s)] = e
        BY <1>3, <2>2
    <3> QED BY <3>1 DEF Contains
  <2> QED BY <2>1, <2>2
<1> QED BY <1>1, <1>2, <1>3 DEF Contains

\* What is left of a sequence of events when its head is taken.
LEMMA ContainsTail ==
    ASSUME NEW s \in Seq(Events), s # <<>>, NEW e
    PROVE  Contains(s, e) <=> Head(s) = e \/ Contains(Tail(s), e)
PROOF
<1>1. ASSUME NEW i \in 1 .. Len(s), s[i] = e
      PROVE  Head(s) = e \/ Contains(Tail(s), e)
  <2>1. CASE i = 1
      BY <1>1, <2>1
  <2>2. CASE i # 1
    <3>1. i - 1 \in 1 .. Len(Tail(s)) /\ Tail(s)[i - 1] = e
        BY <1>1, <2>2
    <3> QED BY <3>1 DEF Contains
  <2> QED BY <2>1, <2>2
<1>2. ASSUME NEW i \in 1 .. Len(Tail(s)), Tail(s)[i] = e
      PROVE  Contains(s, e)
  <2>1. i + 1 \in 1 .. Len(s) /\ s[i + 1] = e
      BY <1>2
  <2> QED BY <2>1 DEF Contains
<1>3. ASSUME Head(s) = e PROVE Contains(s, e)
  <2>1. 1 \in 1 .. Len(s) /\ s[1] = e
      BY <1>3
  <2> QED BY <2>1 DEF Contains
<1> QED BY <1>1, <1>2, <1>3 DEF Contains
-----------------------------------------------------------------------------
(***************************************************************************)
(* The configurations.                                                     *)
(***************************************************************************)

\* What a configuration has: layouts, the first of which is the first of those
\* loaded by default.
LEMMA LayoutsOfAConfiguration ==
    ASSUME NEW k \in Configs
    PROVE  /\ k.layouts \in Seq(AllLayouts)
           /\ Len(k.layouts) \in Nat \ {0}
           /\ LayoutsIn(k) \subseteq AllLayouts
PROOF
<1>1. LayoutsIn(k) \subseteq AllLayouts
    BY DEF AllLayouts
<1>2. k.layouts \in Seq(LayoutsIn(k)) /\ k.layouts # <<>>
    BY ConfigsAssumption
<1> HIDE DEF LayoutsIn
<1>3. k.layouts \in Seq(AllLayouts)
    BY <1>1, <1>2
<1> QED BY <1>1, <1>2, <1>3

\* The layouts loaded by default are the first ones of the configuration.
LEMMA DefaultsOfAConfiguration ==
    ASSUME NEW k \in Configs
    PROVE  /\ DefaultLayouts(k) \in Seq(AllLayouts)
           /\ Len(DefaultLayouts(k)) \in Nat \ {0}
           /\ Len(DefaultLayouts(k)) <= Len(k.layouts)
           /\ \A i \in 1 .. Len(DefaultLayouts(k)) : DefaultLayouts(k)[i] = k.layouts[i]
PROOF
<1>1. /\ k.layouts \in Seq(AllLayouts)
      /\ Len(k.layouts) \in Nat \ {0}
    BY LayoutsOfAConfiguration
<1>2. k.loop = NoLooping \/ k.loop \in 2 .. Len(k.layouts)
    BY ConfigsAssumption
<1> QED BY <1>1, <1>2 DEF DefaultLayouts

\* The layout a container has by default.
LEMMA DefaultOfAConfiguration ==
    ASSUME NEW k \in Configs
    PROVE  /\ DefaultLayout(k) \in AllLayouts
           /\ Head(DefaultLayouts(k)) = DefaultLayout(k)
           /\ Contains(DefaultLayouts(k), DefaultLayout(k))
PROOF
<1>1. /\ k.layouts \in Seq(AllLayouts)
      /\ Len(k.layouts) \in Nat \ {0}
    BY LayoutsOfAConfiguration
<1>2. /\ DefaultLayouts(k) \in Seq(AllLayouts)
      /\ Len(DefaultLayouts(k)) \in Nat \ {0}
      /\ \A i \in 1 .. Len(DefaultLayouts(k)) : DefaultLayouts(k)[i] = k.layouts[i]
    BY DefaultsOfAConfiguration
<1>3. DefaultLayout(k) = k.layouts[1] /\ 1 \in 1 .. Len(DefaultLayouts(k))
    BY <1>1, <1>2 DEF DefaultLayout
<1>4. DefaultLayouts(k)[1] = DefaultLayout(k)
    BY <1>2, <1>3
<1> QED BY <1>1, <1>2, <1>3, <1>4 DEF Contains

-----------------------------------------------------------------------------
(***************************************************************************)
(* The X server, and what it tells of its changes.                         *)
(***************************************************************************)
Notices == {"layout", "map"}

\* One event is what it says.
LEMMA SingleEvent ==
    ASSUME NEW e
    PROVE  Contains(<<e>>, e)
PROOF
<1>1. 1 \in 1 .. Len(<<e>>) /\ <<e>>[1] = e
    OBVIOUS
<1> QED BY <1>1 DEF Contains

\* What the X server tells are events for the daemon.
LEMMA NoticesAreEvents ==
    ASSUME NEW s \in Seq(Notices)
    PROVE  s \in Seq(Events)
PROOF
BY DEF Notices, Events

\* The events n tell of the change of the X server from y to z.
Tells(y, z, n) ==
    /\ n \in Seq(Notices)
    /\ y.list # z.list => Contains(n, "map")
    /\ y.group # z.group => Contains(n, "layout")

\* A number taken round a list.
LEMMA Around ==
    ASSUME NEW i \in Nat, NEW n \in Nat \ {0}
    PROVE  /\ i % n \in 0 .. n - 1
           /\ i < n => i % n = i
PROOF OBVIOUS

\* A group outside the list wraps around.
LEMMA LockedStaysInRange ==
    ASSUME NEW y \in Servers, NEW g \in Nat
    PROVE  /\ Locked(y, g) \in Servers
           /\ Locked(y, g).list = y.list
           /\ Locked(y, g).group = g % Len(y.list)
PROOF
<1>1. Len(y.list) \in Nat \ {0}
    BY DEF Servers
<1>2. g % Len(y.list) \in 0 .. Len(y.list) - 1
    BY <1>1, Around
<1> QED BY <1>1, <1>2 DEF Locked, Servers

\* A list that is loaded has the group it had, wrapped around, or the first.
LEMMA LoadedStaysInRange ==
    ASSUME NEW y \in Servers, NEW list \in Seq(AllLayouts), list # <<>>,
           NEW z \in Loaded(y, list)
    PROVE  z \in Servers /\ z.list = list
PROOF
<1>1. Len(list) \in Nat \ {0} /\ y.group \in Nat
    BY DEF Servers
<1>2. y.group % Len(list) \in 0 .. Len(list) - 1
    BY <1>1, Around
<1> QED BY <1>1, <1>2 DEF Loaded, Servers

\* The X server's layout is in its list.
LEMMA CurrentIsALayout ==
    ASSUME NEW y \in Servers
    PROVE  /\ Current(y) \in AllLayouts
           /\ Contains(y.list, Current(y))
PROOF
<1>1. y.group + 1 \in 1 .. Len(y.list) /\ y.list \in Seq(AllLayouts)
    BY DEF Servers
<1> QED BY <1>1 DEF Current, Contains

\* A layout in the list is set, one that is not leaves the server as it is.
LEMMA SetLayoutStaysInRange ==
    ASSUME NEW y \in Servers, NEW l
    PROVE  /\ SetLayout(y, l) \in Servers
           /\ SetLayout(y, l).list = y.list
           /\ Contains(y.list, l) => Current(SetLayout(y, l)) = l
PROOF
<1>1. CASE Contains(y.list, l)
  <2>1. y.list \in Seq(AllLayouts) /\ Len(y.list) \in Nat \ {0}
      BY DEF Servers
  <2>2. FirstPlace(y.list, l) \in 1 .. Len(y.list) /\ y.list[FirstPlace(y.list, l)] = l
      BY <1>1, <2>1, FirstPlaceHolds
  <2>3. PICK g \in Nat : g = FirstPlace(y.list, l) - 1
      BY <2>1, <2>2
  <2>4. SetLayout(y, l) = Locked(y, g)
      BY <1>1, <2>3 DEF SetLayout
  <2>5. /\ Locked(y, g) \in Servers
        /\ Locked(y, g).list = y.list
        /\ Locked(y, g).group = g % Len(y.list)
      BY LockedStaysInRange
  <2>6. PICK n \in Nat \ {0} : n = Len(y.list)
      BY <2>1
  <2>7. g < n
      BY <2>2, <2>3, <2>6
  <2>8. g % n = g
      BY <2>7, Around
  <2>9. g % Len(y.list) = g
      BY <2>6, <2>8
  <2>10. y.list[g + 1] = l
      BY <2>1, <2>2, <2>3
  <2> QED BY <2>4, <2>5, <2>9, <2>10 DEF Current
<1>2. CASE ~Contains(y.list, l)
    BY <1>2 DEF SetLayout
<1> QED BY <1>1, <1>2

\* A changed group is told of.
LEMMA GroupNotices ==
    ASSUME NEW y, NEW z
    PROVE  /\ GroupNotice(y, z) \in Seq(Notices)
           /\ y.group # z.group => Contains(GroupNotice(y, z), "layout")
PROOF
<1>1. CASE y.group = z.group
  <2>1. GroupNotice(y, z) = <<>>
      BY <1>1 DEF GroupNotice
  <2> QED BY <1>1, <2>1
<1>2. CASE y.group # z.group
  <2>1. GroupNotice(y, z) = <<"layout">>
      BY <1>2 DEF GroupNotice
  <2>2. <<"layout">> \in Seq(Notices)
      BY DEF Notices
  <2>3. Contains(<<"layout">>, "layout")
      BY SingleEvent
  <2> QED BY <2>1, <2>2, <2>3
<1> QED BY <1>1, <1>2

\* With the list unchanged, that is all there is to tell.
LEMMA GroupNoticeTells ==
    ASSUME NEW y, NEW z, y.list = z.list
    PROVE  Tells(y, z, GroupNotice(y, z))
PROOF
BY GroupNotices DEF Tells

\* A list that is loaded is told of, and the group as well if it changed.
LEMMA LoadNoticeTells ==
    ASSUME NEW y, NEW z
    PROVE  Tells(y, z, LoadNotice(y, z))
PROOF
<1> DEFINE n == GroupNotice(y, z)
<1>1. n \in Seq(Notices) /\ <<"map">> \in Seq(Notices)
  <2>1. <<"map">> \in Seq(Notices)
      BY DEF Notices
  <2> QED BY <2>1, GroupNotices
<1>2. y.group # z.group => Contains(n, "layout")
    BY GroupNotices
<1>3. Contains(<<"map">>, "map")
    BY SingleEvent
<1>4. n \in Seq(Events) /\ <<"map">> \in Seq(Events)
  <2> HIDE DEF n
  <2>1. n \in Seq(Events)
      BY <1>1, NoticesAreEvents
  <2>2. <<"map">> \in Seq(Events)
      BY <1>1, NoticesAreEvents
  <2> QED BY <2>1, <2>2
<1> HIDE DEF n
<1>5. Contains(<<"map">> \o n, "map")
    BY <1>4, <1>3, ContainsJoined
<1>6. Contains(n, "layout") => Contains(<<"map">> \o n, "layout")
    BY <1>4, ContainsJoined
<1>7. <<"map">> \o n \in Seq(Notices)
    BY <1>1
<1>8. Tells(y, z, <<"map">> \o n)
    BY <1>2, <1>5, <1>6, <1>7 DEF Tells
<1> QED BY <1>8 DEF LoadNotice, n

\* One change after another is told of by the events of both.
LEMMA TellsInTurn ==
    ASSUME NEW y, NEW z, NEW w, NEW m, NEW n, Tells(y, z, m), Tells(z, w, n)
    PROVE  Tells(y, w, m \o n)
PROOF
<1>1. m \in Seq(Notices) /\ n \in Seq(Notices)
    BY DEF Tells
<1>2. m \o n \in Seq(Notices)
    BY <1>1
<1>3. m \in Seq(Events) /\ n \in Seq(Events)
    BY <1>1, NoticesAreEvents
<1>4. \A e : Contains(m, e) \/ Contains(n, e) => Contains(m \o n, e)
    BY <1>3, ContainsJoined
<1> QED BY <1>2, <1>4 DEF Tells

\* The list of a spare layout chosen is one the X server can have.
LEMMA SpareListIsAList ==
    ASSUME NEW k \in Configs, NEW list \in Seq(AllLayouts), list # <<>>, NEW index \in Nat,
           IsSpare(k, index), SpareIndex(k, list, index) < Len(k.layouts)
    PROVE  /\ SpareIndex(k, list, index) \in Nat
           /\ SpareList(k, list, index) \in Seq(AllLayouts)
           /\ Len(SpareList(k, list, index)) = Len(list)
           /\ Last(SpareList(k, list, index)) = k.layouts[SpareIndex(k, list, index) + 1]
PROOF
<1>1. /\ k.layouts \in Seq(AllLayouts)
      /\ Len(k.layouts) \in Nat \ {0}
    BY LayoutsOfAConfiguration
<1>2. index >= 2
    BY ConfigsAssumption DEF IsSpare
<1>3. PICK i \in Nat : i = SpareIndex(k, list, index)
    BY <1>2 DEF SpareIndex
<1>4. k.layouts[i + 1] \in AllLayouts
    BY <1>1, <1>3
<1>5. Front(list) \in Seq(AllLayouts) /\ Len(Front(list)) = Len(list) - 1
  <2>1. Len(list) \in Nat \ {0}
      OBVIOUS
  <2>2. PICK n \in Nat : n = Len(list) - 1
      BY <2>1
  <2>3. n \in 0 .. Len(list)
      BY <2>1, <2>2
  <2>4. SubSeq(list, 1, n) \in Seq(AllLayouts) /\ Len(SubSeq(list, 1, n)) = n
      BY <2>3
  <2> QED BY <2>2, <2>4 DEF Front
<1>6. PICK e \in AllLayouts : e = k.layouts[i + 1]
    BY <1>4
<1>7. SpareList(k, list, index) = Append(Front(list), e)
    BY <1>3, <1>6 DEF SpareList
<1> HIDE DEF Front
<1>8. /\ Append(Front(list), e) \in Seq(AllLayouts)
      /\ Len(Append(Front(list), e)) = Len(list)
      /\ Append(Front(list), e)[Len(list)] = e
    BY <1>5
<1> QED BY <1>3, <1>6, <1>7, <1>8 DEF Last

\* What the X server may be left with when a layout is chosen by its index.
LEMMA SelectedTells ==
    ASSUME NEW k \in Configs, NEW y \in Servers, NEW index \in Nat,
           NEW s \in Selected(k, y, index)
    PROVE  s[1] \in Servers /\ Tells(y, s[1], s[2])
PROOF
<1>1. CASE ~IsSpare(k, index)
  <2>1. s[1] = Locked(y, index) /\ s[2] = GroupNotice(y, s[1])
      BY <1>1 DEF Selected
  <2>2. s[1] \in Servers /\ s[1].list = y.list
      BY <2>1, LockedStaysInRange
  <2> QED BY <2>1, <2>2, GroupNoticeTells
<1>2. CASE IsSpare(k, index)
  <2> DEFINE list == SpareList(k, y.list, index)
             last == Len(list) - 1
  <2>1. SpareIndex(k, y.list, index) < Len(k.layouts)
    <3>1. ~ (SpareIndex(k, y.list, index) >= Len(k.layouts))
        BY <1>2 DEF Selected
    <3>2. SpareIndex(k, y.list, index) \in Int
        BY DEF SpareIndex
    <3>3. Len(k.layouts) \in Nat
        BY LayoutsOfAConfiguration
    <3> QED BY <3>1, <3>2, <3>3
  <2>2. PICK z \in Loaded(y, list) :
            s = <<Locked(z, last), LoadNotice(y, z) \o GroupNotice(z, Locked(z, last))>>
      BY <1>2, <2>1 DEF Selected
  <2>3. y.list \in Seq(AllLayouts) /\ y.list # <<>>
      BY DEF Servers
  <2>4. list \in Seq(AllLayouts) /\ Len(list) = Len(y.list)
      BY <1>2, <2>1, <2>3, SpareListIsAList
  <2>5. list # <<>> /\ last \in Nat
      BY <2>3, <2>4
  <2> HIDE DEF list, last
  <2>6. z \in Servers /\ z.list = list
      BY <2>4, <2>5, LoadedStaysInRange
  <2>7. Locked(z, last) \in Servers /\ Locked(z, last).list = z.list
      BY <2>5, <2>6, LockedStaysInRange
  <2>8. Tells(y, z, LoadNotice(y, z))
      BY LoadNoticeTells
  <2>9. Tells(z, Locked(z, last), GroupNotice(z, Locked(z, last)))
      BY <2>7, GroupNoticeTells
  <2>10. Tells(y, Locked(z, last), LoadNotice(y, z) \o GroupNotice(z, Locked(z, last)))
      BY <2>8, <2>9, TellsInTurn
  <2> QED BY <2>2, <2>7, <2>10
<1> QED BY <1>1, <1>2

\* A list and a layout of it that are set are what the X server then has.
LEMMA ShowShows ==
    ASSUME x \in Servers, NEW list \in Seq(AllLayouts), NEW layout, Contains(list, layout),
           NEW waiting, Show(list, layout, waiting)
    PROVE  /\ x' \in Servers /\ x'.list = list /\ Current(x') = layout
           /\ \E n : events' = waiting \o n /\ Tells(x, x', n)
PROOF
<1>1. list # <<>>
    BY DEF Contains
<1>2. CASE list = x.list
  <2>1. x' = SetLayout(x, layout) /\ events' = waiting \o GroupNotice(x, x')
      BY <1>2 DEF Show
  <2>2. x' \in Servers /\ x'.list = x.list /\ Current(x') = layout
      BY <1>2, <2>1, SetLayoutStaysInRange
  <2>3. Tells(x, x', GroupNotice(x, x'))
      BY <2>2, GroupNoticeTells
  <2> QED BY <1>2, <2>1, <2>2, <2>3
<1>3. CASE list # x.list
  <2>1. PICK y \in Loaded(x, list) :
            /\ x' = SetLayout(y, layout)
            /\ events' = waiting \o (LoadNotice(x, y) \o GroupNotice(y, x'))
      BY <1>3 DEF Show
  <2>2. y \in Servers /\ y.list = list
      BY <1>1, LoadedStaysInRange
  <2>3. x' \in Servers /\ x'.list = y.list /\ Current(x') = layout
      BY <2>1, <2>2, SetLayoutStaysInRange
  <2>4. Tells(x, y, LoadNotice(x, y))
      BY LoadNoticeTells
  <2>5. Tells(y, x', GroupNotice(y, x'))
      BY <2>3, GroupNoticeTells
  <2>6. Tells(x, x', LoadNotice(x, y) \o GroupNotice(y, x'))
      BY <2>4, <2>5, TellsInTurn
  <2> QED BY <2>1, <2>2, <2>3, <2>6
<1> QED BY <1>2, <1>3

-----------------------------------------------------------------------------
(***************************************************************************)
(* The layout memory.                                                      *)
(***************************************************************************)

\* The key of a window and a desktop is one of the map, or the empty one.
LEMMA KeyIsAKey ==
    ASSUME NEW k \in Configs, NEW w \in Windows, NEW d \in Desktops,
           NEW previous \in MapKeys \cup {NoKey}
    PROVE  CurrentMapKey(k, w, d, previous) \in MapKeys \cup {NoKey}
PROOF
<1>1. d \in MapKeys
    BY DEF MapKeys
<1>2. Kind[w] = "normal" => w \in MapKeys /\ Class[w] \in MapKeys
    BY DEF MapKeys, Normal
<1>3. Kind[w] \in {"normal", "desktop", "panel"}
    BY KindAssumption
<1> HIDE DEF MapKeys
<1> QED BY <1>1, <1>2, <1>3 DEF CurrentMapKey

\* What is remembered for the X server's layouts.
LEMMA CurrentLayoutsAreASet ==
    ASSUME x \in Servers
    PROVE  /\ CurrentLayouts \in LayoutSets
           /\ Contains(CurrentLayouts.layouts, CurrentLayouts.current)
PROOF
<1>1. x.list \in Seq(AllLayouts)
    BY DEF Servers
<1>2. Current(x) \in AllLayouts /\ Contains(x.list, Current(x))
    BY CurrentIsALayout
<1> QED BY <1>1, <1>2 DEF CurrentLayouts, LayoutSets

\* The map that is cleared is a map.
LEMMA ForgottenIsMemory == IsMemory(Forgotten)
PROOF
BY DEF IsMemory, Forgotten

\* A map in which the X server's layouts are remembered is one.
LEMMA RememberingIsMemory ==
    ASSUME x \in Servers, IsMemory(layoutMap), NEW key \in MapKeys
    PROVE  IsMemory(Remembering(key, CurrentLayouts))
PROOF
BY CurrentLayoutsAreASet DEF IsMemory, Remembering

\* The file keeps a part of the memory, and the memory restored is part of it.
LEMMA SavedIsMemory ==
    ASSUME NEW k \in Configs, IsMemory(layoutMap),
           file.policy \in {"Desktop", "WinClass"} => IsMemory(file.items)
    PROVE  Saved(k).policy \in {"Desktop", "WinClass"} => IsMemory(Saved(k).items)
PROOF
<1>1. CASE k.policy \in {"Desktop", "WinClass"}
  <2> DEFINE items == [c \in {c \in DOMAIN layoutMap : ~IsDefaultLayoutConfig(k, layoutMap[c])}
                          |-> layoutMap[c]]
  <2>1. Saved(k).items = items
      BY <1>1 DEF Saved, CanPersist
  <2>2. IsMemory(items)
      BY DEF IsMemory
  <2> QED BY <2>1, <2>2
<1>2. CASE k.policy = "Global"
    BY <1>2 DEF Saved, CanPersist
<1>3. CASE k.policy = "Window"
    BY <1>3 DEF Saved, CanPersist
<1> QED BY <1>1, <1>2, <1>3, ConfigsAssumption

\* What is restored from a map in the file is a map.
LEMMA RestoredIsMemory ==
    ASSUME NEW k \in Configs, NEW f, f.policy \in {"Desktop", "WinClass"} => IsMemory(f.items)
    PROVE  IsMemory(RestoredMap(k, f))
PROOF
<1>1. CASE k.policy \in {"Global", "Window"} \/ f.policy # k.policy
    BY <1>1, ForgottenIsMemory DEF RestoredMap
<1>2. CASE ~(k.policy \in {"Global", "Window"} \/ f.policy # k.policy)
  <2>1. IsMemory(f.items)
      BY <1>2, ConfigsAssumption
  <2> QED BY <1>2, <2>1 DEF RestoredMap, IsMemory
<1> QED BY <1>1, <1>2

-----------------------------------------------------------------------------
(***************************************************************************)
(* The inductive invariant, and what every action does to the X server.    *)
(***************************************************************************)

\* The daemon knows the list the X server has, or will be told of it.
Heard == Contains(events, "map") \/ prevLayoutList = x.list

\* Unless the user was faster than the daemon, what waits is one step of the
\* user, or what the X server told of one change.
Prompt ==
    \/ lapsed
    \/ events \in Seq(Notices)
    \/ events \in {<<"window">>, <<"desktop">>}

IInv == TypeOK /\ Heard /\ Prompt

\* The X server changes, or stays as it is, and tells of it after what waits.
ServerActs(waiting) ==
    /\ x' \in Servers
    /\ \E n : events' = waiting \o n /\ Tells(x, x', n)

\* switchToNextLayout and switchToPreviousLayout change the group.
LEMMA ScrollingActs ==
    ASSUME TypeOK, NEW delta \in {1, 0 - 1}, ScrollLayouts(delta)
    PROVE  ServerActs(events) /\ x'.list = x.list
PROOF
<1> DEFINE g == (x.group + Len(x.list) + delta) % Len(x.list)
<1>1. x \in Servers /\ Len(x.list) \in Nat \ {0} /\ x.group \in Nat
    BY DEF TypeOK, Servers
<1>2. x.group + Len(x.list) + delta \in Nat
    BY <1>1
<1>3. g \in Nat
  <2>1. PICK i \in Nat : i = x.group + Len(x.list) + delta
      BY <1>2
  <2>2. PICK n \in Nat \ {0} : n = Len(x.list)
      BY <1>1
  <2>3. i % n \in 0 .. n - 1
      BY Around
  <2> QED BY <2>1, <2>2, <2>3
<1>4. x' = Locked(x, g) /\ events' = events \o GroupNotice(x, x')
    BY DEF ScrollLayouts
<1> HIDE DEF g
<1>5. x' \in Servers /\ x'.list = x.list
    BY <1>1, <1>3, <1>4, LockedStaysInRange
<1>6. Tells(x, x', GroupNotice(x, x'))
    BY <1>5, GroupNoticeTells
<1> QED BY <1>4, <1>5, <1>6 DEF ServerActs

\* setLayout(uint), from the applet or a shortcut.
LEMMA SelectingActs ==
    ASSUME TypeOK, NEW index \in Nat,
           \E s \in Selected(keyboardConfig, x, index) : x' = s[1] /\ events' = events \o s[2]
    PROVE  ServerActs(events)
PROOF
<1>1. keyboardConfig \in Configs /\ x \in Servers
    BY DEF TypeOK
<1>2. PICK s \in Selected(keyboardConfig, x, index) : x' = s[1] /\ events' = events \o s[2]
    OBVIOUS
<1>3. s[1] \in Servers /\ Tells(x, s[1], s[2])
    BY <1>1, SelectedTells
<1> QED BY <1>2, <1>3 DEF ServerActs

\* A list is loaded, the default one or another program's.
LEMMA LoadingActs ==
    ASSUME TypeOK, NEW list \in Seq(AllLayouts), list # <<>>,
           x' \in Loaded(x, list), events' = events \o LoadNotice(x, x')
    PROVE  ServerActs(events)
PROOF
<1>1. x' \in Servers
    BY LoadedStaysInRange DEF TypeOK
<1>2. Tells(x, x', LoadNotice(x, x'))
    BY LoadNoticeTells
<1> QED BY <1>1, <1>2 DEF ServerActs

\* configureKeyboard loads the default list.
LEMMA ConfiguringActs ==
    ASSUME TypeOK, NEW k \in Configs, ConfigureKeyboard(k)
    PROVE  ServerActs(events)
PROOF
<1>1. DefaultLayouts(k) \in Seq(AllLayouts) /\ DefaultLayouts(k) # <<>>
    BY DefaultsOfAConfiguration
<1>2. x' \in Loaded(x, DefaultLayouts(k)) /\ events' = events \o LoadNotice(x, x')
    BY DEF ConfigureKeyboard
<1> QED BY <1>1, <1>2, LoadingActs

\* Another program's list.
LEMMA ForeignListActs ==
    ASSUME TypeOK, NEW list \in Foreign, ForeignList(list)
    PROVE  ServerActs(events)
PROOF
<1>1. list \in Seq(AllLayouts) /\ list # <<>>
  <2>1. {list[i] : i \in 1 .. Len(list)} \subseteq AllLayouts
      BY DEF AllLayouts
  <2>2. list \in Seq({list[i] : i \in 1 .. Len(list)}) /\ list # <<>>
      BY ForeignAssumption
  <2> QED BY <2>1, <2>2
<1>2. x' \in Loaded(x, list) /\ events' = events \o LoadNotice(x, x')
    BY DEF ForeignList
<1> QED BY <1>1, <1>2, LoadingActs

\* Nothing is done, or the layout of a container is shown: the one remembered,
\* or the default one.
LEMMA SettingActs ==
    ASSUME TypeOK, NEW key \in MapKeys \cup {NoKey}, NEW waiting \in Seq(Events),
           SetCurrentLayoutFromMap(key, waiting)
    PROVE  /\ ServerActs(waiting)
           /\ previousLayoutMapKey' \in MapKeys \cup {NoKey}
PROOF
<1>1. x \in Servers /\ IsMemory(layoutMap) /\ keyboardConfig \in Configs
    BY DEF TypeOK
<1>2. previousLayoutMapKey' \in MapKeys \cup {NoKey}
    BY DEF SetCurrentLayoutFromMap, TypeOK
<1>3. CASE key \in DOMAIN layoutMap
  <2>1. /\ layoutMap[key].layouts \in Seq(AllLayouts)
        /\ Contains(layoutMap[key].layouts, layoutMap[key].current)
      BY <1>1, <1>3 DEF IsMemory, LayoutSets
  <2>2. Show(layoutMap[key].layouts, layoutMap[key].current, waiting)
      BY <1>3 DEF SetCurrentLayoutFromMap
  <2>3. x' \in Servers /\ \E n : events' = waiting \o n /\ Tells(x, x', n)
      BY <1>1, <2>1, <2>2, ShowShows
  <2> QED BY <1>2, <2>3 DEF ServerActs
<1>4. CASE key \notin DOMAIN layoutMap /\ (key = NoKey \/ x.group = 0)
  <2>1. x' = x /\ events' = waiting
      BY <1>4 DEF SetCurrentLayoutFromMap
  <2>2. waiting = waiting \o <<>>
      OBVIOUS
  <2>3. Tells(x, x', <<>>)
      BY <2>1 DEF Tells
  <2> QED BY <1>1, <1>2, <2>1, <2>2, <2>3 DEF ServerActs
<1>5. CASE key \notin DOMAIN layoutMap /\ ~(key = NoKey \/ x.group = 0)
  <2>1. /\ DefaultLayouts(keyboardConfig) \in Seq(AllLayouts)
        /\ Contains(DefaultLayouts(keyboardConfig), Head(DefaultLayouts(keyboardConfig)))
      BY <1>1, DefaultsOfAConfiguration, DefaultOfAConfiguration
  <2>2. Show(DefaultLayouts(keyboardConfig), Head(DefaultLayouts(keyboardConfig)), waiting)
      BY <1>5 DEF SetCurrentLayoutFromMap
  <2>3. x' \in Servers /\ \E n : events' = waiting \o n /\ Tells(x, x', n)
      BY <1>1, <2>1, <2>2, ShowShows
  <2> QED BY <1>2, <2>3 DEF ServerActs
<1> QED BY <1>3, <1>4, <1>5

\* The daemon that begins has not handled anything before.
LEMMA BeginningActs ==
    ASSUME TypeOK, Begin
    PROVE  x' \in Servers /\ Tells(x, x', events')
PROOF
<1>1. x \in Servers /\ keyboardConfig \in Configs
    BY DEF TypeOK
<1>2. DefaultLayouts(keyboardConfig) \in Seq(AllLayouts) /\ DefaultLayouts(keyboardConfig) # <<>>
    BY <1>1, DefaultsOfAConfiguration
<1> DEFINE layout == RestoredGlobalLayout(keyboardConfig, file')
<1>3. PICK y \in Loaded(x, DefaultLayouts(keyboardConfig)) :
          /\ x' = SetLayout(y, layout)
          /\ events' = LoadNotice(x, y) \o GroupNotice(y, x')
    BY DEF Begin
<1> HIDE DEF layout
<1>4. y \in Servers
    BY <1>1, <1>2, LoadedStaysInRange
<1>5. x' \in Servers /\ x'.list = y.list
    BY <1>3, <1>4, SetLayoutStaysInRange
<1>6. Tells(x, y, LoadNotice(x, y))
    BY LoadNoticeTells
<1>7. Tells(y, x', GroupNotice(y, x'))
    BY <1>5, GroupNoticeTells
<1>8. Tells(x, x', LoadNotice(x, y) \o GroupNotice(y, x'))
    BY <1>6, <1>7, TellsInTurn
<1> QED BY <1>3, <1>5, <1>8

\* What was to be told still is, and the change is told of.
LEMMA HeardWhenItActs ==
    ASSUME NEW waiting \in Seq(Events), ServerActs(waiting), UNCHANGED prevLayoutList,
           Contains(waiting, "map") \/ prevLayoutList = x.list
    PROVE  events' \in Seq(Events) /\ Heard'
PROOF
<1>1. PICK n : events' = waiting \o n /\ Tells(x, x', n)
    BY DEF ServerActs
<1>2. n \in Seq(Events)
    BY <1>1, NoticesAreEvents DEF Tells
<1>3. waiting \o n \in Seq(Events)
    BY <1>2
<1>4. Contains(waiting, "map") \/ Contains(n, "map") => Contains(waiting \o n, "map")
    BY <1>2, ContainsJoined
<1>5. Contains(n, "map") \/ x'.list = x.list
    BY <1>1 DEF Tells
<1> QED BY <1>1, <1>3, <1>4, <1>5 DEF Heard

\* Each step of the user or of another program on the X server.
LEMMA InvWhenTheUserActs ==
    ASSUME IInv, ServerActs(events), keyboardConfig' \in Configs,
           UNCHANGED <<userVars, seenVars, memoryVars, file>>,
           lapsed' \in BOOLEAN, lapsed' \/ events = <<>>
    PROVE  IInv'
PROOF
<1>1. events \in Seq(Events) /\ (Contains(events, "map") \/ prevLayoutList = x.list)
    BY DEF IInv, TypeOK, Heard, Events
<1>2. events' \in Seq(Events) /\ Heard'
    BY <1>1, HeardWhenItActs DEF memoryVars
<1>3. TypeOK'
    BY <1>2 DEF IInv, TypeOK, IsMemory, ServerActs, userVars, seenVars, memoryVars, Events
<1>4. ASSUME events = <<>> PROVE events' \in Seq(Notices)
  <2>1. PICK n : events' = <<>> \o n /\ n \in Seq(Notices)
      BY <1>4 DEF ServerActs, Tells
  <2>2. <<>> \o n = n
      BY <2>1
  <2> QED BY <2>1, <2>2
<1>5. Prompt'
    BY <1>4 DEF Prompt
<1> QED BY <1>2, <1>3, <1>5 DEF IInv

\* A window, or a desktop, the user goes to.
LEMMA InvWhenTheUserGoes ==
    ASSUME IInv, NEW e \in {"window", "desktop"}, events' = Append(events, e),
           window' \in Windows, desktop' \in Desktops,
           lapsed' = (lapsed \/ events # <<>>),
           UNCHANGED <<keyboardConfig, x, seenVars, memoryVars, file>>
    PROVE  IInv'
PROOF
<1>1. events \in Seq(Events) /\ lapsed \in BOOLEAN
    BY DEF IInv, TypeOK, Events
<1>2. e \in Events
    BY DEF Events
<1>3. events' \in Seq(Events)
    BY <1>1, <1>2
<1>4. Contains(events, "map") => Contains(events', "map")
  <2>1. SUFFICES ASSUME NEW i \in 1 .. Len(events), events[i] = "map"
                 PROVE  Contains(events', "map")
      BY DEF Contains
  <2>2. i \in 1 .. Len(events') /\ events'[i] = "map"
      BY <1>1, <1>2, <2>1
  <2> QED BY <2>2 DEF Contains
<1>5. TypeOK'
    BY <1>1, <1>3 DEF IInv, TypeOK, IsMemory, seenVars, memoryVars, Events
<1>6. Heard'
    BY <1>4 DEF IInv, Heard, memoryVars
<1>7. events = <<>> => events' = <<e>>
    BY <1>1
<1>8. Prompt'
    BY <1>1, <1>7 DEF Prompt
<1> QED BY <1>5, <1>6, <1>8 DEF IInv

\* What waits once an event was handled.
LEMMA TailOfEvents ==
    ASSUME IInv, events # <<>>
    PROVE  /\ Tail(events) \in Seq(Events)
           /\ \A e : Contains(events, e) <=> Head(events) = e \/ Contains(Tail(events), e)
PROOF
<1>1. events \in Seq(Events)
    BY DEF IInv, TypeOK, Events
<1>2. Tail(events) \in Seq(Events)
    BY <1>1
<1>3. \A e : Contains(events, e) <=> Head(events) = e \/ Contains(Tail(events), e)
    BY <1>1, ContainsTail
<1> QED BY <1>2, <1>3

\* Nothing waits behind what tells of the user, and only what the X server told
\* behind what it told, unless the user was faster than the daemon.
LEMMA TailWhenPrompt ==
    ASSUME IInv, events # <<>>, ~lapsed
    PROVE  /\ Head(events) \in {"window", "desktop"} => events = <<Head(events)>>
           /\ Head(events) \in {"layout", "map"} => Tail(events) \in Seq(Notices)
PROOF
<1>1. CASE events \in Seq(Notices)
  <2>1. Head(events) \in Notices /\ Tail(events) \in Seq(Notices)
      BY <1>1
  <2> QED BY <2>1 DEF Notices
<1>2. CASE events \in {<<"window">>, <<"desktop">>}
  <2>1. events = <<Head(events)>> /\ Head(events) \notin {"layout", "map"}
      BY <1>2
  <2> QED BY <2>1
<1> QED BY <1>1, <1>2 DEF IInv, Prompt

\* The daemon follows the user: it sets a layout, or there is nothing to do.
LEMMA InvWhenTheDaemonFollows ==
    ASSUME IInv, events # <<>>, Head(events) \in {"window", "desktop"},
           ServerActs(Tail(events)), CaughtUp,
           seenWindow' \in Windows, seenDesktop' \in Desktops,
           previousLayoutMapKey' \in MapKeys \cup {NoKey},
           UNCHANGED <<keyboardConfig, userVars, layoutMap, prevLayoutList, file>>
    PROVE  IInv'
PROOF
<1>1. /\ Tail(events) \in Seq(Events)
      /\ Contains(Tail(events), "map") \/ prevLayoutList = x.list
  <2>1. Contains(events, "map") <=> Head(events) = "map" \/ Contains(Tail(events), "map")
      BY TailOfEvents
  <2>2. Tail(events) \in Seq(Events)
      BY TailOfEvents
  <2> QED BY <2>1, <2>2 DEF IInv, Heard
<1>2. events' \in Seq(Events) /\ Heard'
    BY <1>1, HeardWhenItActs
<1>3. lapsed' \in BOOLEAN
    BY DEF CaughtUp, IInv, TypeOK
<1>4. TypeOK'
    BY <1>2, <1>3 DEF IInv, TypeOK, IsMemory, ServerActs, userVars, Events
<1>5. ASSUME ~lapsed PROVE events' \in Seq(Notices)
  <2>1. events = <<Head(events)>>
      BY <1>5, TailWhenPrompt
  <2>2. Tail(events) = <<>>
    <3>1. PICK e : events = <<e>>
        BY <2>1
    <3>2. Tail(<<e>>) = <<>>
        OBVIOUS
    <3> QED BY <3>1, <3>2
  <2>3. PICK n : events' = <<>> \o n /\ n \in Seq(Notices)
      BY <2>2 DEF ServerActs, Tells
  <2>4. <<>> \o n = n
      BY <2>3
  <2> QED BY <2>3, <2>4
<1>6. Prompt'
  <2>1. <<>> \in Seq(Notices)
      OBVIOUS
  <2>2. lapsed \in BOOLEAN
      BY DEF IInv, TypeOK
  <2> QED BY <1>5, <2>1, <2>2 DEF Prompt, CaughtUp
<1> QED BY <1>2, <1>4, <1>6 DEF IInv

\* The daemon hears of a layout, or of a list, and remembers.
LEMMA InvWhenTheDaemonHears ==
    ASSUME IInv, events # <<>>, Head(events) \in {"layout", "map"},
           events' = Tail(events), CaughtUp, IsMemory(layoutMap'),
           \/ UNCHANGED prevLayoutList /\ Head(events) = "layout"
           \/ prevLayoutList' = x.list,
           UNCHANGED <<keyboardConfig, x, userVars, seenVars, previousLayoutMapKey, file>>
    PROVE  IInv'
PROOF
<1>1. Tail(events) \in Seq(Events)
    BY TailOfEvents
<1>2. lapsed \in BOOLEAN /\ prevLayoutList' \in Seq(AllLayouts)
    BY DEF IInv, TypeOK, Servers
<1>3. TypeOK'
    BY <1>1, <1>2 DEF IInv, TypeOK, IsMemory, CaughtUp, userVars, seenVars, Events
<1>4. Heard'
  <2>1. Contains(events, "map") <=> Head(events) = "map" \/ Contains(Tail(events), "map")
      BY TailOfEvents
  <2>2. Contains(events, "map") \/ prevLayoutList = x.list
      BY DEF IInv, Heard
  <2>3. CASE prevLayoutList' = x.list
      BY <2>3 DEF Heard
  <2>4. CASE UNCHANGED prevLayoutList /\ Head(events) = "layout"
    <3>1. Contains(Tail(events), "map") \/ prevLayoutList' = x'.list
        BY <2>1, <2>2, <2>4
    <3> QED BY <3>1 DEF Heard
  <2> QED BY <2>3, <2>4
<1>5. Prompt'
  <2>1. ~lapsed => Tail(events) \in Seq(Notices)
      BY TailWhenPrompt
  <2>2. <<>> \in Seq(Notices)
      OBVIOUS
  <2>3. lapsed' \/ ~lapsed \/ events' = <<>>
      BY <1>2 DEF CaughtUp
  <2> QED BY <2>1, <2>2, <2>3 DEF Prompt
<1> QED BY <1>3, <1>4, <1>5 DEF IInv

\* Remembering the X server's layouts for the current key keeps the map in range.
LEMMA RememberedIsMemory ==
    ASSUME TypeOK, LayoutChanged
    PROVE  IsMemory(layoutMap')
PROOF
<1>1. Key \in MapKeys \cup {NoKey}
    BY KeyIsAKey DEF TypeOK, Key
<1>2. CASE Key = NoKey
    BY <1>2 DEF TypeOK, LayoutChanged
<1>3. CASE Key # NoKey
  <2>1. layoutMap' = Remembering(Key, CurrentLayouts)
      BY <1>3 DEF LayoutChanged
  <2>2. Key \in MapKeys
      BY <1>1, <1>3
  <2>3. IsMemory(Remembering(Key, CurrentLayouts))
      BY <2>2, RememberingIsMemory DEF TypeOK
  <2> QED BY <2>1, <2>3
<1> QED BY <1>2, <1>3

\* The daemon begins again with a file it can read.
LEMMA InvWhenTheDaemonBegins ==
    ASSUME IInv, Begin, file'.policy \in {"Desktop", "WinClass"} => IsMemory(file'.items)
    PROVE  IInv'
PROOF
<1>1. x' \in Servers /\ Tells(x, x', events')
    BY BeginningActs DEF IInv
<1>2. events' \in Seq(Notices) /\ events' \in Seq(Events)
    BY <1>1, NoticesAreEvents DEF Tells
<1>3. keyboardConfig \in Configs
    BY DEF IInv, TypeOK
<1>4. IsMemory(layoutMap')
    BY <1>3, RestoredIsMemory DEF Begin
<1>5. prevLayoutList' \in Seq(AllLayouts) /\ lapsed' \in BOOLEAN
    BY DEF Begin, IInv, TypeOK, Servers
<1>6. TypeOK'
    BY <1>1, <1>2, <1>4, <1>5 DEF IInv, TypeOK, IsMemory, Begin, userVars, Events
<1>7. Heard'
    BY <1>1 DEF Heard, Tells, Begin
<1>8. Prompt'
    BY <1>2 DEF Prompt
<1> QED BY <1>6, <1>7, <1>8 DEF IInv

\* The session begins so.
LEMMA InitInv == Init => IInv
PROOF
<1> SUFFICES ASSUME Init PROVE IInv
    OBVIOUS
<1>1. keyboardConfig \in Configs
    BY DEF Init
<1>2. /\ DefaultLayouts(keyboardConfig) \in Seq(AllLayouts)
      /\ Len(DefaultLayouts(keyboardConfig)) \in Nat \ {0}
    BY <1>1, DefaultsOfAConfiguration
<1>3. x \in Servers /\ prevLayoutList = x.list /\ prevLayoutList \in Seq(AllLayouts)
    BY <1>2 DEF Init, Servers
<1>4. TypeOK
  <2>1. IsMemory(layoutMap)
      BY ForgottenIsMemory DEF Init
  <2>2. file.policy \notin {"Desktop", "WinClass"}
      BY DEF Init, NoFile
  <2>3. events = <<>> /\ lapsed = FALSE
      BY DEF Init
  <2>4. <<>> \in Seq({"layout", "map", "window", "desktop"})
      OBVIOUS
  <2>5. /\ window \in Windows /\ seenWindow \in Windows
        /\ desktop \in Desktops /\ seenDesktop \in Desktops
        /\ previousLayoutMapKey \in MapKeys \cup {NoKey}
      BY DEF Init
  <2> QED BY <1>1, <1>3, <2>1, <2>2, <2>3, <2>5, <2>4 DEF TypeOK
<1>5. Heard
    BY <1>3 DEF Heard
<1>6. Prompt
    BY DEF Init, Prompt
<1> QED BY <1>4, <1>5, <1>6 DEF IInv

\* Each action keeps the invariant.
LEMMA NextInv == IInv /\ [Next]_vars => IInv'
PROOF
<1> SUFFICES ASSUME IInv, [Next]_vars PROVE IInv'
    OBVIOUS
<1> USE DEF IInv
<1>1. ASSUME NEW w \in Windows, GoToWindow(w) PROVE IInv'
  <2>1. /\ events' = Append(events, "window") /\ "window" \in {"window", "desktop"}
        /\ window' \in Windows /\ desktop' \in Desktops
        /\ lapsed' = (lapsed \/ events # <<>>)
        /\ UNCHANGED <<keyboardConfig, x, seenVars, memoryVars, file>>
      BY <1>1 DEF GoToWindow, Acts, TypeOK
  <2> QED BY <2>1, InvWhenTheUserGoes
<1>2. ASSUME NEW d \in Desktops, GoToDesktop(d) PROVE IInv'
  <2>1. /\ events' = Append(events, "desktop") /\ "desktop" \in {"window", "desktop"}
        /\ window' \in Windows /\ desktop' \in Desktops
        /\ lapsed' = (lapsed \/ events # <<>>)
        /\ UNCHANGED <<keyboardConfig, x, seenVars, memoryVars, file>>
      BY <1>2 DEF GoToDesktop, Acts, TypeOK
  <2> QED BY <2>1, InvWhenTheUserGoes
<1>3. ASSUME NEW delta \in {1, 0 - 1}, ScrollLayouts(delta) PROVE IInv'
  <2>1. ServerActs(events)
      BY <1>3, ScrollingActs
  <2>2. /\ keyboardConfig' \in Configs
        /\ UNCHANGED <<userVars, seenVars, memoryVars, file>>
        /\ lapsed' \in BOOLEAN /\ (lapsed' \/ events = <<>>)
      BY <1>3 DEF ScrollLayouts, Acts, TypeOK
  <2> QED BY <2>1, <2>2, InvWhenTheUserActs
<1>4. ASSUME NEW index \in Nat, Acts,
             \E s \in Selected(keyboardConfig, x, index) : x' = s[1] /\ events' = events \o s[2],
             UNCHANGED <<keyboardConfig, userVars, seenVars, memoryVars, file>>
      PROVE  IInv'
  <2>1. ServerActs(events)
      BY <1>4, SelectingActs
  <2>2. /\ keyboardConfig' \in Configs
        /\ lapsed' \in BOOLEAN /\ (lapsed' \/ events = <<>>)
      BY <1>4 DEF Acts, TypeOK
  <2> QED BY <1>4, <2>1, <2>2, InvWhenTheUserActs
<1>5. ASSUME NEW i \in 0 .. Len(LayoutsList(keyboardConfig, x.list)) - 1, SetLayoutFromApplet(i)
      PROVE  IInv'
  <2>1. i \in Nat
      OBVIOUS
  <2>2. /\ Acts
        /\ \E s \in Selected(keyboardConfig, x, i) : x' = s[1] /\ events' = events \o s[2]
        /\ UNCHANGED <<keyboardConfig, userVars, seenVars, memoryVars, file>>
      BY <1>5 DEF SetLayoutFromApplet
  <2> QED BY <1>4, <2>1, <2>2
<1>6. ASSUME NEW i \in 0 .. Len(keyboardConfig.layouts) - 1, SetLayoutFromShortcut(i)
      PROVE  IInv'
  <2>1. i \in Nat
      OBVIOUS
  <2>2. /\ Acts
        /\ \E s \in Selected(keyboardConfig, x, i) : x' = s[1] /\ events' = events \o s[2]
        /\ UNCHANGED <<keyboardConfig, userVars, seenVars, memoryVars, file>>
      BY <1>6 DEF SetLayoutFromShortcut
  <2> QED BY <1>4, <2>1, <2>2
<1>7. ASSUME NEW k \in Configs, ConfigureKeyboard(k),
             lapsed' \in BOOLEAN, lapsed' \/ events = <<>>
      PROVE  IInv'
  <2>1. ServerActs(events)
      BY <1>7, ConfiguringActs
  <2>2. /\ keyboardConfig' \in Configs
        /\ UNCHANGED <<userVars, seenVars, memoryVars, file>>
      BY <1>7 DEF ConfigureKeyboard
  <2> QED BY <1>7, <2>1, <2>2, InvWhenTheUserActs
<1>8. ASSUME NewKeyboardDevice PROVE IInv'
  <2>1. /\ keyboardConfig \in Configs /\ ConfigureKeyboard(keyboardConfig)
        /\ lapsed' \in BOOLEAN /\ (lapsed' \/ events = <<>>)
      BY <1>8 DEF NewKeyboardDevice, TypeOK
  <2> QED BY <1>7, <2>1
<1>9. ASSUME NEW k \in Configs, ReloadConfig(k) PROVE IInv'
  <2>1. ConfigureKeyboard(k) /\ lapsed' = TRUE
      BY <1>9 DEF ReloadConfig
  <2> QED BY <1>7, <2>1
<1>10. ASSUME NEW list \in Foreign, ForeignList(list) PROVE IInv'
  <2>1. ServerActs(events)
      BY <1>10, ForeignListActs
  <2>2. /\ keyboardConfig' \in Configs /\ lapsed' = TRUE
        /\ UNCHANGED <<userVars, seenVars, memoryVars, file>>
      BY <1>10 DEF ForeignList, TypeOK
  <2> QED BY <2>1, <2>2, InvWhenTheUserActs
<1>11. CASE LayoutSlot
  <2>1. IsMemory(layoutMap')
      BY <1>11, RememberedIsMemory DEF LayoutSlot
  <2>2. /\ events # <<>> /\ Head(events) = "layout" /\ events' = Tail(events) /\ CaughtUp
        /\ UNCHANGED <<keyboardConfig, x, userVars, seenVars, previousLayoutMapKey, file>>
        /\ UNCHANGED prevLayoutList
      BY <1>11 DEF LayoutSlot, Handle
  <2> QED BY <2>1, <2>2, InvWhenTheDaemonHears
<1>12. CASE LayoutMapSlot
  <2>1. IsMemory(layoutMap')
      BY <1>12, RememberedIsMemory, ForgottenIsMemory DEF LayoutMapSlot, LayoutMapChanged, TypeOK
  <2>2. /\ events # <<>> /\ Head(events) = "map" /\ events' = Tail(events) /\ CaughtUp
        /\ UNCHANGED <<keyboardConfig, x, userVars, seenVars, previousLayoutMapKey, file>>
        /\ prevLayoutList' = x.list
      BY <1>12 DEF LayoutMapSlot, LayoutMapChanged, Handle
  <2> QED BY <2>1, <2>2, InvWhenTheDaemonHears
<1>13. ASSUME events # <<>>, Head(events) \in {"window", "desktop"}, CaughtUp,
              seenWindow' \in Windows, seenDesktop' \in Desktops,
              UNCHANGED <<keyboardConfig, userVars, layoutMap, prevLayoutList, file>>,
              \/ \E key \in MapKeys \cup {NoKey} : SetCurrentLayoutFromMap(key, Tail(events))
              \/ UNCHANGED <<x, previousLayoutMapKey>> /\ events' = Tail(events)
       PROVE  IInv'
  <2>1. Tail(events) \in Seq(Events)
      BY <1>13, TailOfEvents
  <2>2. ServerActs(Tail(events)) /\ previousLayoutMapKey' \in MapKeys \cup {NoKey}
    <3>1. CASE \E key \in MapKeys \cup {NoKey} : SetCurrentLayoutFromMap(key, Tail(events))
        BY <2>1, <3>1, SettingActs
    <3>2. CASE UNCHANGED <<x, previousLayoutMapKey>> /\ events' = Tail(events)
      <4>1. Tail(events) = Tail(events) \o <<>>
          BY <2>1
      <4>2. Tells(x, x', <<>>)
          BY <3>2 DEF Tells
      <4> QED BY <3>2, <4>1, <4>2 DEF ServerActs, TypeOK
    <3> QED BY <1>13, <3>1, <3>2
  <2> QED BY <1>13, <2>2, InvWhenTheDaemonFollows
<1>14. CASE WindowSlot
  <2> DEFINE key == CurrentMapKey(keyboardConfig, window, seenDesktop, previousLayoutMapKey)
  <2>1. key \in MapKeys \cup {NoKey}
      BY KeyIsAKey DEF TypeOK
  <2>2. /\ events # <<>> /\ Head(events) \in {"window", "desktop"} /\ CaughtUp
        /\ seenWindow' \in Windows /\ seenDesktop' \in Desktops
        /\ UNCHANGED <<keyboardConfig, userVars, layoutMap, prevLayoutList, file>>
      BY <1>14 DEF WindowSlot, Handle, TypeOK
  <2>3. \/ SetCurrentLayoutFromMap(key, Tail(events))
        \/ UNCHANGED <<x, previousLayoutMapKey>> /\ events' = Tail(events)
      BY <1>14 DEF WindowSlot
  <2> HIDE DEF key
  <2> QED BY <1>13, <2>1, <2>2, <2>3
<1>15. CASE DesktopSlot
  <2>1. desktop \in MapKeys \cup {NoKey}
      BY DEF TypeOK, MapKeys
  <2>2. /\ events # <<>> /\ Head(events) \in {"window", "desktop"} /\ CaughtUp
        /\ seenWindow' \in Windows /\ seenDesktop' \in Desktops
        /\ UNCHANGED <<keyboardConfig, userVars, layoutMap, prevLayoutList, file>>
      BY <1>15 DEF DesktopSlot, Handle, TypeOK
  <2>3. \/ SetCurrentLayoutFromMap(desktop, Tail(events))
        \/ UNCHANGED <<x, previousLayoutMapKey>> /\ events' = Tail(events)
      BY <1>15 DEF DesktopSlot
  <2> QED BY <1>13, <2>1, <2>2, <2>3
<1>16. CASE Restart
  <2>1. file'.policy \in {"Desktop", "WinClass"} => IsMemory(file'.items)
      BY <1>16, SavedIsMemory DEF Restart, TypeOK
  <2> QED BY <1>16, <2>1, InvWhenTheDaemonBegins DEF Restart
<1>17. CASE Crash
    BY <1>17, InvWhenTheDaemonBegins DEF Crash, TypeOK
<1>18. CASE UNCHANGED vars
    BY <1>18 DEF vars, userVars, seenVars, memoryVars, TypeOK, IsMemory, Heard, Prompt
<1> QED
    BY <1>1, <1>2, <1>3, <1>5, <1>6, <1>8, <1>9, <1>10, <1>11, <1>12, <1>14, <1>15, <1>16, <1>17, <1>18
    DEF Next, SwitchToNextLayout, SwitchToPreviousLayout

\* The variables stay in range, and whatever is remembered, or kept in the file,
\* is a list with its current layout in it, for every configuration, list of
\* another program, and interleaving of the user with the daemon.
THEOREM KeyboardTypeCorrect == Spec => []TypeOK
PROOF
<1>1. IInv => TypeOK
    BY DEF IInv
<1> QED BY <1>1, InitInv, NextInv, PTL DEF Spec

-----------------------------------------------------------------------------
(***************************************************************************)
(* The end of a session.                                                   *)
(***************************************************************************)

\* What is saved and restored leaves every container its layout, if all the
\* lists remembered are of configured layouts: an entry that is left out of the
\* file is one of the default layout, and none is refused.
LEMMA RestoringWhatWasSaved ==
    ASSUME keyboardConfig.policy \in {"Desktop", "WinClass"}, ~Unconfigured, NEW c
    PROVE  CurrentOf(RestoredMap(keyboardConfig, Saved(keyboardConfig)), c) = CurrentOf(layoutMap, c)
PROOF
<1> DEFINE k == keyboardConfig
           kept == {d \in DOMAIN layoutMap : ~IsDefaultLayoutConfig(k, layoutMap[d])}
           items == [d \in kept |-> layoutMap[d]]
           restored == RestoredMap(k, Saved(k))
<1>1. Saved(k) = [policy |-> k.policy, items |-> items]
    BY DEF Saved, CanPersist
<1>2. ASSUME NEW d \in kept PROVE \A i \in 1 .. Len(items[d].layouts) : items[d].layouts[i] \in LayoutsIn(k)
  <2>1. IsExtraSubset(k.layouts, layoutMap[d].layouts)
      BY DEF Unconfigured
  <2>2. \A i \in 1 .. Len(layoutMap[d].layouts) : Contains(k.layouts, layoutMap[d].layouts[i])
      BY <2>1 DEF IsExtraSubset
  <2> QED BY <2>2 DEF Contains, LayoutsIn
<1>3. DOMAIN items = kept /\ \A d \in kept : items[d] = layoutMap[d]
    OBVIOUS
<1> HIDE DEF items
<1>4. restored = [d \in {d \in DOMAIN items :
                           \A i \in 1 .. Len(items[d].layouts) : items[d].layouts[i] \in LayoutsIn(k)}
                      |-> items[d]]
  <2>1. ~(k.policy \in {"Global", "Window"} \/ Saved(k).policy # k.policy)
      BY <1>1
  <2>2. Saved(k).items = items
      BY <1>1
  <2> QED BY <2>1, <2>2 DEF RestoredMap
<1> HIDE DEF kept
<1>5. {d \in DOMAIN items : \A i \in 1 .. Len(items[d].layouts) : items[d].layouts[i] \in LayoutsIn(k)} = kept
    BY <1>2, <1>3
<1>6. DOMAIN restored = kept /\ \A d \in kept : restored[d] = layoutMap[d]
    BY <1>3, <1>4, <1>5
<1> HIDE DEF restored
<1>7. \A m : CurrentOf(m, c) = IF c \in DOMAIN m THEN m[c].current ELSE DefaultLayout(k)
    BY DEF CurrentOf
<1>8. kept \subseteq DOMAIN layoutMap
    BY DEF kept
<1>9. \A d \in DOMAIN layoutMap \ kept : layoutMap[d].current = DefaultLayout(k)
    BY DEF kept, IsDefaultLayoutConfig
<1> HIDE DEF k
<1>10. CurrentOf(restored, c) = CurrentOf(layoutMap, c)
    BY <1>6, <1>7, <1>8, <1>9
<1> QED BY <1>10 DEF restored, k

\* A daemon that is stopped and started again gives every application or desktop
\* but the current one the layout it had, whatever is configured, remembered or
\* loaded: the destructor's file and the constructor's reading of it agree.
THEOREM StoppedAndStartedAgain == Spec => QuitKeepsLayouts
PROOF
<1>1. ASSUME Restart, ~Unconfigured, keyboardConfig.policy \in {"Desktop", "WinClass"},
             NEW c \in MapKeys \ {Key'}
      PROVE  CurrentOf(layoutMap, c)' = CurrentOf(layoutMap, c)
  <2>1. /\ layoutMap' = RestoredMap(keyboardConfig, Saved(keyboardConfig))
        /\ keyboardConfig' = keyboardConfig
      BY <1>1 DEF Restart, Begin
  <2>2. CurrentOf(layoutMap, c)' = CurrentOf(layoutMap', c)
      BY <2>1 DEF CurrentOf
  <2>3. CurrentOf(RestoredMap(keyboardConfig, Saved(keyboardConfig)), c) = CurrentOf(layoutMap, c)
      BY <1>1, RestoringWhatWasSaved
  <2> QED BY <2>1, <2>2, <2>3
<1>2. [Next]_vars =>
          [Restart /\ events = <<>> /\ ~Unconfigured /\ keyboardConfig.policy \in {"Desktop", "WinClass"}
           => \A c \in MapKeys \ {Key'} : CurrentOf(layoutMap, c)' = CurrentOf(layoutMap, c)]_vars
    BY <1>1
<1> QED BY <1>2, PTL DEF Spec, QuitKeepsLayouts

-----------------------------------------------------------------------------
(***************************************************************************)
(* The applet.                                                             *)
(***************************************************************************)

\* The length of two lists joined.
LEMMA LengthJoined ==
    ASSUME NEW s \in Seq(AllLayouts), NEW t \in Seq(AllLayouts)
    PROVE  Len(s \o t) = Len(s) + Len(t)
PROOF OBVIOUS

\* A sequence without the first, here the only, occurrence of an element.
LEMMA WithoutTheOnlyOne ==
    ASSUME NEW s \in Seq(AllLayouts), NEW q \in 1 .. Len(s), NEW e, s[q] = e,
           \A i \in 1 .. Len(s) : s[i] = e => i = q
    PROVE  /\ RemoveFirst(s, e) \in Seq(AllLayouts)
           /\ Len(RemoveFirst(s, e)) = Len(s) - 1
           /\ \A j \in 1 .. Len(s) - 1 :
                  /\ j < q => RemoveFirst(s, e)[j] = s[j]
                  /\ j >= q => RemoveFirst(s, e)[j] = s[j + 1]
PROOF
<1> DEFINE before == SubSeq(s, 1, q - 1)
           after == SubSeq(s, q + 1, Len(s))
<1>1. FirstPlace(s, e) = q
  <2>1. Contains(s, e)
      BY DEF Contains
  <2>2. FirstPlace(s, e) \in 1 .. Len(s) /\ s[FirstPlace(s, e)] = e
      BY <2>1, FirstPlaceHolds
  <2> QED BY <2>2
<1>2. RemoveFirst(s, e) = before \o after
    BY <1>1 DEF RemoveFirst, RemoveAt, FirstPlace
<1>3. PICK m \in Nat : m = q - 1
    OBVIOUS
<1>4. PICK n \in Nat : n = Len(s)
    OBVIOUS
<1>5. /\ before \in Seq(AllLayouts) /\ Len(before) = m
      /\ \A j \in 1 .. m : before[j] = s[j]
    BY <1>3, <1>4
<1>6. /\ after \in Seq(AllLayouts) /\ Len(after) = n - q
      /\ \A j \in 1 .. n - q : after[j] = s[q + j]
    BY <1>4
<1> HIDE DEF before, after
<1>7. /\ before \o after \in Seq(AllLayouts)
      /\ Len(before \o after) = Len(s) - 1
  <2>1. before \o after \in Seq(AllLayouts)
      BY <1>5, <1>6
  <2>2. Len(before \o after) = Len(before) + Len(after)
      BY <1>5, <1>6, LengthJoined
  <2>3. m + (n - q) = Len(s) - 1
      BY <1>3, <1>4
  <2> QED BY <1>5, <1>6, <2>1, <2>2, <2>3
<1>8. ASSUME NEW j \in 1 .. Len(s) - 1, j < q PROVE (before \o after)[j] = s[j]
    BY <1>3, <1>4, <1>5, <1>6, <1>8
<1>9. ASSUME NEW j \in 1 .. Len(s) - 1, j >= q PROVE (before \o after)[j] = s[j + 1]
  <2>1. PICK i \in 1 .. n - q : j = m + i
    <3>1. j - m \in 1 .. n - q /\ j = m + (j - m)
        BY <1>3, <1>4, <1>9
    <3> QED BY <3>1
  <2>2. (before \o after)[m + i] = after[i]
      BY <1>5, <1>6
  <2>3. after[i] = s[q + i]
      BY <1>6
  <2>4. q + i = j + 1
      BY <1>3, <2>1
  <2> QED BY <2>1, <2>2, <2>3, <2>4
<1> QED BY <1>2, <1>7, <1>8, <1>9

\* The last place of what is in a list once.
LEMMA LastOfTheOnlyOne ==
    ASSUME NEW s \in Seq(AllLayouts), NEW q \in 1 .. Len(s), NEW e, s[q] = e,
           \A i \in 1 .. Len(s) : s[i] = e => i = q
    PROVE  LastIndexOf(s, e) = q - 1
PROOF
<1> DEFINE P == {i \in 1 .. Len(s) : s[i] = e}
<1>1. P = {q}
    OBVIOUS
<1>2. LastIndexOf(s, e) = (CHOOSE n \in P : \A i \in P : n >= i) - 1
    BY <1>1 DEF LastIndexOf, SelectLastInSeq, Max
<1> HIDE DEF P
<1>3. (CHOOSE n \in P : \A i \in P : n >= i) = q
    BY <1>1
<1> QED BY <1>2, <1>3

\* A place in the loop means the group there.
LEMMA InTheLoop ==
    ASSUME NEW k, NEW y \in Servers, NEW i \in 1 .. Len(y.list), ~IsSpare(k, i - 1)
    PROVE  /\ Selected(k, y, i - 1) # {}
           /\ \A s \in Selected(k, y, i - 1) : Current(s[1]) = y.list[i]
PROOF
<1>1. PICK n \in Nat \ {0} : n = Len(y.list)
    BY DEF Servers
<1>2. PICK g \in Nat : g = i - 1
    BY <1>1
<1>3. g % n = g
  <2>1. g < n
      BY <1>1, <1>2
  <2> QED BY <2>1, Around
<1>4. Locked(y, g).list = y.list /\ Locked(y, g).group = g
    BY <1>1, <1>3, LockedStaysInRange
<1>5. Selected(k, y, g) = {<<Locked(y, g), GroupNotice(y, Locked(y, g))>>}
    BY <1>2 DEF Selected
<1>6. g + 1 = i
    BY <1>2
<1>7. Current(Locked(y, g)) = y.list[i]
    BY <1>4, <1>6 DEF Current
<1>8. Selected(k, y, g) # {} /\ \A s \in Selected(k, y, g) : s[1] = Locked(y, g)
    BY <1>5
<1>9. /\ Selected(k, y, g) # {}
      /\ \A s \in Selected(k, y, g) : Current(s[1]) = y.list[i]
    BY <1>7, <1>8
<1> QED BY <1>2, <1>9

\* A place among the spare layouts means the layout setLayout computes for it.
LEMMA AmongTheSpare ==
    ASSUME NEW k \in Configs, NEW y \in Servers, NEW index \in Nat,
           IsSpare(k, index), SpareIndex(k, y.list, index) < Len(k.layouts)
    PROVE  /\ Selected(k, y, index) # {}
           /\ \A s \in Selected(k, y, index) :
                  Current(s[1]) = k.layouts[SpareIndex(k, y.list, index) + 1]
PROOF
<1> DEFINE list == SpareList(k, y.list, index)
           Left(z) == <<Locked(z, Len(list) - 1), LoadNotice(y, z) \o GroupNotice(z, Locked(z, Len(list) - 1))>>
<1>1. y.list \in Seq(AllLayouts) /\ y.list # <<>>
    BY DEF Servers
<1>2. /\ SpareIndex(k, y.list, index) \in Nat
      /\ list \in Seq(AllLayouts)
      /\ Len(list) = Len(y.list)
      /\ Last(list) = k.layouts[SpareIndex(k, y.list, index) + 1]
    BY <1>1, SpareListIsAList
<1>3. Selected(k, y, index) = {Left(z) : z \in Loaded(y, list)}
  <2>1. Len(k.layouts) \in Nat
      BY LayoutsOfAConfiguration
  <2>2. ~(SpareIndex(k, y.list, index) >= Len(k.layouts))
      BY <1>2, <2>1
  <2> QED BY <2>2 DEF Selected
<1> HIDE DEF list
<1>4. Loaded(y, list) # {}
    BY DEF Loaded
<1>5. ASSUME NEW z \in Loaded(y, list)
      PROVE  Current(Left(z)[1]) = Last(list)
  <2>1. list # <<>>
      BY <1>1, <1>2
  <2>2. z \in Servers /\ z.list = list
      BY <1>2, <2>1, LoadedStaysInRange
  <2>3. PICK n \in Nat \ {0} : n = Len(list)
      BY <1>2, <2>1
  <2>4. PICK g \in Nat : g = n - 1
      BY <2>3
  <2>5. g % n = g
    <3>1. g < n
        BY <2>4
    <3> QED BY <3>1, Around
  <2>6. Locked(z, g).list = list /\ Locked(z, g).group = g
      BY <2>2, <2>3, <2>5, LockedStaysInRange
  <2>7. Left(z)[1] = Locked(z, g)
      BY <2>3, <2>4
  <2>8. g + 1 = Len(list)
      BY <2>3, <2>4
  <2> QED BY <2>6, <2>7, <2>8 DEF Current, Last
<1> QED BY <1>2, <1>3, <1>4, <1>5

\* A sequence without the first occurrence of an element, if there is any.
LEMMA WithoutTheFirst ==
    ASSUME NEW s \in Seq(AllLayouts), NEW e
    PROVE  RemoveFirst(s, e) \in Seq(AllLayouts)
PROOF
<1>1. CASE Contains(s, e)
  <2>1. PICK q \in 1 .. Len(s) : q = FirstPlace(s, e)
      BY <1>1, FirstPlaceHolds
  <2>2. RemoveFirst(s, e) = SubSeq(s, 1, q - 1) \o SubSeq(s, q + 1, Len(s))
      BY <1>1, <2>1 DEF Contains, RemoveFirst, RemoveAt, FirstPlace
  <2>3. SubSeq(s, 1, q - 1) \in Seq(AllLayouts) /\ SubSeq(s, q + 1, Len(s)) \in Seq(AllLayouts)
      OBVIOUS
  <2>4. \A u, v \in Seq(AllLayouts) : u \o v \in Seq(AllLayouts)
      OBVIOUS
  <2> QED BY <2>2, <2>3, <2>4
<1>2. CASE ~Contains(s, e)
    BY <1>2 DEF Contains, RemoveFirst
<1> QED BY <1>1, <1>2

\* The applet's list begins with the loop, whatever is configured twice.
LEMMA TheLoopComesFirst ==
    ASSUME NEW k \in Configs, k.loop # NoLooping,
           NEW list \in Seq(AllLayouts), OwnList(k, list)
    PROVE  /\ Len(list) = k.loop
           /\ \A i \in 1 .. k.loop : LayoutsList(k, list)[i] = list[i]
PROOF
<1>1. PICK loop \in Nat : loop = k.loop
    BY ConfigsAssumption
<1>2. k.layouts \in Seq(AllLayouts) /\ loop \in 2 .. Len(k.layouts)
    BY <1>1, LayoutsOfAConfiguration, ConfigsAssumption
<1>3. Len(list) = loop
  <2>1. DefaultLayouts(k) = SubSeq(k.layouts, 1, loop)
      BY <1>1 DEF DefaultLayouts
  <2>2. Len(DefaultLayouts(k)) = loop
      BY <1>2, <2>1
  <2> QED BY <2>2 DEF OwnList
<1>4. PICK spare \in Seq(AllLayouts) : spare = SubSeq(k.layouts, loop, Len(k.layouts))
  <2>1. SubSeq(k.layouts, loop, Len(k.layouts)) \in Seq(AllLayouts)
      BY <1>2
  <2> QED BY <2>1
<1>5. PICK rest \in Seq(AllLayouts) : rest = RemoveFirst(spare, Last(list))
    BY WithoutTheFirst
<1>6. LayoutsList(k, list) = list \o rest
    BY <1>1, <1>4, <1>5 DEF LayoutsList
<1>7. \A i \in 1 .. loop : (list \o rest)[i] = list[i]
    BY <1>3
<1> QED BY <1>1, <1>3, <1>6, <1>7

\* Where the spare layouts of the applet's list come from, if the one in the
\* loop is configured once: they have the order of the configuration without it.
LEMMA WhatTheAppletShows ==
    ASSUME NEW k \in Configs, k.loop # NoLooping,
           NEW list \in Seq(AllLayouts), OwnList(k, list), ConfiguredOnce(k, Last(list))
    PROVE  \E p \in k.loop .. Len(k.layouts) :
               /\ LastIndexOf(k.layouts, Last(list)) = p - 1
               /\ Len(LayoutsList(k, list)) = Len(k.layouts)
               /\ \A i \in k.loop + 1 .. Len(k.layouts) :
                      /\ i <= p => LayoutsList(k, list)[i] = k.layouts[i - 1]
                      /\ i > p => LayoutsList(k, list)[i] = k.layouts[i]
PROOF
<1>1. PICK loop \in Nat : loop = k.loop
    BY ConfigsAssumption
<1>2. k.layouts \in Seq(AllLayouts) /\ loop \in 2 .. Len(k.layouts)
    BY <1>1, LayoutsOfAConfiguration, ConfigsAssumption
<1>3. PICK n \in Nat : n = Len(k.layouts)
    BY <1>2
<1>4. DefaultLayouts(k) = SubSeq(k.layouts, 1, loop)
    BY <1>1 DEF DefaultLayouts
<1>5. /\ Len(DefaultLayouts(k)) = loop
      /\ \A i \in 1 .. loop : DefaultLayouts(k)[i] = k.layouts[i]
    BY <1>2, <1>4
<1>6. Len(list) = loop
    BY <1>5 DEF OwnList
<1>7. PICK last : last = Last(list)
    OBVIOUS
<1>8. PICK p \in 1 .. n : k.layouts[p] = last
    BY <1>3, <1>7 DEF OwnList, LayoutsIn
<1>9. p >= loop
  <2>1. SUFFICES ASSUME p < loop PROVE FALSE
      BY <1>8, <1>2
  <2>2. p \in 1 .. Len(DefaultLayouts(k)) - 1 /\ DefaultLayouts(k)[p] = last
      BY <1>5, <1>8, <2>1
  <2>3. last \notin {DefaultLayouts(k)[i] : i \in 1 .. Len(DefaultLayouts(k)) - 1}
      BY <1>7 DEF OwnList
  <2> QED BY <2>2, <2>3
<1>10. \A i \in 1 .. n : k.layouts[i] = last => i = p
    BY <1>3, <1>7, <1>8 DEF ConfiguredOnce
<1>11. LastIndexOf(k.layouts, last) = p - 1
    BY <1>2, <1>3, <1>8, <1>10, LastOfTheOnlyOne
<1> DEFINE spare == SubSeq(k.layouts, loop, n)
           rest == RemoveFirst(spare, last)
<1>12. PICK q \in Nat : q = p - loop + 1
    BY <1>2, <1>8, <1>9
<1>13. /\ spare \in Seq(AllLayouts) /\ Len(spare) = n - loop + 1
       /\ \A j \in 1 .. n - loop + 1 : spare[j] = k.layouts[loop - 1 + j]
    BY <1>2, <1>3
<1> HIDE DEF spare
<1>14. /\ q \in 1 .. Len(spare) /\ spare[q] = last
       /\ \A j \in 1 .. Len(spare) : spare[j] = last => j = q
  <2>1. q \in 1 .. n - loop + 1
      BY <1>2, <1>3, <1>8, <1>9, <1>12
  <2>2. spare[q] = k.layouts[loop - 1 + q] /\ loop - 1 + q = p
      BY <1>12, <1>13, <2>1
  <2>3. ASSUME NEW j \in 1 .. n - loop + 1, spare[j] = last PROVE j = q
    <3>1. loop - 1 + j \in 1 .. n
        BY <1>2, <1>3
    <3>2. k.layouts[loop - 1 + j] = last
        BY <1>13, <2>3
    <3>3. loop - 1 + j = p
        BY <1>10, <3>1, <3>2
    <3> QED BY <1>12, <3>3
  <2> QED BY <1>8, <1>13, <2>1, <2>2, <2>3
<1>15. /\ rest \in Seq(AllLayouts) /\ Len(rest) = Len(spare) - 1
       /\ \A j \in 1 .. Len(spare) - 1 :
              /\ j < q => rest[j] = spare[j]
              /\ j >= q => rest[j] = spare[j + 1]
  <2>1. /\ spare \in Seq(AllLayouts) /\ q \in 1 .. Len(spare) /\ spare[q] = last
        /\ \A j \in 1 .. Len(spare) : spare[j] = last => j = q
      BY <1>13, <1>14
  <2>2. rest \in Seq(AllLayouts)
      BY <2>1, WithoutTheOnlyOne
  <2>3. Len(rest) = Len(spare) - 1
      BY <2>1, WithoutTheOnlyOne
  <2>4. ASSUME NEW j \in 1 .. Len(spare) - 1
        PROVE  /\ j < q => rest[j] = spare[j]
               /\ j >= q => rest[j] = spare[j + 1]
      BY <2>1, WithoutTheOnlyOne
  <2> QED BY <2>2, <2>3, <2>4
<1>16. LayoutsList(k, list) = list \o rest
    BY <1>1, <1>3, <1>7 DEF LayoutsList, spare
<1> HIDE DEF rest
<1>17. Len(list \o rest) = n
  <2>1. Len(list \o rest) = Len(list) + Len(rest)
      BY <1>15, LengthJoined
  <2> QED BY <1>2, <1>3, <1>6, <1>13, <1>15, <2>1
<1>19. ASSUME NEW i \in loop + 1 .. n
       PROVE  /\ i <= p => (list \o rest)[i] = k.layouts[i - 1]
              /\ i > p => (list \o rest)[i] = k.layouts[i]
  <2>1. PICK j \in 1 .. n - loop : i = loop + j
    <3>1. i - loop \in 1 .. n - loop /\ i = loop + (i - loop)
        BY <1>2, <1>3
    <3> QED BY <3>1
  <2>2. (list \o rest)[loop + j] = rest[j]
      BY <1>2, <1>3, <1>6, <1>13, <1>15
  <2>3. j \in 1 .. Len(spare) - 1
      BY <1>2, <1>3, <1>13
  <2>4. ASSUME i <= p PROVE (list \o rest)[i] = k.layouts[i - 1]
    <3>1. j < q
        BY <1>12, <2>1, <2>4
    <3>2. rest[j] = spare[j] /\ spare[j] = k.layouts[loop - 1 + j]
        BY <1>13, <1>15, <2>3, <3>1
    <3>3. loop - 1 + j = i - 1
        BY <2>1
    <3> QED BY <2>1, <2>2, <3>2, <3>3
  <2>5. ASSUME i > p PROVE (list \o rest)[i] = k.layouts[i]
    <3>1. j >= q
        BY <1>12, <2>1, <2>5
    <3>2. rest[j] = spare[j + 1]
        BY <1>15, <2>3, <3>1
    <3>3. j + 1 \in 1 .. n - loop + 1
        BY <1>2, <1>3
    <3>4. spare[j + 1] = k.layouts[loop - 1 + (j + 1)]
        BY <1>13, <3>3
    <3>5. loop - 1 + (j + 1) = i
        BY <2>1
    <3> QED BY <2>1, <2>2, <3>2, <3>4, <3>5
  <2> QED BY <2>4, <2>5
<1>20. p \in loop .. n
    BY <1>8, <1>9, <1>2
<1> QED BY <1>1, <1>3, <1>7, <1>11, <1>16, <1>17, <1>19, <1>20

\* A layout chosen in the applet is the one that is set, for every loop of
\* layouts and every spare layout that was in it before: setLayout finds the
\* layout getLayoutsList put at the index, unless that is a spare one and the
\* layout whose place it takes is configured twice.
THEOREM AppletChooses == Spec => []AppletChoosesWhatItShows
PROOF
<1>1. ASSUME IInv PROVE AppletChoosesWhatItShows
  <2> DEFINE k == keyboardConfig
             shown == LayoutsList(k, x.list)
  <2>1. k \in Configs /\ x \in Servers /\ x.list \in Seq(AllLayouts)
      BY <1>1 DEF IInv, TypeOK, Servers
  <2>2. SUFFICES ASSUME OwnList(k, x.list), NEW i \in 1 .. Len(shown),
                        ~IsSpare(k, i - 1) \/ ConfiguredOnce(k, Last(x.list))
                 PROVE  /\ Selected(k, x, i - 1) # {}
                        /\ \A s \in Selected(k, x, i - 1) : Current(s[1]) = shown[i]
      BY DEF AppletChoosesWhatItShows
  <2>3. CASE k.loop = NoLooping
    <3>1. shown = x.list /\ ~IsSpare(k, i - 1)
        BY <2>3 DEF LayoutsList, IsSpare
    <3>2. i \in 1 .. Len(x.list)
        BY <3>1
    <3> QED BY <2>1, <3>1, <3>2, InTheLoop
  <2>4. CASE k.loop # NoLooping
    <3>1. /\ Len(x.list) = k.loop
          /\ \A j \in 1 .. k.loop : shown[j] = x.list[j]
      <4> HIDE DEF k
      <4> QED BY <2>1, <2>2, <2>4, TheLoopComesFirst
    <3>2. k.loop \in Nat /\ Len(k.layouts) \in Nat
        BY <2>1, <2>4, LayoutsOfAConfiguration, ConfigsAssumption
    <3>3. CASE i <= k.loop
      <4> HIDE DEF shown, k
      <4>1. i \in 1 .. Len(x.list) /\ shown[i] = x.list[i]
          BY <3>1, <3>2, <3>3
      <4>2. ~IsSpare(k, i - 1)
          BY <3>2, <3>3 DEF IsSpare
      <4> QED BY <2>1, <4>1, <4>2, InTheLoop
    <3>4. CASE i > k.loop
      <4>0. PICK index \in Nat : index = i - 1
          BY <3>2
      <4>1. IsSpare(k, index) /\ ConfiguredOnce(k, Last(x.list))
        <5> HIDE DEF shown, k
        <5>1. IsSpare(k, index)
            BY <2>4, <3>2, <3>4, <4>0 DEF IsSpare
        <5> QED BY <2>2, <4>0, <5>1
      <4>2. PICK p \in k.loop .. Len(k.layouts) :
                /\ LastIndexOf(k.layouts, Last(x.list)) = p - 1
                /\ Len(shown) = Len(k.layouts)
                /\ \A j \in k.loop + 1 .. Len(k.layouts) :
                       /\ j <= p => shown[j] = k.layouts[j - 1]
                       /\ j > p => shown[j] = k.layouts[j]
        <5> HIDE DEF k
        <5> QED BY <2>1, <2>2, <2>4, <4>1, WhatTheAppletShows
      <4> HIDE DEF shown, k
      <4>3. /\ SpareIndex(k, x.list, index) < Len(k.layouts)
            /\ shown[i] = k.layouts[SpareIndex(k, x.list, index) + 1]
        <5>1. i \in k.loop + 1 .. Len(k.layouts) /\ p \in Nat
            BY <2>2, <3>2, <3>4, <4>2
        <5>2. CASE i <= p
          <6>1. SpareIndex(k, x.list, index) = i - 2
              BY <4>0, <4>2, <5>1, <5>2 DEF SpareIndex
          <6>2. (i - 2) + 1 = i - 1 /\ i - 2 < Len(k.layouts)
              BY <3>2, <5>1
          <6> QED BY <4>2, <5>1, <5>2, <6>1, <6>2
        <5>3. CASE i > p
          <6>1. SpareIndex(k, x.list, index) = i - 1
              BY <4>0, <4>2, <5>1, <5>3 DEF SpareIndex
          <6>2. (i - 1) + 1 = i /\ i - 1 < Len(k.layouts)
              BY <3>2, <5>1
          <6> QED BY <4>2, <5>1, <5>3, <6>1, <6>2
        <5> QED BY <5>1, <5>2, <5>3
      <4>4. /\ Selected(k, x, index) # {}
            /\ \A s \in Selected(k, x, index) :
                   Current(s[1]) = k.layouts[SpareIndex(k, x.list, index) + 1]
          BY <2>1, <4>1, <4>3, AmongTheSpare
      <4> QED BY <4>0, <4>3, <4>4
    <3> HIDE DEF shown, k
    <3> QED BY <2>2, <3>2, <3>3, <3>4
  <2> QED BY <2>3, <2>4
<1> QED BY <1>1, InitInv, NextInv, PTL DEF Spec

-----------------------------------------------------------------------------
(***************************************************************************)
(* The refinement, step by step.                                           *)
(***************************************************************************)
OwnNow == [c \in MapKeys |-> OwnLayout(c)]

KeptNow == [c \in MapKeys |-> CurrentOf(RestoredMap(keyboardConfig, file), c)]

Lost == lapsed \/ Unconfigured

\* What the steps of the daemon and of the user are in terms of own layouts.
Unseen ==
    /\ Key' = Key /\ Current(x)' = Current(x)
    /\ OwnNow' = OwnNow /\ KeptNow' = KeptNow

Changed ==
    /\ Key' = Key /\ KeptNow' = KeptNow /\ Current(x)' \in AllLayouts
    /\ OwnNow' = [c \in MapKeys |-> IF c = Key THEN Current(x)' ELSE OwnNow[c]]

Followed ==
    /\ Key' \in MapKeys \cup {NoKey}
    /\ Current(x)' = IF Key' = NoKey THEN Current(x) ELSE OwnNow[Key']
    /\ OwnNow' = OwnNow /\ KeptNow' = KeptNow

Lasting == keyboardConfig.policy \in {"Desktop", "WinClass"}

Begun ==
    /\ Key' \in MapKeys \cup {NoKey} /\ Current(x)' \in AllLayouts
    /\ \A c \in MapKeys :
           OwnNow'[c] = KeptNow'[c] \/ (c = Key' /\ OwnNow'[c] = Current(x)')
    /\ KeptNow' = IF Lasting THEN OwnNow ELSE KeptNow

BegunAfterACrash ==
    /\ Key' \in MapKeys \cup {NoKey} /\ Current(x)' \in AllLayouts
    /\ \A c \in MapKeys :
           OwnNow'[c] = KeptNow'[c] \/ (c = Key' /\ OwnNow'[c] = Current(x)')
    /\ KeptNow' = KeptNow

\* Each of them is a step of the abstract specification, or none.
LEMMA StepsOfOwnLayouts ==
    ASSUME \/ Lost \/ Lost'
           \/ /\ ~Lost /\ ~Lost' /\ Lasting' = Lasting
              /\ Unseen \/ Changed \/ Followed \/ Begun \/ BegunAfterACrash
    PROVE  [Own!Next]_(Own!vars)
PROOF
<1>1. CASE Lost \/ Lost'
    BY <1>1 DEF Own!Next, Lost
<1>2. CASE ~Lost /\ ~Lost' /\ Lasting' = Lasting
  <2>1. (lapsed \/ Unconfigured)' = (lapsed \/ Unconfigured)
      BY <1>2 DEF Lost
  <2>2. CASE Unseen
      BY <1>2, <2>1, <2>2 DEF Unseen, Own!vars, OwnNow, KeptNow, Lasting
  <2>3. CASE Changed
    <3>1. Own!Change(Current(x)')
        BY <1>2, <2>3 DEF Changed, Own!Change, OwnNow, KeptNow, Lasting
    <3> QED BY <2>1, <2>3, <3>1 DEF Changed, Own!Next
  <2>4. CASE Followed
    <3>1. Own!Focus(Key')
        BY <1>2, <2>4 DEF Followed, Own!Focus, OwnNow, KeptNow, Lasting
    <3> QED BY <2>1, <2>4, <3>1 DEF Followed, Own!Next
  <2>5. CASE Begun
    <3>1. Own!Restart
        BY <1>2, <2>5 DEF Begun, Own!Restart, Own!Begin, OwnNow, KeptNow, Lasting
    <3> QED BY <2>1, <3>1 DEF Own!Next
  <2>6. CASE BegunAfterACrash
    <3>1. Own!Crash
        BY <1>2, <2>6 DEF BegunAfterACrash, Own!Crash, Own!Begin, OwnNow, KeptNow, Lasting
    <3> QED BY <2>1, <3>1 DEF Own!Next
  <2> QED BY <1>2, <2>2, <2>3, <2>4, <2>5, <2>6
<1> QED BY <1>1, <1>2

\* The layout of the current container will be remembered exactly when a change
\* of the group is still to be heard of, or the list is not the one known.
LEMMA WhenItRemembers ==
    ASSUME Heard
    PROVE  RemembersLater <=> Contains(events, "layout") \/ prevLayoutList # x.list
PROOF
BY DEF RemembersLater, Heard

\* What the containers have, now and after a step, in terms of the memory.
LEMMA WhatTheyHave ==
    /\ OwnNow = [c \in MapKeys |->
                    IF c = Key /\ RemembersLater THEN Current(x) ELSE CurrentOf(layoutMap, c)]
    /\ OwnNow' = [c \in MapKeys |->
                    IF c = Key' /\ RemembersLater' THEN Current(x)' ELSE CurrentOf(layoutMap, c)']
    /\ UNCHANGED <<keyboardConfig, file>> => KeptNow' = KeptNow
    /\ UNCHANGED <<keyboardConfig, layoutMap>> =>
           \A c : CurrentOf(layoutMap, c)' = CurrentOf(layoutMap, c)
PROOF
<1>1. OwnNow = [c \in MapKeys |->
                  IF c = Key /\ RemembersLater THEN Current(x) ELSE CurrentOf(layoutMap, c)]
    BY DEF OwnNow, OwnLayout
<1>2. OwnNow' = [c \in MapKeys |->
                  IF c = Key' /\ RemembersLater' THEN Current(x)' ELSE CurrentOf(layoutMap, c)']
    BY DEF OwnNow, OwnLayout
<1>3. UNCHANGED <<keyboardConfig, file>> => KeptNow' = KeptNow
    BY DEF KeptNow, CurrentOf, RestoredMap, Forgotten
<1>4. UNCHANGED <<keyboardConfig, layoutMap>> =>
          \A c : CurrentOf(layoutMap, c)' = CurrentOf(layoutMap, c)
    BY DEF CurrentOf
<1> QED BY <1>1, <1>2, <1>3, <1>4

\* A change of the X server is one of the layout of the current container, which
\* the daemon will hear of, or it is none.
LEMMA ServerChanges ==
    ASSUME IInv, IInv', ServerActs(events), events = <<>>,
           UNCHANGED <<keyboardConfig, seenVars, memoryVars, file>>
    PROVE  Unseen \/ Changed
PROOF
<1>1. Key' = Key
    BY DEF Key, CurrentMapKey, seenVars, memoryVars
<1>2. KeptNow' = KeptNow /\ \A c : CurrentOf(layoutMap, c)' = CurrentOf(layoutMap, c)
    BY WhatTheyHave DEF memoryVars
<1>3. ~RemembersLater
  <2>1. ~Contains(events, "layout") /\ ~Contains(events, "map")
      BY DEF Contains
  <2> QED BY <2>1 DEF RemembersLater
<1>4. OwnNow = [c \in MapKeys |-> CurrentOf(layoutMap, c)]
    BY <1>3, WhatTheyHave
<1>5. CASE RemembersLater'
  <2>1. x' \in Servers
      BY DEF IInv, TypeOK
  <2>2. Current(x)' \in AllLayouts
      BY <2>1, CurrentIsALayout DEF Current
  <2>3. OwnNow' = [c \in MapKeys |-> IF c = Key THEN Current(x)' ELSE OwnNow[c]]
      BY <1>1, <1>2, <1>4, <1>5, WhatTheyHave
  <2> QED BY <1>1, <1>2, <2>2, <2>3 DEF Changed
<1>6. CASE ~RemembersLater'
  <2>1. OwnNow' = OwnNow
      BY <1>1, <1>2, <1>4, <1>6, WhatTheyHave
  <2>2. ~Contains(events', "layout") /\ prevLayoutList' = x'.list
      BY <1>6 DEF RemembersLater, IInv, Heard
  <2>3. prevLayoutList = x.list
    <3>1. ~Contains(events, "map")
        BY DEF Contains
    <3> QED BY <3>1 DEF IInv, Heard
  <2>4. PICK n : events' = events \o n /\ Tells(x, x', n)
      BY DEF ServerActs
  <2>5. events' = n
    <3>1. n \in Seq(Notices)
        BY <2>4 DEF Tells
    <3>2. <<>> \o n = n
        BY <3>1
    <3> QED BY <2>4, <3>2
  <2>6. x'.list = x.list /\ x'.group = x.group
      BY <2>2, <2>3, <2>4, <2>5 DEF Tells, memoryVars
  <2>7. Current(x)' = Current(x)
      BY <2>6 DEF Current
  <2> QED BY <1>1, <1>2, <2>1, <2>7 DEF Unseen
<1> QED BY <1>5, <1>6

\* What the daemon remembers when it hears of a layout is what the container has.
LEMMA DaemonRemembers ==
    ASSUME IInv, RemembersLater, LayoutChanged,
           UNCHANGED <<keyboardConfig, x, seenVars, previousLayoutMapKey, file>>
    PROVE  Unseen
PROOF
<1>1. Key' = Key
    BY DEF Key, CurrentMapKey, seenVars
<1>2. KeptNow' = KeptNow
    BY WhatTheyHave
<1>3. Current(x)' = Current(x)
    BY DEF Current
<1>4. Key \in MapKeys \cup {NoKey}
    BY KeyIsAKey DEF IInv, TypeOK, Key
<1>5. ASSUME NEW c \in MapKeys
      PROVE  CurrentOf(layoutMap, c)' = IF c = Key THEN Current(x) ELSE CurrentOf(layoutMap, c)
  <2>1. CASE Key = NoKey
    <3>1. c # Key
        BY <2>1, NoKeyAssumption
    <3>2. UNCHANGED <<keyboardConfig, layoutMap>>
        BY <2>1 DEF LayoutChanged
    <3> QED BY <3>1, <3>2, WhatTheyHave
  <2>2. CASE Key # NoKey
    <3>1. layoutMap' = Remembering(Key, CurrentLayouts)
        BY <2>2 DEF LayoutChanged
    <3>2. /\ DOMAIN layoutMap' = DOMAIN layoutMap \cup {Key}
          /\ layoutMap'[Key] = CurrentLayouts
          /\ \A d \in DOMAIN layoutMap \ {Key} : layoutMap'[d] = layoutMap[d]
        BY <3>1 DEF Remembering
    <3>3. CurrentLayouts.current = Current(x)
        BY DEF CurrentLayouts
    <3>4. CurrentOf(layoutMap, c)' =
              IF c \in DOMAIN layoutMap' THEN layoutMap'[c].current ELSE DefaultLayout(keyboardConfig)
        BY DEF CurrentOf
    <3> QED BY <3>2, <3>3, <3>4 DEF CurrentOf
  <2> QED BY <2>1, <2>2
<1>6. OwnNow' = OwnNow
    BY <1>1, <1>3, <1>5, WhatTheyHave
<1> QED BY <1>1, <1>2, <1>3, <1>6 DEF Unseen

\* What is configured, and not another list, begins with the default layout.
LEMMA FirstIsDefault ==
    ASSUME IInv, ~Unconfigured, x.group = 0
    PROVE  Current(x) = DefaultLayout(keyboardConfig)
PROOF
<1>1. Head(keyboardConfig.layouts) = Head(x.list)
    BY DEF Unconfigured, IsExtraSubset
<1>2. x.list \in Seq(AllLayouts) /\ x.list # <<>>
    BY DEF IInv, TypeOK, Servers
<1>3. Head(x.list) = x.list[1]
    BY <1>2
<1>4. Current(x) = x.list[1]
    BY DEF Current
<1> QED BY <1>1, <1>3, <1>4 DEF DefaultLayout

\* The daemon follows the user to a container: its own layout is set, and none
\* is changed.
LEMMA DaemonFollows ==
    ASSUME IInv, IInv', ~Unconfigured, ~RemembersLater, NEW key \in MapKeys \cup {NoKey}, Key' = key,
           SetCurrentLayoutFromMap(key, <<>>), UNCHANGED <<keyboardConfig, layoutMap, file>>
    PROVE  Followed
PROOF
<1>1. x \in Servers /\ IsMemory(layoutMap) /\ keyboardConfig \in Configs
    BY DEF IInv, TypeOK
<1>2. KeptNow' = KeptNow /\ \A c : CurrentOf(layoutMap, c)' = CurrentOf(layoutMap, c)
    BY WhatTheyHave
<1>3. OwnNow = [c \in MapKeys |-> CurrentOf(layoutMap, c)]
    BY WhatTheyHave
<1>4. ASSUME Current(x)' = IF key = NoKey THEN Current(x) ELSE CurrentOf(layoutMap, key)
      PROVE  Followed
  <2>1. key # NoKey => key \in MapKeys
      OBVIOUS
  <2>2. NoKey \notin MapKeys
      BY NoKeyAssumption
  <2>3. Current(x)' = IF key = NoKey THEN Current(x) ELSE OwnNow[key]
      BY <1>3, <1>4, <2>1
  <2>4. OwnNow' = OwnNow
    <3>1. ASSUME NEW c \in MapKeys
          PROVE  (IF c = Key' /\ RemembersLater' THEN Current(x)' ELSE CurrentOf(layoutMap, c)')
                     = CurrentOf(layoutMap, c)
        BY <1>2, <1>4, <2>2
    <3> QED BY <1>3, <3>1, WhatTheyHave
  <2> QED BY <1>2, <2>3, <2>4 DEF Followed
<1>5. CASE key \in DOMAIN layoutMap
  <2>1. /\ layoutMap[key].layouts \in Seq(AllLayouts)
        /\ Contains(layoutMap[key].layouts, layoutMap[key].current)
      BY <1>1, <1>5 DEF IsMemory, LayoutSets
  <2>2. Show(layoutMap[key].layouts, layoutMap[key].current, <<>>)
      BY <1>5 DEF SetCurrentLayoutFromMap
  <2>3. Current(x') = layoutMap[key].current
      BY <1>1, <2>1, <2>2, ShowShows
  <2>4. key # NoKey
      BY <1>1, <1>5, NoKeyAssumption DEF IsMemory
  <2>5. CurrentOf(layoutMap, key) = layoutMap[key].current
      BY <1>5 DEF CurrentOf
  <2>6. Current(x)' = Current(x')
      BY DEF Current
  <2> QED BY <1>4, <2>3, <2>4, <2>5, <2>6
<1>6. CASE key \notin DOMAIN layoutMap /\ (key = NoKey \/ x.group = 0)
  <2>1. Current(x)' = Current(x)
      BY <1>6 DEF SetCurrentLayoutFromMap, Current
  <2>2. key # NoKey => Current(x) = CurrentOf(layoutMap, key)
      BY <1>6, FirstIsDefault DEF CurrentOf
  <2> QED BY <1>4, <2>1, <2>2
<1>7. CASE key \notin DOMAIN layoutMap /\ ~(key = NoKey \/ x.group = 0)
  <2>1. /\ DefaultLayouts(keyboardConfig) \in Seq(AllLayouts)
        /\ Contains(DefaultLayouts(keyboardConfig), DefaultLayout(keyboardConfig))
        /\ Head(DefaultLayouts(keyboardConfig)) = DefaultLayout(keyboardConfig)
      BY <1>1, DefaultsOfAConfiguration, DefaultOfAConfiguration
  <2>2. Show(DefaultLayouts(keyboardConfig), DefaultLayout(keyboardConfig), <<>>)
      BY <1>7, <2>1 DEF SetCurrentLayoutFromMap
  <2>3. Current(x') = DefaultLayout(keyboardConfig)
      BY <1>1, <2>1, <2>2, ShowShows
  <2>4. CurrentOf(layoutMap, key) = DefaultLayout(keyboardConfig)
      BY <1>7 DEF CurrentOf
  <2>5. Current(x)' = Current(x')
      BY DEF Current
  <2> QED BY <1>4, <1>7, <2>3, <2>4, <2>5
<1> QED BY <1>5, <1>6, <1>7

\* Nothing is seen of a step that leaves the X server, the memory and the file.
LEMMA NothingIsSeen ==
    ASSUME UNCHANGED <<keyboardConfig, x, layoutMap, file>>, Key' = Key,
           RemembersLater' <=> RemembersLater
    PROVE  Unseen
PROOF
<1>1. Current(x)' = Current(x)
    BY DEF Current
<1>2. KeptNow' = KeptNow /\ \A c : CurrentOf(layoutMap, c)' = CurrentOf(layoutMap, c)
    BY WhatTheyHave
<1>3. OwnNow' = OwnNow
    BY <1>1, <1>2, WhatTheyHave
<1> QED BY <1>1, <1>2, <1>3 DEF Unseen

\* The key follows what KWindowSystem reported.
LEMMA SameKey ==
    ASSUME UNCHANGED <<keyboardConfig, seenVars, previousLayoutMapKey>>
    PROVE  Key' = Key
PROOF
BY DEF Key, CurrentMapKey, seenVars

\* A step of the user that the daemon has not heard of.
LEMMA UserGoesUnseen ==
    ASSUME events = <<>>, NEW e \in {"window", "desktop"}, events' = Append(events, e),
           UNCHANGED <<keyboardConfig, x, seenVars, memoryVars, file>>
    PROVE  Unseen
PROOF
<1>1. events' = <<e>>
    OBVIOUS
<1>2. ~Contains(events, "layout") /\ ~Contains(events, "map")
    BY DEF Contains
<1>3. ~Contains(events', "layout") /\ ~Contains(events', "map")
    BY <1>1 DEF Contains
<1>4. ~RemembersLater /\ ~RemembersLater'
    BY <1>2, <1>3 DEF RemembersLater
<1>5. Key' = Key
    BY SameKey DEF memoryVars
<1> QED BY <1>4, <1>5, NothingIsSeen DEF memoryVars

\* What the daemon hears of the X server.
LEMMA LayoutIsHeard ==
    ASSUME IInv, LayoutSlot
    PROVE  Unseen
PROOF
<1>1. events # <<>> /\ Head(events) = "layout"
    BY DEF LayoutSlot, Handle
<1>2. Contains(events, "layout")
    BY <1>1, TailOfEvents
<1>3. RemembersLater
    BY <1>2 DEF RemembersLater
<1>4. LayoutChanged /\ UNCHANGED <<keyboardConfig, x, seenVars, previousLayoutMapKey, file>>
    BY DEF LayoutSlot, Handle
<1> QED BY <1>3, <1>4, DaemonRemembers

\* A list of layouts the configuration has is remembered, or nothing is.
LEMMA ListIsHeard ==
    ASSUME IInv, IInv', ~Unconfigured, LayoutMapSlot
    PROVE  Unseen
PROOF
<1>1. events # <<>> /\ Head(events) = "map" /\ events' = Tail(events) /\ prevLayoutList' = x.list
    BY DEF LayoutMapSlot, Handle, LayoutMapChanged
<1>2. UNCHANGED <<keyboardConfig, x, seenVars, previousLayoutMapKey, file>>
    BY DEF LayoutMapSlot, Handle
<1>3. CASE prevLayoutList = x.list
  <2>1. UNCHANGED layoutMap
      BY <1>3 DEF LayoutMapSlot, LayoutMapChanged
  <2>2. Contains(events, "layout") <=> Contains(events', "layout")
    <3>1. Contains(events, "layout") <=> Head(events) = "layout" \/ Contains(Tail(events), "layout")
        BY <1>1, TailOfEvents
    <3> QED BY <1>1, <3>1
  <2>3. RemembersLater <=> Contains(events, "layout")
      BY <1>3 DEF RemembersLater
  <2>4. RemembersLater' <=> Contains(events', "layout")
      BY <1>1, <1>2 DEF RemembersLater
  <2>5. Key' = Key
      BY <1>2, SameKey
  <2> QED BY <1>2, <2>1, <2>2, <2>3, <2>4, <2>5, NothingIsSeen
<1>4. CASE prevLayoutList # x.list
  <2>1. IsExtraSubset(keyboardConfig.layouts, x.list)
      BY DEF Unconfigured
  <2>2. LayoutChanged
      BY <1>4, <2>1 DEF LayoutMapSlot, LayoutMapChanged
  <2>3. RemembersLater
      BY <1>4, WhenItRemembers DEF IInv
  <2> QED BY <1>2, <2>2, <2>3, DaemonRemembers
<1> QED BY <1>3, <1>4

\* Nothing waits but what tells of the user.
LEMMA OnlyTheUserIsWaitedFor ==
    ASSUME IInv, ~lapsed, events # <<>>, Head(events) \in {"window", "desktop"}
    PROVE  Tail(events) = <<>> /\ ~RemembersLater
PROOF
<1>1. events = <<Head(events)>>
    BY TailWhenPrompt
<1>2. PICK e \in {"window", "desktop"} : events = <<e>>
    BY <1>1
<1>3. Tail(<<e>>) = <<>>
    OBVIOUS
<1>4. ~Contains(events, "layout") /\ ~Contains(events, "map")
    BY <1>2 DEF Contains
<1> QED BY <1>2, <1>3, <1>4 DEF RemembersLater

\* The daemon hears of the window, under any policy.
LEMMA WindowIsFollowed ==
    ASSUME IInv, IInv', ~lapsed, ~Unconfigured, WindowSlot
    PROVE  Unseen \/ Followed
PROOF
<1> DEFINE key == CurrentMapKey(keyboardConfig, window, seenDesktop, previousLayoutMapKey)
<1>1. /\ events # <<>> /\ Head(events) \in {"window", "desktop"}
      /\ seenWindow' = window
      /\ UNCHANGED <<keyboardConfig, seenDesktop, layoutMap, prevLayoutList, file>>
    BY DEF WindowSlot, Handle
<1>2. Tail(events) = <<>> /\ ~RemembersLater
    BY <1>1, OnlyTheUserIsWaitedFor
<1>3. key \in MapKeys \cup {NoKey}
    BY KeyIsAKey DEF IInv, TypeOK
<1>4. CASE window # seenWindow /\ keyboardConfig.policy \in {"Window", "WinClass"}
  <2>1. SetCurrentLayoutFromMap(key, <<>>)
      BY <1>2, <1>4 DEF WindowSlot
  <2>2. previousLayoutMapKey' = IF key = NoKey THEN previousLayoutMapKey ELSE key
      BY <2>1 DEF SetCurrentLayoutFromMap
  <2>3. Key' = CurrentMapKey(keyboardConfig, window, seenDesktop, previousLayoutMapKey')
      BY <1>1 DEF Key, CurrentMapKey
  <2>4. Key' = key
      BY <1>4, <2>2, <2>3 DEF CurrentMapKey
  <2> HIDE DEF key
  <2> QED BY <1>1, <1>2, <1>3, <2>1, <2>4, DaemonFollows
<1>5. CASE ~(window # seenWindow /\ keyboardConfig.policy \in {"Window", "WinClass"})
  <2>1. UNCHANGED <<x, previousLayoutMapKey>> /\ events' = Tail(events)
      BY <1>5 DEF WindowSlot
  <2>2. keyboardConfig \in Configs
      BY DEF IInv, TypeOK
  <2>3. keyboardConfig.policy \in {"Window", "WinClass"} \/ keyboardConfig.policy \in {"Global", "Desktop"}
      BY <2>2, ConfigsAssumption
  <2>4. Key' = Key
      BY <1>1, <1>5, <2>1, <2>3 DEF Key, CurrentMapKey
  <2>5. ~RemembersLater'
    <3>1. events' = <<>>
        BY <1>2, <2>1
    <3>2. ~Contains(events', "layout") /\ ~Contains(events', "map")
        BY <3>1 DEF Contains
    <3> QED BY <3>2 DEF RemembersLater
  <2> QED BY <1>1, <1>2, <2>1, <2>4, <2>5, NothingIsSeen
<1> QED BY <1>4, <1>5

\* The daemon hears of the desktop, under any policy.
LEMMA DesktopIsFollowed ==
    ASSUME IInv, IInv', ~lapsed, ~Unconfigured, DesktopSlot
    PROVE  Unseen \/ Followed
PROOF
<1>1. /\ events # <<>> /\ Head(events) \in {"window", "desktop"}
      /\ seenDesktop' = desktop
      /\ UNCHANGED <<keyboardConfig, seenWindow, layoutMap, prevLayoutList, file>>
    BY DEF DesktopSlot, Handle
<1>2. Tail(events) = <<>> /\ ~RemembersLater
    BY <1>1, OnlyTheUserIsWaitedFor
<1>3. desktop \in MapKeys \cup {NoKey}
    BY DEF IInv, TypeOK, MapKeys
<1>4. CASE desktop # seenDesktop /\ keyboardConfig.policy = "Desktop"
  <2>1. SetCurrentLayoutFromMap(desktop, <<>>)
      BY <1>2, <1>4 DEF DesktopSlot
  <2>2. Key' = desktop
      BY <1>1, <1>4 DEF Key, CurrentMapKey
  <2> QED BY <1>1, <1>2, <1>3, <2>1, <2>2, DaemonFollows
<1>5. CASE ~(desktop # seenDesktop /\ keyboardConfig.policy = "Desktop")
  <2>1. UNCHANGED <<x, previousLayoutMapKey>> /\ events' = Tail(events)
      BY <1>5 DEF DesktopSlot
  <2>2. Key' = Key
      BY <1>1, <1>5, <2>1 DEF Key, CurrentMapKey
  <2>3. ~RemembersLater'
    <3>1. events' = <<>>
        BY <1>2, <2>1
    <3>2. ~Contains(events', "layout") /\ ~Contains(events', "map")
        BY <3>1 DEF Contains
    <3> QED BY <3>2 DEF RemembersLater
  <2> QED BY <1>1, <1>2, <2>1, <2>2, <2>3, NothingIsSeen
<1> QED BY <1>4, <1>5

\* A daemon that begins has in memory what is in the file.
LEMMA WhatTheyBeginWith ==
    ASSUME IInv, IInv', Begin
    PROVE  /\ Key' \in MapKeys \cup {NoKey} /\ Current(x)' \in AllLayouts
           /\ \A c \in MapKeys :
                  OwnNow'[c] = KeptNow'[c] \/ (c = Key' /\ OwnNow'[c] = Current(x)')
PROOF
<1>1. Key' \in MapKeys \cup {NoKey}
  <2>1. /\ keyboardConfig' \in Configs /\ seenWindow' \in Windows /\ seenDesktop' \in Desktops
        /\ previousLayoutMapKey' \in MapKeys \cup {NoKey}
      BY DEF IInv, TypeOK
  <2>2. Key' = CurrentMapKey(keyboardConfig', seenWindow', seenDesktop', previousLayoutMapKey')
      BY DEF Key, CurrentMapKey
  <2> QED BY <2>1, <2>2, KeyIsAKey
<1>2. Current(x)' \in AllLayouts
  <2>1. x' \in Servers
      BY DEF IInv, TypeOK
  <2> QED BY <2>1, CurrentIsALayout DEF Current
<1>3. keyboardConfig' = keyboardConfig /\ layoutMap' = RestoredMap(keyboardConfig, file')
    BY DEF Begin
<1>4. KeptNow' = [c \in MapKeys |-> CurrentOf(layoutMap, c)']
    BY <1>3 DEF KeptNow, CurrentOf, RestoredMap, Forgotten
<1>5. ASSUME NEW c \in MapKeys
      PROVE  OwnNow'[c] = KeptNow'[c] \/ (c = Key' /\ OwnNow'[c] = Current(x)')
    BY <1>4, WhatTheyHave
<1> QED BY <1>1, <1>2, <1>5

\* After a daemon that was stopped, the containers that last have what they had.
LEMMA StoppedAndBegun ==
    ASSUME IInv, IInv', ~Unconfigured, events = <<>>, Restart
    PROVE  Begun
PROOF
<1>1. /\ Key' \in MapKeys \cup {NoKey} /\ Current(x)' \in AllLayouts
      /\ \A c \in MapKeys :
             OwnNow'[c] = KeptNow'[c] \/ (c = Key' /\ OwnNow'[c] = Current(x)')
    BY WhatTheyBeginWith DEF Restart
<1>2. file' = Saved(keyboardConfig) /\ keyboardConfig' = keyboardConfig
    BY DEF Restart, Begin
<1>3. KeptNow' = [c \in MapKeys |-> CurrentOf(RestoredMap(keyboardConfig, file'), c)]
    BY <1>2 DEF KeptNow, CurrentOf, RestoredMap, Forgotten
<1>4. CASE Lasting
  <2>1. ~RemembersLater
      BY DEF RemembersLater, Contains
  <2>2. OwnNow = [c \in MapKeys |-> CurrentOf(layoutMap, c)]
      BY <2>1, WhatTheyHave
  <2>3. \A c : CurrentOf(RestoredMap(keyboardConfig, Saved(keyboardConfig)), c) = CurrentOf(layoutMap, c)
      BY <1>4, RestoringWhatWasSaved DEF Lasting
  <2>4. KeptNow' = OwnNow
      BY <1>2, <1>3, <2>2, <2>3
  <2> QED BY <1>1, <1>4, <2>4 DEF Begun
<1>5. CASE ~Lasting
  <2>1. keyboardConfig \in Configs
      BY DEF IInv, TypeOK
  <2>2. keyboardConfig.policy \in {"Global", "Window"}
      BY <1>5, <2>1, ConfigsAssumption DEF Lasting
  <2>3. \A f : RestoredMap(keyboardConfig, f) = Forgotten
      BY <2>2 DEF RestoredMap
  <2>4. KeptNow = [c \in MapKeys |-> CurrentOf(Forgotten, c)]
      BY <2>3 DEF KeptNow
  <2>5. KeptNow' = [c \in MapKeys |-> CurrentOf(Forgotten, c)]
      BY <1>3, <2>3
  <2> QED BY <1>1, <1>5, <2>4, <2>5 DEF Begun
<1> QED BY <1>4, <1>5

\* After one that was killed, they have what the file before had.
LEMMA KilledAndBegun ==
    ASSUME IInv, IInv', Crash
    PROVE  BegunAfterACrash
PROOF
<1>1. /\ Key' \in MapKeys \cup {NoKey} /\ Current(x)' \in AllLayouts
      /\ \A c \in MapKeys :
             OwnNow'[c] = KeptNow'[c] \/ (c = Key' /\ OwnNow'[c] = Current(x)')
    BY WhatTheyBeginWith DEF Crash
<1>2. UNCHANGED <<keyboardConfig, file>>
    BY DEF Crash, Begin
<1> QED BY <1>1, <1>2, WhatTheyHave DEF BegunAfterACrash

\* Every step of the program is one of the abstract specification, or none, or
\* the daemon had lost track or does so.
LEMMA NextIsOwn ==
    ASSUME IInv, IInv', [Next]_vars
    PROVE  [Own!Next]_(Own!vars)
PROOF
<1> SUFFICES ASSUME ~Lost, ~Lost'
             PROVE  /\ Lasting' = Lasting
                    /\ Unseen \/ Changed \/ Followed \/ Begun \/ BegunAfterACrash
    BY StepsOfOwnLayouts
<1>1. ~lapsed /\ ~Unconfigured /\ ~lapsed'
    BY DEF Lost
<1>2. ASSUME UNCHANGED keyboardConfig PROVE Lasting' = Lasting
    BY <1>2 DEF Lasting
<1>3. ASSUME NEW w \in Windows, GoToWindow(w) PROVE Unseen /\ UNCHANGED keyboardConfig
  <2>1. /\ events = <<>> /\ events' = Append(events, "window") /\ "window" \in {"window", "desktop"}
        /\ UNCHANGED <<keyboardConfig, x, seenVars, memoryVars, file>>
      BY <1>1, <1>3 DEF GoToWindow, Acts
  <2> QED BY <2>1, UserGoesUnseen
<1>4. ASSUME NEW d \in Desktops, GoToDesktop(d) PROVE Unseen /\ UNCHANGED keyboardConfig
  <2>1. /\ events = <<>> /\ events' = Append(events, "desktop") /\ "desktop" \in {"window", "desktop"}
        /\ UNCHANGED <<keyboardConfig, x, seenVars, memoryVars, file>>
      BY <1>1, <1>4 DEF GoToDesktop, Acts
  <2> QED BY <2>1, UserGoesUnseen
<1>5. ASSUME NEW delta \in {1, 0 - 1}, ScrollLayouts(delta)
      PROVE  (Unseen \/ Changed) /\ UNCHANGED keyboardConfig
  <2>1. ServerActs(events)
      BY <1>5, ScrollingActs DEF IInv
  <2>2. /\ events = <<>>
        /\ UNCHANGED <<keyboardConfig, seenVars, memoryVars, file>>
      BY <1>1, <1>5 DEF ScrollLayouts, Acts
  <2> QED BY <2>1, <2>2, ServerChanges
<1>6. ASSUME NEW index \in Nat, Acts,
             \E s \in Selected(keyboardConfig, x, index) : x' = s[1] /\ events' = events \o s[2],
             UNCHANGED <<keyboardConfig, userVars, seenVars, memoryVars, file>>
      PROVE  Unseen \/ Changed
  <2>1. ServerActs(events)
      BY <1>6, SelectingActs DEF IInv
  <2>2. /\ events = <<>>
        /\ UNCHANGED <<keyboardConfig, seenVars, memoryVars, file>>
      BY <1>1, <1>6 DEF Acts
  <2> QED BY <2>1, <2>2, ServerChanges
<1>7. ASSUME NEW i \in 0 .. Len(LayoutsList(keyboardConfig, x.list)) - 1, SetLayoutFromApplet(i)
      PROVE  (Unseen \/ Changed) /\ UNCHANGED keyboardConfig
  <2>1. i \in Nat
      OBVIOUS
  <2>2. /\ Acts
        /\ \E s \in Selected(keyboardConfig, x, i) : x' = s[1] /\ events' = events \o s[2]
        /\ UNCHANGED <<keyboardConfig, userVars, seenVars, memoryVars, file>>
      BY <1>7 DEF SetLayoutFromApplet
  <2> QED BY <1>6, <2>1, <2>2
<1>8. ASSUME NEW i \in 0 .. Len(keyboardConfig.layouts) - 1, SetLayoutFromShortcut(i)
      PROVE  (Unseen \/ Changed) /\ UNCHANGED keyboardConfig
  <2>1. i \in Nat
      OBVIOUS
  <2>2. /\ Acts
        /\ \E s \in Selected(keyboardConfig, x, i) : x' = s[1] /\ events' = events \o s[2]
        /\ UNCHANGED <<keyboardConfig, userVars, seenVars, memoryVars, file>>
      BY <1>8 DEF SetLayoutFromShortcut
  <2> QED BY <1>6, <2>1, <2>2
<1>9. ASSUME NewKeyboardDevice PROVE (Unseen \/ Changed) /\ UNCHANGED keyboardConfig
  <2>1. keyboardConfig \in Configs /\ ConfigureKeyboard(keyboardConfig) /\ events = <<>>
      BY <1>1, <1>9 DEF NewKeyboardDevice, IInv, TypeOK
  <2>2. ServerActs(events)
      BY <2>1, ConfiguringActs DEF IInv
  <2>3. UNCHANGED <<keyboardConfig, seenVars, memoryVars, file>>
      BY <2>1 DEF ConfigureKeyboard
  <2> QED BY <2>1, <2>2, <2>3, ServerChanges
<1>10. ASSUME NEW k \in Configs, ReloadConfig(k) PROVE FALSE
    BY <1>1, <1>10 DEF ReloadConfig
<1>11. ASSUME NEW list \in Foreign, ForeignList(list) PROVE FALSE
    BY <1>1, <1>11 DEF ForeignList
<1>12. ASSUME LayoutSlot PROVE Unseen /\ UNCHANGED keyboardConfig
    BY <1>12, LayoutIsHeard DEF LayoutSlot, Handle
<1>13. ASSUME LayoutMapSlot PROVE Unseen /\ UNCHANGED keyboardConfig
    BY <1>1, <1>13, ListIsHeard DEF LayoutMapSlot, Handle
<1>14. ASSUME WindowSlot PROVE (Unseen \/ Followed) /\ UNCHANGED keyboardConfig
    BY <1>1, <1>14, WindowIsFollowed DEF WindowSlot, Handle
<1>15. ASSUME DesktopSlot PROVE (Unseen \/ Followed) /\ UNCHANGED keyboardConfig
    BY <1>1, <1>15, DesktopIsFollowed DEF DesktopSlot, Handle
<1>16. ASSUME Restart PROVE Begun /\ UNCHANGED keyboardConfig
  <2>1. events = <<>> /\ UNCHANGED keyboardConfig
      BY <1>1, <1>16 DEF Restart, Begin
  <2> QED BY <1>1, <1>16, <2>1, StoppedAndBegun
<1>17. ASSUME Crash PROVE BegunAfterACrash /\ UNCHANGED keyboardConfig
    BY <1>17, KilledAndBegun DEF Crash, Begin
<1>18. ASSUME UNCHANGED vars PROVE Unseen /\ UNCHANGED keyboardConfig
  <2>1. /\ UNCHANGED <<keyboardConfig, x, layoutMap, file>>
        /\ UNCHANGED <<seenVars, previousLayoutMapKey, prevLayoutList, events>>
      BY <1>18 DEF vars, seenVars, memoryVars
  <2>2. Key' = Key
      BY <2>1, SameKey
  <2>3. RemembersLater' <=> RemembersLater
      BY <2>1 DEF RemembersLater, Contains
  <2> QED BY <2>1, <2>2, <2>3, NothingIsSeen
<1> HIDE DEF Lasting
<1> QED
    BY <1>2, <1>3, <1>4, <1>5, <1>7, <1>8, <1>9, <1>10, <1>11, <1>12, <1>13, <1>14, <1>15, <1>16, <1>17, <1>18
    DEF Next, SwitchToNextLayout, SwitchToPreviousLayout

\* The session begins as the abstract specification does.
LEMMA InitIsOwn == Init => Own!Init
PROOF
<1> SUFFICES ASSUME Init PROVE Own!Init
    OBVIOUS
<1>1. IInv
    BY InitInv
<1>2. keyboardConfig \in Configs /\ x \in Servers
    BY <1>1 DEF IInv, TypeOK
<1>3. Key \in MapKeys \cup {NoKey}
    BY <1>1, KeyIsAKey DEF IInv, TypeOK, Key
<1>4. Current(x) \in AllLayouts
    BY <1>2, CurrentIsALayout
<1>5. \A c : CurrentOf(Forgotten, c) \in AllLayouts
    BY <1>2, DefaultOfAConfiguration DEF CurrentOf, Forgotten
<1>6. layoutMap = Forgotten /\ RestoredMap(keyboardConfig, file) = Forgotten
  <2>1. file.policy # keyboardConfig.policy
      BY <1>2, ConfigsAssumption DEF Init, NoFile
  <2> QED BY <2>1 DEF Init, RestoredMap
<1>7. OwnNow \in [MapKeys -> AllLayouts]
    BY <1>4, <1>5, <1>6, WhatTheyHave
<1>8. KeptNow \in [MapKeys -> AllLayouts]
    BY <1>5, <1>6 DEF KeptNow
<1>9. (lapsed \/ Unconfigured) \in BOOLEAN /\ Lasting \in BOOLEAN
    BY DEF Lasting
<1> QED BY <1>3, <1>4, <1>7, <1>8, <1>9 DEF Own!Init, OwnNow, KeptNow, Lasting

\* A change of layout affects the current window, application or desktop only,
\* each gets its own layout back when the user returns to it, and those that
\* outlive the session after the daemon was stopped, or killed, as well: the
\* daemon implements the abstract specification, for every configuration.
THEOREM ContainersHaveTheirOwnLayouts == Spec => OwnLayoutsSpec
PROOF
<1>1. IInv /\ IInv' /\ [Next]_vars => [Own!Next]_(Own!vars)
    BY NextIsOwn
<1> QED BY <1>1, InitInv, NextInv, InitIsOwn, PTL DEF Spec, OwnLayoutsSpec, Own!Spec

=============================================================================
