--------------------------- MODULE GridMapsProofs ---------------------------
(***************************************************************************)
(* What the positioner's operations do to the two maps of the grid: which  *)
(* cells new items get, and that the maps stay each other's inverse when   *)
(* rows come and go, when icons are moved, and when saved positions are    *)
(* applied.                                                                *)
(***************************************************************************)
EXTENDS GridMaps, FiniteSetTheorems, FunctionTheorems, TLAPS

-----------------------------------------------------------------------------
(***************************************************************************)
(* Counting.                                                               *)
(***************************************************************************)
\* The elements of a finite set of numbers below c, whose number is its rank.
Below(S, c) == {d \in S : d < c}

Ranked(S, c) == Cardinality(Below(S, c))

\* The ranks of a finite set are the numbers from 0, each of one element.
LEMMA Ranks ==
    ASSUME NEW S \in SUBSET Nat, IsFiniteSet(S)
    PROVE  /\ Cardinality(S) \in Nat
           /\ \A c \in S : Ranked(S, c) \in Nat /\ Ranked(S, c) < Cardinality(S)
           /\ \A c, d \in S : c < d => Ranked(S, c) < Ranked(S, d)
           /\ \A k \in 0 .. Cardinality(S) - 1 : \E c \in S : Ranked(S, c) = k
<1>1. Cardinality(S) \in Nat
  BY FS_CardinalityType
<1>2. \A c : Below(S, c) \in SUBSET S /\ IsFiniteSet(Below(S, c)) /\ Ranked(S, c) \in Nat
  BY FS_Subset, FS_CardinalityType DEF Below, Ranked
<1>3. ASSUME NEW c \in S PROVE Ranked(S, c) < Cardinality(S)
  <2>1. c \notin Below(S, c) /\ Below(S, c) # S
    BY DEF Below
  <2>2. Cardinality(Below(S, c)) <= Cardinality(S) /\ Cardinality(S) # Cardinality(Below(S, c))
    BY <1>2, <2>1, FS_Subset
  <2> QED
    BY <1>1, <1>2, <2>2 DEF Ranked
<1>4. ASSUME NEW c \in S, NEW d \in S, c < d PROVE Ranked(S, c) < Ranked(S, d)
  <2>1. Below(S, c) \in SUBSET Below(S, d) /\ c \in Below(S, d) /\ c \notin Below(S, c)
    <3>1. c \in Nat /\ d \in Nat /\ \A e \in S : e \in Nat
      OBVIOUS
    <3>2. \A e \in S : e < c => e < d
      BY <1>4, <3>1
    <3>3. c < d /\ ~(c < c)
      BY <1>4, <3>1
    <3> QED
      BY <3>2, <3>3, Zenon DEF Below
  <2>2. /\ Cardinality(Below(S, c)) <= Cardinality(Below(S, d))
        /\ Cardinality(Below(S, d)) # Cardinality(Below(S, c))
    BY <1>2, <2>1, FS_Subset
  <2> QED
    BY <1>2, <2>2 DEF Ranked
<1>5. ASSUME NEW k \in 0 .. Cardinality(S) - 1 PROVE \E c \in S : Ranked(S, c) = k
  <2> DEFINE rank == [c \in S |-> Ranked(S, c)]
             T == 0 .. Cardinality(S) - 1
  <2>1. rank \in [S -> T]
    BY <1>1, <1>2, <1>3
  <2>2. \A c, d \in S : rank[c] = rank[d] => c = d
    BY <1>2, <1>4
  <2>3. rank \in Injection(S, T)
    BY <2>1, <2>2 DEF Injection, IsInjective
  <2>4. IsFiniteSet(T) /\ Cardinality(T) = Cardinality(S)
    BY <1>1, FS_Interval
  <2>5. rank \in Surjection(S, T)
    BY <2>3, <2>4, FS_Injection
  <2> QED
    BY <2>5 DEF Surjection
<1> QED
  BY <1>1, <1>2, <1>3, <1>4, <1>5

\* A finite set of numbers that is not empty has a last element.
LEMMA LastExists ==
    ASSUME NEW S \in SUBSET Nat, IsFiniteSet(S), S # {}
    PROVE  \E c \in S : \A d \in S : d <= c
<1>1. Cardinality(S) \in Nat /\ Cardinality(S) # 0
  BY FS_CardinalityType, FS_EmptySet
<1>2. PICK c \in S : Ranked(S, c) = Cardinality(S) - 1
  BY <1>1, Ranks
<1>3. ASSUME NEW d \in S, d > c PROVE FALSE
  BY <1>1, <1>2, <1>3, Ranks
<1> QED
  BY <1>3

\* A set of numbers that is not empty has a first element.
LEMMA FirstExists ==
    ASSUME NEW S \in SUBSET Nat, S # {}
    PROVE  \E c \in S : \A d \in S : c <= d
<1>1. PICK m \in S : TRUE
  OBVIOUS
<1> DEFINE T == {d \in S : d <= m}
<1>2. T \in SUBSET Nat /\ m \in T /\ IsFiniteSet(T)
  <2>0. m \in Nat /\ m <= m
    BY <1>1
  <2>1. T \in SUBSET Nat /\ m \in T /\ \A d \in T : d <= m
    BY <1>1, <2>0
  <2> QED
    BY <2>0, <2>1, FS_BoundedSetOfNaturals
<1> HIDE DEF T
<1>3. Cardinality(T) \in Nat /\ Cardinality(T) # 0
  BY <1>2, FS_CardinalityType, FS_EmptySet
<1>4. PICK c \in T : Ranked(T, c) = 0
  BY <1>2, <1>3, Ranks
<1>5. ASSUME NEW d \in T PROVE c <= d
  <2>1. ~(d < c)
    BY <1>2, <1>4, Ranks
  <2> QED
    BY <1>2, <2>1
<1>6. ASSUME NEW d \in S PROVE c <= d
  <2>1. CASE d <= m
    BY <1>5, <2>1 DEF T
  <2>2. CASE ~(d <= m)
    BY <1>1, <1>2, <1>5, <2>2
  <2> QED
    BY <2>1, <2>2
<1> QED
  BY <1>6 DEF T

\* The first n elements of a set that has as many are n.
LEMMA FirstOnes ==
    ASSUME NEW S \in SUBSET Nat, IsFiniteSet(S), NEW n \in Nat, n <= Cardinality(S)
    PROVE  /\ IsFiniteSet({c \in S : Ranked(S, c) < n})
           /\ Cardinality({c \in S : Ranked(S, c) < n}) = n
<1> DEFINE T == {c \in S : Ranked(S, c) < n}
           rank == [c \in T |-> Ranked(S, c)]
           R == 0 .. n - 1
<1>1. IsFiniteSet(T)
  BY FS_Subset
<1>2. rank \in [T -> R] /\ \A c, d \in T : rank[c] = rank[d] => c = d
  <2>1. \A c \in S : Ranked(S, c) \in Nat
    BY Ranks
  <2>2. \A c, d \in S : c < d => Ranked(S, c) < Ranked(S, d)
    BY Ranks
  <2>3. rank \in [T -> R]
    <3>1. \A c \in T : Ranked(S, c) \in Nat /\ Ranked(S, c) < n
      BY <2>1
    <3>2. \A c \in T : Ranked(S, c) \in R
      BY <3>1
    <3> HIDE DEF T, R
    <3> QED
      BY <3>2
  <2>4. ASSUME NEW c \in T, NEW d \in T, rank[c] = rank[d] PROVE c = d
    <3>1. c \in Nat /\ d \in Nat /\ Ranked(S, c) = Ranked(S, d) /\ Ranked(S, c) \in Nat
      BY <2>1, <2>4
    <3>2. ~(c < d) /\ ~(d < c)
      BY <2>2, <3>1
    <3> QED
      BY <3>1, <3>2
  <2> QED
    BY <2>3, <2>4
<1>3. \A k \in R : \E c \in T : rank[c] = k
  <2> SUFFICES ASSUME NEW k \in R PROVE \E c \in T : rank[c] = k
    OBVIOUS
  <2>1. k \in 0 .. Cardinality(S) - 1 /\ k < n
    BY FS_CardinalityType
  <2>2. PICK c \in S : Ranked(S, c) = k
    BY <2>1, Ranks
  <2> QED
    BY <2>1, <2>2
<1>4. rank \in Bijection(T, R)
  <2>1. rank \in Injection(T, R)
    BY <1>2 DEF Injection, IsInjective
  <2>2. rank \in Surjection(T, R)
    BY <1>2, <1>3 DEF Surjection
  <2> QED
    BY <2>1, <2>2 DEF Bijection
<1>5. IsFiniteSet(R) /\ Cardinality(R) = n
  <2>1. 0 \in Int /\ n - 1 \in Int /\ (0 > n - 1 <=> n = 0) /\ (n - 1) - 0 + 1 = n
    OBVIOUS
  <2> QED
    BY <2>1, FS_Interval
<1>6. ExistsBijection(T, R)
  BY <1>4 DEF ExistsBijection
<1>7. Cardinality(R) = Cardinality(T)
  BY <1>1, <1>6, FS_Bijection
<1> HIDE DEF R
<1> QED
  BY <1>1, <1>5, <1>7

-----------------------------------------------------------------------------
(***************************************************************************)
(* The cells that new items get.                                           *)
(***************************************************************************)
LEMMA LastRowIsLast ==
    ASSUME NEW f, DOMAIN f \in SUBSET Nat, IsFiniteSet(DOMAIN f)
    PROVE  LastRow(f) \in Nat /\ \A c \in DOMAIN f : c <= LastRow(f)
  BY LastExists DEF LastRow

\* n new items get n cells that are free.
LEMMA NextCellsFree ==
    ASSUME NEW f, DOMAIN f \in SUBSET Nat, IsFiniteSet(DOMAIN f), NEW n \in Nat
    PROVE  /\ NextCells(f, n) \in SUBSET Nat
           /\ IsFiniteSet(NextCells(f, n)) /\ Cardinality(NextCells(f, n)) = n
           /\ \A c \in NextCells(f, n) : c \notin DOMAIN f
<1>1. CASE DOMAIN f = {} /\ n = 1
  BY <1>1, FS_Singleton DEF NextCells
<1>2. CASE ~(DOMAIN f = {} /\ n = 1)
  <2> DEFINE last == LastRow(f)
             cells == 0 .. (last + n)
             free == cells \ DOMAIN f
  <2>1. last \in Nat /\ \A c \in DOMAIN f : c <= last
    BY LastRowIsLast
  <2> HIDE DEF last
  <2>2. /\ IsFiniteSet(cells) /\ Cardinality(cells) = last + n + 1
        /\ IsFiniteSet(free) /\ Cardinality(free) = Cardinality(cells) - Cardinality(cells \cap DOMAIN f)
    <3>1. IsFiniteSet(cells) /\ Cardinality(cells) = last + n + 1
      BY <2>1, FS_Interval
    <3> HIDE DEF cells
    <3> QED
      BY <3>1, FS_Difference
  <2>3. Cardinality(cells \cap DOMAIN f) \in Nat /\ Cardinality(cells \cap DOMAIN f) <= last + 1
    <3>1. cells \cap DOMAIN f \in SUBSET Nat /\ \A c \in cells \cap DOMAIN f : c <= last
      BY <2>1
    <3> QED
      BY <2>1, <3>1, FS_BoundedSetOfNaturals, FS_CardinalityType
  <2>4. free \in SUBSET Nat /\ n <= Cardinality(free)
    BY <2>1, <2>2, <2>3
  <2>5. \A c \in free : Rows(c) \ DOMAIN f = Below(free, c)
    BY <2>1 DEF Rows, Below
  <2>6. NextCells(f, n) = {c \in free : Ranked(free, c) < n}
    BY <1>2, <2>5 DEF NextCells, Ranked, last
  <2>7. IsFiniteSet(NextCells(f, n)) /\ Cardinality(NextCells(f, n)) = n
    BY <2>2, <2>4, <2>6, FirstOnes
  <2> QED
    BY <2>4, <2>6, <2>7
<1> QED
  BY <1>1, <1>2

-----------------------------------------------------------------------------
(***************************************************************************)
(* Maps that are each other's inverse.                                     *)
(***************************************************************************)
\* A finite map between cells and rows, in either direction.
Places(f) == f \in [DOMAIN f -> Nat] /\ DOMAIN f \in SUBSET Nat /\ IsFiniteSet(DOMAIN f)

Agree(f, g) ==
    /\ Places(f)
    /\ g \in [DOMAIN g -> Nat] /\ DOMAIN g = Range(f)
    /\ \A c \in DOMAIN f : g[f[c]] = c

\* Both are injective, and each is the inverse of the other.
LEMMA AgreeBothWays ==
    ASSUME NEW f, NEW g, Agree(f, g)
    PROVE  /\ Places(f) /\ IsInjective(f) /\ Range(f) = DOMAIN g
           /\ Places(g) /\ IsInjective(g) /\ Range(g) = DOMAIN f
           /\ \A c \in DOMAIN f : f[c] \in DOMAIN g /\ g[f[c]] = c
           /\ \A r \in DOMAIN g : g[r] \in DOMAIN f /\ f[g[r]] = r
<1>1. /\ f \in [DOMAIN f -> Nat] /\ DOMAIN f \in SUBSET Nat /\ IsFiniteSet(DOMAIN f)
      /\ g \in [DOMAIN g -> Nat] /\ DOMAIN g = {f[c] : c \in DOMAIN f}
      /\ \A c \in DOMAIN f : g[f[c]] = c
  BY DEF Agree, Places, Range
<1>2. \A r \in DOMAIN g : g[r] \in DOMAIN f /\ f[g[r]] = r
  BY <1>1
<1>3. Range(g) = DOMAIN f
  BY <1>1, <1>2 DEF Range
<1>4. IsInjective(f) /\ IsInjective(g)
  BY <1>1, <1>2 DEF IsInjective
<1>5. DOMAIN g \in SUBSET Nat
  BY <1>1
<1>6. IsFiniteSet(DOMAIN g)
  <2>1. g \in Injection(DOMAIN g, DOMAIN f)
    BY <1>1, <1>2, <1>4 DEF Injection
  <2> QED
    BY <1>1, <2>1, FS_Injection
<1> QED
  BY <1>1, <1>2, <1>3, <1>4, <1>5, <1>6 DEF Places, Range

\* Being each other's inverse is symmetric.
LEMMA AgreeSwap == ASSUME NEW f, NEW g, Agree(f, g) PROVE Agree(g, f)
  BY AgreeBothWays DEF Agree, Places

\* What AntiFunction makes of an injective map.
LEMMA AntiAgrees ==
    ASSUME NEW f, Places(f), IsInjective(f)
    PROVE  Agree(f, AntiFunction(f))
<1> DEFINE g == AntiFunction(f)
<1>1. g = [r \in Range(f) |-> CHOOSE c \in DOMAIN f : r \in Range(f) => f[c] = r]
  BY DEF AntiFunction, Inverse
<1>2. ASSUME NEW c \in DOMAIN f PROVE g[f[c]] = c
  <2>1. f[c] \in Range(f)
    BY DEF Range
  <2>2. /\ (CHOOSE d \in DOMAIN f : f[c] \in Range(f) => f[d] = f[c]) \in DOMAIN f
        /\ f[CHOOSE d \in DOMAIN f : f[c] \in Range(f) => f[d] = f[c]] = f[c]
    BY <2>1
  <2> QED
    BY <1>1, <2>1, <2>2 DEF IsInjective
<1>3. DOMAIN g = Range(f) /\ \A r \in DOMAIN g : g[r] \in Nat
  <2>1. \A r \in Range(f) : \E c \in DOMAIN f : r = f[c]
    BY DEF Range
  <2> QED
    BY <1>1, <1>2, <2>1 DEF Places
<1>4. g = [r \in DOMAIN g |-> g[r]]
  BY <1>1
<1> HIDE DEF g
<1>5. Agree(f, g)
  BY <1>2, <1>3, <1>4 DEF Agree
<1> QED
  BY <1>5 DEF g

\* A map that is injective into a finite set is finite.
LEMMA FiniteInto ==
    ASSUME NEW f, DOMAIN f \in SUBSET Nat, f \in [DOMAIN f -> Nat], IsInjective(f),
           NEW T, IsFiniteSet(T), \A c \in DOMAIN f : f[c] \in T
    PROVE  Places(f)
<1>1. f \in Injection(DOMAIN f, T)
  BY DEF Injection
<1> QED
  BY <1>1, FS_Injection DEF Places

\* The maps as they are when all rows are laid out in order.
LEMMA InitMapSound ==
    ASSUME NEW n \in Nat
    PROVE  /\ Places(InitMap(n)) /\ IsInjective(InitMap(n))
           /\ DOMAIN InitMap(n) = Rows(n) /\ Range(InitMap(n)) = Rows(n)
<1>1. DOMAIN InitMap(n) = Rows(n) /\ \A i \in Rows(n) : InitMap(n)[i] = i /\ i \in Nat
  BY DEF InitMap, Rows
<1>2. InitMap(n) = [i \in DOMAIN InitMap(n) |-> InitMap(n)[i]]
  BY DEF InitMap
<1>3. IsFiniteSet(Rows(n))
  BY FS_Interval DEF Rows
<1> HIDE DEF InitMap
<1> QED
  BY <1>1, <1>2, <1>3 DEF Places, IsInjective, Range

-----------------------------------------------------------------------------
(***************************************************************************)
(* Rows that come and go.                                                  *)
(***************************************************************************)
\* Items that were there keep their cells, and the new ones get the new rows.
LEMMA InsertedSound ==
    ASSUME NEW f, Places(f), IsInjective(f), NEW start \in Nat, NEW n \in Nat,
           NEW N \in Nat, start <= N, Range(f) = Rows(N)
    PROVE  LET h == Inserted(f, start, n)
           IN  /\ Places(h) /\ IsInjective(h) /\ Range(h) = Rows(N + n)
               /\ \A c \in DOMAIN f : c \in DOMAIN h
               /\ \A c \in DOMAIN f : f[c] >= start => h[c] = f[c] + n
               /\ \A c \in DOMAIN f : f[c] < start => h[c] = f[c]
               /\ \A c \in DOMAIN h \ DOMAIN f : h[c] >= start /\ h[c] < start + n
<1> DEFINE new == NextCells(f, n)
           h == [c \in DOMAIN f \cup new |->
                    IF c \in new THEN start + Cardinality({d \in new : d < c})
                    ELSE IF f[c] >= start THEN f[c] + n ELSE f[c]]
<1>0. /\ DOMAIN f \in SUBSET Nat /\ IsFiniteSet(DOMAIN f)
      /\ \A c \in DOMAIN f : f[c] \in Nat /\ f[c] < N
      /\ \A c, d \in DOMAIN f : f[c] = f[d] => c = d
      /\ \A r \in Nat : r < N => \E c \in DOMAIN f : f[c] = r
  BY DEF Places, IsInjective, Range, Rows
<1>1. CASE DOMAIN f = {}
  <2>1. N = 0 /\ start = 0
    BY <1>0, <1>1
  <2>2. Inserted(f, start, n) = InitMap(n)
    BY <1>1, <2>1 DEF Inserted
  <2>3. \A c \in Rows(n) : InitMap(n)[c] >= start /\ InitMap(n)[c] < start + n
    BY <2>1 DEF InitMap, Rows
  <2> QED
    BY <1>1, <2>1, <2>2, <2>3, InitMapSound
<1>2. CASE DOMAIN f # {}
  <2>1. Inserted(f, start, n) = h
    BY <1>2 DEF Inserted
  <2>2. /\ new \in SUBSET Nat /\ IsFiniteSet(new) /\ Cardinality(new) = n
        /\ \A c \in new : c \notin DOMAIN f
    BY <1>0, NextCellsFree
  <2> HIDE DEF new
  <2>3. /\ DOMAIN h = DOMAIN f \cup new
        /\ \A c \in DOMAIN f : h[c] = IF f[c] >= start THEN f[c] + n ELSE f[c]
        /\ \A c \in new : h[c] = start + Ranked(new, c)
    BY <2>2 DEF Ranked, Below
  <2>4. h = [c \in DOMAIN h |-> h[c]]
    OBVIOUS
  <2> HIDE DEF h
  <2>5. /\ \A c \in new : Ranked(new, c) \in Nat /\ Ranked(new, c) < n
        /\ \A c, d \in new : c < d => Ranked(new, c) < Ranked(new, d)
        /\ \A k \in 0 .. n - 1 : \E c \in new : Ranked(new, c) = k
    BY <2>2, Ranks
  <2>6. \A c \in new : h[c] \in Nat /\ h[c] >= start /\ h[c] < start + n
    BY <2>3, <2>5
  <2>7. /\ \A c \in DOMAIN f : h[c] \in Nat /\ h[c] < N + n /\ (h[c] < start \/ h[c] >= start + n)
        /\ \A c, d \in DOMAIN f : h[c] = h[d] => c = d
    <3>1. ASSUME NEW c \in DOMAIN f
          PROVE  h[c] \in Nat /\ h[c] < N + n /\ (h[c] < start \/ h[c] >= start + n)
      BY <1>0, <2>3
    <3>2. ASSUME NEW c \in DOMAIN f, NEW d \in DOMAIN f, h[c] = h[d] PROVE c = d
      <4>1. f[c] \in Nat /\ f[d] \in Nat
        BY <1>0
      <4>2. f[c] = f[d]
        BY <2>3, <3>2, <4>1
      <4> QED
        BY <1>0, <4>2
    <3> QED
      BY <3>1, <3>2
  <2>8. \A c, d \in new : h[c] = h[d] => c = d
    <3> SUFFICES ASSUME NEW c \in new, NEW d \in new, h[c] = h[d] PROVE c = d
      OBVIOUS
    <3>1. c \in Nat /\ d \in Nat /\ Ranked(new, c) = Ranked(new, d)
      BY <2>2, <2>3, <2>5
    <3>2. ~(c < d) /\ ~(d < c)
      BY <2>5, <3>1
    <3> QED
      BY <3>1, <3>2
  <2>9. IsInjective(h)
    <3> SUFFICES ASSUME NEW c \in DOMAIN h, NEW d \in DOMAIN h, h[c] = h[d] PROVE c = d
      BY DEF IsInjective
    <3>1. CASE c \in new /\ d \in new
      BY <2>8, <3>1
    <3>2. CASE c \in DOMAIN f /\ d \in DOMAIN f
      BY <2>7, <3>2
    <3>3. CASE (c \in new /\ d \in DOMAIN f) \/ (d \in new /\ c \in DOMAIN f)
      BY <2>6, <2>7, <3>3
    <3> QED
      BY <2>3, <3>1, <3>2, <3>3
  <2>10. Range(h) = Rows(N + n)
    <3>1. \A c \in DOMAIN h : h[c] \in Rows(N + n)
      BY <2>3, <2>6, <2>7 DEF Rows
    <3>2. ASSUME NEW r \in Rows(N + n) PROVE \E c \in DOMAIN h : h[c] = r
      <4>1. CASE r < start
        <5>1. PICK c \in DOMAIN f : f[c] = r
          BY <1>0, <4>1 DEF Rows
        <5> QED
          BY <2>3, <4>1, <5>1 DEF Rows
      <4>2. CASE r >= start /\ r < start + n
        <5>1. r - start \in 0 .. n - 1
          BY <4>2 DEF Rows
        <5>2. PICK c \in new : Ranked(new, c) = r - start
          BY <2>5, <5>1
        <5> QED
          BY <2>3, <5>1, <5>2 DEF Rows
      <4>3. CASE r >= start + n
        <5>1. r - n \in Nat /\ r - n < N /\ r - n >= start
          BY <4>3 DEF Rows
        <5>2. PICK c \in DOMAIN f : f[c] = r - n
          BY <1>0, <5>1
        <5> QED
          BY <2>3, <5>1, <5>2 DEF Rows
      <4> QED
        BY <4>1, <4>2, <4>3 DEF Rows
    <3> QED
      BY <3>1, <3>2 DEF Range
  <2>11. Places(h)
    <3>1. h \in [DOMAIN h -> Nat] /\ DOMAIN h \in SUBSET Nat
      BY <1>0, <2>2, <2>3, <2>4, <2>6, <2>7
    <3>2. IsFiniteSet(DOMAIN h)
      <4>1. IsFiniteSet(DOMAIN f \cup new)
        BY <1>0, <2>2, FS_Union
      <4> QED
        BY <2>3, <4>1
    <3> QED
      BY <3>1, <3>2 DEF Places
  <2>12. \A c \in DOMAIN h \ DOMAIN f : h[c] >= start /\ h[c] < start + n
    BY <2>3, <2>6
  <2>13. /\ \A c \in DOMAIN f : c \in DOMAIN h
         /\ \A c \in DOMAIN f : f[c] >= start => h[c] = f[c] + n
         /\ \A c \in DOMAIN f : f[c] < start => h[c] = f[c]
    <3>1. \A c \in DOMAIN f : f[c] \in Nat
      BY <1>0
    <3> QED
      BY <2>3, <3>1
  <2> QED
    BY <2>1, <2>9, <2>10, <2>11, <2>12, <2>13
<1> QED
  BY <1>1, <1>2

\* Rows that go take their places with them, and the others are renumbered.
LEMMA RemovedSound ==
    ASSUME NEW g, Places(g), IsInjective(g), NEW first \in Nat, NEW last \in Nat, first <= last
    PROVE  LET n == last - first + 1
               h == Removed(g, first, last)
           IN  /\ Places(h) /\ IsInjective(h)
               /\ \A t \in DOMAIN h :
                      \/ t < first /\ t \in DOMAIN g /\ h[t] = g[t]
                      \/ t >= first /\ t + n \in DOMAIN g /\ h[t] = g[t + n]
               /\ \A s \in DOMAIN g : s < first => s \in DOMAIN h /\ h[s] = g[s]
               /\ \A s \in DOMAIN g : s > last => s - n \in DOMAIN h /\ h[s - n] = g[s]
<1> DEFINE n == last - first + 1
           kept == DOMAIN g \ (first .. last)
           left == {IF s > last THEN s - n ELSE s : s \in kept}
           h == [t \in left |-> g[IF t >= first THEN t + n ELSE t]]
<1>1. Removed(g, first, last) = h
  BY DEF Removed
<1>2. /\ DOMAIN g \in SUBSET Nat /\ IsFiniteSet(DOMAIN g) /\ \A s \in DOMAIN g : g[s] \in Nat
      /\ \A s, t \in DOMAIN g : g[s] = g[t] => s = t
      /\ n \in Nat /\ n >= 1 /\ first + n = last + 1
  BY DEF Places, IsInjective
<1> HIDE DEF n
<1>3. ASSUME NEW t \in left
      PROVE  \/ t < first /\ t \in DOMAIN g
             \/ t >= first /\ t + n \in DOMAIN g
  <2>1. PICK s \in kept : t = IF s > last THEN s - n ELSE s
    OBVIOUS
  <2>2. s \in Nat /\ s \in DOMAIN g /\ (s > last \/ s < first)
    BY <1>2
  <2>3. CASE s > last
    <3>1. t = s - n /\ t + n = s /\ t >= first
      BY <1>2, <2>1, <2>2, <2>3
    <3> QED
      BY <2>2, <3>1
  <2>4. CASE s < first
    <3>1. t = s
      BY <2>1, <2>2, <2>4
    <3> QED
      BY <2>2, <2>4, <3>1
  <2> QED
    BY <2>2, <2>3, <2>4
<1>4. \A s \in DOMAIN g : s < first => s \in left
  <2> SUFFICES ASSUME NEW s \in DOMAIN g, s < first PROVE s \in left
    OBVIOUS
  <2>1. s \in kept /\ ~(s > last)
    BY <1>2
  <2> QED
    BY <2>1
<1>5. \A s \in DOMAIN g : s > last => s - n \in left
  <2> SUFFICES ASSUME NEW s \in DOMAIN g, s > last PROVE s - n \in left
    OBVIOUS
  <2>1. s \in kept
    BY <1>2
  <2> QED
    BY <2>1
<1>6. left \in SUBSET Nat
  <2> SUFFICES ASSUME NEW t \in left PROVE t \in Nat
    OBVIOUS
  <2>1. PICK s \in kept : t = IF s > last THEN s - n ELSE s
    OBVIOUS
  <2> QED
    BY <1>2, <2>1
<1> HIDE DEF left
<1>7. /\ h = [t \in left |-> h[t]] /\ DOMAIN h = left
      /\ \A t \in left : h[t] = g[IF t >= first THEN t + n ELSE t]
  OBVIOUS
<1> HIDE DEF h
<1>8. \A t \in DOMAIN h :
          \/ t < first /\ t \in DOMAIN g /\ h[t] = g[t]
          \/ t >= first /\ t + n \in DOMAIN g /\ h[t] = g[t + n]
  BY <1>3, <1>6, <1>7
<1>9. IsInjective(h)
  <2> SUFFICES ASSUME NEW s \in DOMAIN h, NEW t \in DOMAIN h, h[s] = h[t] PROVE s = t
    BY DEF IsInjective
  <2>1. s \in Nat /\ t \in Nat
    BY <1>6, <1>7
  <2>2. \/ s < first /\ s \in DOMAIN g /\ h[s] = g[s]
        \/ s >= first /\ s + n \in DOMAIN g /\ h[s] = g[s + n]
    BY <1>8
  <2>3. \/ t < first /\ t \in DOMAIN g /\ h[t] = g[t]
        \/ t >= first /\ t + n \in DOMAIN g /\ h[t] = g[t + n]
    BY <1>8
  <2>4. \/ s < first /\ t < first /\ s = t
        \/ s >= first /\ t >= first /\ s + n = t + n
        \/ s < first /\ t >= first /\ s = t + n
        \/ s >= first /\ t < first /\ s + n = t
    BY <1>2, <2>2, <2>3
  <2> QED
    BY <1>2, <2>1, <2>4
<1>10. Places(h)
  <2>1. \A t \in DOMAIN h : h[t] \in Range(g) /\ h[t] \in Nat
    BY <1>2, <1>8 DEF Range
  <2>2. h \in [DOMAIN h -> Nat] /\ DOMAIN h \in SUBSET Nat
    BY <1>6, <1>7, <2>1
  <2>3. IsFiniteSet(Range(g))
    <3>1. g \in Surjection(DOMAIN g, Range(g))
      BY Fun_RangeProperties DEF Places
    <3> QED
      BY <1>2, <3>1, FS_Surjection
  <2> QED
    BY <1>9, <2>1, <2>2, <2>3, FiniteInto
<1>11. /\ \A s \in DOMAIN g : s < first => s \in DOMAIN h /\ h[s] = g[s]
       /\ \A s \in DOMAIN g : s > last => s - n \in DOMAIN h /\ h[s - n] = g[s]
  <2>1. ASSUME NEW s \in DOMAIN g, s < first PROVE s \in DOMAIN h /\ h[s] = g[s]
    BY <1>2, <1>4, <1>7, <2>1
  <2>2. ASSUME NEW s \in DOMAIN g, s > last PROVE s - n \in DOMAIN h /\ h[s - n] = g[s]
    <3>1. s \in Nat /\ s - n >= first /\ (s - n) + n = s
      BY <1>2, <2>2
    <3> QED
      BY <1>5, <1>7, <2>2, <3>1
  <2> QED
    BY <2>1, <2>2
<1> QED
  BY <1>1, <1>8, <1>9, <1>10, <1>11 DEF n

\* If every row had a place, every row that is left has.
LEMMA RemovedRows ==
    ASSUME NEW g, Places(g), IsInjective(g), NEW first \in Nat, NEW last \in Nat, first <= last,
           NEW N \in Nat, last < N, DOMAIN g = Rows(N)
    PROVE  DOMAIN Removed(g, first, last) = Rows(N - (last - first + 1))
<1> DEFINE n == last - first + 1
           h == Removed(g, first, last)
<1>1. /\ \A t \in DOMAIN h : t \in Nat /\ (t < first \/ t + n \in DOMAIN g)
      /\ \A s \in DOMAIN g : s < first => s \in DOMAIN h
      /\ \A s \in DOMAIN g : s > last => s - n \in DOMAIN h
  BY RemovedSound DEF Places
<1> HIDE DEF h
<1>2. ASSUME NEW t \in DOMAIN h PROVE t \in Rows(N - n)
  BY <1>1 DEF Rows
<1>3. ASSUME NEW t \in Rows(N - n) PROVE t \in DOMAIN h
  <2>1. t \in Nat /\ t < N - n
    BY DEF Rows
  <2>2. CASE t < first
    BY <1>1, <2>1, <2>2 DEF Rows
  <2>3. CASE ~(t < first)
    <3>1. t + n \in Rows(N) /\ t + n > last /\ (t + n) - n = t
      BY <2>1, <2>3 DEF Rows
    <3> QED
      BY <1>1, <3>1
  <2> QED
    BY <2>2, <2>3
<1> QED
  BY <1>2, <1>3 DEF h

-----------------------------------------------------------------------------
(***************************************************************************)
(* Moves.                                                                  *)
(***************************************************************************)
\* An icon that is moved to no cell in particular gets a free one.
LEMMA NextCellFree ==
    ASSUME NEW f, Places(f)
    PROVE  NextCell(f) \in Nat /\ NextCell(f) \notin DOMAIN f
<1>1. /\ NextCells(f, 1) \in SUBSET Nat /\ Cardinality(NextCells(f, 1)) = 1
      /\ \A c \in NextCells(f, 1) : c \notin DOMAIN f
  BY NextCellsFree DEF Places
<1>2. NextCells(f, 1) # {}
  BY <1>1, FS_EmptySet
<1> QED
  BY <1>1, <1>2 DEF NextCell

\* The search for a blank cell finds one that is no target of another icon: the
\* cells it looks at are more than the occupied ones and the targets.
LEMMA SearchFinds ==
    ASSUME NEW f, Places(f), NEW to \in Seq(Int), NEW from, NEW wanted \in Nat, NEW dragged
    PROVE  LET c == Search(f, from, to, wanted, dragged)
           IN  /\ c \in Nat /\ c \notin Range(to)
               /\ Blank(f, c, dragged) \/ c = from
<1> DEFINE limit == wanted + Cardinality(DOMAIN f) + Len(to)
           cells == wanted .. limit
           Usable(c) == (Blank(f, c, dragged) \/ c = from) /\ c \notin Range(to)
           usable == {c \in cells : Usable(c)}
<1>1. Cardinality(DOMAIN f) \in Nat /\ Len(to) \in Nat /\ limit \in Nat /\ DOMAIN to = 1 .. Len(to)
  BY FS_CardinalityType DEF Places
<1>2. IsFiniteSet(Range(to)) /\ Cardinality(Range(to)) \in Nat /\ Cardinality(Range(to)) <= Len(to)
  <2>1. to \in Surjection(DOMAIN to, Range(to))
    <3>1. to = [i \in DOMAIN to |-> to[i]]
      OBVIOUS
    <3> QED
      BY <3>1 DEF Surjection, Range
  <2>2. IsFiniteSet(DOMAIN to) /\ Cardinality(DOMAIN to) = Len(to)
    <3>1. /\ 1 \in Int /\ Len(to) \in Int /\ (1 > Len(to) <=> Len(to) = 0)
          /\ Len(to) - 1 + 1 = Len(to)
      BY <1>1
    <3>2. IsFiniteSet(1 .. Len(to)) /\ Cardinality(1 .. Len(to)) = Len(to)
      BY <3>1, FS_Interval
    <3> QED
      BY <1>1, <3>2
  <2> QED
    BY <2>1, <2>2, FS_Surjection, FS_CardinalityType
<1> DEFINE used == DOMAIN f \cup Range(to)
<1>3. IsFiniteSet(used) /\ Cardinality(used) \in Nat /\ Cardinality(used) <= Cardinality(DOMAIN f) + Len(to)
  <2>1. IsFiniteSet(DOMAIN f \cap Range(to)) /\ Cardinality(DOMAIN f \cap Range(to)) \in Nat
    BY <1>2, FS_Intersection, FS_CardinalityType
  <2>2. /\ IsFiniteSet(used)
        /\ Cardinality(used) =
             Cardinality(DOMAIN f) + Cardinality(Range(to)) - Cardinality(DOMAIN f \cap Range(to))
    BY <1>2, FS_Union DEF Places
  <2>3. Cardinality(used) \in Nat
    BY <2>2, FS_CardinalityType
  <2> QED
    BY <1>1, <1>2, <2>1, <2>2, <2>3
<1>4. Cardinality(cells) = Cardinality(DOMAIN f) + Len(to) + 1
  <2>1. wanted \in Int /\ limit \in Int /\ ~(wanted > limit)
    BY <1>1
  <2>2. Cardinality(cells) = limit - wanted + 1
    BY <2>1, FS_Interval
  <2> QED
    BY <1>1, <2>2
<1> HIDE DEF used
<1>5. \E c \in cells : c \notin used
  <2> SUFFICES ASSUME cells \in SUBSET used PROVE FALSE
    OBVIOUS
  <2>1. Cardinality(cells) <= Cardinality(used)
    BY <1>3, FS_Subset
  <2> QED
    BY <1>1, <1>3, <1>4, <2>1
<1>6. usable # {} /\ usable \in SUBSET Nat
  <2>1. \A c \in cells : c \notin used => Usable(c)
    BY DEF Blank, used
  <2> QED
    BY <1>1, <1>5, <2>1
<1>7. PICK c \in usable : \A d \in usable : c <= d
  BY <1>6, FirstExists
<1>8. c \in cells /\ Usable(c) /\ \A d \in wanted .. (c - 1) : ~Usable(d)
  <2>1. c \in cells /\ Usable(c) /\ c \in Nat
    BY <1>6
  <2>2. ASSUME NEW d \in wanted .. (c - 1), Usable(d) PROVE FALSE
    <3>1. d \in cells
      BY <1>1, <2>1
    <3> QED
      BY <1>7, <2>1, <2>2, <3>1
  <2> QED
    BY <2>1, <2>2
<1>9. Search(f, from, to, wanted, dragged) =
        CHOOSE e \in cells : Usable(e) /\ \A d \in wanted .. (e - 1) : ~Usable(d)
  BY DEF Search
<1> HIDE DEF Usable, cells
<1>10. Search(f, from, to, wanted, dragged) \in cells /\ Usable(Search(f, from, to, wanted, dragged))
  BY <1>8, <1>9
<1>11. \A e \in cells : e \in Nat
  BY <1>1 DEF cells
<1> QED
  BY <1>10, <1>11 DEF Usable

\* The row that the i-th move is about.
MovedRow(f, froms, i) == IF froms[i] \in DOMAIN f THEN f[froms[i]] ELSE None

\* The maps before, between and after the moves.
MoveSteps(st, f, g, froms, tos, dragged) ==
    /\ st[0] = [p2s |-> f, s2p |-> g, to |-> tos]
    /\ \A i \in 1 .. Len(froms) :
           st[i] = MoveOne(st[i - 1], froms, MovedRow(f, froms, i), i, dragged)

\* Moved is the end of such steps: the recursion behind it has a solution, since
\* a first length for which it had none would be one more than one that has.
LEMMA MovedIsLastStep ==
    ASSUME NEW f, NEW g, NEW froms \in Seq(Int), NEW tos, NEW dragged
    PROVE  \E st : /\ MoveSteps(st, f, g, froms, tos, dragged)
                   /\ Moved(f, g, froms, tos, dragged) = st[Len(froms)]
<1> DEFINE base == [p2s |-> f, s2p |-> g, to |-> tos]
           After(s, i) == MoveOne(s, froms, MovedRow(f, froms, i), i, dragged)
           Run(n, h) == h = [i \in 0 .. n |-> IF i = 0 THEN base ELSE After(h[i - 1], i)]
           bad == {n \in Nat : ~ \E h : Run(n, h)}
<1> HIDE DEF base, After
<1>1. \E h : Run(0, h)
  <2>1. Run(0, [i \in 0 .. 0 |-> base])
    <3>1. \A i \in 0 .. 0 : i = 0
      OBVIOUS
    <3> QED
      BY <3>1
  <2> QED
    BY <2>1
<1>2. ASSUME NEW m \in Nat, m # 0, NEW h, Run(m - 1, h) PROVE \E k : Run(m, k)
  <2> DEFINE k == [i \in 0 .. m |-> IF i = m THEN After(h[m - 1], m) ELSE h[i]]
  <2>1. \A i \in 0 .. m - 1 : h[i] = IF i = 0 THEN base ELSE After(h[i - 1], i)
    BY <1>2
  <2>2. ASSUME NEW i \in 0 .. m PROVE k[i] = IF i = 0 THEN base ELSE After(k[i - 1], i)
    <3>1. CASE i = m
      <4>1. k[i - 1] = h[m - 1] /\ i # 0
        BY <1>2, <3>1
      <4>2. k[i] = After(h[m - 1], m)
        BY <3>1
      <4> QED
        BY <3>1, <4>1, <4>2
    <3>2. CASE i # m /\ i # 0
      <4>1. i \in 0 .. m - 1 /\ i - 1 \in 0 .. m /\ i - 1 # m
        BY <1>2, <3>2
      <4>2. k[i] = h[i] /\ k[i - 1] = h[i - 1]
        BY <3>2, <4>1
      <4> QED
        BY <2>1, <3>2, <4>1, <4>2
    <3>3. CASE i # m /\ i = 0
      <4>1. i \in 0 .. m - 1 /\ k[i] = h[i]
        BY <1>2, <3>3
      <4> QED
        BY <2>1, <3>3, <4>1
    <3> QED
      BY <3>1, <3>2, <3>3
  <2>3. k = [i \in 0 .. m |-> k[i]]
    OBVIOUS
  <2> HIDE DEF k
  <2>4. Run(m, k)
    BY <2>2, <2>3
  <2> QED
    BY <2>4
<1>3. bad = {}
  <2> SUFFICES ASSUME bad # {} PROVE FALSE
    OBVIOUS
  <2>1. PICK m \in bad : \A n \in bad : m <= n
    BY FirstExists
  <2>2. m \in Nat /\ m # 0 /\ m - 1 \in Nat /\ m - 1 \notin bad
    <3>1. m \in Nat /\ m # 0
      BY <1>1, <2>1
    <3>2. m - 1 \in Nat /\ ~(m <= m - 1)
      BY <3>1
    <3> QED
      BY <2>1, <3>1, <3>2
  <2>3. PICK h : Run(m - 1, h)
    BY <2>2
  <2>4. \E k : Run(m, k)
    BY <1>2, <2>2, <2>3
  <2> QED
    BY <2>1, <2>4
<1> DEFINE n == Len(froms)
           st == CHOOSE h : Run(n, h)
<1>4. n \in Nat
  OBVIOUS
<1>5. Moved(f, g, froms, tos, dragged) = st[n]
  BY DEF Moved, After, base, MovedRow
<1> HIDE DEF n
<1>6. Run(n, st)
  BY <1>3, <1>4
<1> HIDE DEF st
<1>7. \A i \in 0 .. n : st[i] = IF i = 0 THEN base ELSE After(st[i - 1], i)
  BY <1>6
<1>8. st[0] = base /\ \A i \in 1 .. n : st[i] = After(st[i - 1], i)
  BY <1>4, <1>7
<1>9. MoveSteps(st, f, g, froms, tos, dragged)
  BY <1>8 DEF MoveSteps, After, base, n
<1> QED
  BY <1>5, <1>9 DEF n

\* Without moves the maps stay as they are.
LEMMA NoMove ==
    ASSUME NEW f, NEW g, NEW dragged
    PROVE  Moved(f, g, <<>>, <<>>, dragged) = [p2s |-> f, s2p |-> g, to |-> <<>>]
<1>1. <<>> \in Seq(Int) /\ Len(<<>>) = 0
  OBVIOUS
<1>2. \A fr \in Seq(Int) : \A ts :
          \E st : /\ MoveSteps(st, f, g, fr, ts, dragged)
                  /\ Moved(f, g, fr, ts, dragged) = st[Len(fr)]
  BY MovedIsLastStep
<1>3. PICK st : /\ MoveSteps(st, f, g, <<>>, <<>>, dragged)
                /\ Moved(f, g, <<>>, <<>>, dragged) = st[Len(<<>>)]
  BY <1>1, <1>2, Zenon
<1> QED
  BY <1>1, <1>3 DEF MoveSteps

\* Moves to where the icons are change nothing.
LEMMA IdleMoves ==
    ASSUME NEW f, NEW g, NEW froms \in Seq(Int), NEW dragged
    PROVE  LET st == Moved(f, g, froms, froms, dragged) IN st.p2s = f /\ st.s2p = g
<1> DEFINE n == Len(froms)
           base == [p2s |-> f, s2p |-> g, to |-> froms]
<1>1. n \in Nat
  OBVIOUS
<1>2. PICK steps : /\ MoveSteps(steps, f, g, froms, froms, dragged)
                   /\ Moved(f, g, froms, froms, dragged) = steps[n]
  BY MovedIsLastStep
<1> HIDE DEF base
<1>3. steps[0] = base /\ base.to = froms
  BY <1>2 DEF MoveSteps, base
<1>4. \A i \in 1 .. n : steps[i] = MoveOne(steps[i - 1], froms, MovedRow(f, froms, i), i, dragged)
  BY <1>2 DEF MoveSteps
<1> HIDE DEF n
<1> DEFINE bad == {i \in 0 .. n : steps[i] # base}
<1>5. bad = {}
  <2> SUFFICES ASSUME bad # {} PROVE FALSE
    OBVIOUS
  <2>1. PICK i \in bad : \A j \in bad : i <= j
    <3>1. bad \in SUBSET Nat
      BY <1>1
    <3> HIDE DEF bad
    <3> QED
      BY <3>1, FirstExists
  <2>2. i \in 1 .. n /\ i - 1 \in 0 .. n /\ ~(i <= i - 1)
    BY <1>1, <1>3, <2>1
  <2>3. steps[i - 1] = base
    BY <2>1, <2>2
  <2>4. steps[i] = base
    BY <1>3, <1>4, <2>2, <2>3 DEF MoveOne
  <2> QED
    BY <2>1, <2>4
<1>6. steps[n] = base
  BY <1>1, <1>5
<1> QED
  BY <1>2, <1>6 DEF base

\* A move of one icon leaves the maps each other's inverse, of the same rows:
\* whether it goes where it should, to the next blank cell or to any free one,
\* or is not there any more.
LEMMA SingleMove ==
    ASSUME NEW f, NEW g, Agree(f, g), NEW from \in Nat, NEW to \in Nat \cup {None},
           NEW dragged, \A c \in DOMAIN f : f[c] \in dragged => c = from
    PROVE  LET st == Moved(f, g, <<from>>, <<to>>, dragged)
           IN  Agree(st.p2s, st.s2p) /\ DOMAIN st.s2p = DOMAIN g
<1> DEFINE froms == <<from>>
           base == [p2s |-> f, s2p |-> g, to |-> <<to>>]
           row == MovedRow(f, froms, 1)
<1>1. froms \in Seq(Int) /\ Len(froms) = 1 /\ froms[1] = from /\ Range(froms) = {from}
  BY DEF Range
<1> HIDE DEF froms
<1>2. PICK steps : /\ MoveSteps(steps, f, g, froms, <<to>>, dragged)
                   /\ Moved(f, g, froms, <<to>>, dragged) = steps[Len(froms)]
  <2>1. \A fr \in Seq(Int) : \A ts :
            \E st : /\ MoveSteps(st, f, g, fr, ts, dragged)
                    /\ Moved(f, g, fr, ts, dragged) = st[Len(fr)]
    BY MovedIsLastStep
  <2> QED
    BY <1>1, <2>1, Zenon
<1> HIDE DEF base, row
<1>3. Moved(f, g, froms, <<to>>, dragged) = MoveOne(base, froms, row, 1, dragged)
  <2>1. steps[0] = base /\ steps[1] = MoveOne(steps[1 - 1], froms, row, 1, dragged)
    BY <1>1, <1>2 DEF MoveSteps, base, row
  <2> QED
    BY <1>1, <1>2, <2>1
<1>4. base.p2s = f /\ base.s2p = g /\ base.to = <<to>> /\ base.to[1] = to
  BY DEF base
<1>5. Places(f) /\ Places(g) /\ Range(f) = DOMAIN g /\ None \notin Nat
  BY AgreeBothWays DEF None
<1>6. CASE row = None \/ from = to
  <2>1. MoveOne(base, froms, row, 1, dragged) = base
    BY <1>1, <1>4, <1>6 DEF MoveOne
  <2> QED
    BY <1>3, <1>4, <2>1 DEF froms
<1>7. CASE row # None /\ from # to
  <2> DEFINE wanted == IF to = None THEN NextCell(f) ELSE to
             cell == IF wanted \notin {from} /\ ~Blank(f, wanted, dragged)
                     THEN Search(f, from, <<to>>, wanted, dragged) ELSE wanted
             left == IF from = cell THEN f ELSE Without(f, from)
             F == Put(left, cell, row)
             G == Put(g, row, cell)
  <2>1. from \in DOMAIN f /\ row = f[from] /\ row \in Nat /\ row \in DOMAIN g /\ g[row] = from
    <3>1. from \in DOMAIN f /\ row = f[from]
      BY <1>1, <1>7 DEF MovedRow, row
    <3>2. \A c \in DOMAIN f : f[c] \in DOMAIN g /\ g[f[c]] = c
      BY AgreeBothWays
    <3> QED
      BY <1>5, <3>1, <3>2 DEF Places
  <2>2. wanted \in Nat
    BY <1>5, NextCellFree
  <2> HIDE DEF wanted
  <2>3. cell \in Nat /\ (cell \in DOMAIN f => cell = from)
    <3>1. CASE wanted \notin {from} /\ ~Blank(f, wanted, dragged)
      <4>1. <<to>> \in Seq(Int)
        BY DEF None
      <4>2. cell \in Nat /\ (Blank(f, cell, dragged) \/ cell = from)
        BY <1>5, <2>2, <3>1, <4>1, SearchFinds
      <4> HIDE DEF cell
      <4> QED
        BY <4>2 DEF Blank
    <3>2. CASE ~(wanted \notin {from} /\ ~Blank(f, wanted, dragged))
      <4>1. cell = wanted
        BY <3>2
      <4>2. wanted \in DOMAIN f => wanted = from
        BY <3>2 DEF Blank
      <4> QED
        BY <2>2, <4>1, <4>2
    <3> QED
      BY <3>1, <3>2
  <2>4. LET st == MoveOne(base, froms, row, 1, dragged) IN st.p2s = F /\ st.s2p = G
    <3>1. [<<to>> EXCEPT ![1] = cell] = <<cell>> /\ Range(<<cell>>) = {cell}
      BY DEF Range
    <3> QED
      BY <1>1, <1>4, <1>7, <3>1 DEF MoveOne, wanted
  <2> HIDE DEF cell
  <2>5. /\ F = [c \in DOMAIN F |-> F[c]] /\ DOMAIN F = (DOMAIN f \ {from}) \cup {cell}
        /\ \A c \in DOMAIN F : F[c] = IF c = cell THEN row ELSE f[c]
    BY <2>1, <2>3 DEF Put, Without, Restrict
  <2>6. /\ G = [r \in DOMAIN G |-> G[r]] /\ DOMAIN G = DOMAIN g
        /\ \A r \in DOMAIN G : G[r] = IF r = row THEN cell ELSE g[r]
    BY <2>1 DEF Put
  <2> HIDE DEF F, G
  <2>7. /\ \A c \in DOMAIN f : f[c] \in DOMAIN g /\ g[f[c]] = c
        /\ \A r \in DOMAIN g : g[r] \in DOMAIN f /\ f[g[r]] = r
        /\ \A c \in DOMAIN f : c \in Nat /\ f[c] \in Nat
        /\ \A r \in DOMAIN g : r \in Nat /\ g[r] \in Nat
    BY <1>5, AgreeBothWays DEF Places
  <2>8. \A r \in DOMAIN G : G[r] \in DOMAIN F /\ F[G[r]] = r
    BY <2>1, <2>3, <2>5, <2>6, <2>7
  <2>9. \A c \in DOMAIN F : F[c] \in DOMAIN G /\ G[F[c]] = c
    BY <2>1, <2>3, <2>5, <2>6, <2>7
  <2>10. Agree(G, F)
    <3>1. \A r \in DOMAIN G : r \in Nat /\ G[r] \in Nat
      BY <2>3, <2>6, <2>7
    <3>2. \A c \in DOMAIN F : F[c] \in Nat
      BY <2>1, <2>5, <2>7
    <3>3. IsFiniteSet(DOMAIN G)
      BY <1>5, <2>6 DEF Places
    <3>4. DOMAIN F = Range(G)
      BY <2>8, <2>9 DEF Range
    <3> QED
      BY <2>5, <2>6, <2>8, <3>1, <3>2, <3>3, <3>4 DEF Agree, Places
  <2>11. Agree(F, G)
    BY <2>10, AgreeSwap
  <2> QED
    BY <1>3, <2>4, <2>6, <2>11 DEF froms
<1> QED
  BY <1>6, <1>7

-----------------------------------------------------------------------------
(***************************************************************************)
(* Moves of several icons, as a drag within the view makes them.  A cell   *)
(* is given up only if no icon is to go there, so that between two moves a *)
(* cell may still show an icon that has left it; Midway says which.        *)
(***************************************************************************)
\* The icons that are moved, their cells and their targets: all are different,
\* no icon is moved to where it is, and they are the ones being dragged.
DropOf(f, g, n, froms, tos) ==
    /\ Agree(f, g) /\ n \in Nat
    /\ froms \in [1 .. n -> DOMAIN f] /\ IsInjective(froms)
    /\ tos \in [1 .. n -> Nat] /\ IsInjective(tos)
    /\ \A i \in 1 .. n : froms[i] # tos[i]

Dragged(f, n, froms) == {f[froms[i]] : i \in 1 .. n}

\* The cells of the icons that are not moved.
Kept(f, froms) == DOMAIN f \ Range(froms)

TargetsMidway(T, i, f, n, froms, tos) ==
    /\ T \in [1 .. n -> Nat] /\ IsInjective(T)
    /\ \A k \in 1 .. n : k > i => T[k] = tos[k]
    /\ \A k \in 1 .. i : T[k] \notin Kept(f, froms)

\* The cells in use: of icons not moved, of moved ones, and of moved ones that
\* are going to be used again or have not been left yet.
UsedMidway(c, T, i, f, n, froms) ==
    \/ c \in Kept(f, froms)
    \/ \E k \in 1 .. i : c = T[k]
    \/ c \in Range(froms) /\ (c \in Range(T) \/ \E j \in i + 1 .. n : c = froms[j])

CellsMidway(F, T, i, f, n, froms) ==
    /\ F \in [DOMAIN F -> Nat] /\ DOMAIN F \in SUBSET Nat
    /\ \A c \in Nat : c \in DOMAIN F <=> UsedMidway(c, T, i, f, n, froms)
    /\ \A k \in 1 .. i : F[T[k]] = f[froms[k]]
    /\ \A c \in DOMAIN F : (\A k \in 1 .. i : c # T[k]) => c \in DOMAIN f /\ F[c] = f[c]

RowsMidway(G, T, i, f, g, froms) ==
    /\ G \in [DOMAIN g -> Nat]
    /\ \A k \in 1 .. i : G[f[froms[k]]] = T[k]
    /\ \A r \in DOMAIN g : (\A k \in 1 .. i : r # f[froms[k]]) => G[r] = g[r]

Midway(s, i, f, g, n, froms, tos) ==
    /\ TargetsMidway(s.to, i, f, n, froms, tos)
    /\ CellsMidway(s.p2s, s.to, i, f, n, froms)
    /\ RowsMidway(s.s2p, s.to, i, f, g, froms)

\* What the facts about a drop say, spelt out.
LEMMA DropFacts ==
    ASSUME NEW f, NEW g, NEW n, NEW froms, NEW tos, DropOf(f, g, n, froms, tos)
    PROVE  /\ n \in Nat /\ DOMAIN froms = 1 .. n /\ DOMAIN tos = 1 .. n
           /\ DOMAIN f \in SUBSET Nat /\ IsFiniteSet(DOMAIN f)
           /\ \A i \in 1 .. n : froms[i] \in DOMAIN f /\ froms[i] \in Nat /\ tos[i] \in Nat
           /\ \A i \in 1 .. n : froms[i] # tos[i] /\ f[froms[i]] \in DOMAIN g
           /\ \A i, j \in 1 .. n : froms[i] = froms[j] => i = j
           /\ \A c \in DOMAIN f : f[c] \in Nat
           /\ \A c, d \in DOMAIN f : f[c] = f[d] => c = d
           /\ \A c \in DOMAIN f : f[c] \in Dragged(f, n, froms) <=> c \in Range(froms)
<1>1. /\ n \in Nat /\ froms \in [1 .. n -> DOMAIN f] /\ tos \in [1 .. n -> Nat]
      /\ \A i \in 1 .. n : froms[i] # tos[i]
      /\ \A i, j \in DOMAIN froms : froms[i] = froms[j] => i = j
  BY DEF DropOf, IsInjective
<1>2. /\ Places(f) /\ IsInjective(f)
      /\ \A c \in DOMAIN f : f[c] \in DOMAIN g
  BY AgreeBothWays DEF DropOf
<1>3. /\ DOMAIN f \in SUBSET Nat /\ IsFiniteSet(DOMAIN f) /\ \A c \in DOMAIN f : f[c] \in Nat
      /\ \A c, d \in DOMAIN f : f[c] = f[d] => c = d
  BY <1>2 DEF Places, IsInjective
<1>4. \A c \in DOMAIN f : f[c] \in Dragged(f, n, froms) <=> c \in Range(froms)
  BY <1>1, <1>3 DEF Dragged, Range
<1> QED
  BY <1>1, <1>2, <1>3, <1>4

\* Between two moves the cells in use are finitely many.
LEMMA MidwayPlaces ==
    ASSUME NEW f, NEW g, NEW n, NEW froms, NEW tos, DropOf(f, g, n, froms, tos),
           NEW i \in 0 .. n, NEW F, NEW T, TargetsMidway(T, i, f, n, froms, tos),
           CellsMidway(F, T, i, f, n, froms)
    PROVE  Places(F)
<1>1. T \in [1 .. n -> Nat] /\ n \in Nat /\ IsFiniteSet(DOMAIN f)
  BY DropFacts DEF TargetsMidway
<1>2. IsFiniteSet(Range(T))
  <2>1. T \in Surjection(1 .. n, Range(T))
    BY <1>1 DEF Surjection, Range
  <2>2. IsFiniteSet(1 .. n)
    BY <1>1, FS_Interval
  <2> QED
    BY <2>1, <2>2, FS_Surjection
<1>3. IsFiniteSet(DOMAIN f \cup Range(T))
  BY <1>1, <1>2, FS_Union
<1>4. F \in [DOMAIN F -> Nat] /\ DOMAIN F \in SUBSET Nat
  BY DEF CellsMidway
<1>5. DOMAIN F \in SUBSET (DOMAIN f \cup Range(T))
  <2> SUFFICES ASSUME NEW c \in DOMAIN F PROVE c \in DOMAIN f \cup Range(T)
    OBVIOUS
  <2>1. UsedMidway(c, T, i, f, n, froms)
    BY DEF CellsMidway
  <2>2. \A k \in 1 .. i : T[k] \in Range(T)
    BY <1>1 DEF Range
  <2>3. Range(froms) \in SUBSET DOMAIN f
    BY DropFacts DEF Range
  <2> QED
    BY <2>1, <2>2, <2>3 DEF UsedMidway, Kept
<1>6. IsFiniteSet(DOMAIN F)
  BY <1>3, <1>5, FS_Subset
<1> QED
  BY <1>4, <1>6 DEF Places

\* The cell the i-th icon gets: the one it should go to, if that is one of the
\* moved icons' or blank, and otherwise one that is nobody's target.
CellFound(F, T, i, froms, wanted, dragged) ==
    IF wanted \notin Range(froms) /\ ~Blank(F, wanted, dragged)
    THEN Search(F, froms[i], T, wanted, dragged) ELSE wanted

\* The cell a move finds is nobody's who stays, and no later target unless it
\* is its own.
LEMMA MidwayCell ==
    ASSUME NEW f, NEW g, NEW n, NEW froms, NEW tos, DropOf(f, g, n, froms, tos),
           NEW i \in 1 .. n, NEW F, NEW T, TargetsMidway(T, i - 1, f, n, froms, tos),
           CellsMidway(F, T, i - 1, f, n, froms)
    PROVE  LET cell == CellFound(F, T, i, froms, tos[i], Dragged(f, n, froms))
           IN  /\ cell \in Nat /\ cell \notin Kept(f, froms)
               /\ cell = tos[i] \/ cell \notin Range(T)
               /\ tos[i] \in Range(froms) => cell = tos[i]
<1> DEFINE dragged == Dragged(f, n, froms)
           cell == CellFound(F, T, i, froms, tos[i], dragged)
<1>1. i \in Nat /\ n \in Nat /\ i - 1 \in 0 .. n /\ i - 1 \in Nat /\ T \in [1 .. n -> Nat]
  BY DropFacts DEF TargetsMidway
<1>2. Places(F)
  BY <1>1, MidwayPlaces
<1>3. T \in Seq(Int)
  BY <1>1
<1>4. froms[i] \in Range(froms) /\ tos[i] \in Nat /\ froms[i] \in Nat
  BY DropFacts DEF Range
<1>5. ASSUME NEW c \in Nat, Blank(F, c, dragged) PROVE c \notin Kept(f, froms)
  <2> SUFFICES ASSUME c \in Kept(f, froms) PROVE FALSE
    OBVIOUS
  <2>1. c \in DOMAIN F
    BY DEF CellsMidway, UsedMidway
  <2>2. \A k \in 1 .. i - 1 : c # T[k]
    BY DEF TargetsMidway
  <2>3. F[c] = f[c]
    BY <2>1, <2>2 DEF CellsMidway
  <2>4. f[c] \in dragged
    BY <1>5, <2>1, <2>3 DEF Blank
  <2>5. c \in DOMAIN f /\ c \notin Range(froms)
    BY DEF Kept
  <2> QED
    BY <2>4, <2>5, DropFacts
<1> HIDE DEF dragged
<1>6. CASE tos[i] \notin Range(froms) /\ ~Blank(F, tos[i], dragged)
  <2>1. cell = Search(F, froms[i], T, tos[i], dragged)
    BY <1>6 DEF CellFound
  <2>2. /\ cell \in Nat /\ cell \notin Range(T)
        /\ Blank(F, cell, dragged) \/ cell = froms[i]
    BY <1>2, <1>3, <1>4, <2>1, SearchFinds
  <2>3. cell \notin Kept(f, froms)
    BY <1>4, <1>5, <2>2 DEF Kept
  <2> QED
    BY <1>6, <2>2, <2>3 DEF dragged
<1>7. CASE ~(tos[i] \notin Range(froms) /\ ~Blank(F, tos[i], dragged))
  <2>1. cell = tos[i]
    BY <1>7 DEF CellFound
  <2>2. cell \notin Kept(f, froms)
    BY <1>4, <1>5, <1>7, <2>1 DEF Kept
  <2> QED
    BY <1>4, <2>1, <2>2 DEF dragged
<1> QED
  BY <1>6, <1>7

\* The i-th move takes one step of it.
LEMMA MidwayStep ==
    ASSUME NEW f, NEW g, NEW n, NEW froms, NEW tos, DropOf(f, g, n, froms, tos),
           NEW i \in 1 .. n, NEW s, Midway(s, i - 1, f, g, n, froms, tos)
    PROVE  Midway(MoveOne(s, froms, MovedRow(f, froms, i), i, Dragged(f, n, froms)),
                  i, f, g, n, froms, tos)
<1> DEFINE from == froms[i]
           row == f[from]
           cell == CellFound(s.p2s, s.to, i, froms, tos[i], Dragged(f, n, froms))
           F == s.p2s
           G == s.s2p
           T == s.to
           T1 == [T EXCEPT ![i] = cell]
           left == IF from \in Range(T1) THEN F ELSE Without(F, from)
           F1 == Put(left, cell, row)
           G1 == Put(G, row, cell)
<1>1. /\ TargetsMidway(T, i - 1, f, n, froms, tos)
      /\ CellsMidway(F, T, i - 1, f, n, froms)
      /\ RowsMidway(G, T, i - 1, f, g, froms)
  BY DEF Midway
<1> HIDE DEF F, G, T
<1>2. /\ n \in Nat /\ i \in Nat /\ from \in DOMAIN f /\ from \in Nat /\ row \in Nat
      /\ row \in DOMAIN g /\ from # tos[i] /\ tos[i] \in Nat /\ DOMAIN froms = 1 .. n
      /\ from \in Range(froms)
  <2>1. from \in Range(froms)
    BY DropFacts DEF Range
  <2> QED
    BY <2>1, DropFacts
<1>3. /\ T \in [1 .. n -> Nat] /\ T[i] = tos[i]
      /\ \A k, l \in 1 .. n : T[k] = T[l] => k = l
      /\ \A k \in 1 .. n : k > i - 1 => T[k] = tos[k]
      /\ \A k \in 1 .. i - 1 : T[k] \notin Kept(f, froms)
  BY <1>1, <1>2 DEF TargetsMidway, IsInjective
<1>4. /\ cell \in Nat /\ cell \notin Kept(f, froms)
      /\ cell = tos[i] \/ cell \notin Range(T)
      /\ tos[i] \in Range(froms) => cell = tos[i]
  BY <1>1, MidwayCell DEF F, T
<1>5. LET s1 == MoveOne(s, froms, MovedRow(f, froms, i), i, Dragged(f, n, froms))
      IN  s1.p2s = F1 /\ s1.s2p = G1 /\ s1.to = T1
  <2>1. MovedRow(f, froms, i) = row /\ row # None
    BY <1>2 DEF MovedRow, None
  <2>2. s.to[i] = tos[i] /\ tos[i] # None /\ from # s.to[i]
    BY <1>2, <1>3 DEF T, None
  <2> QED
    BY <2>1, <2>2 DEF MoveOne, CellFound, F, G, T
<1> HIDE DEF cell
<1>6. /\ T1 \in [1 .. n -> Nat] /\ T1[i] = cell
      /\ \A k \in 1 .. n : k # i => T1[k] = T[k]
      /\ \A k, l \in 1 .. n : T1[k] = T1[l] => k = l
  <2>1. T1 \in [1 .. n -> Nat] /\ T1[i] = cell /\ \A k \in 1 .. n : k # i => T1[k] = T[k]
    BY <1>3, <1>4
  <2>2. \A k \in 1 .. n : k # i => T[k] # cell
    BY <1>3, <1>4 DEF Range
  <2> HIDE DEF T1
  <2> QED
    BY <1>3, <2>1, <2>2
<1>7. \A c : c \in Range(T) <=> \E k \in 1 .. n : c = T[k]
  BY <1>3 DEF Range
<1>8. \A c : c \in Range(T1) <=> \E k \in 1 .. n : c = T1[k]
  BY <1>6 DEF Range
<1> HIDE DEF T1
<1>9. TargetsMidway(T1, i, f, n, froms, tos)
  <2>1. \A k \in 1 .. n : k > i => T1[k] = tos[k]
    BY <1>2, <1>3, <1>6
  <2>2. \A k \in 1 .. i : T1[k] \notin Kept(f, froms)
    <3> SUFFICES ASSUME NEW k \in 1 .. i PROVE T1[k] \notin Kept(f, froms)
      OBVIOUS
    <3>1. k = i \/ (k # i /\ k \in 1 .. n /\ k \in 1 .. i - 1)
      BY <1>2
    <3> QED
      BY <1>3, <1>4, <1>6, <3>1
  <2> QED
    BY <1>6, <2>1, <2>2 DEF TargetsMidway, IsInjective
<1>10. CellsMidway(F1, T1, i, f, n, froms)
  <2>1. /\ F \in [DOMAIN F -> Nat] /\ DOMAIN F \in SUBSET Nat
        /\ \A c \in Nat : c \in DOMAIN F <=> UsedMidway(c, T, i - 1, f, n, froms)
        /\ \A k \in 1 .. i - 1 : F[T[k]] = f[froms[k]]
        /\ \A c \in DOMAIN F : (\A k \in 1 .. i - 1 : c # T[k]) => c \in DOMAIN f /\ F[c] = f[c]
    BY <1>1 DEF CellsMidway
  <2>2. /\ F1 = [c \in DOMAIN F1 |-> F1[c]]
        /\ \A c : c \in DOMAIN F1 <=> c = cell \/ (c \in DOMAIN F /\ (c = from => from \in Range(T1)))
        /\ \A c \in DOMAIN F1 : F1[c] = IF c = cell THEN row ELSE F[c]
    BY DEF Put, Without, Restrict
  <2> HIDE DEF F1
  <2>3. F1 \in [DOMAIN F1 -> Nat] /\ DOMAIN F1 \in SUBSET Nat
    BY <1>2, <1>4, <2>1, <2>2
  <2>4. ASSUME NEW c \in Nat PROVE c \in DOMAIN F1 <=> UsedMidway(c, T1, i, f, n, froms)
    <3>1. (\E k \in 1 .. i : c = T1[k]) <=> c = cell \/ \E k \in 1 .. i - 1 : c = T[k]
      <4>1. \A k : k \in 1 .. i <=> k = i \/ k \in 1 .. i - 1
        BY <1>2
      <4>2. \A k \in 1 .. i - 1 : k # i /\ k \in 1 .. n
        BY <1>2
      <4> QED
        BY <1>6, <4>1, <4>2
    <3>2. CASE c = cell
      BY <2>2, <3>1, <3>2 DEF UsedMidway
    <3>3. CASE c # cell /\ c = from
      <4>1. ~ \E j \in i + 1 .. n : c = froms[j]
        <5>1. \A j \in i + 1 .. n : j \in 1 .. n /\ j # i
          BY <1>2
        <5> QED
          BY <3>3, <5>1, DropFacts
      <4>2. c \notin Kept(f, froms)
        BY <1>2, <3>3 DEF Kept
      <4>3. (\E k \in 1 .. i : c = T1[k]) => c \in Range(T1)
        BY <1>2, <1>8
      <4>4. \E j \in (i - 1) + 1 .. n : c = froms[j]
        BY <1>2, <3>3
      <4>5. c \in DOMAIN F
        BY <1>2, <2>1, <3>3, <4>4 DEF UsedMidway
      <4> QED
        BY <1>2, <2>2, <3>3, <4>1, <4>2, <4>3, <4>5 DEF UsedMidway
    <3>4. CASE c # cell /\ c # from
      <4>1. c \in Range(froms) => (c \in Range(T) <=> c \in Range(T1))
        <5> SUFFICES ASSUME c \in Range(froms) PROVE c \in Range(T) <=> c \in Range(T1)
          OBVIOUS
        <5>1. c # tos[i]
          BY <1>4, <3>4
        <5> QED
          BY <1>3, <1>6, <1>7, <1>8, <3>4, <5>1
      <4>2. (\E j \in (i - 1) + 1 .. n : c = froms[j]) <=> \E j \in i + 1 .. n : c = froms[j]
        <5>1. \A j : j \in (i - 1) + 1 .. n <=> j = i \/ j \in i + 1 .. n
          BY <1>2
        <5> QED
          BY <3>4, <5>1
      <4>3. c \in DOMAIN F1 <=> c \in DOMAIN F
        BY <2>2, <3>4
      <4> QED
        BY <2>1, <3>1, <3>4, <4>1, <4>2, <4>3 DEF UsedMidway
    <3> QED
      BY <3>2, <3>3, <3>4
  <2>5. ASSUME NEW k \in 1 .. i PROVE F1[T1[k]] = f[froms[k]]
    <3>1. CASE k = i
      BY <1>6, <2>2, <3>1
    <3>2. CASE k # i
      <4>1. k \in 1 .. i - 1 /\ k \in 1 .. n /\ i \in 1 .. n
        BY <1>2, <3>2
      <4>2. T1[k] = T[k] /\ T1[k] # cell /\ T1[k] \in Nat
        BY <1>6, <3>2, <4>1
      <4>3. T1[k] \in DOMAIN F1
        BY <2>4, <4>2 DEF UsedMidway
      <4> QED
        BY <2>1, <2>2, <4>1, <4>2, <4>3
    <3> QED
      BY <3>1, <3>2
  <2>6. ASSUME NEW c \in DOMAIN F1, \A k \in 1 .. i : c # T1[k]
        PROVE  c \in DOMAIN f /\ F1[c] = f[c]
    <3>1. c # cell
      BY <1>2, <1>6, <2>6
    <3>2. c \in DOMAIN F /\ F1[c] = F[c]
      BY <2>2, <3>1
    <3>3. \A k \in 1 .. i - 1 : k \in 1 .. i /\ k # i /\ k \in 1 .. n
      BY <1>2
    <3>4. \A k \in 1 .. i - 1 : c # T[k]
      BY <1>6, <2>6, <3>3
    <3> QED
      BY <2>1, <3>2, <3>4
  <2> QED
    BY <2>3, <2>4, <2>5, <2>6 DEF CellsMidway
<1>11. RowsMidway(G1, T1, i, f, g, froms)
  <2>1. /\ G \in [DOMAIN g -> Nat]
        /\ \A k \in 1 .. i - 1 : G[f[froms[k]]] = T[k]
        /\ \A r \in DOMAIN g : (\A k \in 1 .. i - 1 : r # f[froms[k]]) => G[r] = g[r]
    BY <1>1 DEF RowsMidway
  <2>2. G1 \in [DOMAIN g -> Nat] /\ \A r \in DOMAIN g : G1[r] = IF r = row THEN cell ELSE G[r]
    BY <1>2, <1>4, <2>1 DEF Put
  <2> HIDE DEF G1
  <2>3. \A k \in 1 .. i : k = i \/ (k # i /\ k \in 1 .. i - 1 /\ k \in 1 .. n)
    BY <1>2
  <2>4. \A k \in 1 .. n : f[froms[k]] \in DOMAIN g /\ (k # i => f[froms[k]] # row)
    BY DropFacts
  <2>5. \A k \in 1 .. i : G1[f[froms[k]]] = T1[k]
    BY <1>2, <1>6, <2>1, <2>2, <2>3, <2>4
  <2>6. ASSUME NEW r \in DOMAIN g, \A k \in 1 .. i : r # f[froms[k]] PROVE G1[r] = g[r]
    <3>1. r # row /\ \A k \in 1 .. i - 1 : r # f[froms[k]]
      BY <1>2, <2>6
    <3> QED
      BY <2>1, <2>2, <3>1
  <2> QED
    BY <2>2, <2>5, <2>6 DEF RowsMidway
<1> HIDE DEF F1, G1
<1> QED
  BY <1>5, <1>9, <1>10, <1>11 DEF Midway

\* Before the first move.
LEMMA MidwayStart ==
    ASSUME NEW f, NEW g, NEW n, NEW froms, NEW tos, DropOf(f, g, n, froms, tos)
    PROVE  Midway([p2s |-> f, s2p |-> g, to |-> tos], 0, f, g, n, froms, tos)
<1>1. /\ f \in [DOMAIN f -> Nat] /\ DOMAIN f \in SUBSET Nat /\ g \in [DOMAIN g -> Nat]
      /\ n \in Nat /\ froms \in [1 .. n -> DOMAIN f]
      /\ tos \in [1 .. n -> Nat] /\ IsInjective(tos)
  BY DEF DropOf, Agree, Places
<1>2. \A k : k \notin 1 .. 0
  OBVIOUS
<1>3. TargetsMidway(tos, 0, f, n, froms, tos)
  BY <1>1, <1>2 DEF TargetsMidway
<1>4. \A c : c \in Range(froms) <=> \E j \in 1 .. n : c = froms[j]
  BY <1>1 DEF Range
<1>5. \A c : UsedMidway(c, tos, 0, f, n, froms) <=> c \in DOMAIN f
  <2> SUFFICES ASSUME NEW c PROVE UsedMidway(c, tos, 0, f, n, froms) <=> c \in DOMAIN f
    OBVIOUS
  <2>1. 0 + 1 = 1 /\ (c \in Range(froms) => c \in DOMAIN f)
    BY <1>1, <1>4
  <2> QED
    BY <1>2, <1>4, <2>1 DEF UsedMidway, Kept
<1>6. CellsMidway(f, tos, 0, f, n, froms)
  BY <1>1, <1>2, <1>5 DEF CellsMidway
<1>7. RowsMidway(g, tos, 0, f, g, froms)
  BY <1>1, <1>2 DEF RowsMidway
<1> QED
  BY <1>3, <1>6, <1>7 DEF Midway

\* After the last move the maps are each other's inverse.
LEMMA MidwayEnd ==
    ASSUME NEW f, NEW g, NEW n, NEW froms, NEW tos, DropOf(f, g, n, froms, tos),
           NEW s, Midway(s, n, f, g, n, froms, tos)
    PROVE  Agree(s.p2s, s.s2p) /\ DOMAIN s.s2p = DOMAIN g
<1> DEFINE F == s.p2s
           G == s.s2p
           T == s.to
<1>1. /\ T \in [1 .. n -> Nat] /\ \A k \in 1 .. n : T[k] \notin Kept(f, froms)
      /\ \A k, l \in 1 .. n : T[k] = T[l] => k = l
      /\ F \in [DOMAIN F -> Nat] /\ DOMAIN F \in SUBSET Nat
      /\ \A c \in Nat : c \in DOMAIN F <=> UsedMidway(c, T, n, f, n, froms)
      /\ \A k \in 1 .. n : F[T[k]] = f[froms[k]]
      /\ \A c \in DOMAIN F : (\A k \in 1 .. n : c # T[k]) => c \in DOMAIN f /\ F[c] = f[c]
      /\ G \in [DOMAIN g -> Nat]
      /\ \A k \in 1 .. n : G[f[froms[k]]] = T[k]
      /\ \A r \in DOMAIN g : (\A k \in 1 .. n : r # f[froms[k]]) => G[r] = g[r]
  BY DEF Midway, TargetsMidway, CellsMidway, RowsMidway, IsInjective
<1> HIDE DEF F, G, T
<1>2. /\ Places(g)
      /\ \A c \in DOMAIN f : c \in Nat /\ f[c] \in DOMAIN g /\ g[f[c]] = c
      /\ \A r \in DOMAIN g : g[r] \in DOMAIN f /\ f[g[r]] = r
  <2>1. Agree(f, g)
    BY DEF DropOf
  <2>2. DOMAIN f \in SUBSET Nat
    BY DropFacts
  <2> QED
    BY <2>1, <2>2, AgreeBothWays
<1>3. /\ n \in Nat /\ DOMAIN froms = 1 .. n
      /\ \A k \in 1 .. n : froms[k] \in DOMAIN f
      /\ \A c, d \in DOMAIN f : f[c] = f[d] => c = d
  BY DropFacts
<1>4. \A c \in Nat : c \in DOMAIN F <=> c \in Kept(f, froms) \/ \E k \in 1 .. n : c = T[k]
  <2>1. \A j : j \notin n + 1 .. n
    BY <1>3
  <2>2. \A c : c \in Range(T) <=> \E k \in 1 .. n : c = T[k]
    BY <1>1 DEF Range
  <2> QED
    BY <1>1, <2>1, <2>2 DEF UsedMidway
<1>5. ASSUME NEW r \in DOMAIN g PROVE G[r] \in DOMAIN F /\ F[G[r]] = r
  <2>1. CASE \E k \in 1 .. n : r = f[froms[k]]
    <3>1. PICK k \in 1 .. n : r = f[froms[k]]
      BY <2>1
    <3>2. G[r] = T[k] /\ T[k] \in Nat
      BY <1>1, <3>1
    <3> QED
      BY <1>1, <1>4, <3>1, <3>2
  <2>2. CASE \A k \in 1 .. n : r # f[froms[k]]
    <3>1. G[r] = g[r] /\ g[r] \in DOMAIN f /\ f[g[r]] = r /\ g[r] \in Nat
      BY <1>1, <1>2, <2>2
    <3>2. g[r] \in Kept(f, froms)
      BY <1>3, <2>2, <3>1 DEF Kept, Range
    <3>3. \A k \in 1 .. n : g[r] # T[k]
      BY <1>1, <3>2
    <3>4. g[r] \in DOMAIN F
      BY <1>4, <3>1, <3>2
    <3> QED
      BY <1>1, <3>1, <3>3, <3>4
  <2> QED
    BY <2>1, <2>2
<1>6. ASSUME NEW c \in DOMAIN F PROVE F[c] \in DOMAIN g /\ G[F[c]] = c
  <2>1. CASE \E k \in 1 .. n : c = T[k]
    BY <1>1, <1>2, <1>3, <2>1
  <2>2. CASE \A k \in 1 .. n : c # T[k]
    <3>1. c \in DOMAIN f /\ F[c] = f[c] /\ c \in Nat
      BY <1>1, <2>2
    <3>2. c \in Kept(f, froms)
      BY <1>4, <2>2, <3>1
    <3>3. \A k \in 1 .. n : froms[k] # c
      BY <1>3, <3>2 DEF Kept, Range
    <3>4. \A k \in 1 .. n : f[c] # f[froms[k]]
      BY <1>3, <3>1, <3>3
    <3> QED
      BY <1>1, <1>2, <3>1, <3>4
  <2> QED
    BY <2>1, <2>2
<1>7. Agree(G, F)
  <2>1. DOMAIN G = DOMAIN g /\ G \in [DOMAIN G -> Nat] /\ Places(G)
    BY <1>1, <1>2 DEF Places
  <2>2. DOMAIN F = Range(G)
    BY <1>5, <1>6, <2>1 DEF Range
  <2> QED
    BY <1>1, <1>5, <2>1, <2>2 DEF Agree
<1>8. Agree(F, G)
  BY <1>7, AgreeSwap
<1>9. DOMAIN G = DOMAIN g
  BY <1>1
<1> QED
  BY <1>8, <1>9 DEF F, G

\* A drag of icons to cells that are different leaves the maps each other's
\* inverse, of the same rows: no move of it, in whatever order they are done,
\* takes the cell of an icon that is not dragged, or of one moved before.
LEMMA SeveralMoves ==
    ASSUME NEW f, NEW g, NEW n, NEW froms, NEW tos, DropOf(f, g, n, froms, tos)
    PROVE  LET st == Moved(f, g, froms, tos, Dragged(f, n, froms))
           IN  Agree(st.p2s, st.s2p) /\ DOMAIN st.s2p = DOMAIN g
<1> DEFINE dragged == Dragged(f, n, froms)
<1>1. n \in Nat /\ froms \in Seq(Int) /\ Len(froms) = n
  <2>1. n \in Nat /\ froms = [i \in 1 .. n |-> froms[i]]
    BY DEF DropOf
  <2>2. \A i \in 1 .. n : froms[i] \in Int
    BY DropFacts
  <2> QED
    BY <2>1, <2>2
<1>2. PICK steps : /\ MoveSteps(steps, f, g, froms, tos, dragged)
                   /\ Moved(f, g, froms, tos, dragged) = steps[n]
  <2>1. \E st : /\ MoveSteps(st, f, g, froms, tos, dragged)
                /\ Moved(f, g, froms, tos, dragged) = st[Len(froms)]
    BY <1>1, MovedIsLastStep
  <2> QED
    BY <1>1, <2>1
<1> DEFINE bad == {i \in 0 .. n : ~Midway(steps[i], i, f, g, n, froms, tos)}
<1>3. 0 \notin bad
  BY <1>2, MidwayStart DEF MoveSteps
<1>4. bad = {}
  <2> SUFFICES ASSUME bad # {} PROVE FALSE
    OBVIOUS
  <2>1. PICK i \in bad : \A j \in bad : i <= j
    <3>1. bad \in SUBSET Nat
      BY <1>1
    <3> HIDE DEF bad
    <3> QED
      BY <3>1, FirstExists
  <2>2. i \in 1 .. n /\ i - 1 \in 0 .. n /\ ~(i <= i - 1)
    BY <1>1, <1>3, <2>1
  <2>3. Midway(steps[i - 1], i - 1, f, g, n, froms, tos)
    BY <2>1, <2>2
  <2>4. steps[i] = MoveOne(steps[i - 1], froms, MovedRow(f, froms, i), i, dragged)
    BY <1>1, <1>2, <2>2 DEF MoveSteps
  <2>5. Midway(steps[i], i, f, g, n, froms, tos)
    BY <2>2, <2>3, <2>4, MidwayStep
  <2> QED
    BY <2>1, <2>5
<1>5. Midway(steps[n], n, f, g, n, froms, tos)
  BY <1>1, <1>4
<1>6. Agree(steps[n].p2s, steps[n].s2p) /\ DOMAIN steps[n].s2p = DOMAIN g
  BY <1>5, MidwayEnd
<1> QED
  BY <1>2, <1>6

-----------------------------------------------------------------------------
(***************************************************************************)
(* Saved positions.                                                        *)
(***************************************************************************)
\* A cell is where its stripe and its place in the stripe say.
LEMMA CellOfItsStripe ==
    ASSUME NEW c \in Nat, NEW w \in Nat, w > 0
    PROVE  c \div w \in Nat /\ c % w \in Nat /\ c % w < w /\ (c \div w) * w + (c % w) = c
<1>1. c % w \in 0 .. w - 1
  OBVIOUS
<1>2. c \div w \in Nat
  OBVIOUS
<1>3. (c \div w) * w + (c % w) = c
  OBVIOUS
<1> QED
  BY <1>1, <1>2, <1>3

\* Places that a stripe has are different cells.
LEMMA PlacesDiffer ==
    ASSUME NEW s \in Nat, NEW t \in Nat, NEW p \in Nat, NEW q \in Nat, NEW w \in Nat,
           p < w, q < w, s * w + p = t * w + q
    PROVE  s = t /\ p = q
<1>1. ASSUME NEW a \in Nat, NEW b \in Nat, a < b PROVE a * w + w <= b * w
  <2>1. PICK k \in Nat : b = a + k /\ k >= 1
    <3>1. b - a \in Nat /\ b = a + (b - a) /\ b - a >= 1
      BY <1>1
    <3> QED
      BY <3>1
  <2>2. k * w >= w
    BY <2>1
  <2>3. b * w = a * w + k * w
    BY <2>1
  <2> QED
    BY <2>2, <2>3
<1>2. s * w \in Nat /\ t * w \in Nat
  OBVIOUS
<1>3. ~(s < t) /\ ~(t < s)
  BY <1>1, <1>2
<1> QED
  BY <1>3

\* The folder model's urls: a sequence without repetitions.
FolderOf(src) == /\ src \in Seq(Range(src))
                 /\ IsInjective(src)

\* The row of a url that has one.
LEMMA SourceRowSound ==
    ASSUME NEW src, FolderOf(src), NEW u \in Range(src)
    PROVE  /\ SourceRow(src, u) \in Rows(Len(src)) /\ SourceRow(src, u) \in Nat
           /\ src[SourceRow(src, u) + 1] = u
<1>1. Len(src) \in Nat /\ DOMAIN src = 1 .. Len(src)
  BY DEF FolderOf
<1>2. PICK k \in 1 .. Len(src) : src[k] = u
  BY <1>1 DEF Range
<1>3. k - 1 \in Rows(Len(src)) /\ src[(k - 1) + 1] = u
  BY <1>1, <1>2 DEF Rows
<1>4. SourceRow(src, u) \in Rows(Len(src)) /\ src[SourceRow(src, u) + 1] = u
  BY <1>3 DEF SourceRow
<1> QED
  BY <1>1, <1>4 DEF Rows

\* Rows that show the same url are the same.
LEMMA RowsDiffer ==
    ASSUME NEW src, FolderOf(src), NEW r \in Rows(Len(src)), NEW t \in Rows(Len(src)),
           src[r + 1] = src[t + 1]
    PROVE  r = t
<1>1. Len(src) \in Nat /\ DOMAIN src = 1 .. Len(src)
      /\ \A i, j \in DOMAIN src : src[i] = src[j] => i = j
  BY DEF FolderOf, IsInjective
<1>2. r + 1 \in DOMAIN src /\ t + 1 \in DOMAIN src
  BY <1>1 DEF Rows
<1>3. r \in Int /\ t \in Int
  BY <1>1 DEF Rows
<1> QED
  BY <1>1, <1>2, <1>3

\* The map f shows exactly the urls us, each in one cell.
Shows(f, src, us) ==
    /\ Places(f) /\ IsInjective(f)
    /\ \A c \in DOMAIN f : f[c] \in Rows(Len(src)) /\ src[f[c] + 1] \in us
    /\ \A u \in us : \E c \in DOMAIN f : src[f[c] + 1] = u

\* A map that shows every url of the folder maps every row.
LEMMA ShowsAllRows ==
    ASSUME NEW src, FolderOf(src), NEW f, Shows(f, src, Range(src))
    PROVE  Range(f) = Rows(Len(src))
<1>1. \A c \in DOMAIN f : f[c] \in Rows(Len(src))
  BY DEF Shows
<1>2. ASSUME NEW r \in Rows(Len(src)) PROVE \E c \in DOMAIN f : f[c] = r
  <2>1. src[r + 1] \in Range(src)
    <3>1. Len(src) \in Nat /\ DOMAIN src = 1 .. Len(src)
      BY DEF FolderOf
    <3>2. r + 1 \in DOMAIN src
      BY <3>1 DEF Rows
    <3> QED
      BY <3>2 DEF Range
  <2>2. PICK c \in DOMAIN f : src[f[c] + 1] = src[r + 1]
    BY <2>1 DEF Shows
  <2> QED
    BY <1>1, <2>2, RowsDiffer
<1> QED
  BY <1>1, <1>2 DEF Range

\* A map whose cells show different urls of the folder is injective and finite.
LEMMA ShowsIfDifferent ==
    ASSUME NEW src, FolderOf(src), NEW f, DOMAIN f \in SUBSET Nat, NEW us,
           f = [c \in DOMAIN f |-> f[c]],
           \A c \in DOMAIN f : f[c] \in Rows(Len(src)) /\ src[f[c] + 1] \in us,
           \A u \in us : \E c \in DOMAIN f : src[f[c] + 1] = u,
           \A c, d \in DOMAIN f : src[f[c] + 1] = src[f[d] + 1] => c = d
    PROVE  Shows(f, src, us)
<1>1. Len(src) \in Nat
  BY DEF FolderOf
<1>2. IsInjective(f)
  BY DEF IsInjective
<1>3. f \in [DOMAIN f -> Nat]
  BY <1>1 DEF Rows
<1>4. IsFiniteSet(Rows(Len(src)))
  <2>1. 0 \in Int /\ Len(src) - 1 \in Int
    BY <1>1
  <2> QED
    BY <2>1, FS_Interval DEF Rows
<1>5. Places(f)
  BY <1>2, <1>3, <1>4, FiniteInto
<1> QED
  BY <1>2, <1>5 DEF Shows

\* Icons without a place are shown in cells that were free, the others stay.
LEMMA PlacingsShow ==
    ASSUME NEW src, FolderOf(src), NEW f, NEW us, Shows(f, src, us),
           NEW urls \in SUBSET Range(src), urls \cap us = {},
           NEW h \in Placings(f, urls, src)
    PROVE  /\ Shows(h, src, us \cup urls)
           /\ \A c \in DOMAIN f : c \in DOMAIN h /\ h[c] = f[c]
<1> DEFINE new == NextCells(f, Cardinality(urls))
<1>1. PICK q \in Bijection(new, urls) :
          h = [c \in DOMAIN f \cup new |-> IF c \in new THEN SourceRow(src, q[c]) ELSE f[c]]
  BY DEF Placings
<1>2. IsFiniteSet(urls) /\ Cardinality(urls) \in Nat
  <2>1. Len(src) \in Nat /\ src \in Surjection(1 .. Len(src), Range(src))
    BY DEF FolderOf, Surjection, Range
  <2>2. IsFiniteSet(1 .. Len(src))
    BY <2>1, FS_Interval
  <2>3. IsFiniteSet(Range(src))
    BY <2>1, <2>2, FS_Surjection
  <2> QED
    BY <2>3, FS_Subset, FS_CardinalityType
<1>3. new \in SUBSET Nat /\ \A c \in new : c \notin DOMAIN f
  BY <1>2, NextCellsFree DEF Shows, Places
<1> HIDE DEF new
<1>4. /\ \A c \in new : q[c] \in urls /\ q[c] \in Range(src)
      /\ \A c, d \in new : q[c] = q[d] => c = d
      /\ \A u \in urls : \E c \in new : q[c] = u
  BY DEF Bijection, Injection, Surjection, IsInjective
<1>5. /\ DOMAIN h = DOMAIN f \cup new /\ h = [c \in DOMAIN h |-> h[c]]
      /\ \A c \in DOMAIN f : h[c] = f[c]
      /\ \A c \in new : h[c] = SourceRow(src, q[c])
  BY <1>1, <1>3
<1>6. \A c \in new : h[c] \in Rows(Len(src)) /\ src[h[c] + 1] = q[c]
  BY <1>4, <1>5, SourceRowSound
<1>7. /\ DOMAIN f \in SUBSET Nat
      /\ \A c \in DOMAIN f : f[c] \in Rows(Len(src)) /\ src[f[c] + 1] \in us
      /\ \A u \in us : \E c \in DOMAIN f : src[f[c] + 1] = u
      /\ \A c, d \in DOMAIN f : f[c] = f[d] => c = d
  BY DEF Shows, Places, IsInjective
<1>8. \A c \in DOMAIN h : h[c] \in Rows(Len(src)) /\ src[h[c] + 1] \in us \cup urls
  BY <1>4, <1>5, <1>6, <1>7
<1>9. \A u \in us \cup urls : \E c \in DOMAIN h : src[h[c] + 1] = u
  BY <1>4, <1>5, <1>6, <1>7
<1>10. ASSUME NEW c \in DOMAIN h, NEW d \in DOMAIN h, src[h[c] + 1] = src[h[d] + 1]
       PROVE  c = d
  <2>1. CASE c \in DOMAIN f /\ d \in DOMAIN f
    BY <1>5, <1>7, <1>10, <2>1, RowsDiffer
  <2>2. CASE c \in new /\ d \in new
    BY <1>4, <1>6, <1>10, <2>2
  <2>3. CASE (c \in DOMAIN f /\ d \in new) \/ (d \in DOMAIN f /\ c \in new)
    BY <1>4, <1>5, <1>6, <1>7, <1>10, <2>3
  <2> QED
    BY <1>5, <2>1, <2>2, <2>3
<1>11. DOMAIN h \in SUBSET Nat
  BY <1>3, <1>5, <1>7
<1> HIDE DEF new
<1>12. Shows(h, src, us \cup urls)
  BY <1>5, <1>8, <1>9, <1>10, <1>11, ShowsIfDifferent
<1> QED
  BY <1>5, <1>12

\* Saved positions of icons in a stripe of any width.
Saved(entries) == \A e \in entries : e.stripe \in Nat /\ e.pos \in Nat

\* Entries that claim different items and different cells get what they claim.
LEMMA RestoredShows ==
    ASSUME NEW src, FolderOf(src), NEW w \in Nat, NEW E, Saved(E), Compatible(E, w),
           UrlsOf(E) \in SUBSET Range(src)
    PROVE  LET f == Restored(E, src, w)
           IN  /\ Shows(f, src, UrlsOf(E))
               /\ \A e \in E : CellOf(e, w) \in DOMAIN f /\ src[f[CellOf(e, w)] + 1] = e.url
<1> DEFINE f == Restored(E, src, w)
           Owner(c) == CHOOSE e \in E : CellOf(e, w) = c
<1>1. \A e \in E : CellOf(e, w) \in Nat
  BY DEF Saved, CellOf
<1>2. /\ DOMAIN f = {CellOf(e, w) : e \in E} /\ f = [c \in DOMAIN f |-> f[c]]
      /\ \A c \in DOMAIN f : f[c] = SourceRow(src, Owner(c).url)
  BY DEF Restored
<1>3. \A d, e \in E : d # e => d.url # e.url /\ CellOf(d, w) # CellOf(e, w)
  BY DEF Compatible
<1>4. \A e \in E : CellOf(e, w) \in DOMAIN f /\ Owner(CellOf(e, w)) = e
  BY <1>2, <1>3
<1>5. \A e \in E : e.url \in UrlsOf(E) /\ e.url \in Range(src)
  BY DEF UrlsOf
<1> HIDE DEF f, Owner
<1>6. \A e \in E : /\ f[CellOf(e, w)] \in Rows(Len(src))
                   /\ src[f[CellOf(e, w)] + 1] = e.url
  <2> SUFFICES ASSUME NEW e \in E
               PROVE  /\ f[CellOf(e, w)] \in Rows(Len(src))
                      /\ src[f[CellOf(e, w)] + 1] = e.url
    OBVIOUS
  <2>1. f[CellOf(e, w)] = SourceRow(src, e.url)
    BY <1>2, <1>4
  <2> QED
    BY <1>5, <2>1, SourceRowSound
<1>7. \A c \in DOMAIN f : \E e \in E : c = CellOf(e, w)
  BY <1>2
<1>8. DOMAIN f \in SUBSET Nat
  BY <1>1, <1>7
<1>9. \A c \in DOMAIN f : f[c] \in Rows(Len(src)) /\ src[f[c] + 1] \in UrlsOf(E)
  BY <1>5, <1>6, <1>7
<1>10. \A u \in UrlsOf(E) : \E c \in DOMAIN f : src[f[c] + 1] = u
  BY <1>4, <1>6 DEF UrlsOf
<1>11. \A c, d \in DOMAIN f : src[f[c] + 1] = src[f[d] + 1] => c = d
  BY <1>3, <1>6, <1>7
<1>12. Shows(f, src, UrlsOf(E))
  BY <1>2, <1>8, <1>9, <1>10, <1>11, ShowsIfDifferent
<1> QED
  BY <1>4, <1>6, <1>12 DEF f

\* Whatever was saved, at whatever width: after applying it every file of the
\* folder is shown in one cell, and the entries whose claim was granted got it.
LEMMA AppliedGrants ==
    ASSUME NEW src, FolderOf(src), NEW w \in Nat, NEW positions, Saved(positions),
           NEW f \in Applied(positions, src, w)
    PROVE  LET known   == {e \in positions : e.url \in Range(src)}
               fitting == {e \in known : Fits(e, w)}
           IN  /\ Shows(f, src, Range(src))
               /\ \E E \in Claims(fitting, w) :
                      \A e \in E : CellOf(e, w) \in DOMAIN f /\ src[f[CellOf(e, w)] + 1] = e.url
<1> DEFINE known   == {e \in positions : e.url \in Range(src)}
           fitting == {e \in known : Fits(e, w)}
           Late(E) == UrlsOf(known \ fitting) \ UrlsOf(E)
           New(E)  == Range(src) \ (Late(E) \cup UrlsOf(E))
           After(E) == UNION {Placings(h, New(E), src) :
                                h \in Placings(Restored(E, src, w), Late(E), src)}
<1>0. Applied(positions, src, w) = UNION {After(E) : E \in Claims(fitting, w)}
  BY DEF Applied
<1> HIDE DEF fitting, New, Late
<1>1. PICK E \in Claims(fitting, w) :
          \E h \in Placings(Restored(E, src, w), Late(E), src) : f \in Placings(h, New(E), src)
  <2>1. PICK E \in Claims(fitting, w) : f \in After(E)
    BY <1>0
  <2> QED
    BY <2>1
<1> USE DEF fitting, New, Late
<1>2. PICK h \in Placings(Restored(E, src, w), Late(E), src) : f \in Placings(h, New(E), src)
  BY <1>1
<1>3. E \in SUBSET fitting /\ Compatible(E, w)
  BY DEF Claims
<1>4. Saved(E) /\ UrlsOf(E) \in SUBSET Range(src)
  BY <1>3 DEF Saved, UrlsOf
<1>5. Late(E) \in SUBSET Range(src) /\ Late(E) \cap UrlsOf(E) = {}
  BY DEF UrlsOf
<1>6. New(E) \in SUBSET Range(src) /\ New(E) \cap (UrlsOf(E) \cup Late(E)) = {}
      /\ (UrlsOf(E) \cup Late(E)) \cup New(E) = Range(src)
  BY <1>4, <1>5
<1> HIDE DEF Late, New
<1> DEFINE r == Restored(E, src, w)
<1>7. /\ Shows(r, src, UrlsOf(E))
      /\ \A e \in E : CellOf(e, w) \in DOMAIN r /\ src[r[CellOf(e, w)] + 1] = e.url
  BY <1>3, <1>4, RestoredShows
<1> HIDE DEF r
<1>8. h \in Placings(r, Late(E), src)
  BY <1>2 DEF r
<1>9. /\ Shows(h, src, UrlsOf(E) \cup Late(E))
      /\ \A c \in DOMAIN r : c \in DOMAIN h /\ h[c] = r[c]
  <2>1. Shows(r, src, UrlsOf(E))
    BY <1>7
  <2> QED
    BY <1>5, <1>8, <2>1, PlacingsShow
<1>10. /\ Shows(f, src, (UrlsOf(E) \cup Late(E)) \cup New(E))
       /\ \A c \in DOMAIN h : c \in DOMAIN f /\ f[c] = h[c]
  BY <1>2, <1>6, <1>9, PlacingsShow
<1>11. Shows(f, src, Range(src))
  BY <1>6, <1>10
<1>12. \A e \in E : CellOf(e, w) \in DOMAIN f /\ src[f[CellOf(e, w)] + 1] = e.url
  BY <1>7, <1>9, <1>10
<1> QED
  BY <1>11, <1>12

\* Saved positions of which no two are of one item or of one place.
Distinct(positions) ==
    \A d, e \in positions :
        d # e => d.url # e.url /\ ~(d.stripe = e.stripe /\ d.pos = e.pos)

\* If no icon is in the first place that is cut off, every icon whose place the
\* stripes have gets it.
LEMMA AppliedKeeps ==
    ASSUME NEW src, FolderOf(src), NEW w \in Nat, NEW positions, Saved(positions),
           Distinct(positions), \A e \in positions : e.pos # w,
           NEW f \in Applied(positions, src, w)
    PROVE  /\ Shows(f, src, Range(src))
           /\ \A e \in positions :
                  e.url \in Range(src) /\ e.pos < w
                      => CellOf(e, w) \in DOMAIN f /\ src[f[CellOf(e, w)] + 1] = e.url
<1> DEFINE known   == {e \in positions : e.url \in Range(src)}
           fitting == {e \in known : Fits(e, w)}
<1>1. PICK E \in Claims(fitting, w) :
          \A e \in E : CellOf(e, w) \in DOMAIN f /\ src[f[CellOf(e, w)] + 1] = e.url
  BY AppliedGrants
<1>2. \A e \in fitting : e \in positions /\ e.stripe \in Nat /\ e.pos \in Nat /\ e.pos < w
  BY DEF Fits, Saved
<1>3. Compatible(fitting, w)
  <2> SUFFICES ASSUME NEW d \in fitting, NEW e \in fitting, d # e
               PROVE  d.url # e.url /\ CellOf(d, w) # CellOf(e, w)
    BY DEF Compatible
  <2>1. d.url # e.url /\ ~(d.stripe = e.stripe /\ d.pos = e.pos)
    BY DEF Distinct
  <2>2. ASSUME CellOf(d, w) = CellOf(e, w) PROVE FALSE
    <3>1. d.stripe * w + d.pos = e.stripe * w + e.pos
      BY <2>2 DEF CellOf
    <3>2. \A s, t, p, q \in Nat : p < w /\ q < w /\ s * w + p = t * w + q => s = t /\ p = q
      BY PlacesDiffer
    <3>3. d.stripe = e.stripe /\ d.pos = e.pos
      BY <1>2, <3>1, <3>2
    <3> QED
      BY <2>1, <3>3
  <2> QED
    BY <2>1, <2>2
<1> HIDE DEF fitting
<1>4. \A e \in fitting : e \in E
  <2> SUFFICES ASSUME NEW e \in fitting, e \notin E PROVE FALSE
    OBVIOUS
  <2>1. E \in SUBSET fitting /\ ~Compatible(E \cup {e}, w)
    BY DEF Claims
  <2>2. E \cup {e} \in SUBSET fitting
    BY <2>1
  <2> QED
    BY <1>3, <2>1, <2>2 DEF Compatible
<1>5. ASSUME NEW e \in positions, e.url \in Range(src), e.pos < w PROVE e \in fitting
  BY <1>5 DEF fitting, Fits, Saved
<1>6. Shows(f, src, Range(src))
  BY AppliedGrants
<1> QED
  BY <1>1, <1>4, <1>5, <1>6

\* The positions that are saved of a grid: of different items and places, all
\* within the stripes, and every cell's item with its cell.
LEMMA EncodedSound ==
    ASSUME NEW src, FolderOf(src), NEW w \in Nat, w > 0, NEW f, Places(f), IsInjective(f),
           \A c \in DOMAIN f : f[c] \in Rows(Len(src))
    PROVE  LET positions == Encoded(f, src, w)
           IN  /\ Saved(positions) /\ Distinct(positions)
               /\ \A e \in positions : e.pos < w /\ e.url \in Range(src)
               /\ \A c \in DOMAIN f :
                      \E e \in positions : e.url = src[f[c] + 1] /\ CellOf(e, w) = c
<1> DEFINE Entry(c) == [url |-> src[f[c] + 1], stripe |-> c \div w, pos |-> c % w]
           positions == Encoded(f, src, w)
<1>1. positions = {Entry(c) : c \in DOMAIN f}
  BY DEF Encoded
<1>2. \A c \in DOMAIN f : /\ Entry(c).url = src[f[c] + 1]
                          /\ Entry(c).stripe = c \div w /\ Entry(c).pos = c % w
  OBVIOUS
<1> HIDE DEF Entry
<1>3. \A c \in DOMAIN f : /\ c \in Nat /\ c \div w \in Nat /\ c % w \in Nat /\ c % w < w
                          /\ (c \div w) * w + (c % w) = c
  BY CellOfItsStripe DEF Places
<1>4. \A c \in DOMAIN f : src[f[c] + 1] \in Range(src)
  <2>1. Len(src) \in Nat /\ DOMAIN src = 1 .. Len(src)
    BY DEF FolderOf
  <2>2. \A c \in DOMAIN f : f[c] + 1 \in DOMAIN src
    BY <2>1 DEF Rows
  <2> QED
    BY <2>2 DEF Range
<1>5. Saved(positions)
  <2> SUFFICES ASSUME NEW e \in positions PROVE e.stripe \in Nat /\ e.pos \in Nat
    BY DEF Saved
  <2>1. PICK c \in DOMAIN f : e = Entry(c)
    BY <1>1
  <2> QED
    BY <1>2, <1>3, <2>1
<1>6. \A c, d \in DOMAIN f : src[f[c] + 1] = src[f[d] + 1] => c = d
  <2> SUFFICES ASSUME NEW c \in DOMAIN f, NEW d \in DOMAIN f, src[f[c] + 1] = src[f[d] + 1]
               PROVE  c = d
    OBVIOUS
  <2>1. f[c] = f[d]
    BY RowsDiffer
  <2> QED
    BY <2>1 DEF IsInjective
<1>7. Distinct(positions)
  <2> SUFFICES ASSUME NEW d \in positions, NEW e \in positions,
                      d.url = e.url \/ (d.stripe = e.stripe /\ d.pos = e.pos)
               PROVE  d = e
    BY DEF Distinct
  <2>1. PICK c \in DOMAIN f : d = Entry(c)
    BY <1>1
  <2>2. PICK b \in DOMAIN f : e = Entry(b)
    BY <1>1
  <2>3. c = b
    <3>1. CASE d.url = e.url
      BY <1>2, <1>6, <2>1, <2>2, <3>1
    <3>2. CASE d.stripe = e.stripe /\ d.pos = e.pos
      <4>1. c \div w = b \div w /\ c % w = b % w
        BY <1>2, <2>1, <2>2, <3>2
      <4> QED
        BY <1>3, <4>1
    <3> QED
      BY <3>1, <3>2
  <2> QED
    BY <2>1, <2>2, <2>3
<1>8. \A e \in positions : e.pos < w /\ e.url \in Range(src)
  BY <1>1, <1>2, <1>3, <1>4
<1>9. \A c \in DOMAIN f : \E e \in positions : e.url = src[f[c] + 1] /\ CellOf(e, w) = c
  BY <1>1, <1>2, <1>3 DEF CellOf
<1> QED
  BY <1>5, <1>7, <1>8, <1>9
=============================================================================
