-------------------------- MODULE PositionerProofs --------------------------
(***************************************************************************)
(* Proofs about the positioner: the maps stay each other's inverse, every  *)
(* file of the folder keeps a place, rows that come and go leave the other *)
(* icons alone, and the layout that is saved is the one on the grid and is *)
(* the one that is restored.                                               *)
(***************************************************************************)
EXTENDS Positioner, GridMapsProofs, SequenceTheorems

\* No drop moves an icon over the end of its stripe together with others, and
\* none of several icons comes while the folder is being listed.  A drop over
\* the end gives several icons the same free cell; one that is kept for later is
\* replayed with the cells of the drop, though rows may have gone since.
MovesInside == ~OverEdge /\ MaxLate <= 1

-----------------------------------------------------------------------------
(***************************************************************************)
(* The rows of the folder model.                                           *)
(***************************************************************************)
Folder(s) == s \in Seq(Urls) /\ IsInjective(s)

\* The rows count from 0, the sequence from 1.
LEMMA FolderRows ==
    ASSUME NEW s, Folder(s)
    PROVE  /\ FolderOf(s) /\ Len(s) \in Nat /\ DOMAIN s = 1 .. Len(s)
           /\ Range(s) \in SUBSET Urls
           /\ \A r \in Rows(Len(s)) : s[r + 1] \in Range(s)
           /\ \A u \in Range(s) : \E r \in Rows(Len(s)) : s[r + 1] = u
<1>1. s \in Seq(Urls) /\ Len(s) \in Nat /\ DOMAIN s = 1 .. Len(s) /\ s = [i \in 1 .. Len(s) |-> s[i]]
  BY DEF Folder
<1>2. \A i \in 1 .. Len(s) : s[i] \in Range(s) /\ s[i] \in Urls
  BY <1>1 DEF Range
<1>3. s \in Seq(Range(s))
  BY <1>1, <1>2
<1>4. ASSUME NEW u \in Range(s) PROVE \E r \in Rows(Len(s)) : s[r + 1] = u
  <2>1. PICK i \in 1 .. Len(s) : s[i] = u
    BY <1>1 DEF Range
  <2>2. i - 1 \in Rows(Len(s)) /\ (i - 1) + 1 = i
    BY <1>1 DEF Rows
  <2> QED
    BY <2>1, <2>2
<1>5. \A r \in Rows(Len(s)) : s[r + 1] \in Range(s)
  BY <1>1, <1>2 DEF Rows
<1>6. Range(s) \in SUBSET Urls
  BY <1>1, <1>2 DEF Range
<1> QED
  BY <1>1, <1>3, <1>4, <1>5, <1>6 DEF FolderOf, Folder

\* A part of a sequence.
LEMMA PartOf ==
    ASSUME NEW S, NEW s \in Seq(S), NEW m \in Nat, NEW n \in Nat, 1 <= m, m <= n + 1, n <= Len(s)
    PROVE  /\ SubSeq(s, m, n) \in Seq(S) /\ Len(SubSeq(s, m, n)) = n - m + 1
           /\ \A i \in 1 .. n - m + 1 : SubSeq(s, m, n)[i] = s[m + i - 1]
<1>1. Len(s) \in Nat /\ \A i \in 1 .. Len(s) : s[i] \in S
  BY LenProperties
<1>2. \A i \in m .. n : s[i] \in S
  BY <1>1
<1>3. (IF m <= n THEN n - m + 1 ELSE 0) = n - m + 1
  OBVIOUS
<1>4. m \in Int /\ n \in Int
  OBVIOUS
<1> QED
  BY <1>2, <1>3, <1>4, SubSeqProperties

\* The rows s after the rows new were inserted from start on.
Spliced(s, start, new) == SubSeq(s, 1, start) \o new \o SubSeq(s, start + 1, Len(s))

\* Rows that come between the others.
LEMMA RowsInserted ==
    ASSUME NEW s, Folder(s), NEW start \in 0 .. Len(s), NEW new, Folder(new),
           Range(new) \cap Range(s) = {}
    PROVE  LET t == Spliced(s, start, new)
           IN  /\ Folder(t) /\ Len(t) = Len(s) + Len(new)
               /\ \A i \in 1 .. start : t[i] = s[i]
               /\ \A i \in start + 1 .. Len(s), j \in Nat : j = i + Len(new) => t[j] = s[i]
               /\ \A r \in start .. start + Len(new) - 1 : t[r + 1] \in Range(new)
<1> DEFINE n == Len(new)
           a == SubSeq(s, 1, start)
           b == SubSeq(s, start + 1, Len(s))
           t == a \o new \o b
<1>1. /\ s \in Seq(Urls) /\ new \in Seq(Urls) /\ Len(s) \in Nat /\ n \in Nat /\ start \in Nat
      /\ start <= Len(s) /\ DOMAIN s = 1 .. Len(s) /\ DOMAIN new = 1 .. n
  BY DEF Folder
<1>2. /\ a \in Seq(Urls) /\ Len(a) = start /\ \A i \in 1 .. start : a[i] = s[i]
  <2>1. start - 1 + 1 = start /\ \A i \in 1 .. start : 1 + i - 1 = i
    BY <1>1
  <2>2. 1 \in Nat /\ 1 <= 1 /\ 1 <= start + 1
    BY <1>1
  <2>3. /\ a \in Seq(Urls) /\ Len(a) = start - 1 + 1
        /\ \A i \in 1 .. start - 1 + 1 : a[i] = s[1 + i - 1]
    BY <1>1, <2>2, PartOf
  <2> QED
    BY <2>1, <2>3
<1>3. /\ b \in Seq(Urls) /\ Len(b) = Len(s) - start
      /\ \A i \in 1 .. Len(s) - start : b[i] = s[start + i]
  <2>1. /\ Len(s) - (start + 1) + 1 = Len(s) - start
        /\ \A i \in 1 .. Len(s) - start : (start + 1) + i - 1 = start + i
    BY <1>1
  <2>2. start + 1 \in Nat /\ 1 <= start + 1 /\ start + 1 <= Len(s) + 1 /\ Len(s) <= Len(s)
    BY <1>1
  <2>3. \A m, k \in Nat : 1 <= m /\ m <= k + 1 /\ k <= Len(s) =>
            /\ SubSeq(s, m, k) \in Seq(Urls) /\ Len(SubSeq(s, m, k)) = k - m + 1
            /\ \A i \in 1 .. k - m + 1 : SubSeq(s, m, k)[i] = s[m + i - 1]
    BY <1>1, PartOf
  <2>4. /\ b \in Seq(Urls) /\ Len(b) = Len(s) - (start + 1) + 1
        /\ \A i \in 1 .. Len(s) - (start + 1) + 1 : b[i] = s[(start + 1) + i - 1]
    BY <1>1, <2>2, <2>3, Zenon
  <2> QED
    BY <2>1, <2>4
<1> HIDE DEF a, b, n
<1>4. /\ a \o new \in Seq(Urls) /\ Len(a \o new) = start + n
      /\ \A i \in 1 .. start + n : (a \o new)[i] = IF i <= start THEN a[i] ELSE new[i - start]
  <2>1. a \in Seq(Urls) /\ new \in Seq(Urls) /\ Len(a) = start /\ Len(new) = n
    BY <1>1, <1>2 DEF n
  <2>2. /\ a \o new \in Seq(Urls)
        /\ Len(a \o new) = Len(a) + Len(new)
        /\ \A i \in 1 .. Len(a) + Len(new) :
               (a \o new)[i] = IF i <= Len(a) THEN a[i] ELSE new[i - Len(a)]
    BY <2>1, ConcatProperties, Zenon
  <2> QED
    BY <2>1, <2>2
<1>5. /\ t \in Seq(Urls) /\ Len(t) = Len(s) + n /\ DOMAIN t = 1 .. Len(s) + n
      /\ \A i \in 1 .. Len(s) + n :
             t[i] = IF i <= start + n THEN (a \o new)[i] ELSE b[i - (start + n)]
  <2>1. /\ t \in Seq(Urls) /\ Len(t) = Len(a \o new) + Len(b)
        /\ \A i \in 1 .. Len(a \o new) + Len(b) :
               t[i] = IF i <= Len(a \o new) THEN (a \o new)[i] ELSE b[i - Len(a \o new)]
    BY <1>3, <1>4, ConcatProperties
  <2>2. Len(a \o new) + Len(b) = Len(s) + n
    BY <1>1, <1>3, <1>4
  <2>3. DOMAIN t = 1 .. Len(t)
    BY <2>1, LenProperties
  <2> QED
    BY <1>4, <2>1, <2>2, <2>3
<1> HIDE DEF t
<1>6. /\ \A i \in 1 .. start : t[i] = s[i]
      /\ \A i \in 1 .. n : t[start + i] = new[i]
      /\ \A i \in start + 1 .. Len(s) : t[i + n] = s[i]
  <2>1. ASSUME NEW i \in 1 .. start PROVE t[i] = s[i]
    BY <1>1, <1>2, <1>4, <1>5
  <2>2. ASSUME NEW i \in 1 .. n PROVE t[start + i] = new[i]
    <3>1. PICK k \in Nat : k = start + i
      BY <1>1
    <3>2. k \in 1 .. start + n /\ k \in 1 .. Len(s) + n /\ ~(k <= start) /\ k <= start + n
          /\ k - start = i
      BY <1>1, <3>1
    <3>3. t[k] = (a \o new)[k]
      BY <1>5, <3>2
    <3>4. (a \o new)[k] = new[k - start]
      BY <1>4, <3>2
    <3> QED
      BY <3>1, <3>2, <3>3, <3>4
  <2>3. ASSUME NEW i \in start + 1 .. Len(s) PROVE t[i + n] = s[i]
    <3>1. PICK k \in Nat : k = i + n
      BY <1>1
    <3>2. PICK j \in Nat : j = i - start
      BY <1>1
    <3>3. k \in 1 .. Len(s) + n /\ ~(k <= start + n) /\ k - (start + n) = j
          /\ j \in 1 .. Len(s) - start /\ start + j = i
      BY <1>1, <3>1, <3>2
    <3>4. t[k] = b[k - (start + n)]
      BY <1>5, <3>3
    <3>5. b[j] = s[start + j]
      BY <1>3, <3>3
    <3> QED
      BY <3>1, <3>3, <3>4, <3>5
  <2> QED
    BY <2>1, <2>2, <2>3
<1>7. IsInjective(t)
  <2> SUFFICES ASSUME NEW i \in DOMAIN t, NEW j \in DOMAIN t, t[i] = t[j] PROVE i = j
    BY DEF IsInjective
  <2>1. \A k \in DOMAIN t :
            \/ k \in 1 .. start /\ k \in DOMAIN s /\ t[k] = s[k]
            \/ k \in start + 1 .. start + n /\ k - start \in DOMAIN new /\ t[k] = new[k - start]
            \/ k > start + n /\ k - n > start /\ k - n \in DOMAIN s /\ t[k] = s[k - n]
    <3> SUFFICES ASSUME NEW k \in DOMAIN t
                 PROVE  \/ k \in 1 .. start /\ k \in DOMAIN s /\ t[k] = s[k]
                        \/ k \in start + 1 .. start + n /\ k - start \in DOMAIN new /\ t[k] = new[k - start]
                        \/ k > start + n /\ k - n > start /\ k - n \in DOMAIN s /\ t[k] = s[k - n]
      OBVIOUS
    <3>1. CASE k <= start
      BY <1>1, <1>5, <1>6, <3>1
    <3>2. CASE k > start /\ k <= start + n
      <4>1. k - start \in 1 .. n /\ start + (k - start) = k
        BY <1>1, <1>5, <3>2
      <4> QED
        BY <1>1, <1>5, <1>6, <3>2, <4>1
    <3>3. CASE k > start + n
      <4>1. k - n \in start + 1 .. Len(s) /\ (k - n) + n = k
        BY <1>1, <1>5, <3>3
      <4> QED
        BY <1>1, <1>5, <1>6, <3>3, <4>1
    <3> QED
      BY <1>1, <1>5, <3>1, <3>2, <3>3
  <2>2. /\ \A k, l \in DOMAIN s : s[k] = s[l] => k = l
        /\ \A k, l \in DOMAIN new : new[k] = new[l] => k = l
        /\ \A k \in DOMAIN s, l \in DOMAIN new : s[k] # new[l]
    BY DEF Folder, IsInjective, Range
  <2>3. i \in Nat /\ j \in Nat
    BY <1>1, <1>5
  <2>4. \/ i \in 1 .. start /\ i \in DOMAIN s /\ t[i] = s[i]
        \/ i \in start + 1 .. start + n /\ i - start \in DOMAIN new /\ t[i] = new[i - start]
        \/ i > start + n /\ i - n > start /\ i - n \in DOMAIN s /\ t[i] = s[i - n]
    BY <2>1
  <2>5. \/ j \in 1 .. start /\ j \in DOMAIN s /\ t[j] = s[j]
        \/ j \in start + 1 .. start + n /\ j - start \in DOMAIN new /\ t[j] = new[j - start]
        \/ j > start + n /\ j - n > start /\ j - n \in DOMAIN s /\ t[j] = s[j - n]
    BY <2>1
  <2>6. \/ i = j
        \/ i - start = j - start
        \/ i - n = j - n
        \/ i \in 1 .. start /\ j - n > start /\ i = j - n
        \/ j \in 1 .. start /\ i - n > start /\ j = i - n
    BY <2>2, <2>4, <2>5
  <2> QED
    BY <1>1, <2>3, <2>6
<1>8. \A i \in start + 1 .. Len(s), j \in Nat : j = i + n => t[j] = s[i]
  BY <1>6
<1>10. ASSUME NEW r \in start .. start + n - 1 PROVE t[r + 1] \in Range(new)
  <2>1. PICK i \in 1 .. n : start + i = r + 1
    <3>1. r - start + 1 \in 1 .. n /\ start + (r - start + 1) = r + 1
      BY <1>1
    <3> QED
      BY <3>1
  <2>2. t[r + 1] = new[i] /\ i \in DOMAIN new
    BY <1>1, <1>6, <2>1
  <2> QED
    BY <2>2 DEF Range
<1> QED
  BY <1>5, <1>6, <1>7, <1>8, <1>10 DEF Folder, Spliced, t, a, b, n

\* The rows s without those from first to last.
Excised(s, first, last) == SubSeq(s, 1, first) \o SubSeq(s, last + 2, Len(s))

\* Rows that go.
LEMMA RowsRemoved ==
    ASSUME NEW s, Folder(s), NEW first \in Nat, NEW last \in Nat, first <= last, last < Len(s)
    PROVE  LET n == last - first + 1
               t == Excised(s, first, last)
           IN  /\ Folder(t) /\ Len(t) = Len(s) - n
               /\ \A r \in Rows(Len(t)) : r < first => t[r + 1] = s[r + 1]
               /\ \A r \in Rows(Len(t)) : r >= first => t[r + 1] = s[r + n + 1]
<1> DEFINE n == last - first + 1
           a == SubSeq(s, 1, first)
           b == SubSeq(s, last + 2, Len(s))
           t == a \o b
<1>1. /\ s \in Seq(Urls) /\ Len(s) \in Nat /\ n \in Nat /\ n >= 1 /\ first + n = last + 1
      /\ DOMAIN s = 1 .. Len(s)
  BY DEF Folder
<1>2. /\ a \in Seq(Urls) /\ Len(a) = first /\ \A i \in 1 .. first : a[i] = s[i]
  <2>1. first - 1 + 1 = first /\ \A i \in 1 .. first : 1 + i - 1 = i
    BY <1>1
  <2>2. 1 \in Nat /\ 1 <= 1 /\ 1 <= first + 1 /\ first <= Len(s)
    BY <1>1
  <2>3. /\ a \in Seq(Urls) /\ Len(a) = first - 1 + 1
        /\ \A i \in 1 .. first - 1 + 1 : a[i] = s[1 + i - 1]
    BY <1>1, <2>2, PartOf
  <2> QED
    BY <2>1, <2>3
<1>3. /\ b \in Seq(Urls) /\ Len(b) = Len(s) - (last + 1)
      /\ \A i \in 1 .. Len(s) - (last + 1) : b[i] = s[last + 1 + i]
  <2>1. /\ Len(s) - (last + 2) + 1 = Len(s) - (last + 1)
        /\ \A i \in 1 .. Len(s) - (last + 1) : (last + 2) + i - 1 = last + 1 + i
    BY <1>1
  <2>2. last + 2 \in Nat /\ 1 <= last + 2 /\ last + 2 <= Len(s) + 1 /\ Len(s) <= Len(s)
    BY <1>1
  <2>3. /\ b \in Seq(Urls) /\ Len(b) = Len(s) - (last + 2) + 1
        /\ \A i \in 1 .. Len(s) - (last + 2) + 1 : b[i] = s[(last + 2) + i - 1]
    BY <1>1, <2>2, PartOf
  <2> QED
    BY <2>1, <2>3
<1> HIDE DEF a, b, n
<1>4. /\ t \in Seq(Urls) /\ Len(t) = Len(s) - n /\ DOMAIN t = 1 .. Len(s) - n
      /\ \A i \in 1 .. Len(s) - n : t[i] = IF i <= first THEN a[i] ELSE b[i - first]
  <2>0. \A x, y \in Seq(Urls) :
            /\ x \o y \in Seq(Urls) /\ Len(x \o y) = Len(x) + Len(y)
            /\ \A i \in 1 .. Len(x) + Len(y) :
                   (x \o y)[i] = IF i <= Len(x) THEN x[i] ELSE y[i - Len(x)]
    BY ConcatProperties
  <2>1. /\ t \in Seq(Urls) /\ Len(t) = Len(a) + Len(b)
        /\ \A i \in 1 .. Len(a) + Len(b) : t[i] = IF i <= Len(a) THEN a[i] ELSE b[i - Len(a)]
    BY <1>2, <1>3, <2>0, Zenon
  <2>2. Len(a) + Len(b) = Len(s) - n
    <3>1. Len(a) = first /\ Len(b) = Len(s) - (last + 1)
      BY <1>2, <1>3, Zenon
    <3>2. first + (Len(s) - (last + 1)) = Len(s) - n
      BY <1>1
    <3> QED
      BY <3>1, <3>2, Zenon
  <2>3. DOMAIN t = 1 .. Len(t)
    BY <2>1, LenProperties
  <2> QED
    BY <1>2, <2>1, <2>2, <2>3
<1> HIDE DEF t
<1>5. \A i \in 1 .. Len(s) - n : t[i] = IF i <= first THEN s[i] ELSE s[i + n]
  <2> SUFFICES ASSUME NEW i \in 1 .. Len(s) - n PROVE t[i] = IF i <= first THEN s[i] ELSE s[i + n]
    OBVIOUS
  <2>1. CASE i <= first
    BY <1>1, <1>2, <1>4, <2>1
  <2>2. CASE i > first
    <3>1. PICK j \in Nat : j = i - first
      BY <1>1, <2>2
    <3>2. j \in 1 .. Len(s) - (last + 1) /\ last + 1 + j = i + n /\ ~(i <= first)
      BY <1>1, <2>2, <3>1
    <3>3. t[i] = b[j]
      BY <1>4, <3>1, <3>2
    <3>4. b[j] = s[last + 1 + j]
      BY <1>3, <3>2
    <3> QED
      BY <3>2, <3>3, <3>4
  <2> QED
    BY <1>1, <2>1, <2>2
<1>6. IsInjective(t)
  <2> SUFFICES ASSUME NEW i \in DOMAIN t, NEW j \in DOMAIN t, t[i] = t[j] PROVE i = j
    BY DEF IsInjective
  <2>1. \A k, l \in DOMAIN s : s[k] = s[l] => k = l
    BY DEF Folder, IsInjective
  <2>2. i \in Nat /\ j \in Nat /\ i \in 1 .. Len(s) - n /\ j \in 1 .. Len(s) - n
    BY <1>1, <1>4
  <2>3. i \in DOMAIN s /\ j \in DOMAIN s /\ i + n \in DOMAIN s /\ j + n \in DOMAIN s
    BY <1>1, <2>2
  <2>4. \/ i = j
        \/ i + n = j + n
        \/ i <= first /\ j > first /\ i = j + n
        \/ j <= first /\ i > first /\ j = i + n
    BY <1>1, <1>5, <2>1, <2>2, <2>3
  <2> QED
    BY <1>1, <2>2, <2>4
<1>7. \A r \in Rows(Len(t)) : r < first => t[r + 1] = s[r + 1]
  <2> SUFFICES ASSUME NEW r \in Rows(Len(t)), r < first PROVE t[r + 1] = s[r + 1]
    OBVIOUS
  <2>1. r + 1 \in 1 .. Len(s) - n /\ r + 1 <= first
    BY <1>1, <1>4 DEF Rows
  <2> QED
    BY <1>5, <2>1
<1>8. \A r \in Rows(Len(t)) : r >= first => t[r + 1] = s[r + n + 1]
  <2> SUFFICES ASSUME NEW r \in Rows(Len(t)), r >= first PROVE t[r + 1] = s[r + n + 1]
    OBVIOUS
  <2>1. r + 1 \in 1 .. Len(s) - n /\ ~(r + 1 <= first) /\ (r + 1) + n = r + n + 1
    BY <1>1, <1>4 DEF Rows
  <2> QED
    BY <1>5, <2>1
<1> QED
  BY <1>4, <1>6, <1>7, <1>8 DEF Excised, Folder, t, a, b, n

\* Rows that are sorted anew.
LEMMA RowsOrdered ==
    ASSUME NEW s, Folder(s), NEW order \in Bijection(DOMAIN s, DOMAIN s)
    PROVE  LET t == [i \in DOMAIN s |-> s[order[i]]]
           IN  Folder(t) /\ Len(t) = Len(s) /\ Range(t) = Range(s)
<1> DEFINE t == [i \in DOMAIN s |-> s[order[i]]]
<1>1. /\ Len(s) \in Nat /\ DOMAIN s = 1 .. Len(s) /\ \A i \in DOMAIN s : s[i] \in Urls
      /\ \A i, j \in DOMAIN s : s[i] = s[j] => i = j
  BY DEF Folder, IsInjective
<1>2. /\ \A i \in DOMAIN s : order[i] \in DOMAIN s
      /\ \A i, j \in DOMAIN s : order[i] = order[j] => i = j
      /\ \A j \in DOMAIN s : \E i \in DOMAIN s : order[i] = j
  BY DEF Bijection, Injection, Surjection, IsInjective
<1>3. /\ t \in [1 .. Len(s) -> Urls] /\ DOMAIN t = DOMAIN s
      /\ \A i \in DOMAIN s : t[i] = s[order[i]]
  BY <1>1, <1>2
<1> HIDE DEF t
<1>4. t \in Seq(Urls) /\ Len(t) = Len(s)
  BY <1>1, <1>3
<1>5. IsInjective(t)
  <2> SUFFICES ASSUME NEW i \in DOMAIN t, NEW j \in DOMAIN t, t[i] = t[j] PROVE i = j
    BY DEF IsInjective
  <2>1. i \in DOMAIN s /\ j \in DOMAIN s /\ s[order[i]] = s[order[j]]
    BY <1>3, Zenon
  <2>2. order[i] \in DOMAIN s /\ order[j] \in DOMAIN s
    BY <1>2, <2>1, Zenon
  <2>3. \A k, l \in DOMAIN s : s[k] = s[l] => k = l
    BY <1>1
  <2>4. order[i] = order[j]
    BY <2>1, <2>2, <2>3, Zenon
  <2> QED
    BY <1>2, <2>1, <2>4, Zenon
<1>6. Range(t) = Range(s)
  <2>1. \A j \in DOMAIN s : s[j] \in Range(s)
    BY DEF Range
  <2>2. \A i \in DOMAIN t : t[i] \in Range(s)
    BY <1>2, <1>3, <2>1, Zenon
  <2>3. ASSUME NEW j \in DOMAIN s PROVE \E i \in DOMAIN t : t[i] = s[j]
    <3>1. PICK i \in DOMAIN s : order[i] = j
      BY <1>2
    <3> QED
      BY <1>3, <3>1
  <2> QED
    BY <2>2, <2>3 DEF Range
<1> QED
  BY <1>4, <1>5, <1>6 DEF Folder, t

-----------------------------------------------------------------------------
(***************************************************************************)
(* The inductive invariant: the maps agree, every file has a place, what   *)
(* is kept for later is at most one move, and no two saved positions are   *)
(* of one file or of one place.                                            *)
(***************************************************************************)
Fields ==
    /\ Folder(source)
    /\ listing \in BOOLEAN /\ enabled \in BOOLEAN
    /\ perStripe \in Widths \cup {0}
    /\ positions \in SUBSET Entries
    /\ deferApply \in BOOLEAN /\ timer \in BOOLEAN

MoveKept ==
    \/ deferMoves = NoMoves
    \/ \E c \in Nat, t \in Nat \cup {None} : deferMoves = [from |-> <<c>>, to |-> <<t>>]

BaseIInv ==
    /\ Fields
    /\ Agree(p2s, s2p)
    /\ EveryFileHasAPlace
    /\ MoveKept
    /\ Distinct(positions)

\* The invariant says what the properties say.
LEMMA BaseSays == ASSUME BaseIInv PROVE TypeOK /\ MapsAgree
<1>1. Fields /\ Agree(p2s, s2p)
  BY DEF BaseIInv
<1>2. /\ Places(p2s) /\ Places(s2p) /\ Range(p2s) = DOMAIN s2p /\ Range(s2p) = DOMAIN p2s
      /\ \A c \in DOMAIN p2s : p2s[c] \in DOMAIN s2p /\ s2p[p2s[c]] = c
      /\ \A r \in DOMAIN s2p : s2p[r] \in DOMAIN p2s /\ p2s[s2p[r]] = r
  BY <1>1, AgreeBothWays
<1>3. MapsAgree
  BY <1>2 DEF MapsAgree
<1>4. TypeOK
  BY <1>1, <1>2 DEF TypeOK, Fields, Folder, Places
<1> QED
  BY <1>3, <1>4

\* What the widths and the saved positions are made of.
LEMMA FieldFacts ==
    ASSUME Fields
    PROVE  /\ perStripe \in Nat /\ Widths \in SUBSET Nat
           /\ Saved(positions) /\ FolderOf(source) /\ Len(source) \in Nat
<1>1. perStripe \in Nat /\ Widths \in SUBSET Nat
  BY PositionerAssumption DEF Fields
<1>2. Saved(positions)
  BY DEF Fields, Entries, Saved
<1>3. Folder(source)
  BY DEF Fields
<1> QED
  BY <1>1, <1>2, <1>3, FolderRows

\* Maps that are set anew agree.
LEMMA SetAgree ==
    ASSUME NEW f, Places(f), IsInjective(f), SetMaps(f)
    PROVE  Agree(p2s, s2p)' /\ p2s' = f /\ DOMAIN s2p' = Range(f)
<1>1. Agree(f, AntiFunction(f))
  BY AntiAgrees
<1>2. p2s' = f /\ s2p' = AntiFunction(f)
  BY DEF SetMaps
<1>3. Agree(p2s', s2p')
  BY <1>1, <1>2
<1> QED
  BY <1>2, <1>3 DEF Agree

\* Maps that are reset give every row the cell of its number.
LEMMA ResetAgree ==
    ASSUME NEW n \in Nat, SetMaps(InitMap(n))
    PROVE  Agree(p2s, s2p)' /\ DOMAIN s2p' = Rows(n)
<1> DEFINE f == InitMap(n)
<1>1. Places(f) /\ IsInjective(f) /\ Range(f) = Rows(n)
  BY InitMapSound
<1>2. SetMaps(f)
  OBVIOUS
<1> HIDE DEF f
<1> QED
  BY <1>1, <1>2, SetAgree

\* Saved positions that are applied give every row a cell of its own.
LEMMA AppliedIsSound ==
    ASSUME Fields, NEW w \in Nat, NEW f \in Applied(positions, source, w)
    PROVE  Places(f) /\ IsInjective(f) /\ Range(f) = Rows(Len(source))
<1>1. FolderOf(source) /\ Saved(positions)
  BY FieldFacts
<1>2. Shows(f, source, Range(source))
  BY <1>1, AppliedGrants
<1> QED
  BY <1>1, <1>2, ShowsAllRows DEF Shows

\* With nothing saved there is nothing to apply.
LEMMA AppliedAgree ==
    ASSUME Fields, NEW w \in Nat, NEW f \in Applied(positions, source, w), SetMaps(f)
    PROVE  Agree(p2s, s2p)' /\ DOMAIN s2p' = Rows(Len(source))
<1>1. Places(f) /\ IsInjective(f) /\ Range(f) = Rows(Len(source))
  BY AppliedIsSound
<1>2. SetMaps(f)
  OBVIOUS
<1> QED
  BY <1>1, <1>2, SetAgree

-----------------------------------------------------------------------------
(***************************************************************************)
(* One lemma for every action.                                             *)
(***************************************************************************)
LEMMA BaseInit == Init => BaseIInv
<1> SUFFICES ASSUME Init PROVE BaseIInv
  OBVIOUS
<1>1. /\ source = <<>> /\ listing = TRUE /\ enabled = TRUE /\ perStripe = 0
      /\ p2s = InitMap(0) /\ s2p = InitMap(0) /\ positions = {}
      /\ deferApply = FALSE /\ deferMoves = NoMoves /\ timer = FALSE
  BY DEF Init
<1>2. Folder(source) /\ Len(source) = 0
  BY <1>1 DEF Folder, IsInjective
<1>3. Fields
  BY <1>1, <1>2 DEF Fields
<1>4. /\ Places(InitMap(0)) /\ DOMAIN InitMap(0) = Rows(0) /\ Range(InitMap(0)) = Rows(0)
  BY InitMapSound
<1>5. Rows(0) = {}
  BY DEF Rows
<1>6. Agree(InitMap(0), InitMap(0))
  BY <1>4, <1>5 DEF Agree, Places
<1>7. Agree(p2s, s2p) /\ EveryFileHasAPlace
  BY <1>1, <1>2, <1>4, <1>6 DEF EveryFileHasAPlace
<1>8. MoveKept /\ Distinct(positions)
  BY <1>1 DEF MoveKept, Distinct
<1> QED
  BY <1>3, <1>7, <1>8 DEF BaseIInv

\* A new width applies the saved positions, or leaves the maps alone.
LEMMA BaseSetPerStripe ==
    ASSUME BaseIInv, NEW n \in Widths, SetPerStripe(n)
    PROVE  BaseIInv'
<1>1. /\ Fields /\ Agree(p2s, s2p) /\ EveryFileHasAPlace /\ MoveKept /\ Distinct(positions)
      /\ n \in Nat /\ Len(source) \in Nat
  BY FieldFacts DEF BaseIInv
<1>2. /\ perStripe' = n /\ source' = source /\ listing' = listing /\ enabled' = enabled
      /\ deferMoves' = deferMoves
  BY DEF SetPerStripe, folder
<1>3. CASE UNCHANGED <<maps, positions, deferApply, timer>>
  <2>1. p2s' = p2s /\ s2p' = s2p /\ positions' = positions /\ deferApply' = deferApply /\ timer' = timer
    BY <1>3 DEF maps
  <2> QED
    BY <1>1, <1>2, <2>1 DEF BaseIInv, Fields, EveryFileHasAPlace, MoveKept
<1>4. CASE ApplyPositions(positions, listing, n)
  <2>1. positions' = positions
    BY <1>4 DEF ApplyPositions
  <2>2. Fields'
    <3>1. timer' \in BOOLEAN /\ deferApply' \in BOOLEAN
      BY <1>1, <1>4 DEF ApplyPositions, Fields
    <3> QED
      BY <1>1, <1>2, <2>1, <3>1 DEF Fields
  <2>3. Agree(p2s, s2p)' /\ EveryFileHasAPlace'
    <3>1. CASE listing /\ deferApply' = TRUE /\ UNCHANGED maps
      BY <1>1, <3>1 DEF maps, EveryFileHasAPlace
    <3>2. CASE deferApply /\ SetMaps(InitMap(Len(source)))
      BY <1>1, <1>2, <3>2, ResetAgree DEF EveryFileHasAPlace
    <3>3. CASE ~deferApply /\ UNCHANGED maps
      BY <1>1, <1>2, <3>3 DEF maps, EveryFileHasAPlace
    <3>4. CASE \E f \in Applied(positions, source, n) : SetMaps(f)
      <4>1. Agree(p2s, s2p)' /\ DOMAIN s2p' = Rows(Len(source))
        BY <1>1, <3>4, AppliedAgree
      <4> QED
        BY <1>2, <4>1 DEF EveryFileHasAPlace
    <3> QED
      BY <1>4, <3>1, <3>2, <3>3, <3>4 DEF ApplyPositions
  <2> QED
    BY <1>1, <1>2, <2>1, <2>2, <2>3 DEF BaseIInv, MoveKept
<1> QED
  BY <1>3, <1>4 DEF SetPerStripe

\* The timer saves positions and changes no map.
LEMMA BaseUpdatePositions ==
    ASSUME BaseIInv, UpdatePositions
    PROVE  BaseIInv'
<1>1. /\ Fields /\ Agree(p2s, s2p) /\ EveryFileHasAPlace /\ MoveKept /\ Distinct(positions)
      /\ perStripe \in Nat /\ FolderOf(source)
  BY FieldFacts DEF BaseIInv
<1>2. /\ timer' = FALSE /\ perStripe' = perStripe /\ source' = source /\ listing' = listing
      /\ enabled' = enabled /\ deferMoves' = deferMoves /\ deferApply' = deferApply
      /\ p2s' = p2s /\ s2p' = s2p
  BY DEF UpdatePositions, folder, maps
<1>3. positions' \in SUBSET Entries /\ Distinct(positions')
  <2>1. CASE positions' = {}
    BY <2>1 DEF Distinct
  <2>2. CASE positions' = positions
    BY <1>1, <2>2 DEF Fields
  <2>3. CASE /\ perStripe # 0 /\ Range(p2s) \subseteq Rows(Len(source))
             /\ positions' = Encoded(p2s, source, perStripe)
    <3>1. Places(p2s) /\ IsInjective(p2s)
      BY <1>1, AgreeBothWays
    <3>2. \A c \in DOMAIN p2s : p2s[c] \in Rows(Len(source))
      BY <2>3 DEF Range
    <3>3. Distinct(positions')
      BY <1>1, <2>3, <3>1, <3>2, EncodedSound
    <3>4. ASSUME NEW c \in DOMAIN p2s
          PROVE  /\ source[p2s[c] + 1] \in Urls
                 /\ c \div perStripe \in Nat /\ c % perStripe \in Nat
      <4>1. c \in Nat /\ perStripe > 0
        BY <1>1, <2>3, <3>1 DEF Places
      <4>2. Folder(source)
        BY <1>1 DEF Fields
      <4> QED
        BY <1>1, <3>2, <4>1, <4>2, CellOfItsStripe, FolderRows
    <3>5. positions' \in SUBSET Entries
      BY <2>3, <3>4 DEF Encoded, Entries
    <3> QED
      BY <3>3, <3>5
  <2> QED
    BY <2>1, <2>2, <2>3 DEF UpdatePositions
<1>4. Fields'
  BY <1>1, <1>2, <1>3 DEF Fields
<1> QED
  BY <1>1, <1>2, <1>3, <1>4 DEF BaseIInv, EveryFileHasAPlace, MoveKept

\* A sort order resets the maps to the new rows.
LEMMA BaseSort ==
    ASSUME BaseIInv, Sort
    PROVE  BaseIInv'
<1>1. /\ Fields /\ Agree(p2s, s2p) /\ MoveKept /\ Distinct(positions) /\ Len(source) \in Nat
      /\ Folder(source)
  BY FieldFacts DEF BaseIInv, Fields
<1>2. /\ enabled' = FALSE /\ timer' = (timer \/ enabled) /\ listing' = listing
      /\ perStripe' = perStripe /\ positions' = positions /\ deferApply' = deferApply
      /\ deferMoves' = deferMoves
  BY DEF Sort
<1>3. Folder(source')
  <2>1. PICK order \in Bijection(DOMAIN source, DOMAIN source) :
            source' = [i \in DOMAIN source |-> source[order[i]]]
    BY DEF Sort
  <2> QED
    BY <1>1, <2>1, RowsOrdered
<1>4. Agree(p2s, s2p)'
  <2>1. CASE SetMaps(InitMap(Len(source)))
    BY <1>1, <2>1, ResetAgree
  <2>2. CASE UNCHANGED maps
    BY <1>1, <2>2 DEF maps
  <2> QED
    BY <2>1, <2>2 DEF Sort
<1>5. Fields'
  BY <1>1, <1>2, <1>3 DEF Fields
<1> QED
  BY <1>1, <1>2, <1>4, <1>5 DEF BaseIInv, EveryFileHasAPlace, MoveKept

\* Unsort, Reset, SetUrl and Restart lay the rows out in order.
LEMMA BaseLaidOut ==
    ASSUME BaseIInv, Unsort \/ Reset \/ SetUrl \/ Restart
    PROVE  BaseIInv'
<1>1. /\ Fields /\ EveryFileHasAPlace /\ MoveKept /\ Distinct(positions) /\ Len(source) \in Nat
      /\ Folder(source) /\ enabled \in BOOLEAN /\ listing \in BOOLEAN /\ deferApply \in BOOLEAN
      /\ timer \in BOOLEAN /\ perStripe \in Widths \cup {0} /\ positions \in SUBSET Entries
  BY FieldFacts DEF BaseIInv, Fields
<1>2. SetMaps(InitMap(Len(source'))) /\ Folder(source')
  <2>1. CASE source' = source /\ SetMaps(InitMap(Len(source)))
    BY <1>1, <2>1
  <2>2. CASE source' = <<>> /\ SetMaps(InitMap(0))
    <3>1. Folder(<<>>) /\ Len(<<>>) = 0
      BY DEF Folder, IsInjective
    <3> QED
      BY <2>2, <3>1
  <2> QED
    BY <2>1, <2>2 DEF Unsort, Reset, SetUrl, Restart, folder
<1>3. Len(source') \in Nat
  BY <1>2, FolderRows
<1>4. Agree(p2s, s2p)' /\ DOMAIN s2p' = Rows(Len(source'))
  BY <1>2, <1>3, ResetAgree
<1>5. positions' \in SUBSET Entries /\ Distinct(positions')
  <2>1. positions' = positions \/ positions' = {}
    BY DEF Unsort, Reset, SetUrl, Restart
  <2> QED
    BY <1>1, <2>1 DEF Distinct
<1>6. MoveKept'
  <2>1. deferMoves' = deferMoves \/ deferMoves' = NoMoves
    BY DEF Unsort, Reset, SetUrl, Restart
  <2> QED
    BY <1>1, <2>1 DEF MoveKept
<1>7. /\ listing' \in BOOLEAN /\ enabled' \in BOOLEAN /\ perStripe' \in Widths \cup {0}
      /\ deferApply' \in BOOLEAN /\ timer' \in BOOLEAN
  BY <1>1 DEF Unsort, Reset, SetUrl, Restart, folder
<1>8. Fields'
  BY <1>2, <1>5, <1>7 DEF Fields
<1>9. EveryFileHasAPlace'
  BY <1>4 DEF EveryFileHasAPlace
<1> QED
  BY <1>4, <1>5, <1>6, <1>8, <1>9 DEF BaseIInv

\* What is kept for later is replayed without harm: at most one move.
LEMMA ReplayAgrees ==
    ASSUME MoveKept, NEW f, NEW g, Agree(f, g)
    PROVE  LET st == Moved(f, g, deferMoves.from, deferMoves.to, {})
           IN  Agree(st.p2s, st.s2p) /\ DOMAIN st.s2p = DOMAIN g
<1>1. CASE deferMoves = NoMoves
  <2>1. deferMoves.from = <<>> /\ deferMoves.to = <<>>
    BY <1>1 DEF NoMoves
  <2>2. Moved(f, g, <<>>, <<>>, {}) = [p2s |-> f, s2p |-> g, to |-> <<>>]
    BY NoMove
  <2> QED
    BY <2>1, <2>2
<1>2. CASE \E c \in Nat, t \in Nat \cup {None} : deferMoves = [from |-> <<c>>, to |-> <<t>>]
  <2>1. PICK c \in Nat, t \in Nat \cup {None} : deferMoves = [from |-> <<c>>, to |-> <<t>>]
    BY <1>2
  <2>2. deferMoves.from = <<c>> /\ deferMoves.to = <<t>>
    BY <2>1
  <2>3. \A d \in DOMAIN f : f[d] \in {} => d = c
    OBVIOUS
  <2>4. LET st == Moved(f, g, <<c>>, <<t>>, {})
        IN  Agree(st.p2s, st.s2p) /\ DOMAIN st.s2p = DOMAIN g
    BY <2>3, SingleMove
  <2> QED
    BY <2>2, <2>4
<1> QED
  BY <1>1, <1>2 DEF MoveKept

\* The maps stay while the folder is listed again.
LEMMA BaseListingStarted ==
    ASSUME BaseIInv, ListingStarted
    PROVE  BaseIInv'
  BY DEF BaseIInv, ListingStarted, Fields, EveryFileHasAPlace, MoveKept, maps

\* The positions are applied before the move that was kept, which has one icon.
LEMMA BaseListingCompleted ==
    ASSUME BaseIInv, ListingCompleted
    PROVE  BaseIInv'
<1>1. /\ Fields /\ Agree(p2s, s2p) /\ EveryFileHasAPlace /\ MoveKept /\ Distinct(positions)
      /\ Len(source) \in Nat /\ perStripe \in Nat
  BY FieldFacts DEF BaseIInv
<1>2. /\ source' = source /\ enabled' = enabled /\ perStripe' = perStripe
      /\ positions' = positions /\ listing' = FALSE /\ deferApply' = FALSE
      /\ deferMoves' = NoMoves
      /\ timer' = (timer \/ (deferApply /\ positions # {}) \/ deferMoves # NoMoves)
  BY DEF ListingCompleted
<1>3. PICK f \in (IF ~deferApply THEN {p2s}
                  ELSE IF positions = {} THEN {InitMap(Len(source))}
                  ELSE Applied(positions, source, perStripe)) :
          LET g  == IF deferApply THEN AntiFunction(f) ELSE s2p
              st == Moved(f, g, deferMoves.from, deferMoves.to, {})
          IN  p2s' = st.p2s /\ s2p' = st.s2p
  BY DEF ListingCompleted
<1> DEFINE g == IF deferApply THEN AntiFunction(f) ELSE s2p
<1>4. Agree(f, g) /\ (enabled => DOMAIN g = Rows(Len(source)))
  <2>1. CASE ~deferApply
    <3>1. f = p2s /\ g = s2p
      BY <1>3, <2>1
    <3> HIDE DEF g
    <3> QED
      BY <1>1, <2>1, <3>1 DEF EveryFileHasAPlace
  <2>2. CASE deferApply
    <3>1. Places(f) /\ IsInjective(f) /\ Range(f) = Rows(Len(source))
      <4>1. CASE positions = {}
        <5>1. f = InitMap(Len(source))
          BY <1>3, <2>2, <4>1
        <5> QED
          BY <1>1, <5>1, InitMapSound
      <4>2. CASE positions # {}
        <5>1. f \in Applied(positions, source, perStripe)
          BY <1>3, <2>2, <4>2
        <5> QED
          BY <1>1, <5>1, AppliedIsSound
      <4> QED
        BY <4>1, <4>2
    <3>2. g = AntiFunction(f)
      BY <2>2
    <3> HIDE DEF g
    <3>3. Agree(f, g)
      BY <3>1, <3>2, AntiAgrees
    <3>4. DOMAIN g = Range(f)
      BY <3>3, AgreeBothWays
    <3> QED
      BY <3>1, <3>3, <3>4
  <2> QED
    BY <2>1, <2>2
<1>5. LET st == Moved(f, g, deferMoves.from, deferMoves.to, {}) IN p2s' = st.p2s /\ s2p' = st.s2p
  BY <1>3
<1> HIDE DEF g
<1>6. Agree(p2s', s2p') /\ DOMAIN s2p' = DOMAIN g
  BY <1>1, <1>4, <1>5, ReplayAgrees
<1>7. EveryFileHasAPlace'
  BY <1>2, <1>4, <1>6 DEF EveryFileHasAPlace
<1>8. Fields'
  BY <1>1, <1>2 DEF Fields
<1>9. MoveKept'
  BY <1>2 DEF MoveKept
<1> QED
  BY <1>1, <1>2, <1>6, <1>7, <1>8, <1>9 DEF BaseIInv

\* New rows are of files that were not there.
LEMMA NewRowsFolder ==
    ASSUME NEW new \in NewRows
    PROVE  Folder(new) /\ Range(new) \cap Range(source) = {}
<1>1. PICK n \in 1 .. 2 : new \in [1 .. n -> Urls \ Range(source)]
  BY DEF NewRows
<1>2. new \in Seq(Urls)
  BY <1>1
<1>3. IsInjective(new)
  BY DEF NewRows
<1>4. Range(new) \cap Range(source) = {}
  <2>1. \A i \in 1 .. n : new[i] \notin Range(source)
    BY <1>1
  <2>2. DOMAIN new = 1 .. n
    BY <1>1
  <2>3. \A u \in Range(new) : \E i \in 1 .. n : u = new[i]
    BY <2>2 DEF Range
  <2> QED
    BY <2>1, <2>3
<1> QED
  BY <1>2, <1>3, <1>4 DEF Folder

\* New rows are mapped, unless positions wait.
LEMMA BaseSourceInserted ==
    ASSUME BaseIInv, NEW start \in 0 .. Len(source), NEW new \in NewRows,
           SourceInserted(start, new)
    PROVE  BaseIInv'
<1>1. /\ Fields /\ Agree(p2s, s2p) /\ EveryFileHasAPlace /\ MoveKept /\ Distinct(positions)
      /\ Len(source) \in Nat /\ Folder(source) /\ start \in Nat /\ start <= Len(source)
  BY FieldFacts DEF BaseIInv, Fields
<1>2. /\ listing' = listing /\ enabled' = enabled /\ perStripe' = perStripe
      /\ positions' = positions /\ deferApply' = deferApply /\ deferMoves' = deferMoves
      /\ timer' = (timer \/ ~deferApply)
      /\ source' = Spliced(source, start, new)
  BY DEF SourceInserted, Spliced
<1>3. /\ Folder(source') /\ Len(source') = Len(source) + Len(new) /\ Len(new) \in Nat
  <2>1. Folder(new) /\ Range(new) \cap Range(source) = {}
    BY NewRowsFolder
  <2>2. Len(new) \in Nat
    BY <2>1, FolderRows
  <2> QED
    BY <1>1, <1>2, <2>1, <2>2, RowsInserted
<1>4. Agree(p2s, s2p)' /\ EveryFileHasAPlace'
  <2>1. CASE enabled /\ ~deferApply
    <3> DEFINE h == Inserted(p2s, start, Len(new))
    <3>1. Places(p2s) /\ IsInjective(p2s) /\ Range(p2s) = Rows(Len(source))
      BY <1>1, <2>1, AgreeBothWays DEF EveryFileHasAPlace
    <3>2. Places(h) /\ IsInjective(h) /\ Range(h) = Rows(Len(source) + Len(new))
      BY <1>1, <1>3, <3>1, InsertedSound
    <3>3. SetMaps(h)
      BY <2>1 DEF SourceInserted
    <3> HIDE DEF h
    <3>4. Agree(p2s, s2p)' /\ DOMAIN s2p' = Range(h)
      BY <3>2, <3>3, SetAgree
    <3> QED
      BY <1>3, <3>2, <3>4 DEF EveryFileHasAPlace
  <2>2. CASE ~(enabled /\ ~deferApply)
    <3>1. p2s' = p2s /\ s2p' = s2p
      BY <2>2 DEF SourceInserted, maps
    <3> QED
      BY <1>1, <1>2, <2>2, <3>1 DEF EveryFileHasAPlace
  <2> QED
    BY <2>1, <2>2
<1>5. Fields'
  BY <1>1, <1>2, <1>3 DEF Fields
<1> QED
  BY <1>1, <1>2, <1>4, <1>5 DEF BaseIInv, MoveKept

\* Rows that go are unmapped.
LEMMA BaseSourceRemoved ==
    ASSUME BaseIInv, NEW first \in Rows(Len(source)), NEW last \in Rows(Len(source)),
           first <= last, SourceRemoved(first, last)
    PROVE  BaseIInv'
<1>1. /\ Fields /\ Agree(p2s, s2p) /\ EveryFileHasAPlace /\ MoveKept /\ Distinct(positions)
      /\ Len(source) \in Nat /\ Folder(source)
  BY FieldFacts DEF BaseIInv, Fields
<1>2. /\ listing' = listing /\ enabled' = enabled /\ perStripe' = perStripe
      /\ positions' = positions /\ deferApply' = deferApply /\ deferMoves' = deferMoves
      /\ timer' = TRUE
      /\ source' = Excised(source, first, last)
  BY DEF SourceRemoved, Excised
<1>3. first \in Nat /\ last \in Nat /\ last < Len(source)
  BY <1>1 DEF Rows
<1>4. Folder(source') /\ Len(source') = Len(source) - (last - first + 1)
  BY <1>1, <1>2, <1>3, RowsRemoved
<1>5. Agree(p2s, s2p)' /\ EveryFileHasAPlace'
  <2>1. CASE enabled
    <3> DEFINE h == Removed(s2p, first, last)
    <3>1. Places(s2p) /\ IsInjective(s2p)
      BY <1>1, AgreeBothWays
    <3>2. Places(h) /\ IsInjective(h)
      BY <1>3, <3>1, RemovedSound
    <3>3. s2p' = h /\ p2s' = AntiFunction(s2p')
      BY <2>1 DEF SourceRemoved
    <3>4. ~deferApply => DOMAIN h = Rows(Len(source'))
      BY <1>1, <1>3, <1>4, <2>1, <3>1, RemovedRows DEF EveryFileHasAPlace
    <3> HIDE DEF h
    <3>5. Agree(h, AntiFunction(h))
      BY <3>2, AntiAgrees
    <3>6. Agree(AntiFunction(h), h)
      BY <3>5, AgreeSwap
    <3>7. Agree(p2s', s2p')
      BY <3>3, <3>6
    <3> QED
      BY <1>2, <3>3, <3>4, <3>7 DEF EveryFileHasAPlace
  <2>2. CASE ~enabled
    <3>1. p2s' = p2s /\ s2p' = s2p
      BY <2>2 DEF SourceRemoved, maps
    <3> QED
      BY <1>1, <1>2, <2>2, <3>1 DEF EveryFileHasAPlace
  <2> QED
    BY <1>1, <2>1, <2>2
<1>6. Fields'
  BY <1>1, <1>2, <1>4 DEF Fields
<1> QED
  BY <1>1, <1>2, <1>5, <1>6 DEF BaseIInv, MoveKept

-----------------------------------------------------------------------------
(***************************************************************************)
(* Drags.                                                                  *)
(***************************************************************************)
\* The elements of a finite set in ascending order.
LEMMA AscendingSound ==
    ASSUME NEW S \in SUBSET Nat, IsFiniteSet(S)
    PROVE  LET q == Ascending(S)
               m == Cardinality(S)
           IN  /\ m \in Nat /\ q \in [1 .. m -> S]
               /\ \A i, j \in 1 .. m : q[i] = q[j] => i = j
               /\ \A c \in S : \E i \in 1 .. m : q[i] = c
<1> DEFINE m == Cardinality(S)
           q == Ascending(S)
           r == [i \in 1 .. m |-> CHOOSE c \in S : Ranked(S, c) = i - 1]
<1>1. m \in Nat
  BY FS_CardinalityType
<1>2. /\ \A c \in S : Ranked(S, c) \in Nat
      /\ \A c, d \in S : c < d => Ranked(S, c) < Ranked(S, d)
      /\ \A k \in 0 .. m - 1 : \E c \in S : Ranked(S, c) = k
  BY Ranks
<1> HIDE DEF m
<1>3. \A i \in 1 .. m : r[i] \in S /\ Ranked(S, r[i]) = i - 1
  <2> SUFFICES ASSUME NEW i \in 1 .. m PROVE r[i] \in S /\ Ranked(S, r[i]) = i - 1
    OBVIOUS
  <2>1. i - 1 \in 0 .. m - 1
    BY <1>1
  <2>2. \E c \in S : Ranked(S, c) = i - 1
    BY <1>2, <2>1
  <2> QED
    BY <2>2
<1>4. r \in [1 .. m -> S]
  BY <1>3
<1> HIDE DEF r
<1>5. \A i, j \in 1 .. m : i < j => r[i] < r[j]
  <2> SUFFICES ASSUME NEW i \in 1 .. m, NEW j \in 1 .. m, i < j PROVE r[i] < r[j]
    OBVIOUS
  <2>1. r[i] \in S /\ r[j] \in S /\ Ranked(S, r[i]) < Ranked(S, r[j])
    BY <1>1, <1>3
  <2>2. r[i] \in Nat /\ r[j] \in Nat /\ Ranked(S, r[i]) \in Nat /\ Ranked(S, r[j]) \in Nat
    BY <1>2, <2>1
  <2>3. ~(r[j] < r[i]) /\ r[i] # r[j]
    BY <1>2, <2>1, <2>2
  <2> QED
    BY <2>2, <2>3
<1>6. \A i, j \in DOMAIN r : i < j => r[i] < r[j]
  BY <1>4, <1>5
<1>7. q \in [1 .. m -> S] /\ \A i, j \in DOMAIN q : i < j => q[i] < q[j]
  <2>1. q = CHOOSE p \in [1 .. m -> S] : \A i, j \in DOMAIN p : i < j => p[i] < p[j]
    BY DEF Ascending, m
  <2> HIDE DEF q
  <2> QED
    BY <1>4, <1>6, <2>1
<1> HIDE DEF q
<1>8. \A i, j \in 1 .. m : q[i] = q[j] => i = j
  <2> SUFFICES ASSUME NEW i \in 1 .. m, NEW j \in 1 .. m, q[i] = q[j] PROVE i = j
    OBVIOUS
  <2>1. q[i] \in Nat /\ q[j] \in Nat /\ DOMAIN q = 1 .. m
    BY <1>7
  <2>2. ~(i < j) /\ ~(j < i)
    BY <1>7, <2>1
  <2> QED
    BY <1>1, <2>2
<1>9. \A c \in S : \E i \in 1 .. m : q[i] = c
  <2>1. q \in Injection(1 .. m, S)
    BY <1>7, <1>8 DEF Injection, IsInjective
  <2>2. Cardinality(1 .. m) = Cardinality(S)
    <3>1. 1 \in Int /\ m \in Int /\ (1 > m <=> m = 0) /\ m - 1 + 1 = m
      BY <1>1
    <3>2. Cardinality(1 .. m) = m
      BY <3>1, FS_Interval
    <3> QED
      BY <3>2 DEF m
  <2>3. q \in Surjection(1 .. m, S)
    BY <2>1, <2>2, FS_Injection
  <2> QED
    BY <2>3 DEF Surjection
<1> QED
  BY <1>1, <1>7, <1>8, <1>9 DEF m, q

\* Within its stripe every icon is moved by the same number of cells.
LEMMA TargetIsShift ==
    ASSUME perStripe \in Nat, perStripe > 0, NEW c \in Nat, NEW dx \in Int, NEW dy \in Int,
           Inside(c, dx)
    PROVE  Target(c, dx, dy) = c + dy * perStripe + dx
<1>1. c \div perStripe \in Nat /\ c % perStripe \in Nat
      /\ (c \div perStripe) * perStripe + (c % perStripe) = c
  BY CellOfItsStripe
<1>2. Target(c, dx, dy) = ((c \div perStripe) + dy) * perStripe + (c % perStripe) + dx
  BY DEF Target
<1> DEFINE a == c \div perStripe
           b == c % perStripe
<1> HIDE DEF a, b
<1>3. a \in Nat /\ b \in Nat /\ a * perStripe + b = c
  BY <1>1 DEF a, b
<1>4. (a + dy) * perStripe = a * perStripe + dy * perStripe
  BY <1>3
<1>5. Target(c, dx, dy) = (a + dy) * perStripe + b + dx
  BY <1>2 DEF a, b
<1>6. a * perStripe \in Int /\ dy * perStripe \in Int
  BY <1>3
<1> QED
  BY <1>3, <1>4, <1>5, <1>6

\* A move that keeps the maps as they should be, or is kept for later.
LEMMA BaseMove ==
    ASSUME BaseIInv, NEW froms, NEW tos, NEW dragged, Move(froms, tos, dragged),
           listing => \E c \in Nat, t \in Nat \cup {None} : froms = <<c>> /\ tos = <<t>>,
           ~listing => LET st == Moved(p2s, s2p, froms, tos, dragged)
                       IN  Agree(st.p2s, st.s2p) /\ DOMAIN st.s2p = DOMAIN s2p
    PROVE  BaseIInv'
<1>1. /\ Fields /\ Agree(p2s, s2p) /\ EveryFileHasAPlace /\ MoveKept /\ Distinct(positions)
  BY DEF BaseIInv
<1>2. /\ source' = source /\ listing' = listing /\ enabled' = enabled /\ perStripe' = perStripe
      /\ positions' = positions /\ deferApply' = deferApply
  BY DEF Move, folder
<1>3. CASE listing
  <2>1. /\ deferMoves' = [from |-> froms, to |-> tos]
        /\ p2s' = p2s /\ s2p' = s2p /\ timer' = timer
    BY <1>3 DEF Move, maps
  <2>2. MoveKept'
    BY <1>3, <2>1 DEF MoveKept
  <2>3. Fields'
    BY <1>1, <1>2, <2>1 DEF Fields
  <2> QED
    BY <1>1, <1>2, <2>1, <2>2, <2>3 DEF BaseIInv, EveryFileHasAPlace
<1>4. CASE ~listing
  <2>1. deferMoves' = deferMoves /\ timer' = TRUE
        /\ Agree(p2s', s2p') /\ DOMAIN s2p' = DOMAIN s2p
    BY <1>4 DEF Move
  <2>2. Fields'
    BY <1>1, <1>2, <2>1 DEF Fields
  <2> QED
    BY <1>1, <1>2, <2>1, <2>2 DEF BaseIInv, EveryFileHasAPlace, MoveKept
<1> QED
  BY <1>3, <1>4

\* A dropped file is a single move.
LEMMA BaseDropAt ==
    ASSUME BaseIInv, NEW row \in DOMAIN s2p, NEW to \in 0 .. MaxCell \cup {None}, DropAt(row, to)
    PROVE  BaseIInv'
<1>1. /\ Agree(p2s, s2p) /\ s2p[row] \in Nat /\ to \in Nat \cup {None}
  <2>1. Agree(p2s, s2p)
    BY DEF BaseIInv
  <2>2. Places(s2p)
    BY <2>1, AgreeBothWays
  <2> QED
    BY <2>1, <2>2, PositionerAssumption DEF Places
<1>2. \A c \in DOMAIN p2s : p2s[c] \in {} => c = s2p[row]
  OBVIOUS
<1>3. LET st == Moved(p2s, s2p, <<s2p[row]>>, <<to>>, {})
      IN  Agree(st.p2s, st.s2p) /\ DOMAIN st.s2p = DOMAIN s2p
  BY <1>1, <1>2, SingleMove
<1>4. Move(<<s2p[row]>>, <<to>>, {})
  BY DEF DropAt
<1> QED
  BY <1>1, <1>3, <1>4, BaseMove

\* A drag: of one icon it is a move like that of a dropped file; several icons
\* go to cells that are as different as the ones they come from, or stay.
LEMMA BaseDrag ==
    ASSUME BaseIInv, MovesInside, NEW dragged \in SUBSET DOMAIN s2p, NEW dx \in Int,
           NEW dy \in Int, Drag(dragged, dx, dy)
    PROVE  BaseIInv'
<1> DEFINE m == Cardinality(dragged)
           q == Ascending(dragged)
           froms == [i \in 1 .. m |-> s2p[q[i]]]
           tos == [i \in DOMAIN froms |-> Target(froms[i], dx, dy)]
<1>1. /\ Agree(p2s, s2p) /\ perStripe \in Nat /\ perStripe > 0 /\ MaxLate \in Nat
      /\ MaxLate <= 1 /\ ~OverEdge /\ MaxCell \in Nat
  BY FieldFacts, PositionerAssumption DEF BaseIInv, MovesInside, Drag
<1>2. /\ Places(s2p)
      /\ \A r \in DOMAIN s2p : /\ r \in Nat /\ s2p[r] \in Nat
                               /\ s2p[r] \in DOMAIN p2s /\ p2s[s2p[r]] = r
      /\ \A c \in DOMAIN p2s : s2p[p2s[c]] = c
  BY <1>1, AgreeBothWays DEF Places
<1>3. dragged \in SUBSET Nat /\ IsFiniteSet(dragged) /\ dragged # {}
  BY <1>2, FS_Subset DEF Drag, Places
<1>4. /\ m \in Nat /\ q \in [1 .. m -> dragged]
      /\ \A i, j \in 1 .. m : q[i] = q[j] => i = j
      /\ \A c \in dragged : \E i \in 1 .. m : q[i] = c
  BY <1>3, AscendingSound
<1>5. m >= 1
  BY <1>3, <1>4, FS_EmptySet
<1>6. /\ (listing => m <= MaxLate) /\ Move(froms, tos, dragged)
      /\ \A i \in DOMAIN froms :
             \/ Inside(froms[i], dx) /\ tos[i] \in 0 .. MaxCell
             \/ ~Inside(froms[i], dx) /\ (OverEdge \/ m = 1)
  BY DEF Drag
<1> HIDE DEF m, q
<1>7. /\ DOMAIN froms = 1 .. m /\ DOMAIN tos = 1 .. m
      /\ froms = [i \in 1 .. m |-> froms[i]] /\ tos = [i \in 1 .. m |-> tos[i]]
      /\ \A i \in 1 .. m : froms[i] = s2p[q[i]] /\ tos[i] = Target(froms[i], dx, dy)
  OBVIOUS
<1> HIDE DEF froms, tos
<1>8. \A i \in 1 .. m : q[i] \in dragged /\ q[i] \in DOMAIN s2p
  BY <1>4
<1>9. \A i \in 1 .. m : /\ froms[i] \in Nat /\ froms[i] \in DOMAIN p2s
                        /\ p2s[froms[i]] = q[i]
  BY <1>2, <1>7, <1>8
<1>10. CASE m = 1
  <2>1. 1 \in 1 .. m
    BY <1>10
  <2>2. PICK c \in Nat : c = froms[1] /\ p2s[c] = q[1]
    BY <1>9, <2>1
  <2>3. PICK t \in Nat \cup {None} : t = tos[1]
    <3>1. (Inside(froms[1], dx) /\ tos[1] \in 0 .. MaxCell) \/ ~Inside(froms[1], dx)
      BY <1>6, <1>7, <2>1
    <3>2. ~Inside(froms[1], dx) => tos[1] = None
      BY <1>7, <2>1 DEF Target
    <3>3. 0 .. MaxCell \in SUBSET Nat
      BY <1>1
    <3>4. tos[1] \in Nat \cup {None}
      BY <3>1, <3>2, <3>3, Zenon
    <3> QED
      BY <3>4, Zenon
  <2>4. froms = <<c>> /\ tos = <<t>>
    BY <1>7, <1>10, <2>2, <2>3
  <2>5. \A d \in DOMAIN p2s : p2s[d] \in dragged => d = c
    <3> SUFFICES ASSUME NEW d \in DOMAIN p2s, p2s[d] \in dragged PROVE d = c
      OBVIOUS
    <3>1. PICK i \in 1 .. m : q[i] = p2s[d]
      BY <1>4
    <3>2. i = 1
      BY <1>10
    <3>3. s2p[p2s[d]] = d /\ c = s2p[q[1]]
      BY <1>2, <1>7, <2>1, <2>2
    <3> QED
      BY <3>1, <3>2, <3>3
  <2>6. LET st == Moved(p2s, s2p, froms, tos, dragged)
        IN  Agree(st.p2s, st.s2p) /\ DOMAIN st.s2p = DOMAIN s2p
    BY <1>1, <2>4, <2>5, SingleMove
  <2> QED
    BY <1>6, <2>4, <2>6, BaseMove
<1>11. CASE m # 1
  <2>1. ~listing
    BY <1>1, <1>4, <1>5, <1>6, <1>11
  <2>2. \A i \in 1 .. m : Inside(froms[i], dx) /\ tos[i] \in Nat
    <3>1. \A i \in 1 .. m : Inside(froms[i], dx) /\ tos[i] \in 0 .. MaxCell
      BY <1>1, <1>6, <1>7, <1>11
    <3> QED
      BY <1>1, <3>1
  <2> DEFINE shift == dy * perStripe + dx
  <2>3. \A i \in 1 .. m : tos[i] = froms[i] + shift
    <3> SUFFICES ASSUME NEW i \in 1 .. m PROVE tos[i] = froms[i] + shift
      OBVIOUS
    <3>1. tos[i] = froms[i] + dy * perStripe + dx
      BY <1>1, <1>7, <1>9, <2>2, TargetIsShift
    <3>2. dy * perStripe \in Int /\ froms[i] \in Nat
      BY <1>1, <1>9
    <3> QED
      BY <3>1, <3>2
  <2>4. shift \in Int
    BY <1>1
  <2> HIDE DEF shift
  <2>5. LET st == Moved(p2s, s2p, froms, tos, dragged)
        IN  Agree(st.p2s, st.s2p) /\ DOMAIN st.s2p = DOMAIN s2p
    <3>1. CASE shift = 0
      <4>1. tos = froms
        <5>1. \A i \in 1 .. m : tos[i] = froms[i]
          BY <1>9, <2>3, <3>1
        <5> QED
          BY <1>7, <5>1
      <4>2. froms \in Seq(Int)
        BY <1>4, <1>7, <1>9
      <4>3. LET st == Moved(p2s, s2p, froms, froms, dragged) IN st.p2s = p2s /\ st.s2p = s2p
        BY <4>2, IdleMoves
      <4> QED
        BY <1>1, <4>1, <4>3
    <3>2. CASE shift # 0
      <4>1. \A i, j \in 1 .. m : froms[i] = froms[j] => i = j
        BY <1>4, <1>9
      <4>2. \A i, j \in 1 .. m : tos[i] = tos[j] => froms[i] = froms[j]
        BY <1>9, <2>3, <2>4
      <4>3. \A i \in 1 .. m : froms[i] # tos[i]
        BY <1>9, <2>3, <2>4, <3>2
      <4>4. froms \in [1 .. m -> DOMAIN p2s] /\ IsInjective(froms)
        BY <1>7, <1>9, <4>1 DEF IsInjective
      <4>5. tos \in [1 .. m -> Nat] /\ IsInjective(tos)
        BY <1>7, <2>2, <4>1, <4>2 DEF IsInjective
      <4>6. DropOf(p2s, s2p, m, froms, tos)
        BY <1>1, <1>4, <4>3, <4>4, <4>5 DEF DropOf
      <4>7. Dragged(p2s, m, froms) = dragged
        <5>1. \A i \in 1 .. m : p2s[froms[i]] \in dragged
          BY <1>8, <1>9
        <5>2. \A c \in dragged : \E i \in 1 .. m : p2s[froms[i]] = c
          BY <1>4, <1>9
        <5> QED
          BY <5>1, <5>2 DEF Dragged
      <4> QED
        BY <4>6, <4>7, SeveralMoves
    <3> QED
      BY <3>1, <3>2
  <2> QED
    BY <1>6, <2>1, <2>5, BaseMove
<1> QED
  BY <1>10, <1>11

\* The invariant is inductive.
LEMMA BaseStep == MovesInside /\ BaseIInv /\ [Next]_vars => BaseIInv'
<1> SUFFICES ASSUME MovesInside, BaseIInv, [Next]_vars PROVE BaseIInv'
  OBVIOUS
<1>1. CASE UNCHANGED vars
  BY <1>1 DEF vars, BaseIInv, Fields, EveryFileHasAPlace, MoveKept
<1>2. ASSUME NEW n \in Widths, SetPerStripe(n) PROVE BaseIInv'
  BY <1>2, BaseSetPerStripe
<1>3. CASE UpdatePositions
  BY <1>3, BaseUpdatePositions
<1>4. CASE Sort
  BY <1>4, BaseSort
<1>5. CASE Unsort \/ Reset \/ SetUrl \/ Restart
  BY <1>5, BaseLaidOut
<1>6. CASE ListingStarted
  BY <1>6, BaseListingStarted
<1>7. CASE ListingCompleted
  BY <1>7, BaseListingCompleted
<1>8. ASSUME NEW start \in 0 .. Len(source), NEW new \in NewRows, SourceInserted(start, new)
      PROVE  BaseIInv'
  BY <1>8, BaseSourceInserted
<1>9. ASSUME NEW first \in Rows(Len(source)), NEW last \in Rows(Len(source)),
             first <= last, SourceRemoved(first, last)
      PROVE  BaseIInv'
  BY <1>9, BaseSourceRemoved
<1>10. ASSUME NEW dragged \in SUBSET DOMAIN s2p, NEW dx \in -MaxCell .. MaxCell,
              NEW dy \in -MaxCell .. MaxCell, Drag(dragged, dx, dy)
       PROVE  BaseIInv'
  <2>1. dx \in Int /\ dy \in Int
    BY PositionerAssumption
  <2> QED
    BY <1>10, <2>1, BaseDrag
<1>11. ASSUME NEW row \in DOMAIN s2p, NEW to \in 0 .. MaxCell \cup {None}, DropAt(row, to)
       PROVE  BaseIInv'
  BY <1>11, BaseDropAt
<1>12. ASSUME Next PROVE BaseIInv'
  BY <1>2, <1>3, <1>4, <1>5, <1>6, <1>7, <1>8, <1>9, <1>10, <1>11, <1>12 DEF Next
<1> QED
  BY <1>1, <1>12

\* The invariant.
LEMMA BaseAlways == ASSUME MovesInside PROVE Spec => []BaseIInv
<1>1. MovesInside
  OBVIOUS
<1>2. BaseIInv /\ [Next]_vars => BaseIInv'
  BY <1>1, BaseStep
<1> QED
  BY <1>2, BaseInit, PTL DEF Spec

\* The maps stay finite partial functions between cells and rows.
THEOREM PositionerTypeCorrect == MovesInside => (Spec => []TypeOK)
<1>1. SUFFICES ASSUME MovesInside PROVE Spec => []TypeOK
  OBVIOUS
<1>2. BaseIInv => TypeOK
  BY BaseSays
<1> QED
  BY <1>1, <1>2, BaseAlways, PTL

\* Whatever drops, new rows, removals and restored layouts follow each other,
\* no icon is shown twice and none is lost between the grid and the folder.
THEOREM MapsStayInverse == MovesInside => (Spec => []MapsAgree)
<1>1. SUFFICES ASSUME MovesInside PROVE Spec => []MapsAgree
  OBVIOUS
<1>2. BaseIInv => MapsAgree
  BY BaseSays
<1> QED
  BY <1>1, <1>2, BaseAlways, PTL

\* Every file of the folder has a cell on an enabled grid that does not wait for
\* its saved positions.
THEOREM EveryFileIsPlaced == MovesInside => (Spec => []EveryFileHasAPlace)
<1>1. SUFFICES ASSUME MovesInside PROVE Spec => []EveryFileHasAPlace
  OBVIOUS
<1>2. BaseIInv => EveryFileHasAPlace
  BY DEF BaseIInv
<1> QED
  BY <1>1, <1>2, BaseAlways, PTL

-----------------------------------------------------------------------------
(***************************************************************************)
(* The layout that is saved.  A disabled positioner forgets the positions  *)
(* when its timer ends; until then the timer runs or the positions wait    *)
(* for the listing.  Without this, enabling it again could find saved      *)
(* positions that are not those of the grid, with nothing left to run.     *)
(***************************************************************************)
DisabledForgets == ~enabled /\ ~timer /\ ~deferApply => positions = {}

SavedIInv == SavedWhenIdle /\ DisabledForgets

\* No step that changes the grid leaves the timer idle.
LEMMA SavedStep == BaseIInv /\ SavedIInv /\ [Next]_vars => SavedIInv'
<1> SUFFICES ASSUME BaseIInv, SavedIInv, [Next]_vars PROVE SavedIInv'
  OBVIOUS
<1>1. /\ Fields /\ EveryFileHasAPlace /\ SavedWhenIdle /\ DisabledForgets
      /\ enabled \in BOOLEAN /\ timer \in BOOLEAN /\ deferApply \in BOOLEAN
      /\ Range(p2s) = DOMAIN s2p
  BY AgreeBothWays DEF BaseIInv, SavedIInv, Fields
<1>2. CASE UNCHANGED vars
  BY <1>1, <1>2 DEF vars, SavedIInv, SavedWhenIdle, DisabledForgets
<1>3. ASSUME NEW n \in Widths, SetPerStripe(n) PROVE SavedIInv'
  <2>1. enabled' = enabled /\ source' = source /\ perStripe' = n /\ n \in Nat
    BY <1>3, PositionerAssumption DEF SetPerStripe, folder
  <2>2. CASE /\ ~(enabled /\ n > 0 /\ DOMAIN p2s # {})
             /\ UNCHANGED <<maps, positions, deferApply, timer>>
    BY <1>1, <2>1, <2>2 DEF maps, SavedIInv, SavedWhenIdle, DisabledForgets
  <2>3. CASE enabled /\ ApplyPositions(positions, listing, n)
    <3>1. deferApply' = TRUE \/ positions' = {} \/ timer' = TRUE
      BY <2>3 DEF ApplyPositions
    <3> QED
      BY <2>1, <2>3, <3>1 DEF SavedIInv, SavedWhenIdle, DisabledForgets
  <2> QED
    BY <1>3, <2>2, <2>3 DEF SetPerStripe
<1>4. CASE UpdatePositions
  <2>1. /\ enabled' = enabled /\ source' = source /\ perStripe' = perStripe /\ p2s' = p2s
        /\ deferApply' = deferApply
    BY <1>4 DEF UpdatePositions, folder, maps
  <2>2. CASE ~enabled \/ DOMAIN p2s = {} \/ perStripe = 0
    <3>1. positions' = {}
      BY <1>4, <2>2 DEF UpdatePositions
    <3> QED
      BY <3>1 DEF SavedIInv, SavedWhenIdle, DisabledForgets
  <2>3. CASE enabled /\ deferApply
    BY <2>1, <2>3 DEF SavedIInv, SavedWhenIdle, DisabledForgets
  <2>4. CASE ~(~enabled \/ DOMAIN p2s = {} \/ perStripe = 0) /\ ~deferApply
    <3>1. Range(p2s) \subseteq Rows(Len(source))
      BY <1>1, <2>4 DEF EveryFileHasAPlace
    <3>2. positions' = Encoded(p2s, source, perStripe)
      BY <1>4, <2>4, <3>1 DEF UpdatePositions
    <3> QED
      BY <2>1, <2>4, <3>2 DEF SavedIInv, SavedWhenIdle, DisabledForgets
  <2> QED
    BY <2>2, <2>3, <2>4
<1>5. CASE Sort
  <2>1. enabled' = FALSE /\ timer' = (timer \/ enabled) /\ positions' = positions
        /\ deferApply' = deferApply
    BY <1>5 DEF Sort
  <2> QED
    BY <1>1, <2>1 DEF SavedIInv, SavedWhenIdle, DisabledForgets
<1>6. CASE Unsort
  <2>1. ~enabled /\ enabled' = TRUE /\ positions' = positions /\ deferApply' = deferApply
        /\ timer' = timer
    BY <1>6 DEF Unsort
  <2> QED
    BY <1>1, <2>1 DEF SavedIInv, SavedWhenIdle, DisabledForgets
<1>7. CASE Reset \/ SetUrl
  <2>1. positions' = {}
    BY <1>7 DEF Reset, SetUrl
  <2> QED
    BY <2>1 DEF SavedIInv, SavedWhenIdle, DisabledForgets
<1>8. CASE ListingStarted
  BY <1>1, <1>8 DEF ListingStarted, maps, SavedIInv, SavedWhenIdle, DisabledForgets
<1>9. CASE ListingCompleted
  <2>1. /\ source' = source /\ enabled' = enabled /\ perStripe' = perStripe
        /\ positions' = positions /\ deferApply' = FALSE
        /\ timer' = (timer \/ (deferApply /\ positions # {}) \/ deferMoves # NoMoves)
    BY <1>9 DEF ListingCompleted
  <2>2. CASE timer' = TRUE \/ positions = {}
    BY <2>1, <2>2 DEF SavedIInv, SavedWhenIdle, DisabledForgets
  <2>3. CASE ~timer /\ ~deferApply /\ deferMoves = NoMoves
    <3>1. deferMoves.from = <<>> /\ deferMoves.to = <<>>
      BY <2>3 DEF NoMoves
    <3>2. LET st == Moved(p2s, s2p, deferMoves.from, deferMoves.to, {})
          IN  p2s' = st.p2s /\ s2p' = st.s2p
      BY <1>9, <2>3 DEF ListingCompleted
    <3>3. Moved(p2s, s2p, <<>>, <<>>, {}) = [p2s |-> p2s, s2p |-> s2p, to |-> <<>>]
      BY NoMove
    <3>4. p2s' = p2s
      BY <3>1, <3>2, <3>3
    <3> QED
      BY <1>1, <2>1, <2>3, <3>4 DEF SavedIInv, SavedWhenIdle, DisabledForgets
  <2> QED
    BY <1>1, <2>1, <2>2, <2>3
<1>10. ASSUME NEW start, NEW new, SourceInserted(start, new) PROVE SavedIInv'
  <2>1. enabled' = enabled /\ positions' = positions /\ deferApply' = deferApply
        /\ timer' = (timer \/ ~deferApply)
    BY <1>10 DEF SourceInserted
  <2> QED
    BY <1>1, <2>1 DEF SavedIInv, SavedWhenIdle, DisabledForgets
<1>11. ASSUME NEW first, NEW last, SourceRemoved(first, last) PROVE SavedIInv'
  <2>1. timer' = TRUE
    BY <1>11 DEF SourceRemoved
  <2> QED
    BY <2>1 DEF SavedIInv, SavedWhenIdle, DisabledForgets
<1>12. ASSUME NEW froms, NEW tos, NEW dragged, Move(froms, tos, dragged) PROVE SavedIInv'
  <2>1. /\ source' = source /\ enabled' = enabled /\ perStripe' = perStripe
        /\ positions' = positions /\ deferApply' = deferApply
    BY <1>12 DEF Move, folder
  <2>2. timer' = TRUE \/ (timer' = timer /\ p2s' = p2s)
    BY <1>12 DEF Move, maps
  <2> QED
    BY <1>1, <2>1, <2>2 DEF SavedIInv, SavedWhenIdle, DisabledForgets
<1>13. CASE Restart
  <2>1. /\ perStripe' = 0 /\ positions' = positions /\ deferApply' = (positions # {})
    BY <1>13 DEF Restart
  <2> QED
    BY <2>1 DEF SavedIInv, SavedWhenIdle, DisabledForgets
<1>14. ASSUME Next PROVE SavedIInv'
  <2>1. ASSUME NEW dragged \in SUBSET DOMAIN s2p, NEW dx, NEW dy, Drag(dragged, dx, dy)
        PROVE  SavedIInv'
    BY <1>12, <2>1 DEF Drag
  <2>2. ASSUME NEW row \in DOMAIN s2p, NEW to, DropAt(row, to) PROVE SavedIInv'
    BY <1>12, <2>2 DEF DropAt
  <2> QED
    BY <1>3, <1>4, <1>5, <1>6, <1>7, <1>8, <1>9, <1>10, <1>11, <1>13, <1>14, <2>1, <2>2 DEF Next
<1> QED
  BY <1>2, <1>14

\* With the timer idle the positions in the configuration are those on the grid:
\* nothing that changes the layout fails to start the timer, or to leave the
\* positions waiting, and no row is mapped that the timer would not save.
THEOREM IdleMeansSaved == MovesInside => (Spec => []SavedWhenIdle)
<1>1. SUFFICES ASSUME MovesInside PROVE Spec => []SavedWhenIdle
  OBVIOUS
<1>2. Init => SavedIInv
  BY DEF Init, SavedIInv, SavedWhenIdle, DisabledForgets
<1>3. SavedIInv => SavedWhenIdle
  BY DEF SavedIInv
<1>4. Spec => []BaseIInv
  BY <1>1, BaseAlways
<1> QED
  BY <1>2, <1>3, <1>4, SavedStep, PTL DEF Spec

-----------------------------------------------------------------------------
(***************************************************************************)
(* The layout that is restored, and the icons that stay.                   *)
(***************************************************************************)
LEMMA SavedRestores == BaseIInv => SavedLayoutRestores
<1> SUFFICES ASSUME BaseIInv, enabled, ~deferApply, perStripe > 0,
                    positions = Encoded(p2s, source, perStripe),
                    NEW order \in Bijection(DOMAIN source, DOMAIN source)
             PROVE  LET src == [i \in DOMAIN source |-> source[order[i]]]
                    IN  \A f \in Applied(positions, src, perStripe) :
                          /\ DOMAIN f = DOMAIN p2s
                          /\ \A c \in DOMAIN f : src[f[c] + 1] = source[p2s[c] + 1]
  BY DEF SavedLayoutRestores
<1> DEFINE src == [i \in DOMAIN source |-> source[order[i]]]
<1>1. /\ Folder(source) /\ FolderOf(source) /\ perStripe \in Nat
      /\ Agree(p2s, s2p) /\ EveryFileHasAPlace
  BY FieldFacts DEF BaseIInv, Fields
<1>2. Places(p2s) /\ IsInjective(p2s) /\ Range(p2s) = Rows(Len(source))
  BY <1>1, AgreeBothWays DEF EveryFileHasAPlace
<1>3. Folder(src) /\ Range(src) = Range(source)
  BY <1>1, RowsOrdered
<1> HIDE DEF src
<1>4. FolderOf(src)
  BY <1>3, FolderRows
<1>5. \A c \in DOMAIN p2s : p2s[c] \in Rows(Len(source))
  BY <1>2 DEF Range
<1>6. /\ Saved(positions) /\ Distinct(positions)
      /\ \A e \in positions : e.pos < perStripe /\ e.url \in Range(source)
      /\ \A c \in DOMAIN p2s :
             \E e \in positions : e.url = source[p2s[c] + 1] /\ CellOf(e, perStripe) = c
  BY <1>1, <1>2, <1>5, EncodedSound
<1>7. \A e \in positions : e.pos # perStripe
  BY <1>1, <1>6
<1> SUFFICES ASSUME NEW f \in Applied(positions, src, perStripe)
             PROVE  /\ DOMAIN f = DOMAIN p2s
                    /\ \A c \in DOMAIN f : src[f[c] + 1] = source[p2s[c] + 1]
  BY DEF src
<1>8. /\ Shows(f, src, Range(src))
      /\ \A e \in positions :
             e.url \in Range(src) /\ e.pos < perStripe
                 => CellOf(e, perStripe) \in DOMAIN f /\ src[f[CellOf(e, perStripe)] + 1] = e.url
  BY <1>1, <1>4, <1>6, <1>7, AppliedKeeps
<1>9. \A c \in DOMAIN p2s : c \in DOMAIN f /\ src[f[c] + 1] = source[p2s[c] + 1]
  BY <1>3, <1>6, <1>8
<1>10. ASSUME NEW c \in DOMAIN f PROVE c \in DOMAIN p2s
  <2>1. f[c] \in Rows(Len(src)) /\ src[f[c] + 1] \in Range(source)
    BY <1>3, <1>8 DEF Shows
  <2>2. PICK r \in Rows(Len(source)) : source[r + 1] = src[f[c] + 1]
    BY <1>1, <2>1, FolderRows
  <2>3. PICK d \in DOMAIN p2s : p2s[d] = r
    BY <1>2 DEF Range
  <2>4. d \in DOMAIN f /\ src[f[d] + 1] = src[f[c] + 1] /\ f[d] \in Rows(Len(src))
    BY <1>8, <1>9, <2>2, <2>3 DEF Shows
  <2>5. f[c] = f[d]
    BY <1>4, <2>1, <2>4, RowsDiffer
  <2>6. IsInjective(f)
    BY <1>8 DEF Shows
  <2>7. c = d
    BY <2>4, <2>5, <2>6 DEF IsInjective
  <2> QED
    BY <2>7
<1> QED
  BY <1>9, <1>10

\* A layout that was saved gives every file its cell again, whatever the order in
\* which the next listing brings the files.
THEOREM SavedIsRestored == MovesInside => (Spec => []SavedLayoutRestores)
<1>1. SUFFICES ASSUME MovesInside PROVE Spec => []SavedLayoutRestores
  OBVIOUS
<1> QED
  BY <1>1, SavedRestores, BaseAlways, PTL

\* A map that shows every row of s, and the map after n rows were inserted: each
\* cell shows the file it showed, and the new cells show new files.
LEMMA CellsAfterInsertion ==
    ASSUME NEW f, Places(f), IsInjective(f), NEW s, Folder(s), Range(f) = Rows(Len(s)),
           NEW start \in 0 .. Len(s), NEW new, Folder(new), Range(new) \cap Range(s) = {},
           NEW h, h = Inserted(f, start, Len(new)),
           NEW t, t = Spliced(s, start, new)
    PROVE  /\ \A c \in DOMAIN f : c \in DOMAIN h /\ t[h[c] + 1] = s[f[c] + 1]
           /\ \A c \in DOMAIN h : h[c] \in Rows(Len(t))
           /\ \A c \in DOMAIN h \ DOMAIN f : t[h[c] + 1] \in Range(new)
<1>1. PICK n \in Nat, N \in Nat : n = Len(new) /\ N = Len(s)
  BY FolderRows
<1>2. start \in Nat /\ start <= N /\ Range(f) = Rows(N) /\ h = Inserted(f, start, n)
  BY <1>1
<1>3. \A c \in DOMAIN f : c \in DOMAIN h
  BY <1>2, InsertedSound
<1>4. \A c \in DOMAIN f : f[c] >= start => h[c] = f[c] + n
  BY <1>2, InsertedSound
<1>5. \A c \in DOMAIN f : f[c] < start => h[c] = f[c]
  BY <1>2, InsertedSound
<1>6. \A c \in DOMAIN h \ DOMAIN f : h[c] >= start /\ h[c] < start + n
  BY <1>2, InsertedSound
<1>7. Len(t) = N + n
  BY <1>1, RowsInserted
<1>8. \A i \in 1 .. start : t[i] = s[i]
  BY <1>1, RowsInserted
<1>9. \A i \in start + 1 .. N, j \in Nat : j = i + n => t[j] = s[i]
  BY <1>1, RowsInserted
<1>10. \A r \in start .. start + n - 1 : t[r + 1] \in Range(new)
  BY <1>1, RowsInserted
<1>11. \A c \in DOMAIN h : h[c] \in Rows(Len(t)) /\ h[c] \in Nat
  <2>1. Range(h) = Rows(N + n)
    BY <1>2, InsertedSound
  <2>2. \A c \in DOMAIN h : h[c] \in Rows(N + n)
    BY <2>1 DEF Range
  <2> QED
    BY <1>7, <2>2 DEF Rows
<1>12. ASSUME NEW c \in DOMAIN f PROVE t[h[c] + 1] = s[f[c] + 1]
  <2>1. PICK r \in Rows(N) : r = f[c]
    BY <1>2 DEF Range
  <2>2. r \in Nat /\ r < N
    BY DEF Rows
  <2>3. CASE r < start
    <3>1. r + 1 \in 1 .. start
      BY <1>2, <2>2, <2>3
    <3> QED
      BY <1>5, <1>8, <2>1, <2>3, <3>1
  <2>4. CASE r >= start
    <3>1. PICK i \in start + 1 .. N, j \in Nat : i = r + 1 /\ j = i + n /\ j = r + n + 1
      BY <1>2, <2>2, <2>4
    <3>2. h[c] = r + n
      BY <1>4, <2>1, <2>4
    <3> QED
      BY <1>9, <2>1, <3>1, <3>2
  <2> QED
    BY <1>2, <2>2, <2>3, <2>4
<1>13. ASSUME NEW c \in DOMAIN h \ DOMAIN f PROVE t[h[c] + 1] \in Range(new)
  <2>1. PICK r \in Nat : r = h[c]
    BY <1>11
  <2>2. r \in start .. start + n - 1
    BY <1>2, <1>6, <2>1
  <2> QED
    BY <1>10, <2>1, <2>2
<1> QED
  BY <1>3, <1>11, <1>12, <1>13

\* New rows take nobody's cell.
LEMMA OthersStayInserted ==
    ASSUME BaseIInv, enabled, ~deferApply, NEW start \in 0 .. Len(source),
           NEW new \in NewRows, SourceInserted(start, new), NEW u \in Range(source)
    PROVE  CellsOf(u)' = CellsOf(u)
<1>1. Folder(source) /\ Agree(p2s, s2p) /\ EveryFileHasAPlace
  BY DEF BaseIInv, Fields
<1>2. Places(p2s) /\ IsInjective(p2s) /\ Range(p2s) = Rows(Len(source))
  BY <1>1, AgreeBothWays DEF EveryFileHasAPlace
<1>3. Folder(new) /\ Range(new) \cap Range(source) = {}
  BY NewRowsFolder
<1> DEFINE h == p2s'
           t == source'
<1>4. h = Inserted(p2s, start, Len(new))
  BY DEF SourceInserted, SetMaps
<1>5. t = Spliced(source, start, new)
  BY DEF SourceInserted, Spliced
<1>6. /\ CellsOf(u) = {c \in DOMAIN p2s : p2s[c] \in Rows(Len(source)) /\ source[p2s[c] + 1] = u}
      /\ CellsOf(u)' = {c \in DOMAIN h : h[c] \in Rows(Len(t)) /\ t[h[c] + 1] = u}
  BY DEF CellsOf
<1> HIDE DEF t, h
<1>7. \A c \in DOMAIN p2s : c \in DOMAIN h /\ t[h[c] + 1] = source[p2s[c] + 1]
  BY <1>1, <1>2, <1>3, <1>4, <1>5, CellsAfterInsertion
<1>8. \A c \in DOMAIN h : h[c] \in Rows(Len(t))
  BY <1>1, <1>2, <1>3, <1>4, <1>5, CellsAfterInsertion
<1>9. \A c \in DOMAIN h \ DOMAIN p2s : t[h[c] + 1] \in Range(new)
  BY <1>1, <1>2, <1>3, <1>4, <1>5, CellsAfterInsertion
<1>10. \A c \in DOMAIN p2s : p2s[c] \in Rows(Len(source))
  BY <1>2 DEF Range
<1> QED
  BY <1>3, <1>6, <1>7, <1>8, <1>9, <1>10

\* Rows that go take nobody else's cell with them.
LEMMA OthersStayRemoved ==
    ASSUME BaseIInv, BaseIInv', enabled, ~deferApply, NEW first \in Rows(Len(source)),
           NEW last \in Rows(Len(source)), first <= last, SourceRemoved(first, last),
           NEW u \in Range(source')
    PROVE  CellsOf(u)' = CellsOf(u)
<1> DEFINE n == last - first + 1
           N == Len(source)
           h == Removed(s2p, first, last)
           t == source'
<1>1. /\ Folder(source) /\ FolderOf(source) /\ N \in Nat /\ Agree(p2s, s2p) /\ EveryFileHasAPlace
  BY FieldFacts DEF BaseIInv, Fields
<1>2. first \in Nat /\ last \in Nat /\ last < N /\ n \in Nat /\ n >= 1 /\ first + n = last + 1
  BY <1>1 DEF Rows
<1>3. /\ Places(s2p) /\ IsInjective(s2p) /\ DOMAIN s2p = Rows(N)
      /\ \A c \in DOMAIN p2s : p2s[c] \in DOMAIN s2p /\ s2p[p2s[c]] = c
      /\ \A r \in DOMAIN s2p : s2p[r] \in DOMAIN p2s /\ p2s[s2p[r]] = r
  BY <1>1, AgreeBothWays DEF EveryFileHasAPlace
<1>4. s2p' = h /\ Agree(p2s', s2p') /\ EveryFileHasAPlace' /\ enabled' /\ ~deferApply'
  BY DEF SourceRemoved, BaseIInv
<1>5. /\ \A r \in DOMAIN h :
             \/ r < first /\ r \in DOMAIN s2p /\ h[r] = s2p[r]
             \/ r >= first /\ r + n \in DOMAIN s2p /\ h[r] = s2p[r + n]
  BY <1>2, <1>3, RemovedSound
<1>6. t = Excised(source, first, last)
  BY DEF SourceRemoved, Excised
<1>7. /\ Folder(t) /\ Len(t) = N - n
      /\ \A r \in Rows(Len(t)) : r < first => t[r + 1] = source[r + 1]
      /\ \A r \in Rows(Len(t)) : r >= first => t[r + 1] = source[r + n + 1]
  BY <1>1, <1>2, <1>6, RowsRemoved
<1>8. /\ DOMAIN h = Rows(Len(t))
      /\ \A c \in DOMAIN p2s' : p2s'[c] \in DOMAIN h /\ h[p2s'[c]] = c
      /\ \A r \in DOMAIN h : h[r] \in DOMAIN p2s' /\ p2s'[h[r]] = r
  BY <1>4, AgreeBothWays DEF EveryFileHasAPlace
<1> HIDE DEF t, h, n, N
<1>9. /\ CellsOf(u) = {c \in DOMAIN p2s : p2s[c] \in Rows(N) /\ source[p2s[c] + 1] = u}
      /\ CellsOf(u)' = {c \in DOMAIN p2s' : p2s'[c] \in Rows(Len(t)) /\ t[p2s'[c] + 1] = u}
  BY DEF CellsOf, t, N
<1>10. PICK r \in Rows(Len(t)) : t[r + 1] = u
  BY <1>7, FolderRows DEF t
<1>11. PICK s \in Rows(N) : source[s + 1] = u /\ s2p[s] = h[r]
  <2>1. r \in Nat /\ r \in DOMAIN h
    BY <1>7, <1>8, <1>10, FolderRows DEF Rows
  <2>2. CASE r < first /\ r \in DOMAIN s2p /\ h[r] = s2p[r]
    BY <1>3, <1>7, <1>10, <2>2
  <2>3. CASE r >= first /\ r + n \in DOMAIN s2p /\ h[r] = s2p[r + n]
    <3>1. PICK s \in Rows(N) : s = r + n
      BY <1>3, <2>3
    <3>2. source[s + 1] = u
      BY <1>7, <1>10, <2>3, <3>1
    <3> QED
      BY <2>3, <3>1, <3>2
  <2> QED
    BY <1>5, <2>1, <2>2, <2>3
<1>12. \A x \in Rows(N) : source[x + 1] = u => x = s
  BY <1>1, <1>11, RowsDiffer DEF N
<1>13. \A x \in Rows(Len(t)) : t[x + 1] = u => x = r
  <2>1. FolderOf(t)
    BY <1>7, FolderRows
  <2> QED
    BY <1>10, <2>1, RowsDiffer
<1>14. CellsOf(u) = {s2p[s]}
  BY <1>3, <1>9, <1>11, <1>12
<1>15. CellsOf(u)' = {h[r]}
  BY <1>8, <1>9, <1>10, <1>13
<1> QED
  BY <1>11, <1>14, <1>15

\* Files that come or go leave the icons of the other files in their cells,
\* although the rows behind them are renumbered in both maps.
THEOREM NeighboursStay == MovesInside => (Spec => OthersStay)
<1>1. SUFFICES ASSUME MovesInside PROVE Spec => OthersStay
  OBVIOUS
<1> DEFINE Stay == \A u \in Range(source) \cap Range(source') : CellsOf(u)' = CellsOf(u)
<1>2. ASSUME BaseIInv, BaseIInv', [Next]_vars, enabled, enabled', ~deferApply, source' # source
      PROVE  Stay
  <2>1. CASE source' = <<>>
    <3>1. Range(source') = {}
      BY <2>1 DEF Range
    <3> QED
      BY <3>1
  <2>2. ASSUME NEW start \in 0 .. Len(source), NEW new \in NewRows, SourceInserted(start, new)
        PROVE  Stay
    BY <1>2, <2>2, OthersStayInserted
  <2>3. ASSUME NEW first \in Rows(Len(source)), NEW last \in Rows(Len(source)),
               first <= last, SourceRemoved(first, last)
        PROVE  Stay
    BY <1>2, <2>3, OthersStayRemoved
  <2>4. \/ source' = <<>> \/ source' = source \/ enabled' = FALSE
        \/ \E start \in 0 .. Len(source), new \in NewRows : SourceInserted(start, new)
        \/ \E first, last \in Rows(Len(source)) : first <= last /\ SourceRemoved(first, last)
    <3>1. CASE UNCHANGED vars
      BY <3>1 DEF vars
    <3>2. CASE Next
      <4>1. (\E n \in Widths : SetPerStripe(n)) => source' = source
        BY DEF SetPerStripe, folder
      <4>2. UpdatePositions \/ Unsort \/ Reset \/ ListingStarted \/ ListingCompleted => source' = source
        BY DEF UpdatePositions, Unsort, Reset, ListingStarted, ListingCompleted, folder
      <4>3. Sort => enabled' = FALSE
        BY DEF Sort
      <4>4. SetUrl \/ Restart => source' = <<>>
        BY DEF SetUrl, Restart
      <4>5. \A froms, tos, dragged : Move(froms, tos, dragged) => source' = source
        BY DEF Move, folder
      <4>6. (\E dragged \in SUBSET DOMAIN s2p, dx, dy \in -MaxCell .. MaxCell : Drag(dragged, dx, dy))
              => source' = source
        BY <4>5 DEF Drag
      <4>7. (\E row \in DOMAIN s2p, to \in 0 .. MaxCell \cup {None} : DropAt(row, to))
              => source' = source
        BY <4>5 DEF DropAt
      <4> QED
        BY <3>2, <4>1, <4>2, <4>3, <4>4, <4>6, <4>7 DEF Next
    <3> QED
      BY <1>2, <3>1, <3>2
  <2> QED
    BY <1>2, <2>1, <2>2, <2>3, <2>4
<1> HIDE DEF Stay
<1>3. BaseIInv /\ BaseIInv' /\ [Next]_vars
        => [enabled /\ enabled' /\ ~deferApply /\ source' # source => Stay]_vars
  BY <1>2
<1>4. Spec => [][enabled /\ enabled' /\ ~deferApply /\ source' # source => Stay]_vars
  BY <1>1, <1>3, BaseAlways, PTL DEF Spec
<1> QED
  BY <1>4 DEF OthersStay, Stay

\* A new width gives a saved icon whose place exists in the new stripes the cell
\* of its stripe and place.
LEMMA FittingStay ==
    ASSUME BaseIInv, NEW n \in Widths, SetPerStripe(n), enabled, ~listing, n # 0,
           DOMAIN p2s # {}, ~CutOff(n), NEW e \in positions, e.url \in Range(source), e.pos < n
    PROVE  CellsOf(e.url)' = {CellOf(e, n)}
<1>1. /\ n \in Nat /\ n > 0 /\ FolderOf(source) /\ Saved(positions) /\ Distinct(positions)
      /\ positions # {} /\ \A d \in positions : d.pos # n
  BY FieldFacts DEF BaseIInv, CutOff
<1>2. ApplyPositions(positions, listing, n) /\ source' = source
  BY <1>1 DEF SetPerStripe, folder
<1>3. PICK f \in Applied(positions, source, n) : SetMaps(f)
  BY <1>1, <1>2 DEF ApplyPositions
<1>4. p2s' = f
  BY <1>3 DEF SetMaps
<1>5. Shows(f, source, Range(source))
  BY <1>1, AppliedKeeps
<1>6. CellOf(e, n) \in DOMAIN f /\ source[f[CellOf(e, n)] + 1] = e.url
  BY <1>1, AppliedKeeps
<1>7. CellsOf(e.url)' = {c \in DOMAIN f : f[c] \in Rows(Len(source)) /\ source[f[c] + 1] = e.url}
  BY <1>2, <1>4 DEF CellsOf
<1> DEFINE place == CellOf(e, n)
<1>8. place \in DOMAIN f /\ source[f[place] + 1] = e.url
  BY <1>6
<1> HIDE DEF place
<1>9. \A c \in DOMAIN f : f[c] \in Rows(Len(source))
  BY <1>5 DEF Shows
<1>10. ASSUME NEW c \in DOMAIN f, source[f[c] + 1] = e.url PROVE c = place
  <2>1. f[c] \in Rows(Len(source)) /\ f[place] \in Rows(Len(source))
    BY <1>8, <1>9
  <2>2. f[c] = f[place]
    BY <1>1, <1>8, <1>10, <2>1, RowsDiffer
  <2> QED
    BY <1>5, <1>8, <2>2 DEF Shows, IsInjective
<1>11. CellsOf(e.url)' = {place}
  BY <1>7, <1>8, <1>9, <1>10
<1> QED
  BY <1>11 DEF place

\* When the width of the grid changes, the icons that still fit keep their
\* stripes and places, as long as none is in the first place that is cut off.
THEOREM WidthKeepsFitting == MovesInside => (Spec => FittingIconsStay)
<1>1. SUFFICES ASSUME MovesInside PROVE Spec => FittingIconsStay
  OBVIOUS
<1> DEFINE Stay == \A e \in positions :
                     e.url \in Range(source) /\ e.pos < perStripe'
                         => CellsOf(e.url)' = {CellOf(e, perStripe')}
           Widened == enabled /\ ~listing /\ perStripe' \notin {0, perStripe}
                        /\ DOMAIN p2s # {} /\ ~CutOff(perStripe')
<1>2. ASSUME BaseIInv, [Next]_vars, Widened PROVE Stay
  <2>1. \/ perStripe' = perStripe \/ perStripe' = 0
        \/ \E n \in Widths : SetPerStripe(n)
    <3>1. CASE UNCHANGED vars
      BY <3>1 DEF vars
    <3>2. CASE Next
      <4>1. UpdatePositions \/ Sort \/ Unsort \/ Reset \/ SetUrl \/ ListingStarted \/ ListingCompleted
              => perStripe' = perStripe
        BY DEF UpdatePositions, Sort, Unsort, Reset, SetUrl, ListingStarted, ListingCompleted
      <4>2. \A start, new : SourceInserted(start, new) => perStripe' = perStripe
        BY DEF SourceInserted
      <4>3. \A first, last : SourceRemoved(first, last) => perStripe' = perStripe
        BY DEF SourceRemoved
      <4>4. \A froms, tos, dragged : Move(froms, tos, dragged) => perStripe' = perStripe
        BY DEF Move
      <4>5. (\E dragged \in SUBSET DOMAIN s2p, dx, dy \in -MaxCell .. MaxCell : Drag(dragged, dx, dy))
              => perStripe' = perStripe
        BY <4>4 DEF Drag
      <4>6. (\E row \in DOMAIN s2p, to \in 0 .. MaxCell \cup {None} : DropAt(row, to))
              => perStripe' = perStripe
        BY <4>4 DEF DropAt
      <4>7. Restart => perStripe' = 0
        BY DEF Restart
      <4> QED
        BY <3>2, <4>1, <4>2, <4>3, <4>5, <4>6, <4>7 DEF Next
    <3> QED
      BY <1>2, <3>1, <3>2
  <2>2. PICK n \in Widths : SetPerStripe(n)
    BY <1>2, <2>1
  <2>3. perStripe' = n
    BY <2>2 DEF SetPerStripe
  <2>4. enabled /\ ~listing /\ n # 0 /\ DOMAIN p2s # {} /\ ~CutOff(n)
    BY <1>2, <2>3
  <2>5. \A e \in positions :
            e.url \in Range(source) /\ e.pos < n => CellsOf(e.url)' = {CellOf(e, n)}
    BY <1>2, <2>2, <2>4, FittingStay
  <2> QED
    BY <2>3, <2>5
<1>3. BaseIInv /\ [Next]_vars => [Widened => Stay]_vars
  BY <1>2
<1> HIDE DEF Stay, Widened
<1>4. Spec => [][Widened => Stay]_vars
  BY <1>1, <1>3, BaseAlways, PTL DEF Spec
<1> QED
  BY <1>4 DEF FittingIconsStay, Widened, Stay
=============================================================================
