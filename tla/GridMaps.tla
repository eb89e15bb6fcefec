------------------------------ MODULE GridMaps ------------------------------
(***************************************************************************)
(* The two maps of the desktop's icon grid, and what the operations of     *)
(* the positioner do to them                                               *)
(* (containments/desktop/plugins/folder/positioner.cpp).                   *)
(*                                                                         *)
(* p2s takes an occupied cell of the grid ("proxy row") to a row of the    *)
(* folder model ("source row"), s2p takes a source row to its cell.  Cells *)
(* and rows count from 0.  A loop that hands out one free cell after       *)
(* another is written as the set of cells it ends with, in ascending       *)
(* order.                                                                  *)
(***************************************************************************)
EXTENDS Integers, Sequences, FiniteSets, Functions

None == -1

Rows(n) == 0..(n - 1)

Put(f, k, v) == [x \in DOMAIN f \cup {k} |-> IF x = k THEN v ELSE f[x]]

Without(f, k) == Restrict(f, DOMAIN f \ {k})

\* initMaps, for either of the maps
InitMap(n) == [i \in Rows(n) |-> i]

LastRow(f) ==
    IF DOMAIN f = {} THEN 0
    ELSE CHOOSE c \in DOMAIN f : \A d \in DOMAIN f : d <= c

\* The cells that n items without a place get: firstFreeRow as long as there is
\* one, then lastRow + 1.  lastRow of no rows is 0, so that the first of all
\* items goes to cell 1, and the second to the free cell 0.
NextCells(f, n) ==
    IF DOMAIN f = {} /\ n = 1 THEN {1}
    ELSE {c \in 0..(LastRow(f) + n) :
            c \notin DOMAIN f /\ Cardinality(Rows(c) \ DOMAIN f) < n}

NextCell(f) == CHOOSE c \in NextCells(f, 1) : TRUE

-----------------------------------------------------------------------------
(***************************************************************************)
(* Rows that come and go in the folder model.                              *)
(***************************************************************************)
\* Mutant: existing items are not renumbered.
InsertedNotShifted(f, start, n) ==
    LET new == NextCells(f, n)
    IN  [c \in DOMAIN f \cup new |->
            IF c \in new THEN start + Cardinality({d \in new : d < c}) ELSE f[c]]

\* sourceRowsAboutToBeInserted: n rows from start on
Inserted(f, start, n) ==
    LET new == NextCells(f, n)
    IN  IF DOMAIN f = {} THEN InitMap(start + n)
        ELSE [c \in DOMAIN f \cup new |->
                IF c \in new THEN start + Cardinality({d \in new : d < c})
                ELSE IF f[c] >= start THEN f[c] + n ELSE f[c]]

\* Mutant: rows in front of the removed ones are renumbered too.
RemovedShiftsAll(g, first, last) ==
    LET n == last - first + 1
    IN  [t \in {s - n : s \in DOMAIN g \ (first..last)} |-> g[t + n]]

\* sourceRowsAboutToBeRemoved, which works on s2p and makes p2s its inverse
Removed(g, first, last) ==
    LET n    == last - first + 1
        kept == DOMAIN g \ (first..last)
    IN  [t \in {IF s > last THEN s - n ELSE s : s \in kept} |->
            g[IF t >= first THEN t + n ELSE t]]

-----------------------------------------------------------------------------
(***************************************************************************)
(* move(): the moves are handled one by one; "to" may be changed on the    *)
(* way, and later moves see the changes.  Items being dragged count as     *)
(* blank.                                                                  *)
(***************************************************************************)
Blank(f, c, dragged) == c \in DOMAIN f => f[c] \in dragged

\* Mutant: the search stops at any cell that is blank for an item at from.
SearchIgnoresTargets(f, from, to, wanted, dragged) ==
    CHOOSE c \in wanted..(wanted + Cardinality(DOMAIN f) + Len(to)) :
        /\ Blank(f, c, dragged) \/ c = from
        /\ \A d \in wanted..(c - 1) : ~Blank(f, d, dragged) /\ d # from

\* The cell found by "find the next blank space", from a cell that is not.
Search(f, from, to, wanted, dragged) ==
    LET Usable(c) == (Blank(f, c, dragged) \/ c = from) /\ c \notin Range(to)
    IN  CHOOSE c \in wanted..(wanted + Cardinality(DOMAIN f) + Len(to)) :
            Usable(c) /\ \A d \in wanted..(c - 1) : ~Usable(d)

MoveOne(st, froms, row, i, dragged) ==
    LET from   == froms[i]
        wanted == IF st.to[i] = None THEN NextCell(st.p2s) ELSE st.to[i]
        cell   == IF wanted \notin Range(froms) /\ ~Blank(st.p2s, wanted, dragged)
                  THEN Search(st.p2s, from, st.to, wanted, dragged) ELSE wanted
        to     == [st.to EXCEPT ![i] = cell]
        left   == IF from \in Range(to) THEN st.p2s ELSE Without(st.p2s, from)
    IN  IF row = None \/ from = st.to[i] THEN st
        ELSE [p2s |-> Put(left, cell, row), s2p |-> Put(st.s2p, row, cell), to |-> to]

\* The maps after move(): the source rows are looked up before the first move.
Moved(p2s, s2p, froms, tos, dragged) ==
    LET row(i) == IF froms[i] \in DOMAIN p2s THEN p2s[froms[i]] ELSE None
        st[i \in 0..Len(froms)] ==
            IF i = 0 THEN [p2s |-> p2s, s2p |-> s2p, to |-> tos]
            ELSE MoveOne(st[i - 1], froms, row(i), i, dragged)
    IN  st[Len(froms)]

-----------------------------------------------------------------------------
(***************************************************************************)
(* Saved positions: for every item the stripe it is in and its place       *)
(* there.  An item is known by its url; src is the sequence of the folder  *)
(* model's urls.                                                           *)
(***************************************************************************)
\* updatePositions
Encoded(f, src, perStripe) ==
    {[url |-> src[f[c] + 1], stripe |-> c \div perStripe, pos |-> c % perStripe] :
        c \in DOMAIN f}

SourceRow(src, u) == CHOOSE i \in Rows(Len(src)) : src[i + 1] = u

\* Urls without a place get the next cells, in the order of a QHash.
Placings(f, urls, src) ==
    LET new == NextCells(f, Cardinality(urls))
    IN  {[c \in DOMAIN f \cup new |-> IF c \in new THEN SourceRow(src, g[c]) ELSE f[c]] :
            g \in Bijection(new, urls)}

CellOf(e, perStripe) == e.stripe * perStripe + e.pos

\* The entries that claim different items and different cells.
Compatible(entries, perStripe) ==
    \A d, e \in entries :
        d # e => d.url # e.url /\ CellOf(d, perStripe) # CellOf(e, perStripe)

\* The entries that get their cells: the list is in the order of a QHash, and
\* the first to claim a cell has it.
Claims(entries, perStripe) ==
    {E \in SUBSET entries :
        /\ Compatible(E, perStripe)
        /\ \A e \in entries \ E : ~Compatible(E \cup {e}, perStripe)}

Restored(entries, src, perStripe) ==
    [c \in {CellOf(e, perStripe) : e \in entries} |->
        SourceRow(src, (CHOOSE e \in entries : CellOf(e, perStripe) = c).url)]

UrlsOf(entries) == {e.url : e \in entries}

\* Mutant: an entry fits a stripe that is as long as its place says.
FitsStrictly(e, perStripe) == e.pos < perStripe - 1

\* "items that still fit"
Fits(e, perStripe) == e.pos <= perStripe

\* Mutant: files without a record get no cell.
AppliedForgetsNew(positions, src, perStripe) ==
    LET known   == {e \in positions : e.url \in Range(src)}
        fitting == {e \in known : Fits(e, perStripe)}
    IN  UNION {Placings(Restored(E, src, perStripe), UrlsOf(known \ fitting) \ UrlsOf(E), src) :
                 E \in Claims(fitting, perStripe)}

\* Every p2s that applyPositions may produce from the saved positions.
Applied(positions, src, perStripe) ==
    LET known   == {e \in positions : e.url \in Range(src)}
        fitting == {e \in known : Fits(e, perStripe)}
        After(E) ==
            LET late == UrlsOf(known \ fitting) \ UrlsOf(E)
                new  == Range(src) \ (late \cup UrlsOf(E))
            IN  UNION {Placings(f, new, src) :
                         f \in Placings(Restored(E, src, perStripe), late, src)}
    IN  UNION {After(E) : E \in Claims(fitting, perStripe)}
=============================================================================
