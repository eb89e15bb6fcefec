----------------------------- MODULE Positioner -----------------------------
(***************************************************************************)
(* The positioner: the model between a desktop's folder model and its grid *)
(* (containments/desktop/plugins/folder/positioner.cpp), the view's drag   *)
(* handler (FolderView.qml) and the configuration the layout is saved in.  *)
(*                                                                         *)
(* While the folder is being listed, saved positions are not applied and   *)
(* moves are kept for later; the positions are written by a 0 ms timer     *)
(* after a change.  The folder model's rows, its status and the width of   *)
(* the grid change at any time.  The positioner is enabled exactly while   *)
(* the folder model is unsorted.                                           *)
(***************************************************************************)
EXTENDS GridMaps

CONSTANTS
    Urls,       \* the files that may be in the folder
    Widths,     \* the values perStripe may take; 0 before the view has a size
    MaxCell,    \* bound: no drop beyond this cell
    MaxGrid,    \* bound: no new width that takes a saved icon beyond this cell
    MaxDrag,    \* bound: icons dragged at once
    OverEdge,   \* drags may push an icon over the end of its stripe
    MaxLate     \* icons dropped at once while the folder is being listed

ASSUME PositionerAssumption ==
    /\ Widths \subseteq Nat
    /\ MaxCell \in Nat /\ MaxGrid \in Nat /\ MaxDrag \in Nat /\ MaxLate \in Nat
    /\ OverEdge \in BOOLEAN

VARIABLES
    source,      \* the urls of the folder model's rows, in order
    listing,     \* the folder model's status is Listing
    enabled,     \* m_enabled
    perStripe,   \* m_perStripe
    p2s, s2p,    \* m_proxyToSource, m_sourceToProxy
    positions,   \* m_positions, which the view copies to the configuration
    deferApply,  \* m_deferApplyPositions
    deferMoves,  \* m_deferMovePositions: the last moves refused, or none
    timer        \* m_updatePositionsTimer is running

folder == <<source, listing>>
maps == <<p2s, s2p>>
vars == <<source, listing, enabled, perStripe, p2s, s2p, positions, deferApply,
          deferMoves, timer>>

NoMoves == [from |-> <<>>, to |-> <<>>]

Init ==
    /\ source = <<>> /\ listing = TRUE
    /\ enabled = TRUE /\ perStripe = 0
    /\ p2s = InitMap(0) /\ s2p = InitMap(0)
    /\ positions = {}
    /\ deferApply = FALSE /\ deferMoves = NoMoves
    /\ timer = FALSE

SetMaps(f) == p2s' = f /\ s2p' = AntiFunction(f)

-----------------------------------------------------------------------------
(***************************************************************************)
(* applyPositions, called with the folder model's status and the width it  *)
(* finds.  With nothing saved it resets the maps if it was waited for.     *)
(***************************************************************************)
ApplyPositions(saved, isListing, width) ==
    \/ /\ isListing
       /\ deferApply' = TRUE
       /\ positions' = saved
       /\ UNCHANGED <<maps, timer>>
    \/ /\ ~isListing /\ saved = {}
       /\ IF deferApply THEN SetMaps(InitMap(Len(source))) ELSE UNCHANGED maps
       /\ deferApply' = FALSE
       /\ positions' = saved
       /\ UNCHANGED timer
    \/ /\ ~isListing /\ saved # {}
       /\ \E f \in Applied(saved, source, width) : SetMaps(f)
       /\ deferApply' = FALSE
       /\ timer' = TRUE
       /\ positions' = saved

\* setPerStripe
SetPerStripe(n) ==
    /\ n # perStripe
    /\ \A e \in positions : CellOf(e, n) <= MaxGrid
    /\ perStripe' = n
    /\ IF enabled /\ n > 0 /\ DOMAIN p2s # {}
       THEN ApplyPositions(positions, listing, n)
       ELSE UNCHANGED <<maps, positions, deferApply, timer>>
    /\ UNCHANGED <<folder, enabled, deferMoves>>

\* updatePositions: nothing is saved of a grid without a width; a map that
\* knows rows the folder model has not is not saved either.
UpdatePositions ==
    /\ timer
    /\ timer' = FALSE
    /\ positions' =
         IF ~enabled \/ DOMAIN p2s = {} \/ perStripe = 0 THEN {}
         ELSE IF Range(p2s) \subseteq Rows(Len(source)) THEN Encoded(p2s, source, perStripe)
         ELSE positions
    /\ UNCHANGED <<folder, enabled, perStripe, maps, deferApply, deferMoves>>

-----------------------------------------------------------------------------
(***************************************************************************)
(* The folder model.                                                       *)
(***************************************************************************)
\* setSortMode of a sort order: the rows are laid out anew, which resets the
\* maps of an enabled positioner, and the positioner is disabled.  Bound: not
\* with moves kept for later; to a disabled positioner no row is blank, and the
\* search of a move that is replayed then need not end.
Sort ==
    /\ deferMoves = NoMoves
    /\ \E order \in Bijection(DOMAIN source, DOMAIN source) :
         source' = [i \in DOMAIN source |-> source[order[i]]]
    /\ IF enabled THEN SetMaps(InitMap(Len(source))) ELSE UNCHANGED maps
    /\ enabled' = FALSE
    /\ timer' = (timer \/ enabled)
    /\ UNCHANGED <<listing, perStripe, positions, deferApply, deferMoves>>

\* setSortMode(-1), by the user or by a drop
Unsort ==
    /\ ~enabled
    /\ enabled' = TRUE
    /\ SetMaps(InitMap(Len(source)))
    /\ UNCHANGED <<folder, perStripe, positions, deferApply, deferMoves, timer>>

\* reset: the grid is laid out in the other direction
Reset ==
    /\ enabled
    /\ SetMaps(InitMap(Len(source)))
    /\ positions' = {}
    /\ UNCHANGED <<folder, enabled, perStripe, deferApply, deferMoves, timer>>

\* setUrl: the rows are gone, and urlChanged is connected to reset, which
\* forgets the positions.
SetUrl ==
    /\ source' = <<>> /\ listing' = TRUE
    /\ SetMaps(InitMap(0))
    /\ positions' = {}
    /\ UNCHANGED <<enabled, perStripe, deferApply, deferMoves, timer>>

\* The folder is listed again.
ListingStarted ==
    /\ ~listing
    /\ listing' = TRUE
    /\ UNCHANGED <<source, enabled, perStripe, maps, positions, deferApply, deferMoves, timer>>

\* sourceStatusChanged: what had to wait is done, the positions first.
ListingCompleted ==
    /\ listing
    /\ listing' = FALSE
    /\ \E f \in (IF ~deferApply THEN {p2s}
                 ELSE IF positions = {} THEN {InitMap(Len(source))}
                 ELSE Applied(positions, source, perStripe)) :
         LET g  == IF deferApply THEN AntiFunction(f) ELSE s2p
             st == Moved(f, g, deferMoves.from, deferMoves.to, {})
         IN  p2s' = st.p2s /\ s2p' = st.s2p
    /\ timer' = (timer \/ (deferApply /\ positions # {}) \/ deferMoves # NoMoves)
    /\ deferApply' = FALSE
    /\ deferMoves' = NoMoves
    /\ UNCHANGED <<source, enabled, perStripe, positions>>

\* Mutant: the new layout is not going to be saved.
SourceInsertedUnsaved(start, new) ==
    /\ source' = SubSeq(source, 1, start) \o new \o SubSeq(source, start + 1, Len(source))
    /\ IF enabled /\ ~deferApply THEN SetMaps(Inserted(p2s, start, Len(new)))
                                 ELSE UNCHANGED maps
    /\ UNCHANGED <<listing, enabled, perStripe, positions, deferApply, deferMoves, timer>>

\* Rows of new files: any place, since what a filter or the mapper hid may
\* come back anywhere.  They are not mapped while positions wait.
SourceInserted(start, new) ==
    /\ source' = SubSeq(source, 1, start) \o new \o SubSeq(source, start + 1, Len(source))
    /\ IF enabled /\ ~deferApply THEN SetMaps(Inserted(p2s, start, Len(new)))
                                 ELSE UNCHANGED maps
    /\ timer' = (timer \/ ~deferApply)
    /\ UNCHANGED <<listing, enabled, perStripe, positions, deferApply, deferMoves>>

SourceRemoved(first, last) ==
    /\ source' = SubSeq(source, 1, first) \o SubSeq(source, last + 2, Len(source))
    /\ IF enabled
       THEN s2p' = Removed(s2p, first, last) /\ p2s' = AntiFunction(s2p')
       ELSE UNCHANGED maps
    /\ timer' = TRUE
    /\ UNCHANGED <<listing, enabled, perStripe, positions, deferApply, deferMoves>>

-----------------------------------------------------------------------------
(***************************************************************************)
(* Moves.                                                                  *)
(***************************************************************************)
\* move(): refused and remembered while the folder is being listed, where it
\* replaces what was remembered before.
Move(froms, tos, dragged) ==
    /\ IF listing
       THEN /\ deferMoves' = [from |-> froms, to |-> tos]
            /\ UNCHANGED <<maps, timer>>
       ELSE LET st == Moved(p2s, s2p, froms, tos, dragged)
            IN  /\ p2s' = st.p2s /\ s2p' = st.s2p
                /\ timer' = TRUE
                /\ UNCHANGED deferMoves
    /\ UNCHANGED <<folder, enabled, perStripe, positions, deferApply>>

\* onMove: the cell of the icon from cell c when the drag went dx places along
\* the stripe and dy stripes on; past the end of the stripe it is None.
Inside(c, dx) == (c % perStripe) + dx < perStripe
Target(c, dx, dy) ==
    IF Inside(c, dx) THEN ((c \div perStripe) + dy) * perStripe + (c % perStripe) + dx ELSE None

\* The dragged rows in ascending order, as the selection lists them.
Ascending(S) ==
    CHOOSE q \in [1..Cardinality(S) -> S] : \A i, j \in DOMAIN q : i < j => q[i] < q[j]

\* A drag within the view: every icon that changes its cell is in the moves,
\* and the whole drop is ignored if one would go before the first cell.
Drag(dragged, dx, dy) ==
    LET froms == [i \in 1..Cardinality(dragged) |-> s2p[Ascending(dragged)[i]]]
        tos   == [i \in DOMAIN froms |-> Target(froms[i], dx, dy)]
    IN  /\ enabled /\ perStripe > 0
        /\ <<dx, dy>> # <<0, 0>>
        /\ dragged # {} /\ dragged \subseteq DOMAIN s2p
        /\ Cardinality(dragged) <= (IF listing THEN MaxLate ELSE MaxDrag)
        /\ \A i \in DOMAIN froms :
             \/ Inside(froms[i], dx) /\ tos[i] \in 0..MaxCell
             \/ ~Inside(froms[i], dx) /\ (OverEdge \/ Cardinality(dragged) = 1)
        /\ Move(froms, tos, dragged)

\* A file dropped from elsewhere has got its row: it is moved to the drop.
DropAt(row, to) ==
    /\ enabled
    /\ listing => MaxLate > 0
    /\ row \in DOMAIN s2p /\ s2p[row] # to
    /\ Move(<<s2p[row]>>, <<to>>, {})

-----------------------------------------------------------------------------
\* The shell starts again: the view has no size yet, the folder is being
\* listed, and the saved positions wait for it.
Restart ==
    /\ source' = <<>> /\ listing' = TRUE
    /\ perStripe' = 0
    /\ SetMaps(InitMap(0))
    /\ deferApply' = (positions # {})
    /\ deferMoves' = NoMoves
    /\ timer' = FALSE
    /\ UNCHANGED <<enabled, positions>>

NewRows == {q \in UNION {[1..n -> Urls \ Range(source)] : n \in 1..2} : IsInjective(q)}

Next ==
    \/ \E n \in Widths : SetPerStripe(n)
    \/ UpdatePositions
    \/ Sort
    \/ Unsort
    \/ Reset
    \/ SetUrl
    \/ ListingStarted
    \/ ListingCompleted
    \/ \E start \in 0..Len(source), new \in NewRows : SourceInserted(start, new)
    \/ \E first, last \in Rows(Len(source)) : first <= last /\ SourceRemoved(first, last)
    \/ \E dragged \in SUBSET DOMAIN s2p, dx, dy \in -MaxCell..MaxCell : Drag(dragged, dx, dy)
    \/ \E row \in DOMAIN s2p, to \in 0..MaxCell \cup {None} : DropAt(row, to)
    \/ Restart

Spec == Init /\ [][Next]_vars

-----------------------------------------------------------------------------
Entries == [url : Urls, stripe : Nat, pos : Nat]

\* The maps are finite partial functions between cells and rows.
TypeOK ==
    /\ source \in Seq(Urls) /\ IsInjective(source)
    /\ listing \in BOOLEAN /\ enabled \in BOOLEAN
    /\ perStripe \in Widths \cup {0}
    /\ DOMAIN p2s \subseteq Nat /\ DOMAIN s2p \subseteq Nat
    /\ Range(p2s) \subseteq Nat /\ Range(s2p) \subseteq Nat
    /\ positions \subseteq Entries
    /\ deferApply \in BOOLEAN /\ timer \in BOOLEAN

\* The two maps are each other's inverse: no icon is shown twice, none is lost
\* on the way back from the grid, whatever moves followed each other.
MapsAgree ==
    /\ Range(p2s) = DOMAIN s2p
    /\ \A row \in DOMAIN s2p : s2p[row] \in DOMAIN p2s /\ p2s[s2p[row]] = row
    /\ \A c \in DOMAIN p2s : s2p[p2s[c]] = c

\* Every file of the folder has a cell, and every cell's row exists, unless the
\* positioner waits for the listing to apply the saved positions.
EveryFileHasAPlace ==
    enabled /\ ~deferApply => DOMAIN s2p = Rows(Len(source))

\* The cells that show url u.
CellsOf(u) == {c \in DOMAIN p2s : p2s[c] \in Rows(Len(source)) /\ source[p2s[c] + 1] = u}

\* Files that come or go leave the icons of the others where they are, although
\* every source row behind them is renumbered.
OthersStay ==
    [][enabled /\ enabled' /\ ~deferApply /\ source' # source =>
        \A u \in Range(source) \cap Range(source') : CellsOf(u)' = CellsOf(u)]_vars

\* With the timer idle the saved positions are the ones on the grid, if any are
\* saved: what a listing, a drop or a new width changed reached them.
SavedWhenIdle ==
    enabled /\ ~timer /\ ~deferApply /\ perStripe > 0 /\ DOMAIN p2s # {} /\ positions # {}
        => positions = Encoded(p2s, source, perStripe)

\* When the width of the grid changes, every saved icon whose place exists in
\* the new stripes keeps its stripe and place ("Restore positions for items that
\* still fit"); but an icon in the first place that is cut off is taken for one
\* that fits, and may claim another's cell.
CutOff(n) == \E e \in positions : e.pos = n

FittingIconsStay ==
    [][enabled /\ ~listing /\ perStripe' \notin {0, perStripe} /\ DOMAIN p2s # {}
        /\ ~CutOff(perStripe') =>
        \A e \in positions :
            e.url \in Range(source) /\ e.pos < perStripe'
                => CellsOf(e.url)' = {CellOf(e, perStripe')}]_vars

\* "Don't generate new positions data if we're waiting for listing to complete to
\* apply initial positions": no file of the folder loses its saved position while
\* the positions wait for the folder to be listed.
WaitingPositionsKept ==
    [][UpdatePositions /\ enabled /\ deferApply =>
        UrlsOf(positions) \cap Range(source) \subseteq UrlsOf(positions')]_vars

\* Applied to the same files at the same width, in whatever order the next
\* listing brings them, the saved positions give every file its cell again.
SavedLayoutRestores ==
    enabled /\ ~deferApply /\ perStripe > 0 /\ positions = Encoded(p2s, source, perStripe)
        => \A order \in Bijection(DOMAIN source, DOMAIN source) :
             LET src == [i \in DOMAIN source |-> source[order[i]]]
             IN  \A f \in Applied(positions, src, perStripe) :
                   /\ DOMAIN f = DOMAIN p2s
                   /\ \A c \in DOMAIN f : src[f[c] + 1] = source[p2s[c] + 1]
=============================================================================
