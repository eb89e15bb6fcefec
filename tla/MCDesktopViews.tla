--------------------------- MODULE MCDesktopViews ---------------------------
(***************************************************************************)
(* Two desktop views on two screens, two folders with one file each: every *)
(* order of opening, closing and switching views, of files coming, going   *)
(* and being dropped, and (Hotplug) of screens leaving and coming back.    *)
(***************************************************************************)
EXTENDS DesktopViews, TLC

CONSTANTS FileA, FileB, Desktop, Other, Left, Right

MCScreens == {0, 1}
MCViews == {Left, Right}
MCUrls == {FileA, FileB, Junk}
MCPaths == {Desktop, Other, NoPath}
MCBelow == (Desktop :> {FileA}) @@ (Other :> {FileB}) @@ (NoPath :> MCUrls)

\* With hotplug: the filter decides file by file, and one file is enough.
MCOneUrl == {FileA, Junk}
MCBelowOne == (Desktop :> {FileA}) @@ (Other :> {}) @@ (NoPath :> MCOneUrl)
MCFolderOfOne == (FileA :> Desktop)

MCScreenOf == (Left :> 0) @@ (Right :> 1)
MCFolderOf == (FileA :> Desktop) @@ (FileB :> Other)
=============================================================================
