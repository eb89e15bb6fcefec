--------------------------- MODULE MCScreenMapper ---------------------------
(***************************************************************************)
(* Two screens, one file and its desktop folder: every order of screen     *)
(* changes, drops, deletions, saves, crashes and restarts.  Files do not   *)
(* interact in the mapper except through the saved lists, where Junk is    *)
(* the second url; several folders and files are MCDesktopViews' matter.   *)
(***************************************************************************)
EXTENDS ScreenMapper, TLC

CONSTANTS FileA, Desktop

MCScreens == {0, 1}
MCUrls == {FileA, Junk}
MCPaths == {Desktop, NoPath}
MCBelow == (Desktop :> {FileA}) @@ (NoPath :> MCUrls)

=============================================================================
