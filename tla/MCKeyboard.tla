----------------------------- MODULE MCKeyboard -----------------------------
(***************************************************************************)
(* Two applications, the desktop and a panel, two virtual desktops; up to  *)
(* five layouts, up to three of them spare; in one configuration a layout  *)
(* stands twice.                                                           *)
(***************************************************************************)
EXTENDS Keyboard

MCWindows == {"editor", "mail", "wallpaper", "panel"}
MCKind == [w \in MCWindows |->
              IF w \in {"editor", "mail"} THEN "normal"
              ELSE IF w = "wallpaper" THEN "desktop" ELSE "panel"]
MCClass == [editor |-> "Kate", mail |-> "KMail", wallpaper |-> "plasma", panel |-> "plasma"]
MCDesktops == {"1", "2"}

Config(policy, layouts, loop) == [policy |-> policy, layouts |-> layouts, loop |-> loop]

Global == Config("Global", <<"us", "de", "ua", "fr", "gr">>, 3)
Twice == Config("Global", <<"us", "de", "fr", "de", "gr">>, 2)
PerWindow == Config("Window", <<"us", "de", "ua">>, 2)
PerApplication == Config("WinClass", <<"us", "de">>, NoLooping)
OneLayout == Config("WinClass", <<"us">>, NoLooping)
PerDesktop == Config("Desktop", <<"us", "de", "ua">>, 2)

MCConfigs == {Global, Twice, PerWindow, PerApplication, OneLayout, PerDesktop}

\* The policy is changed, and a layout is removed.
MCChanges == {<<Global, PerWindow>>, <<PerApplication, OneLayout>>}

MCForeign == {<<"jp">>}
=============================================================================
