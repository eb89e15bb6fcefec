----------------------------- MODULE MCSession -----------------------------
(***************************************************************************)
(* The instance of the session: one key to type with, one modifier, one    *)
(* mouse, one service; two settings of the automounter; two engines.       *)
(***************************************************************************)
EXTENDS Session

CONSTANTS Letter, Modifier, Mouse, Shell, Pinyin, Anthy

MCLetters == {Letter}
MCModifiers == {Modifier}
MCMice == {Mouse}
MCServices == {Shell}

\* Everything on, no disabling while typing, none for mice, the mouse ignored.
AllOn == [typing |-> TRUE, mouse |-> TRUE, ignored |-> {}]
MCSettings ==
    {AllOn, [AllOn EXCEPT !.typing = FALSE], [AllOn EXCEPT !.mouse = FALSE],
     [AllOn EXCEPT !.ignored = {Mouse}]}

\* Known devices at login; everything else, when they come.
OnlyKnown == [enabled |-> TRUE, login |-> TRUE, attach |-> FALSE, unknown |-> FALSE]
NoMounting == [enabled |-> FALSE, login |-> FALSE, attach |-> TRUE, unknown |-> TRUE]
MCOptions == {OnlyKnown, NoMounting}

MCEngines == {Pinyin, Anthy}
MCPreloads == {<<Pinyin, Anthy>>, <<Anthy>>}
=============================================================================
