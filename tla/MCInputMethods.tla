--------------------------- MODULE MCInputMethods ---------------------------
(***************************************************************************)
(* Two engines, two contexts, and room to remember one of them.            *)
(***************************************************************************)
EXTENDS InputMethods

CONSTANTS Pinyin, Anthy

MCPreloads == {<<Pinyin, Anthy>>, <<Anthy>>}
=============================================================================
