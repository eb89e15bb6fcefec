---------------------------- MODULE MCPositioner ----------------------------
(***************************************************************************)
(* Instances of Positioner.  The width is 0 until the view has its size;   *)
(* width 2 makes the second icon end a stripe and the third one start the  *)
(* next; a grid of width 1 is the one that cuts places off when the view   *)
(* is made narrower.                                                       *)
(***************************************************************************)
EXTENDS Positioner, TLC

CONSTANTS A, B, C

MCTwo == {A, B}
MCThree == {A, B, C}
MCWidths == {0, 2}
MCResized == {0, 1, 2}
MCTwoSymmetry == Permutations(MCTwo)
MCSymmetry == Permutations(MCThree)
=============================================================================
