--------------------------- MODULE MCPointerInput ---------------------------
(***************************************************************************)
(* An instance of PointerInput for TLC: two buttons, one key, one advance  *)
(* of the generation before it is exhausted.                               *)
(***************************************************************************)
EXTENDS PointerInput

CONSTANTS left, middle, shift

MCButtons == {left, middle}
MCKeys == {shift}

=============================================================================
