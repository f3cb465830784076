------------------------------ MODULE MCBuddy ------------------------------
(* Buddy for TLC: two maximal blocks of four pages. *)
EXTENDS Buddy

\* Ranges inside a block, across the boundary of two blocks and of a whole
\* aligned block; some touch at an end.
MCRegions == {<<1, 1>>, <<1, 4>>, <<4, 5>>, <<4, 7>>, <<2, 6>>}
=============================================================================
