------------------------------- MODULE MCDream -------------------------------
(* Two keyed learnings and one unkeyed row in a window of two rows, so that   *)
(* the rows can crowd it; two kills, so that one may follow a torn promotion; *)
(* a key no row has, and one proposal that names it, a key twice, or one that *)
(* was not offered.                                                           *)
EXTENDS Dream
==============================================================================
