------------------------------- MODULE MCPrivsep -------------------------------
(* Two turns, so that one runs after a cancelled one, and as many children.   *)
EXTENDS Privsep
==============================================================================
