----------------------------- MODULE MCArbiter -----------------------------
(* Three turns: one abandoned, one admitted after it, one that is refused or *)
(* races the release.                                                        *)
EXTENDS Arbiter
=============================================================================
