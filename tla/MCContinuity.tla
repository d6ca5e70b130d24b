----------------------------- MODULE MCContinuity -----------------------------
(* A range of five moods, two interactions and two starts of the process: the *)
(* mood saturates, the two checkpoints overlap, and a restart restores one.   *)
EXTENDS Continuity

MCMoodMin == -2
MCStep == -1
==============================================================================
