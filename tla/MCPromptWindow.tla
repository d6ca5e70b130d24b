---------------------------- MODULE MCPromptWindow ----------------------------
(* Three turns in two conversations and a window that holds a turn and a half, *)
(* so that older lines are displaced and the limit cuts a turn in two, over a  *)
(* clock of three ticks that may give several rows one stamp.                  *)
EXTENDS PromptWindow
CONSTANTS c1, c2
==============================================================================
