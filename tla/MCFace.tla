-------------------------------- MODULE MCFace --------------------------------
(* Four blinks over a channel of two frames: the pusher has to wait.         *)
EXTENDS Face
==============================================================================
