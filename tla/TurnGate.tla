------------------------------ MODULE TurnGate ------------------------------
(* What the arbiter promises its callers (AD-8), with no token, goroutine,  *)
(* timer or channel: a gate that at most one turn is inside of at a time.   *)
(* A turn is turned away only while another one is inside, and a turn that  *)
(* got in gets out again, whatever the worker does.                         *)
EXTENDS FiniteSets

CONSTANT Turn          \* the turns callers submit

VARIABLES waiting,     \* turns nobody submitted yet
          inside,      \* the turns inside the gate
          left,        \* turns that were inside and are closed
          turnedAway   \* turns rejected at the gate

vars == <<waiting, inside, left, turnedAway>>

TypeOK == /\ waiting \subseteq Turn
          /\ inside \subseteq Turn
          /\ left \subseteq Turn
          /\ turnedAway \subseteq Turn

Init == /\ waiting = Turn
        /\ inside = {}
        /\ left = {}
        /\ turnedAway = {}

Enter(t) == /\ t \in waiting
            /\ inside = {}
            /\ inside' = {t}
            /\ waiting' = waiting \ {t}
            /\ UNCHANGED <<left, turnedAway>>

TurnAway(t) == /\ t \in waiting
               /\ inside # {}
               /\ turnedAway' = turnedAway \cup {t}
               /\ waiting' = waiting \ {t}
               /\ UNCHANGED <<inside, left>>

Leave(t) == /\ t \in inside
            /\ inside' = inside \ {t}
            /\ left' = left \cup {t}
            /\ UNCHANGED <<waiting, turnedAway>>

Next == \E t \in Turn : Enter(t) \/ TurnAway(t) \/ Leave(t)

Spec == /\ Init
        /\ [][Next]_vars
        /\ \A t \in Turn : WF_vars(Leave(t))
=============================================================================
