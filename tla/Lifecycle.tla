------------------------------ MODULE Lifecycle ------------------------------
(* What the dream cycle promises about a learning (AD-15, dream.go:119-123):  *)
(* it is observed, then decided once, in one step that changes the database   *)
(* and the curated tree together. Re-observing it changes neither. Of a key    *)
(* the model decides unasked nothing more is promised.                        *)
EXTENDS Naturals

CONSTANT Key

VARIABLES fate,   \* what the database says of each learning
          copies  \* how often its fact stands in the tree

vars == <<fate, copies>>

Init == /\ fate = [k \in Key |-> "absent"]
        /\ copies = [k \in Key |-> 0]

Observe(k) == /\ fate[k] = "absent"
              /\ fate' = [fate EXCEPT ![k] = "pending"]
              /\ UNCHANGED copies

Promote(k) == /\ fate[k] = "pending"
              /\ fate' = [fate EXCEPT ![k] = "promoted"]
              /\ copies' = [copies EXCEPT ![k] = 1]

Prune(k) == /\ fate[k] = "pending"
            /\ fate' = [fate EXCEPT ![k] = "pruned"]
            /\ UNCHANGED copies

\* A proposal names several keys unasked in one step.
Astray == \E K \in SUBSET Key :
            /\ fate' = [k \in Key |-> IF k \in K THEN "astray" ELSE fate[k]]
            /\ copies' = [k \in Key |-> IF k \in K THEN 0 ELSE copies[k]]

Next == \/ Astray
        \/ \E k \in Key : Observe(k) \/ Promote(k) \/ Prune(k)

Spec == Init /\ [][Next]_vars
==============================================================================
