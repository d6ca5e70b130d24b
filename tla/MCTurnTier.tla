------------------------------ MODULE MCTurnTier ------------------------------
(* The ping and the dream over two days of three ticks. The ping may fire     *)
(* twice a day and the dream once.                                            *)
EXTENDS TurnTier, TLC

CONSTANTS ping, dream, b1, b2

MCDayOf == [t \in 0..MaxTime |-> 1 + t \div 3]
MCCooldown == (ping :> 2) @@ (dream :> 2)
MCOwnBudgets == (ping :> b1) @@ (dream :> b2)
MCPerDay == (b1 :> 2) @@ (b2 :> 1)
===============================================================================
