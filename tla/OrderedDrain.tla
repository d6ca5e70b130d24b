----------------------------- MODULE OrderedDrain -----------------------------
(* What the supervisor root promises of the edges it runs (AD-5): an edge that *)
(* fails comes back, and on shutdown the edges are told to leave one by one,   *)
(* the last started first; whoever was told, or failed by then, is not seen    *)
(* again. How long the root waits for each is left open.                       *)
EXTENDS Naturals

CONSTANT N          \* the edges, 1..N in start order

VARIABLE status     \* up, down (failed), leaving (told to) or gone

Edges == 1..N

Init == status = [e \in Edges |-> "up"]

Move(e, from, to) == status[e] = from /\ status' = [status EXCEPT ![e] = to]

\* No edge started after e is left in service.
LaterTold(e) == \A f \in Edges : f > e => status[f] \in {"leaving", "gone"}

Fail(e) == Move(e, "up", "down")
Restart(e) == Move(e, "down", "up")
Tell(e) == LaterTold(e) /\ (Move(e, "up", "leaving") \/ Move(e, "down", "gone"))
Leave(e) == Move(e, "leaving", "gone")

Next == \E e \in Edges : Fail(e) \/ Restart(e) \/ Tell(e) \/ Leave(e)

Spec == Init /\ [][Next]_status
==============================================================================
