------------------------------ MODULE Supervisor ------------------------------
(* core/supervisor: the root over the supervised edges. Guard turns the panic  *)
(* of an edge into an error, on which the suture library starts the edge       *)
(* again. Root.Serve waits for the shutdown signal, then removes the edges in  *)
(* reverse start order, waiting for each until it has returned or five seconds *)
(* are over, and only then ends suture itself.                                 *)
EXTENDS Naturals

CONSTANTS
  N,          \* the edges, 1..N in the order of Add
  MaxFails,   \* bound on the failures of edges
  MayHang     \* may an edge ignore the cancellation of its context?

ASSUME SupervisorAssumption ==
  N \in Nat /\ MaxFails \in Nat /\ MayHang \in BOOLEAN

Edges == 1..N

VARIABLES
  service,     \* each edge's Serve: up, down (returned an error) or gone
  registered,  \* edges suture has in its table
  told,        \* edges whose context is cancelled
  late,        \* edges that outlived drainTimeout
  hung,        \* edges that will not return
  root,        \* Root.Serve: select, remove, wait, cancel or returned
  i,           \* the index of the drain loop
  signalled,   \* ctx of Root.Serve is done
  fails        \* failures so far

edgeVars == <<service, registered, told, late, hung, fails>>
rootVars == <<root, i, signalled>>
vars == <<edgeVars, rootVars>>

TypeOK ==
  /\ service \in [Edges -> {"up", "down", "gone"}]
  /\ registered \subseteq Edges /\ told \subseteq Edges
  /\ late \subseteq told /\ hung \subseteq Edges
  /\ root \in {"select", "remove", "wait", "cancel", "returned"}
  /\ i \in 0..N
  /\ root = "wait" => i > 0
  /\ signalled \in BOOLEAN
  /\ fails \in 0..MaxFails

Init ==
  /\ service = [e \in Edges |-> "up"]
  /\ registered = Edges /\ told = {} /\ late = {} /\ hung = {} /\ fails = 0
  /\ root = "select" /\ i = 0 /\ signalled = FALSE

-----------------------------------------------------------------------------
(* The edges, and suture *)

\* Mutant: the panic reaches suture as an order not to restart.
PanicsForGood(e) ==
  /\ service[e] = "up" /\ fails < MaxFails
  /\ service' = [service EXCEPT ![e] = "gone"]
  /\ fails' = fails + 1
  /\ UNCHANGED <<registered, told, late, hung, rootVars>>

\* The edge panics, Guard recovers and returns an error; or Serve returns one.
Panics(e) ==
  /\ service[e] = "up" /\ fails < MaxFails
  /\ service' = [service EXCEPT ![e] = IF e \in registered THEN "down" ELSE "gone"]
  /\ fails' = fails + 1
  /\ UNCHANGED <<registered, told, late, hung, rootVars>>

\* suture starts a failed edge again, at once or after its backoff.
Restart(e) ==
  /\ service[e] = "down" /\ e \in registered
  /\ service' = [service EXCEPT ![e] = "up"]
  /\ UNCHANGED <<registered, told, late, hung, fails, rootVars>>

\* The edge is blocked where its context does not reach.
Hangs(e) ==
  /\ MayHang /\ service[e] = "up" /\ e \notin hung
  /\ hung' = hung \cup {e}
  /\ UNCHANGED <<service, registered, told, late, fails, rootVars>>

\* Serve returns because its context is done.
Stops(e) ==
  /\ service[e] = "up" /\ e \in told \ hung
  /\ service' = [service EXCEPT ![e] = "gone"]
  /\ UNCHANGED <<registered, told, late, hung, fails, rootVars>>

-----------------------------------------------------------------------------
(* Root.Serve *)

\* Mutant: suture runs under the external context, which ends every edge.
SignalReachesSuture ==
  /\ ~signalled
  /\ signalled' = TRUE
  /\ told' = Edges
  /\ UNCHANGED <<service, registered, late, hung, fails, root, i>>

\* SIGINT or SIGTERM. suture has a context of its own and does not see it.
Signal ==
  /\ ~signalled
  /\ signalled' = TRUE
  /\ UNCHANGED <<edgeVars, root, i>>

\* Serve's select. Its other branch, suture ending on its own, needs an edge that
\* returns suture.ErrTerminateSupervisorTree, which none of main's does.
BeginDrain ==
  /\ root = "select" /\ signalled
  /\ root' = "remove" /\ i' = N
  /\ UNCHANGED <<edgeVars, signalled>>

\* Mutant: Remove where RemoveAndWait is used.
RemoveOnly ==
  /\ root = "remove" /\ i > 0
  /\ registered' = registered \ {i}
  /\ told' = told \cup {i}
  /\ service' = [service EXCEPT ![i] = IF @ = "down" THEN "gone" ELSE @]
  /\ i' = i - 1
  /\ UNCHANGED <<late, hung, fails, root, signalled>>

\* RemoveAndWait: suture forgets the edge and cancels its context. One that is
\* waiting to be started again is gone at once.
Remove ==
  /\ root = "remove" /\ i > 0
  /\ registered' = registered \ {i}
  /\ told' = told \cup {i}
  /\ service' = [service EXCEPT ![i] = IF @ = "down" THEN "gone" ELSE @]
  /\ root' = "wait"
  /\ UNCHANGED <<late, hung, fails, i, signalled>>

\* The edge returned ...
Waited ==
  /\ root = "wait" /\ service[i] = "gone"
  /\ root' = "remove" /\ i' = i - 1
  /\ UNCHANGED <<edgeVars, signalled>>

\* Mutant: RemoveAndWait has no timeout.
NeverTimesOut == FALSE /\ UNCHANGED vars

\* ... or the five seconds are over; the error is ignored.
TimesOut ==
  /\ root = "wait" /\ service[i] # "gone"
  /\ late' = late \cup {i}
  /\ root' = "remove" /\ i' = i - 1
  /\ UNCHANGED <<service, registered, told, hung, fails, signalled>>

\* All removed: cancel supCtx ...
Cancel ==
  /\ root = "remove" /\ i = 0
  /\ root' = "cancel"
  /\ UNCHANGED <<edgeVars, i, signalled>>

\* ... and take suture's exit from errCh.
Return ==
  /\ root = "cancel"
  /\ root' = "returned"
  /\ UNCHANGED <<edgeVars, i, signalled>>

-----------------------------------------------------------------------------
RootStep == BeginDrain \/ Remove \/ Waited \/ TimesOut \/ Cancel \/ Return
EdgeStep(e) == Panics(e) \/ Restart(e) \/ Hangs(e) \/ Stops(e)

Next == Signal \/ RootStep \/ \E e \in Edges : EdgeStep(e)

\* suture restarts what failed, the root's goroutine runs and its timers fire.
\* No edge need fail, and a hung one need not return.
Fairness == /\ \A e \in Edges : WF_vars(Restart(e)) /\ WF_vars(Stops(e))
            /\ WF_vars(RootStep)

Spec == Init /\ [][Next]_vars /\ Fairness

-----------------------------------------------------------------------------
(* Properties *)

\* drainTimeout "bounds how long shutdown waits for a single stuck edge before
\* moving on" (supervisor.go:22-23): an edge loses its context only when every
\* edge started after it has returned or used up its time, whatever fails and
\* is restarted while the drain is on.
LaterStoppedFirst ==
  \A e \in told : \A f \in Edges : f > e => service[f] = "gone" \/ f \in late

\* AD-5 "the soul survives ANY single edge failure": an edge that is not in
\* service comes back, unless the shutdown asked for it.
SoulSurvives ==
  \A e \in Edges : (service[e] # "up") ~> (service[e] = "up" \/ e \in told)

\* The process ends after the signal although edges may hang for ever.
ShutdownEnds == signalled ~> (root = "returned")

\* The root drains as OrderedDrain promises: failures, restarts, removals and
\* timeouts never tell an edge to leave before a later one, nor bring back one
\* that left ("cancelling the external ctx must not let suture stop every edge
\* concurrently", supervisor.go:48-50).
Drained == INSTANCE OrderedDrain WITH
  status <- [e \in Edges |-> IF service[e] = "gone" THEN "gone"
                             ELSE IF e \in told THEN "leaving" ELSE service[e]]
ImplementsDrain == Drained!Spec
==============================================================================
