--------------------------- MODULE SupervisorProofs ---------------------------
(* Proofs about the supervisor root: for any number of edges, failures and     *)
(* hung edges, its drain is the one OrderedDrain promises.                     *)
EXTENDS Supervisor, TLAPS

\* Where the root stands says who has been told to leave.
ToldFrom ==
  \A e \in Edges :
    e \in told <=> \/ root = "remove" /\ e > i
                   \/ root = "wait" /\ e >= i
                   \/ root \in {"cancel", "returned"}

\* An edge is in suture's table until it is told, and only one in the table
\* waits to be started again.
Table ==
  \A e \in Edges : /\ e \in registered <=> e \notin told
                   /\ service[e] = "down" => e \in registered

\* Of those told, all but the one being waited for are gone or late.
Settled == \A e \in told : service[e] = "gone" \/ e \in late \/ (root = "wait" /\ e = i)

Inv == TypeOK /\ ToldFrom /\ Table /\ Settled

-----------------------------------------------------------------------------
(* The invariant *)

\* The start satisfies the invariant.
LEMMA InvInit == Init => Inv
<1> SUFFICES ASSUME Init PROVE Inv
  OBVIOUS
<1>1. TypeOK
  <2>1. service \in [Edges -> {"up", "down", "gone"}]
    BY DEF Init
  <2>2. i \in 0..N /\ fails \in 0..MaxFails
    BY SupervisorAssumption DEF Init
  <2> QED BY <2>1, <2>2 DEF Init, TypeOK
<1>2. ToldFrom /\ Table /\ Settled
  BY DEF Init, ToldFrom, Table, Settled
<1> QED BY <1>1, <1>2 DEF Inv

\* Steps of an edge, or of suture on its behalf, keep it.
LEMMA InvEdge == \A e \in Edges : Inv /\ EdgeStep(e) => Inv'
<1> SUFFICES ASSUME NEW e \in Edges, Inv, EdgeStep(e) PROVE Inv'
  OBVIOUS
<1> USE SupervisorAssumption DEF Inv, TypeOK, ToldFrom, Table, Settled, Edges, rootVars
<1>1. CASE Panics(e)
  BY <1>1 DEF Panics
<1>2. CASE Restart(e)
  BY <1>2 DEF Restart
<1>3. CASE Hangs(e)
  BY <1>3 DEF Hangs
<1>4. CASE Stops(e)
  BY <1>4 DEF Stops
<1> QED BY <1>1, <1>2, <1>3, <1>4 DEF EdgeStep

\* Steps of Root.Serve keep it.
LEMMA InvRoot == Inv /\ RootStep => Inv'
<1> SUFFICES ASSUME Inv, RootStep PROVE Inv'
  OBVIOUS
<1> USE SupervisorAssumption DEF Inv, TypeOK, ToldFrom, Table, Settled, Edges, edgeVars
<1>1. CASE BeginDrain
  BY <1>1 DEF BeginDrain
<1>2. CASE Remove
  BY <1>2 DEF Remove
<1>3. CASE Waited
  BY <1>3 DEF Waited
<1>4. CASE TimesOut
  BY <1>4 DEF TimesOut
<1>5. CASE Cancel
  BY <1>5 DEF Cancel
<1>6. CASE Return
  BY <1>6 DEF Return
<1> QED BY <1>1, <1>2, <1>3, <1>4, <1>5, <1>6 DEF RootStep

\* Every step keeps it.
LEMMA InvStep == Inv /\ [Next]_vars => Inv'
<1> SUFFICES ASSUME Inv, [Next]_vars PROVE Inv'
  OBVIOUS
<1>1. CASE Signal
  BY <1>1 DEF Signal, edgeVars, Inv, TypeOK, ToldFrom, Table, Settled, Edges
<1>2. CASE RootStep
  BY <1>2, InvRoot
<1>3. CASE \E e \in Edges : EdgeStep(e)
  BY <1>3, InvEdge
<1>4. CASE UNCHANGED vars
  BY <1>4 DEF vars, edgeVars, rootVars, Inv, TypeOK, ToldFrom, Table, Settled, Edges
<1> QED BY <1>1, <1>2, <1>3, <1>4 DEF Next

LEMMA Invariant == Spec => []Inv
  BY InvInit, InvStep, PTL DEF Spec

\* The supervisor's state stays well typed: the drain loop never indexes an
\* edge that does not exist.
THEOREM SupervisorTypes == Spec => []TypeOK
  BY Invariant, PTL DEF Inv

\* An edge loses its context only when all started after it are gone or late.
THEOREM LaterStopped == Spec => []LaterStoppedFirst
<1>1. Inv => LaterStoppedFirst
  BY SupervisorAssumption DEF Inv, TypeOK, ToldFrom, Settled, LaterStoppedFirst, Edges
<1> QED BY <1>1, Invariant, PTL

-----------------------------------------------------------------------------
(* Refinement *)

\* The status OrderedDrain sees of edge e.
Seen(e) == IF service[e] = "gone" THEN "gone"
           ELSE IF e \in told THEN "leaving" ELSE service[e]
status == [e \in Edges |-> Seen(e)]

\* Changing what is seen of one edge is a Move of OrderedDrain.
LEMMA OneMove ==
  ASSUME NEW e \in Edges,
         \A f \in Edges \ {e} : Seen(f)' = Seen(f)
  PROVE  status' = [status EXCEPT ![e] = Seen(e)']
  BY DEF status, Edges

LEMMA NoMove ==
  ASSUME \A f \in Edges : Seen(f)' = Seen(f)
  PROVE  status' = status
  BY DEF status

\* What an edge or suture does is a step of the abstract drain.
LEMMA EdgeRefines ==
  \A e \in Edges : Inv /\ EdgeStep(e) => [Drained!Next]_status
<1> SUFFICES ASSUME NEW e \in Edges, Inv, EdgeStep(e) PROVE [Drained!Next]_status
  OBVIOUS
<1> USE DEF Inv, TypeOK, Table, Seen, rootVars
<1>0. \A f \in Edges \ {e} : Seen(f)' = Seen(f)
  BY DEF EdgeStep, Panics, Restart, Hangs, Stops
<1>1. status' = [status EXCEPT ![e] = Seen(e)'] /\ status[e] = Seen(e)
  BY <1>0, OneMove DEF status
<1>2. Seen(e)' # Seen(e) =>
        \/ Seen(e) = "up" /\ Seen(e)' = "down"
        \/ Seen(e) = "down" /\ Seen(e)' = "up"
        \/ Seen(e) = "leaving" /\ Seen(e)' = "gone"
  BY DEF EdgeStep, Panics, Restart, Hangs, Stops
<1>3. CASE Seen(e)' = Seen(e)
  BY <1>0, <1>3, NoMove
<1>4. CASE Seen(e)' # Seen(e)
  BY <1>1, <1>2, <1>4 DEF Drained!Next, Drained!Fail, Drained!Restart, Drained!Leave,
     Drained!Move, Drained!Edges, Edges, status
<1> QED BY <1>3, <1>4

\* Telling edge i to leave is the Tell of the abstract drain: the invariant
\* says that all after i were told before.
LEMMA RemoveRefines == Inv /\ Remove => [Drained!Next]_status
<1> SUFFICES ASSUME Inv, Remove PROVE [Drained!Next]_status
  OBVIOUS
<1> PICK k \in Edges : k = i
  BY SupervisorAssumption DEF Inv, TypeOK, Remove, Edges
<1>0. k \notin told
  BY SupervisorAssumption DEF Inv, TypeOK, ToldFrom, Remove, Edges
<1>1. \A f \in Edges \ {k} : Seen(f)' = Seen(f)
  BY DEF Inv, TypeOK, Remove, Seen
<1>2. status' = [status EXCEPT ![k] = Seen(k)'] /\ \A f \in Edges : status[f] = Seen(f)
  BY <1>1, OneMove DEF status
<1>3. \A f \in Edges : f > k => Seen(f) \in {"leaving", "gone"}
  BY DEF Inv, ToldFrom, Remove, Seen
<1>4. \/ Seen(k) = "up" /\ Seen(k)' = "leaving"
      \/ Seen(k) = "down" /\ Seen(k)' = "gone"
      \/ Seen(k) = "gone" /\ Seen(k)' = "gone"
  BY <1>0 DEF Inv, TypeOK, Remove, Seen
<1>5. CASE Seen(k) = "gone"
  BY <1>1, <1>4, <1>5, NoMove
<1>6. CASE Seen(k) # "gone"
  <2>1. Drained!LaterTold(k)
    BY <1>2, <1>3 DEF Drained!LaterTold, Drained!Edges, Edges, status, Seen
  <2>2. \/ status[k] = "up" /\ status' = [status EXCEPT ![k] = "leaving"]
        \/ status[k] = "down" /\ status' = [status EXCEPT ![k] = "gone"]
    BY <1>2, <1>4, <1>6
  <2>3. Drained!Tell(k)
    BY <2>1, <2>2 DEF Drained!Tell, Drained!Move, status, Seen
  <2> QED BY <2>3 DEF Drained!Next, Drained!Edges, Edges
<1> QED BY <1>5, <1>6

\* The supervisor implements the abstract drain, for any number of edges.
THEOREM SupervisorDrains == Spec => ImplementsDrain
<1>1. Init => Drained!Init
  BY DEF Init, Drained!Init, Drained!Edges, Edges
<1>2. Inv /\ [Next]_vars => [Drained!Next]_status
  <2> SUFFICES ASSUME Inv, [Next]_vars PROVE [Drained!Next]_status
    OBVIOUS
  <2>1. CASE \E e \in Edges : EdgeStep(e)
    BY <2>1, EdgeRefines
  <2>2. CASE Remove
    BY <2>2, RemoveRefines
  <2>3. CASE Signal \/ BeginDrain \/ Waited \/ TimesOut \/ Cancel \/ Return \/ UNCHANGED vars
    BY <2>3 DEF Signal, BeginDrain, Waited, TimesOut, Cancel, Return, vars, edgeVars, status, Seen
  <2> QED BY <2>1, <2>2, <2>3 DEF Next, RootStep
<1> QED BY <1>1, <1>2, Invariant, PTL DEF Spec, ImplementsDrain, Drained!Spec, status, Seen
==============================================================================
