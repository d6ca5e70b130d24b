-------------------------------- MODULE Privsep --------------------------------
(* worker/privsep: the worker behind the process wall. A turn takes the mutex, *)
(* starts the child if there is none, writes a job frame, spawns a goroutine   *)
(* that reads the result frame, and waits for it or for its context; after any *)
(* error or cancellation the child is killed and its connection dropped, and   *)
(* the next turn starts another. A frame is two reads, prefix and body. The    *)
(* reading goroutine looks up Worker.conn itself, when it gets to run.         *)
EXTENDS Naturals, Sequences

CONSTANTS
  Turn,       \* the calls of AssembleAndPropose
  MaxConns,   \* bound on the children started
  None,       \* no turn
  Closer      \* main, in its deferred Close

ASSUME PrivsepAssumption ==
  /\ MaxConns \in Nat \ {0}
  /\ None \notin Turn /\ Closer \notin Turn /\ None # Closer

Conn == 1..MaxConns
Frame == [of : Turn, kind : {"result", "error"}]   \* the worker's result or its error
Part == [part : {"prefix", "body"}, frame : Frame]
Failure(k) == [of |-> None, kind |-> k]
Outcome == Frame \cup {Failure(k) : k \in {"none", "start", "wire", "cancelled"}}

VARIABLES
  mu,        \* who holds the mutex
  pc,        \* each turn: new, locked, await, done
  expired,   \* turns whose context is done
  conn,      \* Worker.conn and cmd: the running child, 0 if none
  made,      \* children started
  closed,    \* connections whose parent end is closed
  child,     \* each child: none, idle, busy, dead
  job,       \* the turn each child works on
  toChild, toParent,  \* the two directions of each socket
  reader,    \* each turn's reading goroutine: where it is, on which connection
  got,       \* what it left in the turn's done channel
  outcome,   \* what the turn returned
  closing,   \* Close: no, waiting, done
  panicked   \* a goroutine dereferenced a nil connection

wire == <<child, job, toChild, toParent>>
readers == <<reader, got>>
vars == <<mu, pc, expired, conn, made, closed, wire, readers, outcome, closing, panicked>>

TypeOK ==
  /\ mu \in Turn \cup {None, Closer}
  /\ pc \in [Turn -> {"new", "locked", "await", "done"}]
  /\ expired \subseteq Turn
  /\ conn \in 0..made /\ made \in 0..MaxConns
  /\ closed \subseteq 1..made
  /\ conn \notin closed \/ closing = "waiting"
  /\ child \in [Conn -> {"none", "idle", "busy", "dead"}]
  /\ job \in [Conn -> Turn \cup {None}]
  /\ toChild \in [Conn -> Seq(Turn)]
  /\ toParent \in [Conn -> Seq(Part)]
  /\ reader \in [Turn -> [at : {"none", "spawned", "prefix", "body", "gone"},
                          on : 0..MaxConns]]
  /\ got \in [Turn -> Outcome] /\ outcome \in [Turn -> Outcome]
  /\ closing \in {"no", "waiting", "done"}
  /\ panicked \in BOOLEAN

Init ==
  /\ mu = None /\ pc = [t \in Turn |-> "new"] /\ expired = {}
  /\ conn = 0 /\ made = 0 /\ closed = {}
  /\ child = [c \in Conn |-> "none"] /\ job = [c \in Conn |-> None]
  /\ toChild = [c \in Conn |-> <<>>] /\ toParent = [c \in Conn |-> <<>>]
  /\ reader = [t \in Turn |-> [at |-> "none", on |-> 0]]
  /\ got = [t \in Turn |-> Failure("none")] /\ outcome = [t \in Turn |-> Failure("none")]
  /\ closing = "no" /\ panicked = FALSE

-----------------------------------------------------------------------------
(* The turn *)

At(t, l) == ~panicked /\ pc[t] = l
Reading(t) == ~panicked /\ reader[t].at \in {"prefix", "body"}
Alive(c) == child[c] \in {"idle", "busy"}

\* The turn returns o and gives the mutex back.
Return(t, o) ==
  /\ outcome' = [outcome EXCEPT ![t] = o]
  /\ pc' = [pc EXCEPT ![t] = "done"]
  /\ mu' = None

\* Mutant: the connection is kept for the next turn.
TeardownNothing == UNCHANGED <<conn, closed, child>>

\* Mutant: the child is forgotten, neither closed nor killed.
TeardownForgets == conn' = 0 /\ UNCHANGED <<closed, child>>

\* Mutant: the closed connection is kept.
TeardownKeepsConn ==
  /\ closed' = closed \cup {conn}
  /\ child' = [child EXCEPT ![conn] = "dead"]
  /\ UNCHANGED conn

\* teardownLocked: close the connection, kill the child and wait for it.
Teardown ==
  /\ closed' = closed \cup {conn}
  /\ child' = [child EXCEPT ![conn] = "dead"]
  /\ conn' = 0

\* The arbiter bounds every turn; the mutex does not know of the context.
Expire(t) ==
  /\ ~panicked /\ pc[t] # "done" /\ t \notin expired
  /\ expired' = expired \cup {t}
  /\ UNCHANGED <<mu, pc, conn, made, closed, wire, readers, outcome, closing, panicked>>

Lock(t) ==
  /\ At(t, "new") /\ mu = None
  /\ mu' = t
  /\ pc' = [pc EXCEPT ![t] = "locked"]
  /\ UNCHANGED <<expired, conn, made, closed, wire, readers, outcome, closing, panicked>>

\* ensureStartedLocked: a socket pair and a child, if there is none.
Start(t) ==
  /\ At(t, "locked") /\ conn = 0 /\ made < MaxConns
  /\ made' = made + 1 /\ conn' = made + 1
  /\ child' = [child EXCEPT ![made + 1] = "idle"]
  /\ UNCHANGED <<mu, pc, expired, closed, job, toChild, toParent, readers, outcome, closing, panicked>>

\* The child cannot be started.
StartFails(t) ==
  /\ At(t, "locked") /\ conn = 0
  /\ Return(t, Failure("start"))
  /\ UNCHANGED <<expired, conn, made, closed, wire, readers, closing, panicked>>

\* The job frame is written whole, and the reading goroutine spawned.
Send(t) ==
  /\ At(t, "locked") /\ conn # 0 /\ Alive(conn)
  /\ toChild' = [toChild EXCEPT ![conn] = Append(@, t)]
  /\ reader' = [reader EXCEPT ![t].at = "spawned"]
  /\ pc' = [pc EXCEPT ![t] = "await"]
  /\ UNCHANGED <<mu, expired, conn, made, closed, child, job, toParent, got, outcome, closing, panicked>>

\* The frame is too large, or the child is gone.
SendFails(t) ==
  /\ At(t, "locked") /\ conn # 0
  /\ Teardown /\ Return(t, Failure("wire"))
  /\ UNCHANGED <<expired, made, job, toChild, toParent, readers, closing, panicked>>

\* Mutant: the select has no case for the context.
TakeCancelNever(t) == FALSE /\ UNCHANGED vars

TakeCancel(t) ==
  /\ At(t, "await") /\ t \in expired
  /\ Teardown /\ Return(t, Failure("cancelled"))
  /\ UNCHANGED <<expired, made, job, toChild, toParent, readers, closing, panicked>>

\* A result, or the child's own error in the frame, leaves the child running.
TakeResult(t) ==
  /\ At(t, "await") /\ got[t] \in Frame
  /\ Return(t, got[t])
  /\ UNCHANGED <<expired, conn, made, closed, wire, readers, closing, panicked>>

TakeWireError(t) ==
  /\ At(t, "await") /\ got[t] = Failure("wire")
  /\ Teardown /\ Return(t, Failure("wire"))
  /\ UNCHANGED <<expired, made, job, toChild, toParent, readers, closing, panicked>>

-----------------------------------------------------------------------------
(* The reading goroutine *)

\* It loads w.conn now, without the mutex: nil once a teardown has run.
ReaderStarts(t) ==
  /\ ~panicked /\ reader[t].at = "spawned"
  /\ IF conn = 0
     THEN panicked' = TRUE /\ UNCHANGED reader
     ELSE /\ reader' = [reader EXCEPT ![t] = [at |-> "prefix", on |-> conn]]
          /\ UNCHANGED panicked
  /\ UNCHANGED <<mu, pc, expired, conn, made, closed, wire, got, outcome, closing>>

\* The goroutine leaves o in the buffered channel and ends.
Leaves(t, o) ==
  /\ reader' = [reader EXCEPT ![t].at = "gone"]
  /\ got' = [got EXCEPT ![t] = o]

\* decodeFrame reads what it is at; another goroutine may have read the rest.
ReadPart(t) ==
  LET c == reader[t].on
      p == Head(toParent[c])
  IN /\ Reading(t)
     /\ c \notin closed /\ toParent[c] # <<>>
     /\ toParent' = [toParent EXCEPT ![c] = Tail(@)]
     /\ IF p.part # reader[t].at THEN Leaves(t, Failure("wire"))
        ELSE IF p.part = "prefix"
        THEN reader' = [reader EXCEPT ![t].at = "body"] /\ UNCHANGED got
        ELSE Leaves(t, p.frame)
     /\ UNCHANGED <<mu, pc, expired, conn, made, closed, child, job, toChild, outcome, closing, panicked>>

\* The connection was closed here, or the child is gone and nothing is left.
ReadFails(t) ==
  LET c == reader[t].on
  IN /\ Reading(t)
     /\ c \in closed \/ (child[c] = "dead" /\ toParent[c] = <<>>)
     /\ Leaves(t, Failure("wire"))
     /\ UNCHANGED <<mu, pc, expired, conn, made, closed, wire, outcome, closing, panicked>>

-----------------------------------------------------------------------------
(* The child *)

ChildReceives(c) ==
  /\ child[c] = "idle" /\ toChild[c] # <<>>
  /\ child' = [child EXCEPT ![c] = "busy"]
  /\ job' = [job EXCEPT ![c] = Head(toChild[c])]
  /\ toChild' = [toChild EXCEPT ![c] = Tail(@)]
  /\ UNCHANGED <<mu, pc, expired, conn, made, closed, toParent, readers, outcome, closing, panicked>>

\* The result frame; an inner error travels in it as a string.
ChildReplies(c) ==
  /\ child[c] = "busy" /\ c \notin closed
  /\ \E f \in Frame :
       /\ f.of = job[c]
       /\ toParent' = [toParent EXCEPT ![c] = @ \o
            <<[part |-> "prefix", frame |-> f], [part |-> "body", frame |-> f]>>]
  /\ child' = [child EXCEPT ![c] = "idle"]
  /\ UNCHANGED <<mu, pc, expired, conn, made, closed, job, toChild, readers, outcome, closing, panicked>>

\* It ends on EOF, on a failed write, on a panic or a kill.
ChildEnds(c) ==
  /\ Alive(c)
  /\ child' = [child EXCEPT ![c] = "dead"]
  /\ UNCHANGED <<mu, pc, expired, conn, made, closed, job, toChild, toParent, readers, outcome, closing, panicked>>

-----------------------------------------------------------------------------
(* Close *)

\* Once, at the end of main: close the connection and wait for the child.
CloseBegins ==
  /\ ~panicked /\ closing = "no" /\ mu = None
  /\ IF conn = 0
     THEN closing' = "done" /\ UNCHANGED <<mu, closed>>
     ELSE /\ closing' = "waiting" /\ mu' = Closer
          /\ closed' = closed \cup {conn}
  /\ UNCHANGED <<pc, expired, conn, made, wire, readers, outcome, panicked>>

\* The child has ended, or the grace is over and it is killed.
CloseEnds ==
  /\ ~panicked /\ closing = "waiting"
  /\ closing' = "done" /\ mu' = None
  /\ child' = [child EXCEPT ![conn] = "dead"]
  /\ conn' = 0
  /\ UNCHANGED <<pc, expired, made, closed, job, toChild, toParent, readers, outcome, panicked>>

-----------------------------------------------------------------------------
TurnStep(t) == \/ Lock(t) \/ Start(t) \/ StartFails(t) \/ Send(t) \/ SendFails(t)
               \/ TakeCancel(t) \/ TakeResult(t) \/ TakeWireError(t)
ReaderStep(t) == ReaderStarts(t) \/ ReadPart(t) \/ ReadFails(t)
ChildStep(c) == ChildReceives(c) \/ ChildReplies(c) \/ ChildEnds(c)

\* A panic in the reading goroutine is recovered by nobody: the process ends.
Next == \/ \E t \in Turn : Expire(t) \/ TurnStep(t) \/ ReaderStep(t)
        \/ \E c \in Conn : ChildStep(c)
        \/ CloseBegins \/ CloseEnds

\* Goroutines run, contexts expire, Close's grace ends. The mutex of Go hands
\* itself to a waiter that has waited long enough; a child may hang for ever.
Fairness == /\ \A t \in Turn : SF_vars(Lock(t)) /\ WF_vars(TurnStep(t)) /\ WF_vars(Expire(t))
            /\ WF_vars(CloseEnds)

Spec == Init /\ [][Next]_vars /\ Fairness

-----------------------------------------------------------------------------
(* Properties *)

\* No turn ever gets the result, or the error, of another turn, although turns
\* are cancelled mid-frame, the stream is recycled from turn to turn, and a
\* late goroutine may read a connection it was not spawned for.
OwnResult ==
  \A t \in Turn : outcome[t] \in Frame => outcome[t].of = t

\* A torn-down child is never spoken to again: whatever the parent can still
\* write to or read a result from belongs to the one child that runs.
OneLiveChild ==
  \A c \in Conn : (Alive(c) /\ c \notin closed) => c = conn

\* Every turn returns, though the mutex knows nothing of its context and the
\* child of the turn before it may hang: that turn's own context ends it.
TurnReturns == \A t \in Turn : (pc[t] # "done") ~> (pc[t] = "done" \/ panicked)

\* AD-5: no failure of a worker turn takes the process down. False: the late
\* goroutine may load a nil connection, and nobody recovers it.
NeverPanics == ~panicked
==============================================================================
