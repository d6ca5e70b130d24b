------------------------------- MODULE Arbiter -------------------------------
(* core/arbiter: the gate every worker turn goes through. Submit try-acquires *)
(* a token of capacity one, runs the worker in a goroutine of its own under a *)
(* context with a deadline, and waits for the worker's result or the deadline,*)
(* whichever the select picks. A turn is one call of Submit. A turn that runs *)
(* into its deadline is abandoned: its goroutine goes on, its result is sent  *)
(* to a channel nobody reads.                                                 *)
EXTENDS Naturals, FiniteSets

CONSTANT Turn    \* the calls of Submit

VARIABLES
  token,     \* elements in the token channel (arbiter.go:40, capacity 1)
  stage,     \* where the caller's goroutine is in Submit, per turn
  worker,    \* the per-turn goroutine around AssembleAndPropose
  done,      \* contents of each turn's done channel (capacity 1)
  expired,   \* turns whose tctx is done
  verdict,   \* what the second select took
  outcome,   \* what Submit returned
  stopped    \* turns whose caller's context is cancelled (its edge is drained)

arbVars == <<token, stage, worker, done, expired, verdict, outcome, stopped>>

\* A message of a done channel is tagged with the turn whose worker sent it.
Nothing == [from |-> {}, kind |-> "none"]
Deadline == [from |-> {}, kind |-> "deadline"]

\* A worker goroutine that panics sends a synthetic error (arbiter.go:79-83).
WorkerKind == {"reply", "error"}
Message == {Nothing} \cup [from : SUBSET Turn, kind : WorkerKind]

Stage == {"new", "waiting", "closing", "closed", "returned", "refused"}
OutcomeKind == {"none", "reply", "error", "busy", "timeout", "cancelled"}

ArbTypeOK ==
  /\ token \in {0, 1}
  /\ stage \in [Turn -> Stage]
  /\ worker \in [Turn -> {"none", "running", "exited"}]
  /\ done \in [Turn -> Message]
  /\ expired \subseteq Turn
  /\ verdict \in [Turn -> Message \cup {Deadline}]
  /\ outcome \in [Turn -> OutcomeKind]
  /\ stopped \subseteq Turn

ArbInit ==
  /\ token = 0
  /\ stage = [t \in Turn |-> "new"]
  /\ worker = [t \in Turn |-> "none"]
  /\ done = [t \in Turn |-> Nothing]
  /\ expired = {}
  /\ verdict = [t \in Turn |-> Nothing]
  /\ outcome = [t \in Turn |-> "none"]
  /\ stopped = {}

\* Mutant: one done channel for the arbiter, read by whoever waits.
DoneChanShared(t) ==
  IF \E u \in Turn : stage[u] = "waiting"
  THEN CHOOSE u \in Turn : stage[u] = "waiting" ELSE t

\* The channel the goroutine of turn t sends to: made by this call of Submit.
DoneChan(t) == t

-----------------------------------------------------------------------------
(* Submit, the caller's side. *)

\* The token is free: take it, derive tctx, start the worker's goroutine.
Admit(t) ==
  /\ stage[t] = "new"
  /\ token = 0
  /\ token' = 1
  /\ stage' = [stage EXCEPT ![t] = "waiting"]
  /\ worker' = [worker EXCEPT ![t] = "running"]
  /\ UNCHANGED <<done, expired, verdict, outcome, stopped>>

\* The token is taken: ErrTurnInFlight, the worker is not invoked.
Refuse(t) ==
  /\ stage[t] = "new"
  /\ token = 1
  /\ stage' = [stage EXCEPT ![t] = "refused"]
  /\ outcome' = [outcome EXCEPT ![t] = "busy"]
  /\ UNCHANGED <<token, worker, done, expired, verdict, stopped>>

\* case out := <-done
TakeResult(t) ==
  /\ stage[t] = "waiting"
  /\ done[t] # Nothing
  /\ verdict' = [verdict EXCEPT ![t] = done[t]]
  /\ done' = [done EXCEPT ![t] = Nothing]
  /\ stage' = [stage EXCEPT ![t] = "closing"]
  /\ UNCHANGED <<token, worker, expired, outcome, stopped>>

\* Mutant: the select has no deadline case.
TakeDeadlineNever(t) == FALSE /\ UNCHANGED arbVars

\* case <-tctx.Done(). Go picks either case when both are ready, so a result
\* that is already in the channel may be given up.
TakeDeadline(t) ==
  /\ stage[t] = "waiting"
  /\ t \in expired
  /\ verdict' = [verdict EXCEPT ![t] = Deadline]
  /\ stage' = [stage EXCEPT ![t] = "closing"]
  /\ UNCHANGED <<token, worker, done, expired, outcome, stopped>>

\* Mutant: the deadline branch forgets to give the token back.
ReleaseUnlessDeadline(t) ==
  /\ stage[t] = "closing"
  /\ token' = IF verdict[t] = Deadline THEN token ELSE 0
  /\ stage' = [stage EXCEPT ![t] = "closed"]
  /\ UNCHANGED <<worker, done, expired, verdict, outcome, stopped>>

\* <-a.token, the first statement of both branches.
Release(t) ==
  /\ stage[t] = "closing"
  /\ token = 1
  /\ token' = 0
  /\ stage' = [stage EXCEPT ![t] = "closed"]
  /\ UNCHANGED <<worker, done, expired, verdict, outcome, stopped>>

\* A deadline is a timeout unless the parent context is cancelled by the time
\* its error is looked at, which is after the token was given back.
ReturnKind(t) ==
  IF verdict[t] # Deadline THEN verdict[t].kind
  ELSE IF t \in stopped THEN "cancelled" ELSE "timeout"

\* return, with the deferred cancel().
Return(t) ==
  /\ stage[t] = "closed"
  /\ stage' = [stage EXCEPT ![t] = "returned"]
  /\ outcome' = [outcome EXCEPT ![t] = ReturnKind(t)]
  /\ expired' = expired \cup {t}
  /\ UNCHANGED <<token, worker, done, verdict, stopped>>

-----------------------------------------------------------------------------
(* The per-turn goroutine, and the clock. *)

\* Mutant: the goroutine, too, gives the token back when it ends.
WorkerDoneReleases(t) ==
  /\ worker[t] = "running"
  /\ worker' = [worker EXCEPT ![t] = "exited"]
  /\ \E k \in WorkerKind :
       done' = [done EXCEPT ![DoneChan(t)] = [from |-> {t}, kind |-> k]]
  /\ token' = 0
  /\ UNCHANGED <<stage, expired, verdict, outcome, stopped>>

\* AssembleAndPropose returns a result or an error, or panics and is recovered.
\* A hung worker never does, and an abandoned one may do so much later.
WorkerDone(t) ==
  /\ worker[t] = "running"
  /\ worker' = [worker EXCEPT ![t] = "exited"]
  /\ done[DoneChan(t)] = Nothing
  /\ \E k \in WorkerKind :
       done' = [done EXCEPT ![DoneChan(t)] = [from |-> {t}, kind |-> k]]
  /\ UNCHANGED <<token, stage, expired, verdict, outcome, stopped>>

\* The deadline passes, or the cancellation of the parent reaches tctx.
Expire(t) ==
  /\ stage[t] \in {"waiting", "closing", "closed"}
  /\ t \notin expired
  /\ expired' = expired \cup {t}
  /\ UNCHANGED <<token, stage, worker, done, verdict, outcome, stopped>>

\* The supervisor cancels the context of the edge that makes the calls in T,
\* those in flight and those still to come.
Shutdown(T) ==
  /\ ~(T \subseteq stopped)
  /\ stopped' = stopped \cup T
  /\ UNCHANGED <<token, stage, worker, done, expired, verdict, outcome>>

-----------------------------------------------------------------------------
Submit(t) == \/ Admit(t) \/ Refuse(t)
             \/ TakeResult(t) \/ TakeDeadline(t)
             \/ Release(t) \/ Return(t)

Next == \/ \E t \in Turn : Submit(t) \/ WorkerDone(t) \/ Expire(t)
        \/ \E T \in SUBSET Turn : Shutdown(T)

\* Once in Submit the caller's goroutine is scheduled until it returns, and
\* a deadline passes. Nothing is assumed of the worker: it may hang forever.
\* Callers need not submit, so Admit and Refuse carry no fairness.
Fairness ==
  \A t \in Turn : /\ WF_arbVars(TakeResult(t) \/ TakeDeadline(t))
                  /\ WF_arbVars(Release(t))
                  /\ WF_arbVars(Return(t))
                  /\ WF_arbVars(Expire(t))

SafetySpec == ArbInit /\ [][Next]_arbVars
Spec == SafetySpec /\ Fairness

-----------------------------------------------------------------------------
(* Properties *)

\* The turns between acquiring the token and giving it back.
Holds(t) == stage[t] \in {"waiting", "closing"}

\* The token says exactly whether a turn is in flight, and never two of them
\* are: no interleaving of deadline, late result and shutdown gives a token
\* back twice, or leaks it (AD-8, arbiter.go:59-61 "close is idempotent").
TokenMatchesTurn ==
  /\ token = 1 <=> \E t \in Turn : Holds(t)
  /\ \A s, t \in Turn : Holds(s) /\ Holds(t) => s = t

\* The turn fence (arbiter.go:10-12): what a caller gets for its turn was
\* produced by that turn's worker, though an abandoned worker may answer while
\* a later turn is waiting.
OwnResult ==
  \A t \in Turn : verdict[t].from \subseteq {t}

\* "A failed call never freezes the pet": a turn that was admitted returns to
\* its caller even when its worker hangs forever.
AdmittedTurnReturns ==
  \A t \in Turn : stage[t] = "waiting" ~> stage[t] = "returned"

\* The arbiter implements the gate it promises: who is inside, who was turned
\* away, and that everyone inside leaves.
Gate == INSTANCE TurnGate WITH
  waiting <- {t \in Turn : stage[t] = "new"},
  inside <- {t \in Turn : Holds(t)},
  left <- {t \in Turn : stage[t] \in {"closed", "returned"}},
  turnedAway <- {t \in Turn : stage[t] = "refused"}
ImplementsGate == Gate!Spec

\* Its safety half, which is what ArbiterProofs proves for every set of turns:
\* a step of the arbiter is a step of the gate or leaves the gate alone.
GateSafety == Gate!Init /\ [][Gate!Next]_(Gate!vars)
==============================================================================
