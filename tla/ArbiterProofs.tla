---------------------------- MODULE ArbiterProofs ----------------------------
(* Theorems about core/arbiter, for every set of turns. The inductive         *)
(* invariant is the conjunction of the type invariant, the token accounting   *)
(* and the ownership of what the done channels hold; each is inductive on top *)
(* of the type invariant.                                                     *)
EXTENDS Arbiter, TLAPS

\* What lies in a done channel was sent by the turn that made it.
DoneIsOwn == \A t \in Turn : done[t].from \subseteq {t}

Fence == DoneIsOwn /\ OwnResult

\* Every step of the arbiter stays within the types.
LEMMA TypeStep == ArbTypeOK /\ [Next]_arbVars => ArbTypeOK'
<1> SUFFICES ASSUME ArbTypeOK, [Next]_arbVars PROVE ArbTypeOK'
  OBVIOUS
<1> USE DEF ArbTypeOK, Stage, OutcomeKind
<1> DEFINE TurnStep(t) == Submit(t) \/ WorkerDone(t) \/ Expire(t)
<1>1. ASSUME NEW t \in Turn, Admit(t) PROVE ArbTypeOK'
  BY <1>1 DEF Admit
<1>2. ASSUME NEW t \in Turn, Refuse(t) PROVE ArbTypeOK'
  BY <1>2 DEF Refuse
<1>3. ASSUME NEW t \in Turn, TakeResult(t) PROVE ArbTypeOK'
  BY <1>3 DEF TakeResult, Message
<1>4. ASSUME NEW t \in Turn, TakeDeadline(t) PROVE ArbTypeOK'
  BY <1>4 DEF TakeDeadline
<1>5. ASSUME NEW t \in Turn, Release(t) PROVE ArbTypeOK'
  BY <1>5 DEF Release
<1>6. ASSUME NEW t \in Turn, Return(t) PROVE ArbTypeOK'
  <2>1. ReturnKind(t) \in OutcomeKind
    <3>1. CASE verdict[t] = Deadline
      BY <3>1 DEF ReturnKind
    <3>2. CASE verdict[t] # Deadline
      <4>1. verdict[t].kind \in {"none", "reply", "error"}
        BY <3>2 DEF Message, Nothing, WorkerKind
      <4> QED BY <3>2, <4>1 DEF ReturnKind
    <3> QED BY <3>1, <3>2
  <2> QED BY <1>6, <2>1 DEF Return
<1>7. ASSUME NEW t \in Turn, WorkerDone(t) PROVE ArbTypeOK'
  <2>1. PICK k \in WorkerKind :
          done' = [done EXCEPT ![DoneChan(t)] = [from |-> {t}, kind |-> k]]
    BY <1>7 DEF WorkerDone
  <2>2. [from |-> {t}, kind |-> k] \in Message
    BY <2>1 DEF Message
  <2>3. done' \in [Turn -> Message]
    BY <2>1, <2>2
  <2> QED BY <1>7, <2>3 DEF WorkerDone
<1>8. ASSUME NEW t \in Turn, Expire(t) PROVE ArbTypeOK'
  BY <1>8 DEF Expire
<1>9. ASSUME NEW T \in SUBSET Turn, Shutdown(T) PROVE ArbTypeOK'
  BY <1>9 DEF Shutdown
<1>10. CASE UNCHANGED arbVars
  BY <1>10 DEF arbVars
<1> QED
  BY <1>1, <1>2, <1>3, <1>4, <1>5, <1>6, <1>7, <1>8, <1>9, <1>10
     DEF Next, Submit

\* The state of Submit, the channels and the contexts stay within their types
\* in every behaviour.
THEOREM ArbiterTypes == SafetySpec => []ArbTypeOK
<1>1. ArbInit => ArbTypeOK
  BY DEF ArbInit, ArbTypeOK, Stage, OutcomeKind, Message
<1> QED BY <1>1, TypeStep, PTL DEF SafetySpec

\* A step that changes neither the token nor who holds it keeps the accounting.
LEMMA TokenFrame ==
  ASSUME TokenMatchesTurn, token' = token, \A t \in Turn : Holds(t)' <=> Holds(t)
  PROVE  TokenMatchesTurn'
BY DEF TokenMatchesTurn

\* One step keeps the token in line with the turn in flight.
LEMMA TokenStep == ArbTypeOK /\ TokenMatchesTurn /\ [Next]_arbVars => TokenMatchesTurn'
<1> SUFFICES ASSUME ArbTypeOK, TokenMatchesTurn, [Next]_arbVars
             PROVE  TokenMatchesTurn'
  OBVIOUS
<1>0. stage \in [Turn -> Stage]
  BY DEF ArbTypeOK
<1>1. ASSUME NEW t \in Turn, Admit(t) PROVE TokenMatchesTurn'
  <2>1. \A s \in Turn : Holds(s)' <=> (s = t \/ Holds(s))
    BY <1>0, <1>1 DEF Admit, Holds
  <2>2. \A s \in Turn : ~Holds(s)
    BY <1>1 DEF Admit, TokenMatchesTurn
  <2>3. token' = 1
    BY <1>1 DEF Admit
  <2> QED BY <2>1, <2>2, <2>3 DEF TokenMatchesTurn
<1>2. ASSUME NEW t \in Turn, Refuse(t) PROVE TokenMatchesTurn'
  <2>1. \A s \in Turn : Holds(s)' <=> Holds(s)
    BY <1>0, <1>2 DEF Refuse, Holds
  <2> QED BY <1>2, <2>1, TokenFrame DEF Refuse
<1>3. ASSUME NEW t \in Turn, TakeResult(t) \/ TakeDeadline(t)
      PROVE  TokenMatchesTurn'
  <2>1. \A s \in Turn : Holds(s)' <=> Holds(s)
    BY <1>0, <1>3 DEF TakeResult, TakeDeadline, Holds
  <2> QED BY <1>3, <2>1, TokenFrame DEF TakeResult, TakeDeadline
<1>4. ASSUME NEW t \in Turn, Release(t) PROVE TokenMatchesTurn'
  <2>1. Holds(t)
    BY <1>4 DEF Release, Holds
  <2>2. \A s \in Turn : Holds(s) => s = t
    BY <2>1 DEF TokenMatchesTurn
  <2>3. \A s \in Turn : ~Holds(s)'
    BY <1>0, <1>4, <2>2 DEF Release, Holds
  <2> QED BY <1>4, <2>3 DEF Release, TokenMatchesTurn
<1>5. ASSUME NEW t \in Turn, Return(t) PROVE TokenMatchesTurn'
  <2>1. \A s \in Turn : Holds(s)' <=> Holds(s)
    BY <1>0, <1>5 DEF Return, Holds
  <2> QED BY <1>5, <2>1, TokenFrame DEF Return
<1>6. ASSUME UNCHANGED <<token, stage>> PROVE TokenMatchesTurn'
  BY <1>6, TokenFrame DEF Holds
<1> QED
  BY <1>1, <1>2, <1>3, <1>4, <1>5, <1>6
     DEF Next, Submit, WorkerDone, Expire, Shutdown, arbVars

\* The token is held by exactly one turn while it is out and by none while it
\* is not, so at most one turn is in flight (AD-8).
THEOREM TokenSafety == SafetySpec => []TokenMatchesTurn
<1>1. ArbInit => TokenMatchesTurn
  BY DEF ArbInit, TokenMatchesTurn, Holds
<1> QED BY <1>1, TokenStep, ArbiterTypes, PTL DEF SafetySpec

\* A worker sends to the channel of its own turn, and only the caller of that
\* turn receives from it.
LEMMA FenceStep == ArbTypeOK /\ Fence /\ [Next]_arbVars => Fence'
<1> SUFFICES ASSUME ArbTypeOK, Fence, [Next]_arbVars PROVE Fence'
  OBVIOUS
<1>0. /\ done \in [Turn -> Message]
      /\ verdict \in [Turn -> Message \cup {Deadline}]
  BY DEF ArbTypeOK
<1>1. ASSUME NEW t \in Turn, TakeResult(t) PROVE Fence'
  <2>1. verdict'[t].from \subseteq {t}
    BY <1>0, <1>1 DEF TakeResult, Fence, DoneIsOwn
  <2>2. \A s \in Turn : verdict'[s].from \subseteq {s}
    BY <1>0, <1>1, <2>1 DEF TakeResult, Fence, OwnResult
  <2>3. \A s \in Turn : done'[s].from \subseteq {s}
    BY <1>0, <1>1 DEF TakeResult, Fence, DoneIsOwn, Nothing
  <2> QED BY <2>2, <2>3 DEF Fence, DoneIsOwn, OwnResult
<1>2. ASSUME NEW t \in Turn, TakeDeadline(t) PROVE Fence'
  BY <1>0, <1>2 DEF TakeDeadline, Fence, DoneIsOwn, OwnResult, Deadline
<1>3. ASSUME NEW t \in Turn, WorkerDone(t) PROVE Fence'
  BY <1>0, <1>3 DEF WorkerDone, DoneChan, Fence, DoneIsOwn, OwnResult
<1>4. ASSUME UNCHANGED <<done, verdict>> PROVE Fence'
  BY <1>4 DEF Fence, DoneIsOwn, OwnResult
<1> QED
  BY <1>1, <1>2, <1>3, <1>4
     DEF Next, Submit, Admit, Refuse, Release, Return, Expire, Shutdown, arbVars

\* A caller only ever gets the result of its own turn, however late an
\* abandoned worker answers (AD-11, arbiter.go:10-12).
THEOREM TurnFence == SafetySpec => []OwnResult
<1>1. ArbInit => Fence
  BY DEF ArbInit, Fence, DoneIsOwn, OwnResult, Nothing
<1>2. Fence => OwnResult
  BY DEF Fence
<1> QED BY <1>1, <1>2, FenceStep, ArbiterTypes, PTL DEF SafetySpec

\* A step of the arbiter enters, turns away or leaves the abstract gate, or is
\* a stutter of it.
LEMMA GateStep ==
  ArbTypeOK /\ TokenMatchesTurn /\ [Next]_arbVars => [Gate!Next]_(Gate!vars)
<1> SUFFICES ASSUME ArbTypeOK, TokenMatchesTurn, [Next]_arbVars
             PROVE  Gate!Next \/ UNCHANGED Gate!vars
  OBVIOUS
<1>0. stage \in [Turn -> Stage]
  BY DEF ArbTypeOK
<1>1. ASSUME NEW t \in Turn, Admit(t) PROVE Gate!Enter(t)
  <2>1. /\ stage[t] = "new"
        /\ stage' = [stage EXCEPT ![t] = "waiting"]
        /\ \A s \in Turn : ~Holds(s)
    BY <1>1 DEF Admit, TokenMatchesTurn
  <2> QED BY <1>0, <2>1 DEF Gate!Enter, Holds
<1>2. ASSUME NEW t \in Turn, Refuse(t) PROVE Gate!TurnAway(t)
  <2>1. /\ stage[t] = "new"
        /\ stage' = [stage EXCEPT ![t] = "refused"]
    BY <1>2 DEF Refuse
  <2>2. PICK h \in Turn : Holds(h)
    BY <1>2 DEF Refuse, TokenMatchesTurn
  <2> QED BY <1>0, <2>1, <2>2 DEF Gate!TurnAway, Holds
<1>3. ASSUME NEW t \in Turn, Release(t) PROVE Gate!Leave(t)
  <2>1. /\ stage[t] = "closing"
        /\ stage' = [stage EXCEPT ![t] = "closed"]
    BY <1>3 DEF Release
  <2> QED BY <1>0, <2>1 DEF Gate!Leave, Holds
<1>4. ASSUME NEW t \in Turn, TakeResult(t) \/ TakeDeadline(t) \/ Return(t)
      PROVE  UNCHANGED Gate!vars
  <2>1. \/ stage[t] = "waiting" /\ stage' = [stage EXCEPT ![t] = "closing"]
        \/ stage[t] = "closed" /\ stage' = [stage EXCEPT ![t] = "returned"]
    BY <1>4 DEF TakeResult, TakeDeadline, Return
  <2> QED BY <1>0, <2>1 DEF Gate!vars, Holds
<1>5. ASSUME UNCHANGED stage PROVE UNCHANGED Gate!vars
  BY <1>5 DEF Gate!vars, Holds
<1> QED
  BY <1>1, <1>2, <1>3, <1>4, <1>5
     DEF Next, Submit, WorkerDone, Expire, Shutdown, arbVars, Gate!Next

\* The token, the goroutines and the selects implement the gate of TurnGate:
\* a turn is turned away only while another one is inside, and no step puts a
\* second turn inside. (That everyone inside leaves is liveness, left to TLC.)
THEOREM ArbiterRefinesGate == SafetySpec => GateSafety
<1>1. ArbInit => Gate!Init
  BY DEF ArbInit, Gate!Init, Holds
<1> QED
  BY <1>1, GateStep, ArbiterTypes, TokenSafety, PTL DEF SafetySpec, GateSafety
===============================================================================
