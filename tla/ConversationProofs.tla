-------------------------- MODULE ConversationProofs --------------------------
(* The owner's conversation, for any number of messages, pings and panics and  *)
(* any capacity of the channels. What Submit does is the arbiter's matter: each *)
(* step here is a step of the arbiter or none, so that its proofs apply.        *)
EXTENDS Conversation, TLAPS

\* The proofs about the arbiter, for the turns of the conversation.
AP == INSTANCE ArbiterProofs WITH Turn <- Msg \cup Ping

-----------------------------------------------------------------------------
(* The arbiter in the conversation *)

\* Each step is a step of the arbiter or leaves it alone.
LEMMA ArbStep == [Next]_vars => [Arb!Next]_arbVars
<1> SUFFICES ASSUME [Next]_vars PROVE Arb!Next \/ UNCHANGED arbVars
  OBVIOUS
<1>1. ASSUME NEW t \in Msg \cup Ping, TurnStep(t) PROVE Arb!Next
  BY <1>1 DEF TurnStep, TurnStarts, TurnCloses, WorkerStep, TimerStep, Arb!Next, Arb!Submit
<1>2. ASSUME NEW e \in Edge, Drain(e) PROVE Arb!Next \/ UNCHANGED arbVars
  <2>1. TurnsOf(e) \in SUBSET (Msg \cup Ping)
    BY DEF TurnsOf, Edge
  <2>2. CASE TurnsOf(e) \subseteq stopped
    BY <1>2, <2>2 DEF Drain, arbVars
  <2>3. CASE ~(TurnsOf(e) \subseteq stopped)
    <3>1. Arb!Shutdown(TurnsOf(e))
      BY <1>2, <2>3 DEF Drain, Arb!Shutdown
    <3> QED  BY <2>1, <3>1 DEF Arb!Next
  <2> QED  BY <2>2, <2>3
<1>3. ASSUME NEW l \in Loop, Type(l) \/ PublishIn(l) \/ GiveUpIn(l) PROVE UNCHANGED arbVars
  BY <1>3 DEF Type, PublishIn, GiveUpIn
<1>4. CASE ServeStep \/ DispatchStep \/ PingStep
  BY <1>4 DEF ServeStep, TakeOut, Deliver, TransportHalts, DispatchStep, Receive, Decide,
     Publish, RecordOwner, RecordPet, DispatchHalts, PingStep, PingResult, PingPublish,
     SchedulerHalts
<1>5. ASSUME NEW p \in Ping, PingDue(p) PROVE UNCHANGED arbVars
  BY <1>5 DEF PingDue
<1>6. CASE TransportPanics \/ DispatchPanics
  BY <1>6 DEF TransportPanics, DispatchPanics
<1>7. CASE UNCHANGED vars
  BY <1>7 DEF vars
<1> QED  BY <1>1, <1>2, <1>3, <1>4, <1>5, <1>6, <1>7 DEF Next

\* The instance of the arbiter here and the one of its proofs say the same.
LEMMA SameNext == [Arb!Next]_arbVars => [AP!Next]_AP!arbVars
BY DEF arbVars, Arb!Next, AP!Next, Arb!Submit, AP!Submit, Arb!Admit, AP!Admit, Arb!Refuse,
       AP!Refuse, Arb!TakeResult, AP!TakeResult, Arb!TakeDeadline, AP!TakeDeadline, Arb!Release,
       AP!Release, Arb!Return, AP!Return, Arb!ReturnKind, AP!ReturnKind, Arb!WorkerDone,
       AP!WorkerDone, Arb!DoneChan, AP!DoneChan, Arb!Expire, AP!Expire, Arb!Shutdown,
       AP!Shutdown, Arb!Nothing, AP!Nothing, Arb!Deadline, AP!Deadline, Arb!WorkerKind,
       AP!WorkerKind, Arb!arbVars, AP!arbVars

LEMMA SameInit == Arb!ArbInit => AP!ArbInit
BY DEF Arb!ArbInit, AP!ArbInit, Arb!Nothing, AP!Nothing

LEMMA SameType == (Arb!ArbTypeOK <=> AP!ArbTypeOK) /\ (Arb!ArbTypeOK' <=> AP!ArbTypeOK')
BY DEF Arb!ArbTypeOK, AP!ArbTypeOK, Arb!Nothing, AP!Nothing, Arb!Deadline, AP!Deadline,
       Arb!Message, AP!Message, Arb!WorkerKind, AP!WorkerKind, Arb!Stage, AP!Stage,
       Arb!OutcomeKind, AP!OutcomeKind

\* Dispatch and the ping job call Submit as the arbiter allows: the conversation
\* implements its specification.
THEOREM ConversationSubmits == Spec => Arb!SafetySpec
BY ArbStep, PTL DEF Spec, Init, Arb!SafetySpec, arbVars, Arb!arbVars

LEMMA SubmitsAsProved == Spec => AP!SafetySpec
BY ConversationSubmits, SameInit, SameNext, PTL
   DEF Arb!SafetySpec, AP!SafetySpec, arbVars, Arb!arbVars, AP!arbVars

\* So whatever edges panic, drain or share the input, a message and a ping are
\* never in flight at once, the token is never lost, and neither is answered by
\* the other's worker, whatever the number of messages and pings.
THEOREM ConversationFence == Spec => [](Arb!TokenMatchesTurn /\ Arb!OwnResult)
<1>1. (AP!TokenMatchesTurn => Arb!TokenMatchesTurn) /\ (AP!OwnResult => Arb!OwnResult)
  BY DEF AP!TokenMatchesTurn, Arb!TokenMatchesTurn, AP!OwnResult, Arb!OwnResult, AP!Holds,
     Arb!Holds
<1> QED  BY <1>1, SubmitsAsProved, AP!TokenSafety, AP!TurnFence, PTL

\* To its callers Submit is the gate of TurnGate: one turn inside at a time, and
\* nobody turned away while it is free.
THEOREM ConversationGate == Spec => Arb!GateSafety
<1>1. AP!Gate!Init => Arb!Gate!Init
  BY DEF AP!Gate!Init, Arb!Gate!Init, AP!Holds, Arb!Holds
<1>2. [AP!Gate!Next]_(AP!Gate!vars) => [Arb!Gate!Next]_(Arb!Gate!vars)
  BY DEF AP!Gate!Next, Arb!Gate!Next, AP!Gate!vars, Arb!Gate!vars, AP!Gate!Enter, Arb!Gate!Enter,
     AP!Gate!TurnAway, Arb!Gate!TurnAway, AP!Gate!Leave, Arb!Gate!Leave, AP!Holds, Arb!Holds
<1> QED
  BY <1>1, <1>2, SubmitsAsProved, AP!ArbiterRefinesGate, PTL DEF Arb!GateSafety, AP!GateSafety

LEMMA ArbTypeInit == Init => Arb!ArbTypeOK
BY DEF Init, Arb!ArbInit, Arb!ArbTypeOK, Arb!Stage, Arb!OutcomeKind, Arb!Message

LEMMA ArbTypeStep == Arb!ArbTypeOK /\ [Next]_vars => Arb!ArbTypeOK'
BY ArbStep, SameNext, SameType, AP!TypeStep

-----------------------------------------------------------------------------
(* Types *)

\* A read loop that was not started publishes nothing, and each start but the
\* first took a panic.
LoopsCounted == loops <= panics + 1 /\ \A l \in Loop : l > loops => posting[l] = NoMsg

\* Who is at work on a turn has it in hand.
HandsFull ==
  /\ disp.at # "recv" => disp.msg \in Msg
  /\ pinger.at # "idle" => pinger.turn \in Ping

Basic == TypeOK /\ LoopsCounted /\ HandsFull

LEMMA BasicInit == Init => Basic
<1> SUFFICES ASSUME Init PROVE Basic
  OBVIOUS
<1>1. Arb!ArbTypeOK
  BY ArbTypeInit
<1>2. 1 \in Loop
  BY ConversationAssumption DEF Loop
<1>3. TypeOK
  BY <1>1, <1>2, ConversationAssumption DEF Init, TypeOK
<1> QED  BY <1>3 DEF Basic, Init, LoopsCounted, HandsFull

\* The parts of Basic by the component that keeps them.
IoTyped ==
  /\ typed \in 0..MaxMsg /\ loops \in Loop
  /\ posting \in [Loop -> Msg \cup {NoMsg}]
  /\ inbound \in Seq(Msg) /\ Len(inbound) <= InCap
  /\ outbound \in Seq(Envelope) /\ Len(outbound) <= OutCap
  /\ sending \in Envelope \cup {NoEnvelope}
  /\ said \in Seq(Envelope)
DispTyped ==
  /\ disp \in [at : {"recv", "submit", "publish", "owner", "pet"}, msg : Msg \cup {NoMsg}]
  /\ disp.at # "recv" => disp.msg \in Msg
  /\ touched \subseteq Msg
  /\ history \in Seq([role : {"owner", "pet"}, of : Msg])
PingTyped ==
  /\ pinger \in [at : {"idle", "submit", "publish"}, turn : Ping \cup {NoMsg}]
  /\ pinger.at # "idle" => pinger.turn \in Ping
EdgeTyped ==
  /\ setup \in Setups
  /\ halted \subseteq cancelled /\ cancelled \subseteq Edge
  /\ panics \in 0..MaxPanics /\ lost \subseteq Msg
  /\ LoopsCounted

LEMMA BasicParts ==
  /\ Basic <=> Arb!ArbTypeOK /\ IoTyped /\ DispTyped /\ PingTyped /\ EdgeTyped
  /\ Basic' <=> (Arb!ArbTypeOK /\ IoTyped /\ DispTyped /\ PingTyped /\ EdgeTyped)'
BY DEF Basic, TypeOK, IoTyped, DispTyped, PingTyped, EdgeTyped, HandsFull

\* What an edge sends is an envelope to a message or a ping.
LEMMA SendOutType ==
  ASSUME IoTyped, NEW edge, NEW t \in Msg \cup Ping, SendOut(edge, t)
  PROVE  outbound' \in Seq(Envelope) /\ Len(outbound') <= OutCap
<1> DEFINE e == [to |-> t, text |-> ReplyText(t)]
<1>1. e \in Envelope
  BY DEF Envelope, ReplyText
<1>2. CASE Len(outbound) < OutCap /\ outbound' = Append(outbound, e)
  <2> HIDE DEF e
  <2> QED  BY <1>1, <1>2, ConversationAssumption DEF IoTyped
<1>3. CASE outbound' = outbound
  BY <1>3 DEF IoTyped
<1> QED  BY <1>2, <1>3 DEF SendOut

\* What is recorded is a line of the message in hand.
LEMMA RecordType ==
  ASSUME DispTyped, disp.msg \in Msg, NEW role \in {"owner", "pet"}, Record(role)
  PROVE  history' \in Seq([role : {"owner", "pet"}, of : Msg])
<1> DEFINE line == [role |-> role, of |-> disp.msg]
           Lines == [role : {"owner", "pet"}, of : Msg]
<1>1. line \in Lines
  OBVIOUS
<1>2. history' = Append(history, line) \/ history' = history
  BY DEF Record
<1>3. history \in Seq(Lines)
  BY DEF DispTyped
<1> HIDE DEF line, Lines
<1>4. history' \in Seq(Lines)
  BY <1>1, <1>2, <1>3
<1> QED  BY <1>4 DEF Lines

LEMMA SetupBounds ==
  ASSUME EdgeTyped
  PROVE  /\ setup.msgs \in 0..MaxMsg /\ setup.pings \in 0..MaxPing
         /\ setup.panics \in 0..MaxPanics
BY ConversationAssumption DEF EdgeTyped, Setup

LEMMA BasicStep == Basic /\ [Next]_vars => Basic'
<1> SUFFICES ASSUME Basic, [Next]_vars PROVE (IoTyped /\ DispTyped /\ PingTyped /\ EdgeTyped)'
  BY BasicParts, ArbTypeStep
<1> USE ConversationAssumption DEF ioVars, coreVars, faultVars
<1>0. IoTyped /\ DispTyped /\ PingTyped /\ EdgeTyped
  BY BasicParts
<1> DEFINE Goal == (IoTyped /\ DispTyped /\ PingTyped /\ EdgeTyped)'
<1>io. UNCHANGED ioVars => IoTyped'
  BY <1>0 DEF IoTyped
<1>disp. UNCHANGED <<disp, touched, history>> => DispTyped'
  BY <1>0 DEF DispTyped
<1>ping. UNCHANGED pinger => PingTyped'
  BY <1>0 DEF PingTyped
<1>edge. UNCHANGED <<setup, halted, cancelled, panics, lost, loops, posting>> => EdgeTyped'
  BY <1>0 DEF EdgeTyped, LoopsCounted
<1>1. ASSUME NEW l \in Loop, Type(l) PROVE Goal
  <2>1. typed + 1 \in Msg
    BY <1>0, <1>1, SetupBounds DEF Type, IoTyped, Msg
  <2>2. typed' \in 0..MaxMsg /\ posting' \in [Loop -> Msg \cup {NoMsg}]
    BY <1>0, <1>1, <2>1 DEF Type, IoTyped, Msg
  <2>3. IoTyped'
    BY <1>0, <1>1, <2>2 DEF Type, IoTyped
  <2>4. LoopsCounted'
    <3>1. \A k \in Loop : k > loops => k # l
      BY <1>0, <1>1 DEF Type, IoTyped, Loop
    <3> QED  BY <1>0, <1>1, <3>1 DEF Type, EdgeTyped, LoopsCounted, IoTyped
  <2>5. EdgeTyped'
    BY <1>0, <1>1, <2>4 DEF Type, EdgeTyped
  <2> QED  BY <1>1, <1>disp, <1>ping, <2>3, <2>5 DEF Type
<1>2. ASSUME NEW l \in Loop, PublishIn(l) \/ GiveUpIn(l) PROVE Goal
  <2>1. posting' = [posting EXCEPT ![l] = NoMsg]
    BY <1>2 DEF PublishIn, GiveUpIn
  <2>2. posting' \in [Loop -> Msg \cup {NoMsg}]
    BY <1>0, <2>1 DEF IoTyped
  <2>3. inbound' \in Seq(Msg) /\ Len(inbound') <= InCap
    <3>1. inbound \in Seq(Msg) /\ Len(inbound) <= InCap /\ posting[l] \in Msg
      BY <1>0, <1>2 DEF PublishIn, GiveUpIn, IoTyped
    <3>2. CASE Len(inbound) < InCap /\ inbound' = Append(inbound, posting[l])
      BY <3>1, <3>2
    <3>3. CASE inbound' = inbound
      BY <3>1, <3>3
    <3> QED  BY <1>2, <3>2, <3>3 DEF PublishIn, GiveUpIn
  <2>4. IoTyped'
    BY <1>0, <1>2, <2>2, <2>3 DEF PublishIn, GiveUpIn, IoTyped
  <2>5. EdgeTyped'
    BY <1>0, <1>2, <2>1 DEF PublishIn, GiveUpIn, EdgeTyped, LoopsCounted, IoTyped
  <2> QED  BY <1>2, <1>disp, <1>ping, <2>4, <2>5 DEF PublishIn, GiveUpIn
<1>3. CASE TakeOut
  <2>1. /\ Head(outbound) \in Envelope
        /\ Tail(outbound) \in Seq(Envelope) /\ Len(Tail(outbound)) <= OutCap
    BY <1>0, <1>3 DEF TakeOut, IoTyped
  <2>2. IoTyped'
    BY <1>0, <1>3, <2>1 DEF TakeOut, IoTyped
  <2> QED  BY <1>3, <2>2, <1>disp, <1>ping, <1>edge DEF TakeOut
<1>4. CASE Deliver
  <2>1. sending \in Envelope
    BY <1>0, <1>4 DEF Deliver, IoTyped
  <2>2. said' \in Seq(Envelope)
    <3>1. said \in Seq(Envelope)
      BY <1>0 DEF IoTyped
    <3>2. said' = Append(said, sending) \/ said' = said
      BY <1>4 DEF Deliver
    <3> QED  BY <2>1, <3>1, <3>2
  <2>3. IoTyped'
    BY <1>0, <1>4, <2>2 DEF Deliver, IoTyped
  <2> QED  BY <1>4, <2>3, <1>disp, <1>ping, <1>edge DEF Deliver
<1>5. CASE TransportHalts \/ DispatchHalts \/ SchedulerHalts
  <2>1. EdgeTyped'
    BY <1>0, <1>5 DEF TransportHalts, DispatchHalts, SchedulerHalts, EdgeTyped, LoopsCounted
  <2> QED
    BY <1>5, <2>1, <1>io, <1>disp, <1>ping DEF TransportHalts, DispatchHalts, SchedulerHalts
<1>6. CASE Receive
  <2>1. Head(inbound) \in Msg /\ Tail(inbound) \in Seq(Msg) /\ Len(Tail(inbound)) <= InCap
    BY <1>0, <1>6 DEF Receive, IoTyped
  <2>2. IoTyped'
    BY <1>0, <1>6, <2>1 DEF Receive, IoTyped
  <2>3. DispTyped'
    BY <1>0, <1>6, <2>1 DEF Receive, DispTyped
  <2> QED  BY <1>6, <2>2, <2>3, <1>ping, <1>edge DEF Receive
<1>7. CASE Decide
  <2>1. DispTyped'
    BY <1>0, <1>7 DEF Decide, DispTyped
  <2>2. EdgeTyped'
    BY <1>0, <1>7 DEF Decide, EdgeTyped, LoopsCounted
  <2> QED  BY <1>7, <2>1, <2>2, <1>io, <1>ping DEF Decide
<1>8. CASE Publish
  <2>1. disp.msg \in Msg \cup Ping
    BY <1>0, <1>8 DEF Publish, DispTyped
  <2>2. IoTyped'
    BY <1>0, <1>8, <2>1, SendOutType DEF Publish, IoTyped
  <2>3. DispTyped'
    BY <1>0, <1>8 DEF Publish, DispTyped
  <2> QED  BY <1>8, <2>2, <2>3, <1>ping, <1>edge DEF Publish
<1>9. CASE RecordOwner \/ RecordPet
  <2>1. \E role \in {"owner", "pet"} : Record(role) /\ disp.msg \in Msg
    BY <1>0, <1>9 DEF RecordOwner, RecordPet, DispTyped
  <2>2. history' \in Seq([role : {"owner", "pet"}, of : Msg])
    BY <1>0, <2>1, RecordType
  <2>3. DispTyped'
    BY <1>0, <1>9, <2>2 DEF RecordOwner, RecordPet, DispTyped
  <2> QED  BY <1>9, <2>3, <1>io, <1>ping, <1>edge DEF RecordOwner, RecordPet
<1>10. CASE PingResult
  <2>1. PingTyped'
    BY <1>0, <1>10 DEF PingResult, PingTyped
  <2> QED  BY <1>10, <2>1, <1>io, <1>disp, <1>edge DEF PingResult
<1>11. CASE PingPublish
  <2>1. pinger.turn \in Msg \cup Ping
    BY <1>0, <1>11 DEF PingPublish, PingTyped
  <2>2. IoTyped'
    BY <1>0, <1>11, <2>1, SendOutType DEF PingPublish, IoTyped
  <2>3. PingTyped'
    BY <1>0, <1>11 DEF PingPublish, PingTyped
  <2> QED  BY <1>11, <2>2, <2>3, <1>disp, <1>edge DEF PingPublish
<1>12. ASSUME NEW p \in Ping, PingDue(p) PROVE Goal
  <2>1. PingTyped'
    BY <1>0, <1>12 DEF PingDue, PingTyped
  <2> QED  BY <1>12, <2>1, <1>io, <1>disp, <1>edge DEF PingDue
<1>13. ASSUME NEW t \in Msg \cup Ping, TurnStep(t) PROVE Goal
  <2>1. UNCHANGED <<ioVars, coreVars>>
    BY <1>13 DEF TurnStep, TurnStarts, TurnCloses, WorkerStep, TimerStep
  <2> QED  BY <2>1, <1>io, <1>disp, <1>ping, <1>edge
<1>14. ASSUME NEW e \in Edge, Drain(e) PROVE Goal
  <2>1. EdgeTyped'
    BY <1>0, <1>14 DEF Drain, EdgeTyped, LoopsCounted
  <2> QED  BY <1>14, <2>1, <1>io, <1>disp, <1>ping DEF Drain
<1>15. CASE TransportPanics
  <2>1. panics' = panics + 1 /\ panics + 1 \in 0..MaxPanics
    BY <1>0, <1>15, SetupBounds DEF TransportPanics, Panics, EdgeTyped
  <2>2. loops' \in {loops, loops + 1} /\ loops + 1 \in Loop
    BY <1>0, <1>15, <2>1 DEF TransportPanics, EdgeTyped, LoopsCounted, IoTyped, Loop
  <2>3. IoTyped'
    BY <1>0, <1>15, <2>2 DEF TransportPanics, IoTyped
  <2>4. LoopsCounted'
    BY <1>0, <1>15, <2>1, <2>2 DEF TransportPanics, EdgeTyped, LoopsCounted, IoTyped, Loop
  <2>5. EdgeTyped'
    BY <1>0, <1>15, <2>1, <2>4 DEF TransportPanics, Panics, EdgeTyped
  <2> QED  BY <1>15, <2>3, <2>5, <1>disp, <1>ping DEF TransportPanics
<1>16. CASE DispatchPanics
  <2>1. panics' = panics + 1 /\ panics + 1 \in 0..MaxPanics
    BY <1>0, <1>16, SetupBounds DEF DispatchPanics, Panics, EdgeTyped
  <2>2. disp.msg \in Msg
    BY <1>0, <1>16 DEF DispatchPanics, HasMessage, DispTyped
  <2>3. DispTyped'
    BY <1>0, <1>16 DEF DispatchPanics, DispTyped
  <2>4. LoopsCounted'
    BY <1>0, <1>16, <2>1 DEF DispatchPanics, EdgeTyped, LoopsCounted, IoTyped, Loop
  <2>5. EdgeTyped'
    BY <1>0, <1>16, <2>1, <2>2, <2>4 DEF DispatchPanics, Panics, EdgeTyped
  <2> QED  BY <1>16, <2>3, <2>5, <1>io, <1>ping DEF DispatchPanics
<1>17. CASE UNCHANGED vars
  BY <1>17, <1>io, <1>disp, <1>ping, <1>edge DEF vars
<1> QED
  BY <1>1, <1>2, <1>3, <1>4, <1>5, <1>6, <1>7, <1>8, <1>9, <1>10, <1>11, <1>12, <1>13, <1>14,
     <1>15, <1>16, <1>17 DEF Next, ServeStep, DispatchStep, PingStep

LEMMA BasicInvariant == Spec => []Basic
BY BasicInit, BasicStep, PTL DEF Spec

\* The channels keep to their capacity, whoever works on a turn has it in hand
\* and no edge starts a read loop too many, in every behaviour.
THEOREM ConversationTypes == Spec => []TypeOK
BY BasicInvariant, PTL DEF Basic

-----------------------------------------------------------------------------
(* The history *)

\* The recorder works and no shutdown has reached the loop.
Recording == ~setup.recorderFails /\ "dispatch" \notin cancelled

\* While the loop is about to write the pet line, the owner line is the last.
LastIsOwner ==
  Recording /\ disp.at = "pet" =>
    history # <<>> /\ history[Len(history)] = [role |-> "owner", of |-> disp.msg]

LEMMA RecordingShrinks == ASSUME Basic, [Next]_vars PROVE Recording' => Recording
<1> USE DEF Recording, coreVars, faultVars
<1>1. UNCHANGED <<setup, cancelled>> => (Recording' => Recording)
  OBVIOUS
<1>2. ASSUME NEW e \in Edge, Drain(e) PROVE Recording' => Recording
  BY <1>2 DEF Drain
<1>3. CASE ServeStep \/ DispatchStep \/ PingStep
  BY <1>1, <1>3 DEF ServeStep, TakeOut, Deliver, TransportHalts, DispatchStep, Receive, Decide,
     Publish, RecordOwner, RecordPet, DispatchHalts, PingStep, PingResult, PingPublish,
     SchedulerHalts
<1>4. CASE TransportPanics \/ DispatchPanics
  BY <1>1, <1>4 DEF TransportPanics, DispatchPanics, Panics
<1>5. ASSUME NEW l \in Loop, Type(l) \/ PublishIn(l) \/ GiveUpIn(l) PROVE Recording' => Recording
  BY <1>1, <1>5 DEF Type, PublishIn, GiveUpIn
<1>6. ASSUME NEW t \in Msg \cup Ping, TurnStep(t) PROVE Recording' => Recording
  BY <1>1, <1>6 DEF TurnStep, TurnStarts, TurnCloses, WorkerStep, TimerStep
<1>7. ASSUME NEW p \in Ping, PingDue(p) PROVE Recording' => Recording
  BY <1>1, <1>7 DEF PingDue
<1>8. CASE UNCHANGED vars
  BY <1>1, <1>8 DEF vars
<1> QED  BY <1>2, <1>3, <1>4, <1>5, <1>6, <1>7, <1>8 DEF Next

\* The steps in which the dispatch loop moves or writes.
LEMMA DispatchMoves ==
  ASSUME [Next]_vars
  PROVE  \/ UNCHANGED <<disp, history, lost>>
         \/ Receive \/ Decide \/ Publish \/ RecordOwner \/ RecordPet
         \/ DispatchPanics
         \/ TransportPanics /\ UNCHANGED <<disp, history, outcome>>
<1> DEFINE Still == UNCHANGED <<disp, history, lost>>
<1> USE DEF coreVars, faultVars
<1>1. CASE ServeStep \/ PingStep \/ DispatchHalts
  BY <1>1 DEF ServeStep, TakeOut, Deliver, TransportHalts, PingStep, PingResult, PingPublish,
     SchedulerHalts, DispatchHalts
<1>2. ASSUME NEW l \in Loop, Type(l) \/ PublishIn(l) \/ GiveUpIn(l) PROVE Still
  BY <1>2 DEF Type, PublishIn, GiveUpIn
<1>3. ASSUME NEW t \in Msg \cup Ping, TurnStep(t) PROVE Still
  BY <1>3 DEF TurnStep, TurnStarts, TurnCloses, WorkerStep, TimerStep
<1>4. ASSUME NEW e \in Edge, Drain(e) PROVE Still
  BY <1>4 DEF Drain
<1>5. ASSUME NEW p \in Ping, PingDue(p) PROVE Still
  BY <1>5 DEF PingDue
<1>6. TransportPanics => UNCHANGED <<disp, history, outcome>>
  BY DEF TransportPanics, arbVars
<1>7. CASE UNCHANGED vars
  BY <1>7 DEF vars
<1> QED  BY <1>1, <1>2, <1>3, <1>4, <1>5, <1>6, <1>7 DEF Next, DispatchStep

\* Writing one line: it is the last, and the others stay where they are.
LEMMA RecordLine ==
  ASSUME DispTyped, disp.msg \in Msg, NEW role \in {"owner", "pet"}, Record(role), Recording
  PROVE  /\ history' = Append(history, [role |-> role, of |-> disp.msg])
         /\ Len(history') = Len(history) + 1 /\ Len(history) \in Nat
         /\ history'[Len(history) + 1] = [role |-> role, of |-> disp.msg]
         /\ \A i \in 1..Len(history) : history'[i] = history[i]
<1> DEFINE line == [role |-> role, of |-> disp.msg]
           Lines == [role : {"owner", "pet"}, of : Msg]
<1>1. history \in Seq(Lines) /\ line \in Lines
  BY DEF DispTyped
<1>2. history' = Append(history, line)
  BY DEF Record, Recording
<1> HIDE DEF line, Lines
<1>3. /\ Len(history') = Len(history) + 1 /\ Len(history) \in Nat
      /\ history'[Len(history) + 1] = line
      /\ \A i \in 1..Len(history) : history'[i] = history[i]
  BY <1>1, <1>2
<1> QED  BY <1>2, <1>3 DEF line

Paired(h) ==
  \A i \in DOMAIN h : h[i].role = "pet" =>
    i > 1 /\ h[i-1] = [role |-> "owner", of |-> h[i].of]

LEMMA HistoryDomain == Basic => Len(history) \in Nat /\ DOMAIN history = 1..Len(history)
BY DEF Basic, TypeOK

LEMMA HistoryStep ==
  Basic /\ HistoryPaired /\ LastIsOwner /\ [Next]_vars => HistoryPaired' /\ LastIsOwner'
<1> SUFFICES ASSUME Basic, HistoryPaired, LastIsOwner, [Next]_vars
             PROVE  HistoryPaired' /\ LastIsOwner'
  OBVIOUS
<1>0. DispTyped /\ Len(history) \in Nat /\ DOMAIN history = 1..Len(history)
      /\ (Recording' => Recording)
  BY BasicParts, HistoryDomain, RecordingShrinks
<1>1. HistoryPaired <=> (~setup.recorderFails => Paired(history))
  BY DEF HistoryPaired, Paired
<1>2. HistoryPaired' <=> (~setup'.recorderFails => Paired(history'))
  BY DEF HistoryPaired, Paired
<1>3. setup' = setup
  BY DEF Next, vars, coreVars, faultVars, ServeStep, TakeOut, Deliver, TransportHalts,
     DispatchStep, Receive, Decide, Publish, RecordOwner, RecordPet, DispatchHalts, PingStep,
     PingResult, PingPublish, SchedulerHalts, TransportPanics, DispatchPanics, Panics, Type,
     PublishIn, GiveUpIn, TurnStep, TurnStarts, TurnCloses, WorkerStep, TimerStep, PingDue, Drain
<1>4. ASSUME history' = history, disp'.at = "pet" => disp' = disp
      PROVE  HistoryPaired' /\ LastIsOwner'
  BY <1>0, <1>1, <1>2, <1>3, <1>4 DEF LastIsOwner
<1>5. CASE Receive \/ Decide \/ Publish \/ DispatchPanics
  <2>1. history' = history /\ disp'.at # "pet"
    BY <1>0, <1>5 DEF Receive, Decide, Publish, DispatchPanics, DispTyped
  <2> QED  BY <1>4, <2>1
<1>6. CASE RecordOwner
  <2>1. Record("owner") /\ disp.msg \in Msg /\ disp'.msg \in {disp.msg, NoMsg}
        /\ (disp'.at = "pet" => disp'.msg = disp.msg)
    BY <1>0, <1>6 DEF RecordOwner, DispTyped
  <2>2. CASE Recording
    <3> DEFINE n == Len(history)
    <3>1. /\ Len(history') = n + 1 /\ n \in Nat
          /\ history'[n + 1] = [role |-> "owner", of |-> disp.msg]
          /\ \A i \in 1..n : history'[i] = history[i]
          /\ history' = Append(history, [role |-> "owner", of |-> disp.msg])
      BY <1>0, <2>1, <2>2, RecordLine
    <3>2. DOMAIN history' = 1..(n + 1)
      BY <3>1
    <3>3. Paired(history) => Paired(history')
      BY <1>0, <3>1, <3>2 DEF Paired
    <3>4. LastIsOwner'
      BY <2>1, <3>1, <3>2 DEF LastIsOwner
    <3> QED  BY <1>1, <1>2, <1>3, <3>3, <3>4
  <2>3. CASE ~Recording
    <3>1. ~Recording'
      BY <1>0, <2>3
    <3>2. ~setup.recorderFails => history' = history
      BY <2>1, <2>3 DEF Record, Recording
    <3> QED  BY <1>1, <1>2, <1>3, <3>1, <3>2 DEF LastIsOwner
  <2> QED  BY <2>2, <2>3
<1>7. CASE RecordPet
  <2>1. Record("pet") /\ disp.at = "pet" /\ disp.msg \in Msg /\ disp'.at # "pet"
    BY <1>0, <1>7 DEF RecordPet, DispTyped
  <2>2. CASE Recording
    <3> DEFINE n == Len(history)
    <3>1. /\ Len(history') = n + 1 /\ n \in Nat
          /\ history'[n + 1] = [role |-> "pet", of |-> disp.msg]
          /\ \A i \in 1..n : history'[i] = history[i]
          /\ history' = Append(history, [role |-> "pet", of |-> disp.msg])
      BY <1>0, <2>1, <2>2, RecordLine
    <3>2. DOMAIN history' = 1..(n + 1)
      BY <3>1
    <3>3. n > 0 /\ history[n] = [role |-> "owner", of |-> disp.msg]
      BY <1>0, <2>1, <2>2, <3>1 DEF LastIsOwner, Basic, TypeOK
    <3>4. Paired(history) => Paired(history')
      BY <1>0, <3>1, <3>2, <3>3 DEF Paired
    <3> QED  BY <1>1, <1>2, <1>3, <2>1, <3>4 DEF LastIsOwner
  <2>3. CASE ~Recording
    <3>1. ~setup.recorderFails => history' = history
      BY <2>1, <2>3 DEF Record, Recording
    <3> QED  BY <1>1, <1>2, <1>3, <2>1, <3>1 DEF LastIsOwner
  <2> QED  BY <2>2, <2>3
<1>8. CASE TransportPanics /\ UNCHANGED <<disp, history, outcome>>
  BY <1>4, <1>8
<1> QED  BY <1>4, <1>5, <1>6, <1>7, <1>8, DispatchMoves

\* With a recorder that does not fail, each pet line stands right after the owner
\* line it answers (dispatch.go:101-116).
THEOREM ConversationHistory == Spec => []HistoryPaired
<1>1. Init => HistoryPaired /\ LastIsOwner
  BY DEF Init, HistoryPaired, LastIsOwner
<1>2. Spec => [](Basic /\ HistoryPaired /\ LastIsOwner)
  BY <1>1, BasicInit, BasicStep, HistoryStep, PTL DEF Spec
<1> QED  BY <1>2, PTL

-----------------------------------------------------------------------------
(* The window of the next turn *)

\* A message is in Submit only while the loop waits there with it.
InSubmit == \A m \in Msg :
  stage[m] \in {"waiting", "closing", "closed"} => disp.at = "submit" /\ disp.msg = m

\* Submit has returned when there is an outcome.
OutcomeDone == \A t \in Msg \cup Ping :
  outcome[t] # "none" => stage[t] \in {"returned", "refused"}

LineOf(role, m) == \E i \in DOMAIN history : history[i] = [role |-> role, of |-> m]

\* A message that was really answered is in the history, or in the hand of the
\* loop, which has yet to write what is missing.
AnsweredIsKept ==
  Recording => \A m \in Msg \ lost : outcome[m] = "reply" =>
    \/ disp.msg = m /\ disp.at \in {"submit", "publish", "owner"}
    \/ disp.msg = m /\ disp.at = "pet" /\ LineOf("owner", m)
    \/ LineOf("owner", m) /\ LineOf("pet", m)

LEMMA TurnsApart == Msg \cap Ping = {} /\ NoMsg \notin Msg \cup Ping
BY ConversationAssumption DEF Msg, Ping, NoMsg

LEMMA ArbFunctions ==
  ASSUME Basic
  PROVE  /\ stage \in [Msg \cup Ping -> Arb!Stage]
         /\ outcome \in [Msg \cup Ping -> Arb!OutcomeKind]
BY DEF Basic, TypeOK, Arb!ArbTypeOK

\* Who changes the stage and the outcome of a turn.
LEMMA SubmitMoves ==
  ASSUME Basic, [Next]_vars
  PROVE  \/ UNCHANGED <<stage, outcome>>
         \/ /\ UNCHANGED coreVars
            /\ \E t \in Msg \cup Ping :
                 \/ Calls(t) /\ (Arb!Admit(t) \/ Arb!Refuse(t))
                 \/ Arb!TakeResult(t) \/ Arb!TakeDeadline(t) \/ Arb!Release(t) \/ Arb!Return(t)
<1>1. CASE ServeStep \/ DispatchStep \/ PingStep
  BY <1>1 DEF ServeStep, TakeOut, Deliver, TransportHalts, DispatchStep, Receive, Decide, arbVars,
     Publish, RecordOwner, RecordPet, DispatchHalts, PingStep, PingResult, PingPublish,
     SchedulerHalts
<1>2. ASSUME NEW l \in Loop, Type(l) \/ PublishIn(l) \/ GiveUpIn(l)
      PROVE  UNCHANGED <<stage, outcome>>
  BY <1>2 DEF Type, PublishIn, GiveUpIn, arbVars
<1>3. ASSUME NEW t \in Msg \cup Ping, WorkerStep(t) \/ TimerStep(t)
      PROVE  UNCHANGED <<stage, outcome>>
  BY <1>3 DEF WorkerStep, TimerStep, Arb!WorkerDone, Arb!Expire
<1>4. ASSUME NEW e \in Edge, Drain(e) PROVE UNCHANGED <<stage, outcome>>
  BY <1>4 DEF Drain
<1>5. ASSUME NEW p \in Ping, PingDue(p) PROVE UNCHANGED <<stage, outcome>>
  BY <1>5 DEF PingDue, arbVars
<1>6. CASE TransportPanics \/ DispatchPanics \/ UNCHANGED vars
  BY <1>6 DEF TransportPanics, DispatchPanics, arbVars, vars
<1>7. ASSUME NEW t \in Msg \cup Ping, TurnStarts(t) \/ TurnCloses(t)
      PROVE  /\ UNCHANGED coreVars
             /\ \/ Calls(t) /\ (Arb!Admit(t) \/ Arb!Refuse(t))
                \/ Arb!TakeResult(t) \/ Arb!TakeDeadline(t) \/ Arb!Release(t) \/ Arb!Return(t)
  BY <1>7 DEF TurnStarts, TurnCloses
<1> QED  BY <1>1, <1>2, <1>3, <1>4, <1>5, <1>6, <1>7 DEF Next, TurnStep

LEMMA SubmitStep == Basic /\ InSubmit /\ OutcomeDone /\ [Next]_vars => InSubmit' /\ OutcomeDone'
<1> SUFFICES ASSUME Basic, InSubmit, OutcomeDone, [Next]_vars PROVE InSubmit' /\ OutcomeDone'
  OBVIOUS
<1>0. /\ stage \in [Msg \cup Ping -> Arb!Stage]
      /\ outcome \in [Msg \cup Ping -> Arb!OutcomeKind]
      /\ DispTyped /\ PingTyped /\ Msg \cap Ping = {}
  BY ArbFunctions, BasicParts, TurnsApart
<1>1. CASE UNCHANGED <<stage, outcome>>
  <2>1. OutcomeDone'
    BY <1>1 DEF OutcomeDone
  <2>2. ASSUME UNCHANGED disp PROVE InSubmit'
    BY <1>1, <2>2 DEF InSubmit
  <2>3. ASSUME disp.at # "submit" PROVE InSubmit'
    BY <1>1, <2>3 DEF InSubmit
  <2>4. CASE Decide
    <3>1. stage[disp.msg] \in {"returned", "refused"}
      BY <1>0, <2>4 DEF Decide, OutcomeDone, DispTyped
    <3> QED  BY <1>1, <2>1, <3>1 DEF InSubmit
  <2>5. CASE DispatchPanics
    <3>1. disp.at = "submit" => stage[disp.msg] = "new"
      BY <2>5 DEF DispatchPanics, HasMessage
    <3> QED  BY <1>1, <2>1, <3>1 DEF InSubmit
  <2>6. CASE Receive \/ Publish \/ RecordOwner \/ RecordPet
    BY <2>1, <2>3, <2>6 DEF Receive, Publish, RecordOwner, RecordPet
  <2> QED  BY <2>1, <2>2, <2>4, <2>5, <2>6, DispatchMoves
<1>2. ASSUME UNCHANGED coreVars, NEW t \in Msg \cup Ping, Calls(t), Arb!Admit(t) \/ Arb!Refuse(t)
      PROVE  InSubmit' /\ OutcomeDone'
  <2>1. disp' = disp
    BY <1>2 DEF coreVars
  <2>2. t \in Msg => disp.at = "submit" /\ disp.msg = t
    BY <1>0, <1>2 DEF Calls, PingTyped
  <2>3. \A u \in Msg \cup Ping : u # t => stage'[u] = stage[u] /\ outcome'[u] = outcome[u]
    BY <1>0, <1>2 DEF Arb!Admit, Arb!Refuse
  <2>4. outcome'[t] # "none" => stage'[t] = "refused"
    BY <1>0, <1>2 DEF Arb!Admit, Arb!Refuse, OutcomeDone
  <2> QED  BY <2>1, <2>2, <2>3, <2>4 DEF InSubmit, OutcomeDone
<1>3. ASSUME UNCHANGED coreVars, NEW t \in Msg \cup Ping,
             Arb!TakeResult(t) \/ Arb!TakeDeadline(t) \/ Arb!Release(t) \/ Arb!Return(t)
      PROVE  InSubmit' /\ OutcomeDone'
  <2>1. disp' = disp
    BY <1>3 DEF coreVars
  <2>2. stage[t] \in {"waiting", "closing", "closed"}
    BY <1>3 DEF Arb!TakeResult, Arb!TakeDeadline, Arb!Release, Arb!Return
  <2>3. \A u \in Msg \cup Ping : u # t => stage'[u] = stage[u] /\ outcome'[u] = outcome[u]
    BY <1>0, <1>3 DEF Arb!TakeResult, Arb!TakeDeadline, Arb!Release, Arb!Return
  <2>4. outcome'[t] # "none" => stage'[t] = "returned"
    BY <1>0, <1>3, <2>2 DEF Arb!TakeResult, Arb!TakeDeadline, Arb!Release, Arb!Return, OutcomeDone
  <2> QED  BY <2>1, <2>2, <2>3, <2>4 DEF InSubmit, OutcomeDone
<1> QED  BY <1>1, <1>2, <1>3, SubmitMoves

\* A step of Submit gives an outcome only to the message in hand.
LEMMA OutcomeInHand ==
  ASSUME Basic, InSubmit, [Next]_vars, NEW m \in Msg, outcome'[m] # outcome[m]
  PROVE  disp' = disp /\ history' = history /\ disp.at = "submit" /\ disp.msg = m
<1>0. /\ stage \in [Msg \cup Ping -> Arb!Stage]
      /\ outcome \in [Msg \cup Ping -> Arb!OutcomeKind]
      /\ PingTyped /\ Msg \cap Ping = {}
  BY ArbFunctions, BasicParts, TurnsApart
<1>1. PICK t \in Msg \cup Ping :
        \/ Calls(t) /\ (Arb!Admit(t) \/ Arb!Refuse(t))
        \/ Arb!TakeResult(t) \/ Arb!TakeDeadline(t) \/ Arb!Release(t) \/ Arb!Return(t)
  BY SubmitMoves
<1>2. UNCHANGED coreVars
  BY SubmitMoves
<1>3. t = m /\ (Calls(t) \/ stage[t] = "closed")
  BY <1>0, <1>1 DEF Arb!Admit, Arb!Refuse, Arb!TakeResult, Arb!TakeDeadline, Arb!Release,
     Arb!Return
<1> QED  BY <1>0, <1>2, <1>3 DEF coreVars, InSubmit, Calls, PingTyped

\* Nothing that was recorded is taken back.
LEMMA LinesStay ==
  ASSUME Basic, [Next]_vars, NEW role, NEW m \in Msg, LineOf(role, m)
  PROVE  LineOf(role, m)'
<1>0. DispTyped
  BY BasicParts
<1>1. ASSUME history' = history PROVE LineOf(role, m)'
  BY <1>1 DEF LineOf
<1>2. ASSUME NEW r \in {"owner", "pet"}, Record(r), disp.msg \in Msg PROVE LineOf(role, m)'
  <2>1. CASE history' = history
    BY <1>1, <2>1
  <2>2. CASE Recording
    <3>1. PICK i \in 1..Len(history) : history[i] = [role |-> role, of |-> m]
      BY <1>0 DEF LineOf, DispTyped
    <3>2. /\ Len(history') = Len(history) + 1 /\ Len(history) \in Nat /\ history'[i] = history[i]
          /\ history' = Append(history, [role |-> r, of |-> disp.msg])
      BY <1>0, <1>2, <2>2, <3>1, RecordLine
    <3>3. i \in DOMAIN history'
      BY <3>1, <3>2
    <3> QED  BY <3>1, <3>2, <3>3 DEF LineOf
  <2>3. CASE ~Recording /\ history' # history
    <3>1. "dispatch" \notin cancelled /\ setup.recorderFails
          /\ history' = Append(history, [role |-> r, of |-> disp.msg])
      BY <1>2, <2>3 DEF Record, Recording
    <3> DEFINE line == [role |-> r, of |-> disp.msg]
               Lines == [role : {"owner", "pet"}, of : Msg]
    <3>2. line \in Lines /\ history \in Seq(Lines) /\ history' = Append(history, line)
      BY <1>0, <1>2, <3>1 DEF DispTyped
    <3> HIDE DEF line, Lines
    <3>3. \A i \in DOMAIN history : i \in DOMAIN history' /\ history'[i] = history[i]
      BY <3>2
    <3> QED  BY <3>3 DEF LineOf
  <2> QED  BY <2>1, <2>2, <2>3
<1>3. CASE RecordOwner \/ RecordPet
  BY <1>0, <1>2, <1>3 DEF RecordOwner, RecordPet, DispTyped
<1>4. CASE Receive \/ Decide \/ Publish \/ DispatchPanics
  BY <1>1, <1>4 DEF Receive, Decide, Publish, DispatchPanics
<1> QED  BY <1>1, <1>3, <1>4, DispatchMoves

LEMMA RecordedLine ==
  ASSUME DispTyped, NEW m \in Msg, disp.msg = m, NEW role \in {"owner", "pet"}, Record(role),
         Recording
  PROVE  LineOf(role, m)'
<1>1. /\ Len(history') = Len(history) + 1 /\ Len(history) \in Nat
      /\ history'[Len(history) + 1] = [role |-> role, of |-> m]
      /\ history' = Append(history, [role |-> role, of |-> m])
  BY RecordLine
<1>2. Len(history) + 1 \in DOMAIN history'
  BY <1>1
<1> QED  BY <1>1, <1>2 DEF LineOf

LEMMA KeptStep == Basic /\ InSubmit /\ AnsweredIsKept /\ [Next]_vars => AnsweredIsKept'
<1> DEFINE Kept(m) == \/ disp.msg = m /\ disp.at \in {"submit", "publish", "owner"}
                      \/ disp.msg = m /\ disp.at = "pet" /\ LineOf("owner", m)
                      \/ LineOf("owner", m) /\ LineOf("pet", m)
<1> SUFFICES ASSUME Basic, InSubmit, AnsweredIsKept, [Next]_vars,
                    Recording', NEW m \in Msg, m \notin lost', outcome'[m] = "reply"
             PROVE  Kept(m)'
  BY DEF AnsweredIsKept
<1>0. DispTyped /\ Recording
  BY BasicParts, RecordingShrinks
<1>1. lost \subseteq lost'
  BY DispatchMoves DEF Receive, Decide, Publish, RecordOwner, RecordPet, DispatchPanics,
     TransportPanics, faultVars, coreVars
<1>2. CASE outcome'[m] # outcome[m]
  BY <1>2, OutcomeInHand
<1>3. CASE outcome'[m] = outcome[m]
  <2>1. Kept(m) /\ outcome[m] = "reply"
    BY <1>0, <1>1, <1>3 DEF AnsweredIsKept
  <2>2. \A role : LineOf(role, m) => LineOf(role, m)'
    BY LinesStay
  <2>3. CASE UNCHANGED disp
    BY <2>1, <2>2, <2>3
  <2>4. CASE Receive
    BY <2>1, <2>2, <2>4 DEF Receive
  <2>5. CASE Decide
    BY <1>0, <2>1, <2>2, <2>5 DEF Decide, DispTyped
  <2>6. CASE Publish
    BY <1>0, <2>1, <2>2, <2>6 DEF Publish, DispTyped
  <2>7. CASE RecordOwner
    <3>1. disp.msg = m => LineOf("owner", m)'
      BY <1>0, <2>7, RecordedLine DEF RecordOwner
    <3>2. disp.msg = m => disp'.msg = m /\ disp'.at = "pet"
      BY <1>0, <2>1, <2>7 DEF RecordOwner, DispTyped
    <3> QED  BY <2>1, <2>2, <2>7, <3>1, <3>2 DEF RecordOwner
  <2>8. CASE RecordPet
    <3>1. disp.msg = m => LineOf("pet", m)'
      BY <1>0, <2>8, RecordedLine DEF RecordPet
    <3> QED  BY <2>1, <2>2, <2>8, <3>1 DEF RecordPet
  <2>9. CASE DispatchPanics
    <3>1. disp.msg # m
      BY <2>9 DEF DispatchPanics
    <3> QED  BY <2>1, <2>2, <3>1
  <2> QED  BY <2>3, <2>4, <2>5, <2>6, <2>7, <2>8, <2>9, DispatchMoves
<1> QED  BY <1>2, <1>3

\* When the worker starts on a message, whatever was dispatched before and really
\* answered is in the history (dispatch.go:101-102).
THEOREM ConversationWindow == Spec => []WindowComplete
<1>1. Basic /\ InSubmit /\ AnsweredIsKept => WindowComplete
  <2> SUFFICES ASSUME Basic, InSubmit, AnsweredIsKept, Recording, NEW m \in Msg, NEW n \in Msg,
                      Arb!Holds(n), m \notin lost \cup {n}, outcome[m] = "reply",
                      NEW role \in {"owner", "pet"}
               PROVE  \E i \in DOMAIN history : history[i] = [role |-> role, of |-> m]
    BY DEF WindowComplete, Recording
  <2>1. disp.at = "submit" /\ disp.msg = n
    BY DEF InSubmit, Arb!Holds
  <2> QED  BY <2>1 DEF AnsweredIsKept, LineOf
<1>2. Init => InSubmit /\ OutcomeDone /\ AnsweredIsKept
  BY DEF Init, Arb!ArbInit, InSubmit, OutcomeDone, AnsweredIsKept
<1>3. Spec => [](Basic /\ InSubmit /\ OutcomeDone /\ AnsweredIsKept)
  BY <1>2, BasicInit, BasicStep, SubmitStep, KeptStep, PTL DEF Spec
<1> QED  BY <1>1, <1>3, PTL

-----------------------------------------------------------------------------
(* The order of the answers *)

\* How a message is related to one behind it: with a single read loop they keep
\* the owner's order, with more they are at least different.
Ahead(a, b) == IF loops = 1 THEN a < b ELSE a # b

\* The messages at each station of the way from a read loop back to the owner.
Saids == {m \in Msg : \E i \in DOMAIN said : said[i].to = m}
Sendings == {m \in Msg : sending.to = m}
Outs == {m \in Msg : \E i \in DOMAIN outbound : outbound[i].to = m}
Hands == {m \in Msg : disp.at \in {"submit", "publish"} /\ disp.msg = m}
Ins == {m \in Msg : \E i \in DOMAIN inbound : inbound[i] = m}
Posts == {m \in Msg : \E l \in Loop : posting[l] = m}

AllAhead(A, B) == \A a \in A, b \in B : Ahead(a, b)

StationsInOrder ==
  /\ AllAhead(Saids, Sendings \cup Outs \cup Hands \cup Ins \cup Posts)
  /\ AllAhead(Sendings, Outs \cup Hands \cup Ins \cup Posts)
  /\ AllAhead(Outs, Hands \cup Ins \cup Posts)
  /\ AllAhead(Hands, Ins \cup Posts)
  /\ AllAhead(Ins, Posts)
AllTyped == \A m \in Saids \cup Sendings \cup Outs \cup Hands \cup Ins \cup Posts : m <= typed

SaidInOrder == \A i, j \in DOMAIN said :
  i < j /\ IsAnswer(said[i]) /\ IsAnswer(said[j]) => Ahead(said[i].to, said[j].to)
OutInOrder == \A i, j \in DOMAIN outbound :
  i < j /\ IsAnswer(outbound[i]) /\ IsAnswer(outbound[j]) => Ahead(outbound[i].to, outbound[j].to)
InInOrder == \A i, j \in DOMAIN inbound : i < j => Ahead(inbound[i], inbound[j])

\* Two loops are publishing only after a restart, and never the same message.
PostsApart == \A k, l \in Loop :
  k # l /\ posting[k] # NoMsg /\ posting[l] # NoMsg => loops > 1 /\ posting[k] # posting[l]

Pipeline == /\ StationsInOrder /\ AllTyped
            /\ SaidInOrder /\ OutInOrder /\ InInOrder /\ PostsApart

LEMMA PipelineInit == Init => Pipeline
<1> SUFFICES ASSUME Init PROVE Pipeline
  OBVIOUS
<1>1. NoMsg \notin Msg
  BY TurnsApart
<1>2. Saids = {} /\ Sendings = {} /\ Outs = {} /\ Hands = {} /\ Ins = {} /\ Posts = {}
  BY <1>1 DEF Init, Saids, Sendings, Outs, Hands, Ins, Posts, NoEnvelope
<1>3. StationsInOrder /\ AllTyped
  BY <1>2 DEF StationsInOrder, AllTyped, AllAhead
<1> QED
  BY <1>3 DEF Init, Pipeline, SaidInOrder, OutInOrder, InInOrder, PostsApart

\* Nothing that leaves a station disturbs the order, nor does a restart.
LEMMA PipelineShrinks ==
  ASSUME Basic, Pipeline, typed' = typed, loops' = loops \/ loops' = loops + 1,
         UNCHANGED <<said, outbound, inbound, posting>>,
         Sendings' \subseteq Sendings, Hands' \subseteq Hands
  PROVE  Pipeline'
<1>1. Saids' = Saids /\ Outs' = Outs /\ Ins' = Ins /\ Posts' = Posts
  BY DEF Saids, Outs, Ins, Posts
<1>2. \A a, b \in Msg : Ahead(a, b) => Ahead(a, b)'
  BY ConversationAssumption DEF Basic, TypeOK, Ahead, Loop, Msg
<1>3. (Saids \cup Sendings \cup Outs \cup Hands \cup Ins \cup Posts) \subseteq Msg
  BY DEF Saids, Sendings, Outs, Hands, Ins, Posts
<1>4. StationsInOrder'
  BY <1>1, <1>2, <1>3 DEF Pipeline, StationsInOrder, AllAhead
<1>5. AllTyped'
  BY <1>1 DEF Pipeline, AllTyped
<1>6. SaidInOrder' /\ OutInOrder'
  BY <1>2 DEF Pipeline, SaidInOrder, OutInOrder, IsAnswer
<1>7. InInOrder'
  BY <1>2 DEF Pipeline, InInOrder, Basic, TypeOK
<1>8. PostsApart'
  BY DEF Pipeline, PostsApart, Basic, TypeOK, Loop
<1> QED  BY <1>4, <1>5, <1>6, <1>7, <1>8 DEF Pipeline

\* A line that is read is behind everything before it.
LEMMA PipelineType ==
  ASSUME Basic, Pipeline, NEW l \in Loop, Type(l)
  PROVE  Pipeline'
<1> DEFINE new == typed + 1
<1>0. /\ posting \in [Loop -> Msg \cup {NoMsg}] /\ typed \in Nat /\ loops \in Loop
      /\ posting' = [posting EXCEPT ![l] = new] /\ typed' = new /\ new \in Msg
      /\ loops' = loops /\ l <= loops /\ NoMsg \notin Msg
      /\ UNCHANGED <<said, sending, outbound, disp, inbound>>
  <2>1. typed + 1 \in Msg
    BY BasicParts, SetupBounds, ConversationAssumption DEF Type, IoTyped, Msg
  <2> QED  BY <2>1, TurnsApart DEF Type, Basic, TypeOK, coreVars
<1>1. /\ Saids' = Saids /\ Sendings' = Sendings /\ Outs' = Outs /\ Hands' = Hands /\ Ins' = Ins
      /\ Posts' \subseteq Posts \cup {new}
  BY <1>0 DEF Saids, Sendings, Outs, Hands, Ins, Posts
<1>2. (Saids \cup Sendings \cup Outs \cup Hands \cup Ins \cup Posts) \subseteq Msg
  BY DEF Saids, Sendings, Outs, Hands, Ins, Posts
<1>3. \A a \in Saids \cup Sendings \cup Outs \cup Hands \cup Ins \cup Posts : a < new
  BY <1>0, <1>2 DEF Pipeline, AllTyped, Msg
<1>4. \A a \in Saids \cup Sendings \cup Outs \cup Hands \cup Ins \cup Posts : Ahead(a, new)
  BY <1>0, <1>2, <1>3 DEF Ahead, Msg
<1>5. \A a, b : Ahead(a, b)' <=> Ahead(a, b)
  BY <1>0 DEF Ahead
<1>6. StationsInOrder'
  BY <1>1, <1>4, <1>5 DEF Pipeline, StationsInOrder, AllAhead
<1>7. AllTyped'
  BY <1>0, <1>1, <1>2, <1>3 DEF Pipeline, AllTyped, Msg
<1>8. SaidInOrder' /\ OutInOrder' /\ InInOrder'
  BY <1>0, <1>5 DEF Pipeline, SaidInOrder, OutInOrder, InInOrder
<1>9. PostsApart'
  <2> SUFFICES ASSUME NEW j \in Loop, NEW k \in Loop, j # k,
                      posting'[j] # NoMsg, posting'[k] # NoMsg
               PROVE  loops > 1 /\ posting'[j] # posting'[k]
    BY <1>0 DEF PostsApart
  <2>1. CASE j # l /\ k # l
    BY <1>0, <2>1 DEF Pipeline, PostsApart
  <2>2. \A i \in Loop : posting[i] # NoMsg => posting[i] \in Posts /\ i <= loops
    BY <1>0 DEF Posts, Basic, LoopsCounted, Loop
  <2>3. \A i \in Loop : i # l /\ posting[i] # NoMsg => posting[i] # new /\ loops > 1
    BY <1>0, <1>2, <1>3, <2>2 DEF Loop, Msg
  <2> QED  BY <1>0, <2>1, <2>3
<1> QED  BY <1>6, <1>7, <1>8, <1>9 DEF Pipeline

\* A loop that stops publishing, whatever became of the message, leaves the others
\* as they were.
LEMMA LoopDone ==
  ASSUME Basic, Pipeline, NEW l \in Loop, posting[l] # NoMsg, loops' = loops,
         posting' = [posting EXCEPT ![l] = NoMsg]
  PROVE  /\ PostsApart' /\ Posts' \subseteq Posts /\ posting[l] \in Posts
         /\ \A m \in Posts' : Ahead(posting[l], m)
<1>0. posting \in [Loop -> Msg \cup {NoMsg}]
  BY DEF Basic, TypeOK
<1>1. posting[l] \in Posts
  BY <1>0 DEF Posts
<1>2. Posts' \subseteq Posts
  BY <1>0, TurnsApart DEF Posts
<1>3. PostsApart'
  BY <1>0 DEF Pipeline, PostsApart
<1>4. ASSUME NEW m \in Posts' PROVE Ahead(posting[l], m)
  <2>1. PICK k \in Loop : posting'[k] = m /\ m \in Msg
    BY <1>4 DEF Posts
  <2>2. k # l /\ posting[k] = m /\ m # NoMsg
    BY <1>0, <2>1, TurnsApart
  <2> QED  BY <2>2 DEF Pipeline, PostsApart, Ahead
<1> QED  BY <1>1, <1>2, <1>3, <1>4

LEMMA PipelineGiveUp ==
  ASSUME Basic, Pipeline, NEW l \in Loop, GiveUpIn(l)
  PROVE  Pipeline'
<1>0. /\ loops' = loops /\ typed' = typed /\ posting[l] # NoMsg
      /\ posting' = [posting EXCEPT ![l] = NoMsg]
      /\ UNCHANGED <<said, sending, outbound, disp, inbound>>
  BY DEF GiveUpIn, coreVars
<1>1. PostsApart' /\ Posts' \subseteq Posts
  BY <1>0, LoopDone
<1>2. Saids' = Saids /\ Sendings' = Sendings /\ Outs' = Outs /\ Hands' = Hands /\ Ins' = Ins
  BY <1>0 DEF Saids, Sendings, Outs, Hands, Ins
<1>3. \A a, b : Ahead(a, b)' <=> Ahead(a, b)
  BY <1>0 DEF Ahead
<1>4. StationsInOrder' /\ AllTyped'
  BY <1>0, <1>1, <1>2, <1>3 DEF Pipeline, StationsInOrder, AllAhead, AllTyped
<1>5. SaidInOrder' /\ OutInOrder' /\ InInOrder'
  BY <1>0, <1>3 DEF Pipeline, SaidInOrder, OutInOrder, InInOrder
<1> QED  BY <1>1, <1>4, <1>5 DEF Pipeline

\* A message that is published goes to the end of the inbound channel.
LEMMA PipelinePublishIn ==
  ASSUME Basic, Pipeline, NEW l \in Loop, PublishIn(l)
  PROVE  Pipeline'
<1> DEFINE m == posting[l]
<1>0. /\ loops' = loops /\ typed' = typed /\ m # NoMsg /\ m \in Msg
      /\ posting' = [posting EXCEPT ![l] = NoMsg]
      /\ inbound' = Append(inbound, m) /\ inbound \in Seq(Msg)
      /\ UNCHANGED <<said, sending, outbound, disp>>
  BY DEF PublishIn, coreVars, Basic, TypeOK
<1>1. PostsApart' /\ Posts' \subseteq Posts /\ m \in Posts /\ \A b \in Posts' : Ahead(m, b)
  BY <1>0, LoopDone
<1> HIDE DEF m
<1>2. /\ Len(inbound') = Len(inbound) + 1 /\ Len(inbound) \in Nat
      /\ DOMAIN inbound = 1..Len(inbound) /\ DOMAIN inbound' = 1..(Len(inbound) + 1)
      /\ inbound'[Len(inbound) + 1] = m
      /\ \A i \in 1..Len(inbound) : inbound'[i] = inbound[i]
  BY <1>0
<1>3. Ins' \subseteq Ins \cup {m}
  BY <1>2 DEF Ins
<1>4. Saids' = Saids /\ Sendings' = Sendings /\ Outs' = Outs /\ Hands' = Hands
  BY <1>0 DEF Saids, Sendings, Outs, Hands
<1>5. \A a, b : Ahead(a, b)' <=> Ahead(a, b)
  BY <1>0 DEF Ahead
<1>6. StationsInOrder'
  BY <1>1, <1>3, <1>4, <1>5 DEF Pipeline, StationsInOrder, AllAhead
<1>7. AllTyped'
  BY <1>0, <1>1, <1>3, <1>4 DEF Pipeline, AllTyped
<1>8. SaidInOrder' /\ OutInOrder'
  BY <1>0, <1>5 DEF Pipeline, SaidInOrder, OutInOrder
<1>9. InInOrder'
  <2>1. \A i \in DOMAIN inbound : inbound[i] \in Ins
    BY <1>0 DEF Ins
  <2>2. \A i \in DOMAIN inbound : Ahead(inbound[i], m)
    BY <1>1, <2>1 DEF Pipeline, StationsInOrder, AllAhead
  <2>3. \A i, j \in DOMAIN inbound' : i < j => Ahead(inbound'[i], inbound'[j])
    BY <1>2, <2>2 DEF Pipeline, InInOrder
  <2> QED  BY <1>5, <2>3 DEF InInOrder
<1> QED  BY <1>1, <1>6, <1>7, <1>8, <1>9 DEF Pipeline

\* The loop takes the oldest message of the inbound channel.
LEMMA PipelineReceive ==
  ASSUME Basic, Pipeline, Receive
  PROVE  Pipeline'
<1> PICK h : h = Head(inbound)
  OBVIOUS
<1>0. /\ loops' = loops /\ typed' = typed
      /\ disp.at = "recv" /\ disp' = [at |-> "submit", msg |-> h]
      /\ inbound \in Seq(Msg) /\ inbound # <<>> /\ inbound' = Tail(inbound)
      /\ UNCHANGED <<said, sending, outbound, posting>>
  BY DEF Receive, faultVars, Basic, TypeOK
<1>1. /\ Len(inbound) \in Nat \ {0} /\ DOMAIN inbound = 1..Len(inbound)
      /\ DOMAIN inbound' = 1..(Len(inbound) - 1) /\ inbound[1] = h /\ h \in Msg
      /\ \A i \in DOMAIN inbound' : i + 1 \in DOMAIN inbound /\ inbound'[i] = inbound[i + 1]
  BY <1>0
<1>2. Ins' \subseteq Ins /\ h \in Ins
  BY <1>1 DEF Ins
<1>3. Hands' = {h}
  BY <1>0, <1>1 DEF Hands
<1>4. Saids' = Saids /\ Sendings' = Sendings /\ Outs' = Outs /\ Posts' = Posts
  BY <1>0 DEF Saids, Sendings, Outs, Posts
<1>5. \A a, b : Ahead(a, b)' <=> Ahead(a, b)
  BY <1>0 DEF Ahead
<1>6. \A m \in Ins' : Ahead(h, m)
  <2> SUFFICES ASSUME NEW i \in DOMAIN inbound' PROVE Ahead(h, inbound'[i])
    BY DEF Ins
  <2>1. 1 \in DOMAIN inbound /\ 1 < i + 1
    BY <1>1
  <2> QED  BY <1>1, <2>1 DEF Pipeline, InInOrder
<1>7. StationsInOrder'
  BY <1>2, <1>3, <1>4, <1>5, <1>6 DEF Pipeline, StationsInOrder, AllAhead
<1>8. AllTyped'
  BY <1>0, <1>2, <1>3, <1>4 DEF Pipeline, AllTyped
<1>9. SaidInOrder' /\ OutInOrder' /\ PostsApart'
  BY <1>0, <1>5 DEF Pipeline, SaidInOrder, OutInOrder, PostsApart
<1>10. InInOrder'
  BY <1>1, <1>5 DEF Pipeline, InInOrder
<1> QED  BY <1>7, <1>8, <1>9, <1>10 DEF Pipeline

\* The transport takes the oldest envelope of the outbound channel.
LEMMA PipelineTakeOut ==
  ASSUME Basic, Pipeline, TakeOut
  PROVE  Pipeline'
<1> PICK h : h = Head(outbound)
  OBVIOUS
<1>0. /\ loops' = loops /\ typed' = typed /\ sending' = h
      /\ outbound \in Seq(Envelope) /\ outbound # <<>> /\ outbound' = Tail(outbound)
      /\ UNCHANGED <<said, disp, inbound, posting>>
  BY DEF TakeOut, coreVars, Basic, TypeOK
<1>1. /\ Len(outbound) \in Nat \ {0} /\ DOMAIN outbound = 1..Len(outbound)
      /\ DOMAIN outbound' = 1..(Len(outbound) - 1) /\ outbound[1] = h
      /\ \A i \in DOMAIN outbound' : i + 1 \in DOMAIN outbound /\ outbound'[i] = outbound[i + 1]
  BY <1>0
<1>2. Outs' \subseteq Outs
  BY <1>1 DEF Outs
<1>3. Sendings' = {m \in Msg : h.to = m} /\ Sendings' \subseteq Outs
  <2>1. 1 \in DOMAIN outbound
    BY <1>1
  <2> QED  BY <1>0, <1>1, <2>1 DEF Sendings, Outs
<1>4. Saids' = Saids /\ Hands' = Hands /\ Ins' = Ins /\ Posts' = Posts
  BY <1>0 DEF Saids, Hands, Ins, Posts
<1>5. \A a, b : Ahead(a, b)' <=> Ahead(a, b)
  BY <1>0 DEF Ahead
<1>6. AllAhead(Sendings', Outs')
  <2> SUFFICES ASSUME NEW m \in Msg, h.to = m, NEW i \in DOMAIN outbound', outbound'[i].to \in Msg
               PROVE  Ahead(m, outbound'[i].to)
    BY <1>3 DEF Outs, AllAhead
  <2>1. 1 \in DOMAIN outbound /\ 1 < i + 1
    BY <1>1
  <2> QED  BY <1>1, <2>1 DEF Pipeline, OutInOrder, IsAnswer
<1>7. StationsInOrder'
  BY <1>2, <1>3, <1>4, <1>5, <1>6 DEF Pipeline, StationsInOrder, AllAhead
<1>8. AllTyped'
  BY <1>0, <1>2, <1>3, <1>4 DEF Pipeline, AllTyped
<1>9. SaidInOrder' /\ InInOrder' /\ PostsApart'
  BY <1>0, <1>5 DEF Pipeline, SaidInOrder, InInOrder, PostsApart
<1>10. OutInOrder'
  BY <1>1, <1>5 DEF Pipeline, OutInOrder, IsAnswer
<1> QED  BY <1>7, <1>8, <1>9, <1>10 DEF Pipeline

\* What is delivered comes after everything said before.
LEMMA PipelineDeliver ==
  ASSUME Basic, Pipeline, Deliver
  PROVE  Pipeline'
<1>0. /\ loops' = loops /\ typed' = typed /\ sending' = NoEnvelope
      /\ sending \in Envelope /\ said \in Seq(Envelope)
      /\ UNCHANGED <<outbound, disp, inbound, posting>>
  BY DEF Deliver, coreVars, Basic, TypeOK
<1>1. Sendings' = {}
  BY <1>0, TurnsApart DEF Sendings, NoEnvelope
<1>2. CASE said' = said
  BY <1>0, <1>1, <1>2, PipelineShrinks DEF Hands
<1>3. CASE said' = Append(said, sending)
  <2>1. /\ Len(said) \in Nat /\ DOMAIN said = 1..Len(said) /\ DOMAIN said' = 1..(Len(said) + 1)
        /\ said'[Len(said) + 1] = sending
        /\ \A i \in 1..Len(said) : said'[i] = said[i]
    BY <1>0, <1>3
  <2>2. Saids' \subseteq Saids \cup Sendings
    BY <2>1 DEF Saids, Sendings
  <2>3. Outs' = Outs /\ Hands' = Hands /\ Ins' = Ins /\ Posts' = Posts
    BY <1>0 DEF Outs, Hands, Ins, Posts
  <2>4. \A a, b : Ahead(a, b)' <=> Ahead(a, b)
    BY <1>0 DEF Ahead
  <2>5. StationsInOrder'
    BY <1>1, <2>2, <2>3, <2>4 DEF Pipeline, StationsInOrder, AllAhead
  <2>6. AllTyped'
    BY <1>0, <1>1, <2>2, <2>3 DEF Pipeline, AllTyped
  <2>7. OutInOrder' /\ InInOrder' /\ PostsApart'
    BY <1>0, <2>4 DEF Pipeline, OutInOrder, InInOrder, PostsApart
  <2>8. \A i \in DOMAIN said :
          IsAnswer(said[i]) /\ IsAnswer(sending) => Ahead(said[i].to, sending.to)
    BY DEF Pipeline, StationsInOrder, AllAhead, Saids, Sendings, IsAnswer
  <2>9. \A i, j \in DOMAIN said' :
          i < j /\ IsAnswer(said'[i]) /\ IsAnswer(said'[j]) => Ahead(said'[i].to, said'[j].to)
    BY <2>1, <2>8 DEF Pipeline, SaidInOrder
  <2>10. SaidInOrder'
    BY <2>4, <2>9 DEF SaidInOrder, IsAnswer
  <2> QED  BY <2>5, <2>6, <2>7, <2>10 DEF Pipeline
<1> QED  BY <1>2, <1>3 DEF Deliver

\* An edge puts its envelope at the end of the outbound channel: the loop that of
\* the message in hand, the job that of a ping.
LEMMA PipelineSendOut ==
  ASSUME Basic, Pipeline, NEW edge, NEW t \in Msg \cup Ping, SendOut(edge, t),
         t \in Msg => t \in Hands /\ Hands' = {}, t \notin Msg => Hands' = Hands,
         UNCHANGED <<typed, loops, said, sending, inbound, posting>>
  PROVE  Pipeline'
<1> PICK e : e = [to |-> t, text |-> ReplyText(t)]
  OBVIOUS
<1>0. e.to = t /\ e \in Envelope /\ outbound \in Seq(Envelope)
  BY DEF Envelope, ReplyText, Basic, TypeOK
<1>1. Hands' \subseteq Hands
  OBVIOUS
<1>2. CASE outbound' = outbound
  BY <1>1, <1>2, PipelineShrinks DEF Sendings
<1>3. CASE outbound' = Append(outbound, e)
  <2>1. /\ Len(outbound) \in Nat /\ DOMAIN outbound = 1..Len(outbound)
        /\ DOMAIN outbound' = 1..(Len(outbound) + 1) /\ outbound'[Len(outbound) + 1] = e
        /\ \A i \in 1..Len(outbound) : outbound'[i] = outbound[i]
    BY <1>0, <1>3
  <2>2. Outs' \subseteq Outs \cup ({t} \cap Msg)
    BY <1>0, <2>1 DEF Outs
  <2>3. Saids' = Saids /\ Sendings' = Sendings /\ Ins' = Ins /\ Posts' = Posts
    BY DEF Saids, Sendings, Ins, Posts
  <2>4. \A a, b : Ahead(a, b)' <=> Ahead(a, b)
    BY DEF Ahead
  <2>5. StationsInOrder'
    BY <1>1, <2>2, <2>3, <2>4 DEF Pipeline, StationsInOrder, AllAhead
  <2>6. AllTyped'
    BY <1>1, <2>2, <2>3 DEF Pipeline, AllTyped
  <2>7. SaidInOrder' /\ InInOrder' /\ PostsApart'
    BY <2>4 DEF Pipeline, SaidInOrder, InInOrder, PostsApart
  <2>8. \A i \in DOMAIN outbound :
          IsAnswer(outbound[i]) /\ IsAnswer(e) => Ahead(outbound[i].to, e.to)
    BY <1>0 DEF Pipeline, StationsInOrder, AllAhead, Outs, IsAnswer
  <2>9. \A i, j \in DOMAIN outbound' :
          i < j /\ IsAnswer(outbound'[i]) /\ IsAnswer(outbound'[j])
            => Ahead(outbound'[i].to, outbound'[j].to)
    BY <2>1, <2>8 DEF Pipeline, OutInOrder
  <2>10. OutInOrder'
    BY <2>4, <2>9 DEF OutInOrder, IsAnswer
  <2> QED  BY <2>5, <2>6, <2>7, <2>10 DEF Pipeline
<1> QED  BY <1>2, <1>3 DEF SendOut

LEMMA PipelineStep == Basic /\ Pipeline /\ [Next]_vars => Pipeline'
<1> SUFFICES ASSUME Basic, Pipeline, [Next]_vars PROVE Pipeline'
  OBVIOUS
<1> USE DEF coreVars, ioVars, faultVars
<1>0. DispTyped /\ PingTyped
  BY BasicParts
<1>still. ASSUME UNCHANGED ioVars, Hands' \subseteq Hands PROVE Pipeline'
  BY <1>still, PipelineShrinks DEF Sendings
<1>1. ASSUME NEW l \in Loop, Type(l) \/ PublishIn(l) \/ GiveUpIn(l) PROVE Pipeline'
  BY <1>1, PipelineType, PipelinePublishIn, PipelineGiveUp
<1>2. CASE TakeOut \/ Deliver \/ Receive
  BY <1>2, PipelineTakeOut, PipelineDeliver, PipelineReceive
<1>3. CASE Decide \/ RecordOwner \/ RecordPet \/ DispatchPanics
  <2>1. Hands' \subseteq Hands
    BY <1>0, <1>3, TurnsApart DEF Hands, Decide, RecordOwner, RecordPet, DispatchPanics, DispTyped
  <2>2. UNCHANGED ioVars
    BY <1>3 DEF Decide, RecordOwner, RecordPet, DispatchPanics
  <2> QED  BY <1>still, <2>1, <2>2
<1>4. CASE Publish
  <2>1. disp.msg \in Hands /\ disp.msg \in Msg /\ Hands' = {} /\ SendOut("dispatch", disp.msg)
    BY <1>0, <1>4 DEF Hands, Publish, DispTyped
  <2>2. UNCHANGED <<typed, loops, said, sending, inbound, posting>>
    BY <1>4 DEF Publish
  <2> QED  BY <2>1, <2>2, PipelineSendOut
<1>5. CASE PingPublish
  <2>1. pinger.turn \in Ping /\ pinger.turn \notin Msg /\ SendOut("scheduler", pinger.turn)
    BY <1>0, <1>5, TurnsApart DEF PingPublish, PingTyped
  <2>2. UNCHANGED <<typed, loops, said, sending, inbound, posting>> /\ Hands' = Hands
    BY <1>5 DEF PingPublish, Hands
  <2> QED  BY <2>1, <2>2, PipelineSendOut
<1>6. CASE TransportPanics
  <2>1. Sendings' = {}
    BY <1>6, TurnsApart DEF TransportPanics, Sendings, NoEnvelope
  <2>2. Hands' = Hands
    BY <1>6 DEF TransportPanics, Hands
  <2> QED  BY <1>6, <2>1, <2>2, PipelineShrinks DEF TransportPanics
<1>7. CASE TransportHalts \/ DispatchHalts \/ PingResult \/ SchedulerHalts \/ UNCHANGED vars
  BY <1>7, <1>still DEF Hands, TransportHalts, DispatchHalts, PingResult, SchedulerHalts, vars
<1>8. ASSUME NEW p \in Ping, PingDue(p) PROVE Pipeline'
  BY <1>8, <1>still DEF Hands, PingDue
<1>9. ASSUME NEW t \in Msg \cup Ping, TurnStep(t) PROVE Pipeline'
  BY <1>9, <1>still DEF Hands, TurnStep, TurnStarts, TurnCloses, WorkerStep, TimerStep
<1>10. ASSUME NEW e \in Edge, Drain(e) PROVE Pipeline'
  BY <1>10, <1>still DEF Hands, Drain
<1> QED
  BY <1>1, <1>2, <1>3, <1>4, <1>5, <1>6, <1>7, <1>8, <1>9, <1>10
     DEF Next, ServeStep, DispatchStep, PingStep

\* No message is answered twice, and with one read loop the answers leave in the
\* order the owner wrote, wherever pings come in between (dispatch.go:62-125).
THEOREM ConversationAnswers == Spec => []AnswersInOrder
<1>1. ASSUME Basic, Pipeline PROVE AnswersInOrder
  <2> DEFINE mid == IF sending = NoEnvelope THEN <<>> ELSE <<sending>>
             n == Len(said)
             k == Len(mid)
  <2>0. said \in Seq(Envelope) /\ outbound \in Seq(Envelope) /\ mid \in Seq(Envelope)
    BY <1>1 DEF Basic, TypeOK
  <2>1. /\ n \in Nat /\ k \in {0, 1} /\ OnTheWay = said \o mid \o outbound
        /\ DOMAIN said = 1..n /\ DOMAIN outbound = 1..Len(outbound) /\ Len(outbound) \in Nat
        /\ k = 1 => mid[1] = sending
    BY <2>0 DEF OnTheWay
  <2> HIDE DEF mid
  <2>2. /\ DOMAIN OnTheWay = 1..(n + k + Len(outbound))
        /\ \A i \in 1..n : OnTheWay[i] = said[i]
        /\ \A i \in (n + 1)..(n + k) : OnTheWay[i] = mid[i - n]
        /\ \A i \in (n + k + 1)..(n + k + Len(outbound)) : OnTheWay[i] = outbound[i - n - k]
    BY <2>0, <2>1
  <2> SUFFICES ASSUME NEW i \in DOMAIN OnTheWay, NEW j \in DOMAIN OnTheWay, i < j,
                      IsAnswer(OnTheWay[i]), IsAnswer(OnTheWay[j])
               PROVE  Ahead(OnTheWay[i].to, OnTheWay[j].to)
    BY DEF AnswersInOrder, Ahead
  <2>3. \A x \in DOMAIN OnTheWay :
          \/ x \in 1..n /\ OnTheWay[x] = said[x]
          \/ k = 1 /\ x = n + 1 /\ OnTheWay[x] = sending
          \/ x - n - k \in DOMAIN outbound /\ OnTheWay[x] = outbound[x - n - k] /\ x > n + k
    <3> SUFFICES ASSUME NEW x \in 1..(n + k + Len(outbound))
                 PROVE  \/ x \in 1..n /\ OnTheWay[x] = said[x]
                        \/ k = 1 /\ x = n + 1 /\ OnTheWay[x] = sending
                        \/ /\ x - n - k \in DOMAIN outbound /\ x > n + k
                           /\ OnTheWay[x] = outbound[x - n - k]
      BY <2>2
    <3> HIDE DEF n, k
    <3>1. CASE x <= n
      BY <2>1, <2>2, <3>1
    <3>2. CASE x > n /\ x <= n + k
      <4>1. k = 1 /\ x = n + 1
        BY <2>1, <3>2
      <4>2. OnTheWay[x] = mid[x - n] /\ x - n = 1
        BY <2>1, <2>2, <3>2, <4>1
      <4> QED  BY <2>1, <4>1, <4>2
    <3>3. CASE x > n + k
      BY <2>1, <2>2, <3>3
    <3>4. x \in Nat /\ n \in Nat /\ k \in Nat
      BY <2>1
    <3> QED  BY <3>1, <3>2, <3>3, <3>4
  <2>4. /\ \A x \in 1..n : IsAnswer(said[x]) => said[x].to \in Saids
        /\ IsAnswer(sending) => sending.to \in Sendings
        /\ \A x \in DOMAIN outbound : IsAnswer(outbound[x]) => outbound[x].to \in Outs
    BY <2>1 DEF Saids, Sendings, Outs, IsAnswer
  <2>5. CASE i \in 1..n /\ OnTheWay[i] = said[i]
    <3>1. CASE j \in 1..n /\ OnTheWay[j] = said[j]
      BY <1>1, <2>1, <2>5, <3>1 DEF Pipeline, SaidInOrder
    <3>2. CASE OnTheWay[j] = sending
      BY <1>1, <2>4, <2>5, <3>2 DEF Pipeline, StationsInOrder, AllAhead
    <3>3. CASE j - n - k \in DOMAIN outbound /\ OnTheWay[j] = outbound[j - n - k]
      BY <1>1, <2>4, <2>5, <3>3 DEF Pipeline, StationsInOrder, AllAhead
    <3> QED  BY <2>3, <3>1, <3>2, <3>3
  <2>6. CASE k = 1 /\ i = n + 1 /\ OnTheWay[i] = sending
    <3>1. j - n - k \in DOMAIN outbound /\ OnTheWay[j] = outbound[j - n - k]
      BY <2>1, <2>2, <2>3, <2>6
    <3> QED  BY <1>1, <2>4, <2>6, <3>1 DEF Pipeline, StationsInOrder, AllAhead
  <2>7. CASE i - n - k \in DOMAIN outbound /\ OnTheWay[i] = outbound[i - n - k] /\ i > n + k
    <3>1. /\ j - n - k \in DOMAIN outbound /\ OnTheWay[j] = outbound[j - n - k]
          /\ i - n - k < j - n - k
      BY <2>1, <2>2, <2>3, <2>7
    <3> QED  BY <1>1, <2>7, <3>1 DEF Pipeline, OutInOrder
  <2> QED  BY <2>3, <2>5, <2>6, <2>7
<1>2. Spec => [](Basic /\ Pipeline)
  BY BasicInit, BasicStep, PipelineInit, PipelineStep, PTL DEF Spec
<1> QED  BY <1>1, <1>2, PTL
==============================================================================
