----------------------------- MODULE Conversation -----------------------------
(* The owner's conversation: a chat transport, the bus channels, the dispatch *)
(* loop, the arbiter, the proactive-ping job and the message recorder. An edge *)
(* that panics is restarted by the supervisor; at shutdown the edges are       *)
(* drained in reverse start order. Each owner message and each tick of the     *)
(* ping job whose gates passed is one call of Submit, so messages and pings    *)
(* are the arbiter's turns.                                                    *)
EXTENDS Naturals, Sequences, FiniteSets

CONSTANTS
  MaxMsg,         \* owner messages, all of one conversation
  MaxPing,        \* ticks of the proactive job that pass its gates
  MaxPanics,      \* panics of dispatch and transport together
  InCap, OutCap,  \* capacities of the inbound and outbound channels
  Setups          \* the setups the program may be started in, see Setup

\* What main wires at boot: a transport, "cli", "telegram", or the "dormant"
\* stand-in for Telegram; whether an Append may fail while its context is live;
\* and the bounds that a behaviour in this setup keeps: its messages, pings and
\* panics, and whether it is shut down.
Setup == [transport : {"cli", "telegram", "dormant"}, recorderFails : BOOLEAN,
          msgs : 0..MaxMsg, pings : 0..MaxPing, panics : 0..MaxPanics,
          drained : BOOLEAN]

ASSUME ConversationAssumption ==
  /\ MaxMsg \in Nat /\ MaxPing \in Nat /\ MaxPanics \in Nat
  /\ InCap \in Nat \ {0} /\ OutCap \in Nat \ {0}
  /\ Setups \subseteq Setup

\* A message is named by its place in the order the read loop took them, and
\* a ping likewise after them.
Msg == 1..MaxMsg
Ping == (MaxMsg + 1)..(MaxMsg + MaxPing)
NoMsg == 0

\* The read loops: each start of the transport leaves one behind.
Loop == 1..(MaxPanics + 1)
Edge == {"scheduler", "transport", "dispatch"}

VARIABLES
  setup,      \* how the program was started
  token, stage, worker, done, expired, verdict, outcome, stopped, \* Arbiter
  typed,      \* how many owner messages the read loops took
  loops,      \* starts of the transport: loops 1..loops exist
  posting,    \* the message each read loop is publishing
  inbound,    \* inbound channel
  outbound,   \* outbound channel: records [to, text]
  sending,    \* the envelope the transport is delivering
  said,       \* what the transport delivered
  disp,       \* dispatch loop: its place and the message it is serving
  touched,    \* messages that stamped LastInteraction
  history,    \* the messages table: records [role, of]
  pinger,     \* the ping job's goroutine
  cancelled,  \* edges whose context the supervisor cancelled
  halted,     \* edges whose Serve returned for good
  panics,     \* panics so far
  lost        \* history: messages an edge had in hand when it panicked

arbVars == <<token, stage, worker, done, expired, verdict, outcome, stopped>>
ioVars == <<typed, loops, posting, inbound, outbound, sending, said>>
faultVars == <<panics, lost, setup>>
coreVars == <<disp, touched, history, pinger, cancelled, halted, faultVars>>
vars == <<arbVars, ioVars, coreVars>>

Arb == INSTANCE Arbiter WITH Turn <- Msg \cup Ping

Envelope == [to : Msg \cup Ping, text : {"reply", "ack"}]
NoEnvelope == [to |-> NoMsg, text |-> "none"]

TypeOK ==
  /\ Arb!ArbTypeOK /\ setup \in Setups
  /\ typed \in 0..MaxMsg /\ loops \in Loop
  /\ posting \in [Loop -> Msg \cup {NoMsg}]
  /\ inbound \in Seq(Msg) /\ Len(inbound) <= InCap
  /\ outbound \in Seq(Envelope) /\ Len(outbound) <= OutCap
  /\ sending \in Envelope \cup {NoEnvelope}
  /\ said \in Seq(Envelope)
  /\ disp \in [at : {"recv", "submit", "publish", "owner", "pet"}, msg : Msg \cup {NoMsg}]
  /\ touched \subseteq Msg
  /\ history \in Seq([role : {"owner", "pet"}, of : Msg])
  /\ pinger \in [at : {"idle", "submit", "publish"}, turn : Ping \cup {NoMsg}]
  /\ halted \subseteq cancelled /\ cancelled \subseteq Edge
  /\ panics \in 0..MaxPanics /\ lost \subseteq Msg

Init ==
  /\ setup \in Setups
  /\ Arb!ArbInit
  /\ typed = 0 /\ loops = 1 /\ posting = [l \in Loop |-> NoMsg]
  /\ inbound = <<>>
  /\ outbound = <<>> /\ sending = NoEnvelope /\ said = <<>>
  /\ disp = [at |-> "recv", msg |-> NoMsg]
  /\ touched = {} /\ history = <<>>
  /\ pinger = [at |-> "idle", turn |-> NoMsg]
  /\ cancelled = {} /\ halted = {} /\ panics = 0 /\ lost = {}

-----------------------------------------------------------------------------
(* The transport edge *)

\* A read loop takes the owner's next line (CLI) or update (Telegram). It is a
\* goroutine beside Serve and outlives it: a cancelled context does not stop
\* the CLI's scan, and Telegram's select may still pick an update that is
\* ready. So after a restart two loops read the same input.
Type(l) ==
  /\ setup.transport # "dormant"
  /\ l <= loops
  /\ typed < setup.msgs
  /\ posting[l] = NoMsg
  /\ posting' = [posting EXCEPT ![l] = typed + 1]
  /\ typed' = typed + 1
  /\ UNCHANGED <<arbVars, loops, inbound, outbound, sending, said, coreVars>>

\* Mutant: a send that does not wait for room.
PublishInUnbounded(l) ==
  /\ posting[l] # NoMsg
  /\ inbound' = Append(inbound, posting[l])
  /\ posting' = [posting EXCEPT ![l] = NoMsg]
  /\ UNCHANGED <<arbVars, typed, loops, outbound, sending, said, coreVars>>

\* Publish / PublishContext to the inbound channel: blocks while it is full.
PublishIn(l) ==
  /\ posting[l] # NoMsg
  /\ Len(inbound) < InCap
  /\ inbound' = Append(inbound, posting[l])
  /\ posting' = [posting EXCEPT ![l] = NoMsg]
  /\ UNCHANGED <<arbVars, typed, loops, outbound, sending, said, coreVars>>

\* Only Telegram's read loop publishes with a context it can give up on: that
\* of the Serve that started it, done when that Serve panicked or is drained.
GiveUpIn(l) ==
  /\ setup.transport = "telegram"
  /\ "transport" \in cancelled \/ l < loops
  /\ posting[l] # NoMsg
  /\ posting' = [posting EXCEPT ![l] = NoMsg]
  /\ UNCHANGED <<arbVars, typed, loops, inbound, outbound, sending, said, coreVars>>

\* Serve receives from the outbound channel; the stand-in never does.
TakeOut ==
  /\ setup.transport # "dormant"
  /\ "transport" \notin halted
  /\ sending = NoEnvelope
  /\ outbound # <<>>
  /\ sending' = Head(outbound)
  /\ outbound' = Tail(outbound)
  /\ UNCHANGED <<arbVars, typed, loops, posting, inbound, said, coreVars>>

\* Fprintln or Send. Telegram's Send may fail; the reply is then dropped.
Deliver ==
  /\ sending # NoEnvelope
  /\ \/ said' = Append(said, sending)
     \/ setup.transport = "telegram" /\ said' = said
  /\ sending' = NoEnvelope
  /\ UNCHANGED <<arbVars, typed, loops, posting, inbound, outbound, coreVars>>

TransportHalts ==
  /\ "transport" \in cancelled \ halted
  /\ sending = NoEnvelope
  /\ halted' = halted \cup {"transport"}
  /\ UNCHANGED <<arbVars, ioVars, disp, touched, history, pinger, cancelled, faultVars>>

\* What an edge's recovered panic makes of it: the supervisor starts it again,
\* unless it has been removed.
Panics(edge) ==
  /\ panics < setup.panics
  /\ panics' = panics + 1 /\ UNCHANGED setup
  /\ halted' = IF edge \in cancelled THEN halted \cup {edge} ELSE halted

\* Mutant: the restart stops the old read loop, and what it was publishing.
TransportPanicsStopsLoop ==
  /\ sending # NoEnvelope
  /\ Panics("transport")
  /\ lost' = lost \cup ({sending.to} \cap Msg)
  /\ sending' = NoEnvelope
  /\ loops' = IF "transport" \in cancelled THEN loops ELSE loops + 1
  /\ posting' = [posting EXCEPT ![loops] = NoMsg]
  /\ UNCHANGED <<arbVars, typed, inbound, outbound, said,
                 disp, touched, history, pinger, cancelled>>

\* Serve panics with an envelope in hand. The next Serve starts a read loop;
\* the old one goes on.
TransportPanics ==
  /\ sending # NoEnvelope
  /\ Panics("transport")
  /\ lost' = lost \cup ({sending.to} \cap Msg)
  /\ sending' = NoEnvelope
  /\ loops' = IF "transport" \in cancelled THEN loops ELSE loops + 1
  /\ UNCHANGED <<arbVars, typed, posting, inbound, outbound, said,
                 disp, touched, history, pinger, cancelled>>

-----------------------------------------------------------------------------
(* The dispatch loop *)

\* Receive a message and stamp the interaction.
Receive ==
  /\ "dispatch" \notin halted
  /\ disp.at = "recv"
  /\ inbound # <<>>
  /\ disp' = [at |-> "submit", msg |-> Head(inbound)]
  /\ touched' = touched \cup {Head(inbound)}
  /\ inbound' = Tail(inbound)
  /\ UNCHANGED <<arbVars, typed, loops, posting, outbound, sending, said,
                 history, pinger, cancelled, halted, faultVars>>

\* The select on ctx.Done at the top of the loop.
DispatchHalts ==
  /\ "dispatch" \in cancelled \ halted
  /\ disp.at = "recv"
  /\ halted' = halted \cup {"dispatch"}
  /\ UNCHANGED <<arbVars, ioVars, disp, touched, history, pinger, cancelled, faultVars>>

\* After Submit: publish the reply, or stop if the loop's context is done, or
\* publish the acknowledgement.
Decide ==
  /\ disp.at = "submit"
  /\ outcome[disp.msg] # "none"
  /\ IF outcome[disp.msg] # "reply" /\ "dispatch" \in cancelled
     THEN /\ halted' = halted \cup {"dispatch"}
          /\ disp' = [at |-> "recv", msg |-> NoMsg]
     ELSE /\ halted' = halted
          /\ disp' = [disp EXCEPT !.at = "publish"]
  /\ UNCHANGED <<arbVars, ioVars, touched, history, pinger, cancelled, faultVars>>

\* What dispatch.publishReply sends.
ReplyText(t) == IF outcome[t] = "reply" THEN "reply" ELSE "ack"

\* Mutant: Publish where PublishContext is used.
SendOutBlocking(edge, t) ==
  /\ Len(outbound) < OutCap
  /\ outbound' = Append(outbound, [to |-> t, text |-> ReplyText(t)])

\* PublishContext to the outbound channel: blocks while it is full, unless the
\* edge's context is done; then either case may be taken.
SendOut(edge, t) ==
  \/ /\ Len(outbound) < OutCap
     /\ outbound' = Append(outbound, [to |-> t, text |-> ReplyText(t)])
  \/ /\ edge \in cancelled
     /\ outbound' = outbound

Publish ==
  /\ disp.at = "publish"
  /\ SendOut("dispatch", disp.msg)
  /\ disp' = [disp EXCEPT !.at = "owner"]
  /\ UNCHANGED <<arbVars, typed, loops, posting, inbound, sending, said,
                 touched, history, pinger, cancelled, halted, faultVars>>

\* Store.Append under the loop's context: refused once that is cancelled. An
\* error is logged and the loop goes on.
Record(role) ==
  \/ /\ "dispatch" \notin cancelled
     /\ history' = Append(history, [role |-> role, of |-> disp.msg])
  \/ /\ "dispatch" \in cancelled \/ setup.recorderFails
     /\ history' = history

\* Mutant: the pet line is written first.
RecordOwnerSecond ==
  /\ disp.at = "owner"
  /\ Record(IF outcome[disp.msg] = "reply" THEN "pet" ELSE "owner")
  /\ disp' = IF outcome[disp.msg] = "reply" THEN [disp EXCEPT !.at = "pet"]
             ELSE [at |-> "recv", msg |-> NoMsg]
  /\ UNCHANGED <<arbVars, ioVars, touched, pinger, cancelled, halted, faultVars>>

\* Mutant: the test of err is inverted.
RecordOwnerInverted ==
  /\ disp.at = "owner"
  /\ Record("owner")
  /\ disp' = IF outcome[disp.msg] # "reply" THEN [disp EXCEPT !.at = "pet"]
             ELSE [at |-> "recv", msg |-> NoMsg]
  /\ UNCHANGED <<arbVars, ioVars, touched, pinger, cancelled, halted, faultVars>>

\* Only a real reply is followed by a pet line; the acknowledgement is not.
RecordOwner ==
  /\ disp.at = "owner"
  /\ Record("owner")
  /\ disp' = IF outcome[disp.msg] = "reply" THEN [disp EXCEPT !.at = "pet"]
             ELSE [at |-> "recv", msg |-> NoMsg]
  /\ UNCHANGED <<arbVars, ioVars, touched, pinger, cancelled, halted, faultVars>>

RecordPet ==
  /\ disp.at = "pet"
  /\ Record("pet")
  /\ disp' = [at |-> "recv", msg |-> NoMsg]
  /\ UNCHANGED <<arbVars, ioVars, touched, pinger, cancelled, halted, faultVars>>

\* The loop has a message in hand and runs its own code, not Submit's.
HasMessage == \/ disp.at \in {"publish", "owner", "pet"}
              \/ disp.at = "submit" /\ stage[disp.msg] = "new"

\* Mutant: the message is put back so that the restarted loop serves it.
DispatchPanicsRequeues ==
  /\ HasMessage
  /\ Panics("dispatch")
  /\ Len(inbound) < InCap
  /\ inbound' = Append(inbound, disp.msg)
  /\ lost' = lost \cup {disp.msg}
  /\ disp' = [at |-> "recv", msg |-> NoMsg]
  /\ UNCHANGED <<arbVars, typed, loops, posting, outbound, sending, said,
                 touched, history, pinger, cancelled>>

\* The loop panics outside Submit: the message in its hand is gone with it.
DispatchPanics ==
  /\ HasMessage
  /\ Panics("dispatch")
  /\ lost' = lost \cup {disp.msg}
  /\ disp' = [at |-> "recv", msg |-> NoMsg]
  /\ UNCHANGED <<arbVars, ioVars, touched, history, pinger, cancelled>>

-----------------------------------------------------------------------------
(* The proactive-ping job, after its gates passed *)

PingDue(p) ==
  /\ "scheduler" \notin halted
  /\ pinger.at = "idle"
  /\ stage[p] = "new"
  /\ p <= MaxMsg + setup.pings
  /\ \A q \in Ping : q < p => stage[q] # "new"
  /\ pinger' = [at |-> "submit", turn |-> p]
  /\ UNCHANGED <<arbVars, ioVars, disp, touched, history, cancelled, halted, faultVars>>

\* OnResult: a failed turn stays quiet, and so does a reply with no text.
PingResult ==
  /\ pinger.at = "submit"
  /\ outcome[pinger.turn] # "none"
  /\ \/ /\ outcome[pinger.turn] = "reply"
        /\ pinger' = [pinger EXCEPT !.at = "publish"]
     \/ pinger' = [at |-> "idle", turn |-> NoMsg]
  /\ UNCHANGED <<arbVars, ioVars, disp, touched, history, cancelled, halted, faultVars>>

PingPublish ==
  /\ pinger.at = "publish"
  /\ SendOut("scheduler", pinger.turn)
  /\ pinger' = [at |-> "idle", turn |-> NoMsg]
  /\ UNCHANGED <<arbVars, typed, loops, posting, inbound, sending, said,
                 disp, touched, history, cancelled, halted, faultVars>>

SchedulerHalts ==
  /\ "scheduler" \in cancelled \ halted
  /\ pinger.at = "idle"
  /\ halted' = halted \cup {"scheduler"}
  /\ UNCHANGED <<arbVars, ioVars, disp, touched, history, pinger, cancelled, faultVars>>

-----------------------------------------------------------------------------
(* Submit, called by the dispatch loop and by the ping job *)

Calls(t) == \/ disp.at = "submit" /\ disp.msg = t
            \/ pinger.at = "submit" /\ pinger.turn = t

TurnStarts(t) == /\ Calls(t)
                 /\ Arb!Admit(t) \/ Arb!Refuse(t)
                 /\ UNCHANGED <<ioVars, coreVars>>
TurnCloses(t) == /\ \/ Arb!TakeResult(t) \/ Arb!TakeDeadline(t)
                    \/ Arb!Release(t) \/ Arb!Return(t)
                 /\ UNCHANGED <<ioVars, coreVars>>
WorkerStep(t) == Arb!WorkerDone(t) /\ UNCHANGED <<ioVars, coreVars>>
TimerStep(t) == Arb!Expire(t) /\ UNCHANGED <<ioVars, coreVars>>

-----------------------------------------------------------------------------
(* Shutdown: the supervisor cancels one edge at a time, in reverse start      *)
(* order, and goes on to the next when the edge halted or after five seconds, *)
(* whichever is first, so that an edge may still be running.                  *)

TurnsOf(edge) == CASE edge = "scheduler" -> Ping
                   [] edge = "dispatch" -> Msg
                   [] OTHER -> {}

Before(edge) == CASE edge = "scheduler" -> {}
                  [] edge = "transport" -> {"scheduler"}
                  [] edge = "dispatch" -> {"scheduler", "transport"}

Drain(edge) ==
  /\ setup.drained
  /\ edge \notin cancelled
  /\ Before(edge) \subseteq cancelled
  /\ cancelled' = cancelled \cup {edge}
  /\ stopped' = stopped \cup TurnsOf(edge)
  /\ UNCHANGED <<token, stage, worker, done, expired, verdict, outcome,
                 ioVars, disp, touched, history, pinger, halted, faultVars>>

-----------------------------------------------------------------------------
ServeStep == TakeOut \/ Deliver \/ TransportHalts
DispatchStep == \/ Receive \/ Decide \/ Publish \/ RecordOwner \/ RecordPet
                \/ DispatchHalts
PingStep == PingResult \/ PingPublish \/ SchedulerHalts
TurnStep(t) == TurnStarts(t) \/ TurnCloses(t) \/ WorkerStep(t) \/ TimerStep(t)

Next == \/ \E l \in Loop : Type(l) \/ PublishIn(l) \/ GiveUpIn(l)
        \/ ServeStep \/ DispatchStep \/ PingStep
        \/ \E p \in Ping : PingDue(p)
        \/ \E t \in Msg \cup Ping : TurnStep(t)
        \/ \E e \in Edge : Drain(e)
        \/ TransportPanics \/ DispatchPanics

\* Each goroutine of the program keeps running, and a deadline passes. The
\* network call in Send is assumed to end. The worker may hang, the owner need
\* not write, the job need not become due, and nothing forces a shutdown or a
\* panic. A behaviour has finitely many steps of read loops, of turns and of
\* timers, so fairness to all loops, or turns, at once is fairness to each.
Fairness ==
  /\ WF_vars(\E l \in Loop : PublishIn(l))
  /\ WF_vars(ServeStep)
  /\ WF_vars(DispatchStep)
  /\ WF_vars(PingStep)
  /\ WF_vars(\E t \in Msg \cup Ping : TurnStarts(t) \/ TurnCloses(t))
  /\ WF_vars(\E t \in Msg \cup Ping : TimerStep(t))

Spec == Init /\ [][Next]_vars /\ Fairness

-----------------------------------------------------------------------------
(* Properties *)

\* Everything on its way out or out already, oldest first.
OnTheWay == said \o (IF sending = NoEnvelope THEN <<>> ELSE <<sending>>)
                 \o outbound

IsAnswer(e) == e.to \in Msg

\* Answers leave in the order the owner wrote, one per message at most, with
\* pings woven in anywhere and a busy or timed-out turn answered in its place.
\* A restart may put a second read loop beside the first, and then messages
\* overtake each other; but whatever panics with a message in hand, and however
\* the loops share the input, no message is answered twice.
AnswersInOrder ==
  \A i, j \in DOMAIN OnTheWay :
    i < j /\ IsAnswer(OnTheWay[i]) /\ IsAnswer(OnTheWay[j]) =>
      IF loops = 1 THEN OnTheWay[i].to < OnTheWay[j].to
      ELSE OnTheWay[i].to # OnTheWay[j].to

\* The history the next prompt is grounded on: with a recorder that does not
\* fail, each pet line stands right after the owner line it answers, although
\* recording happens after publishing and may be cut off by the shutdown.
HistoryPaired ==
  ~setup.recorderFails =>
    \A i \in DOMAIN history :
      history[i].role = "pet" =>
        /\ i > 1
        /\ history[i-1] = [role |-> "owner", of |-> history[i].of]

\* "Record the turn ... so the next turn's recent window includes it"
\* (dispatch.go:101-102): when the worker starts on a message, every message
\* dispatched before it that was really answered is in the history, both lines
\* (unless the loop panicked over it).
WindowComplete ==
  (~setup.recorderFails /\ "dispatch" \notin cancelled) =>
    \A m, n \in Msg :
      (worker[n] = "running" /\ Arb!Holds(n) /\ m \notin lost \cup {n} /\ outcome[m] = "reply")
        => \A r \in {"owner", "pet"} :
             \E i \in DOMAIN history : history[i] = [role |-> r, of |-> m]

\* NFR13: every message the owner writes gets a reply or the acknowledgement,
\* though workers may hang, pings take the slot and edges panic and restart,
\* unless the shutdown began, Telegram failed to deliver, or the message was
\* the one in hand when its edge panicked.
Answered(m) == \E i \in DOMAIN said : said[i].to = m
EveryMessageAnswered ==
  setup.transport = "cli" =>
    \A m \in Msg : (m <= typed) ~> (Answered(m) \/ m \in lost \/ cancelled # {})

\* The drain ends: once all edges are cancelled every one of them halts, even
\* with a full outbound channel that nobody reads any more.
ShutdownCompletes == (cancelled = Edge) ~> (halted = Edge)
==============================================================================
