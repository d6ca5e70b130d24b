----------------------------- MODULE PromptWindow -----------------------------
(* The messages table and the recent window that grounds each prompt. Rows are *)
(* stamped with the wall clock, which the board may set back for it has no     *)
(* clock of its own. A worker, of an owner's turn, of a ping, or abandoned,    *)
(* reads the window in one query and at any moment, so that what holds of      *)
(* Recent in every state holds of every prompt. The usual names begin with     *)
(* Window, for MemoryProofs extends this module together with Dream.           *)
EXTENDS Integers, FiniteSets, Sequences

CONSTANTS
  Convo,     \* conversations
  N,         \* recentWindowN
  MaxTurns,  \* bound: turns dispatched
  MaxClock,  \* bound: ticks of the wall clock
  MaxSteps,  \* bound: steps back of the wall clock
  MaxLosses  \* bound: losses of power

ASSUME WindowAssumption ==
  /\ N \in Nat
  /\ {MaxTurns, MaxClock, MaxSteps, MaxLosses} \subseteq Nat

VARIABLES
  rows,    \* the messages table
  nextId,  \* its AUTOINCREMENT
  clock,   \* wall clock
  at,      \* dispatch: "recv", "turn", "owner" or "pet"
  convo,   \* the conversation of the turn it is at
  turns,   \* turns dispatched so far, the current one included
  steps,   \* history: steps back of the clock so far
  losses,  \* history: losses of power so far
  failed   \* history: turns whose owner line could not be written

windowVars == <<rows, nextId, clock, at, convo, turns, steps, losses, failed>>

\* The stamps of one era, between two steps back, do not decrease. The turn and
\* the era of a row are history.
Line == [id : Nat, convo : Convo, role : {"owner", "pet"}, at : 0..MaxClock,
        turn : 0..MaxTurns, era : 0..MaxSteps]

WindowTypeOK ==
  /\ rows \subseteq Line
  /\ nextId \in Nat /\ \A r \in rows : r.id < nextId
  /\ \A r, s \in rows : r.id = s.id => r = s
  /\ clock \in 0..MaxClock
  /\ at \in {"recv", "turn", "owner", "pet"}
  /\ convo \in Convo
  /\ turns \in 0..MaxTurns /\ steps \in 0..MaxSteps /\ losses \in 0..MaxLosses
  /\ failed \subseteq 0..MaxTurns

WindowInit ==
  /\ rows = {} /\ nextId = 1
  /\ clock = 0
  /\ at = "recv" /\ convo \in Convo
  /\ turns = 0 /\ steps = 0 /\ losses = 0 /\ failed = {}

-----------------------------------------------------------------------------
(* The query *)

\* Mutant: a tie of the stamps is broken the wrong way round.
LaterTie(s, r) == s.at > r.at \/ (s.at = r.at /\ s.id < r.id)

\* ORDER BY created_at DESC, id DESC: s comes before r.
Later(s, r) == s.at > r.at \/ (s.at = r.at /\ s.id > r.id)

\* Mutant: the table is not filtered by conversation.
OfAnyConvo(c) == rows

Of(c) == {r \in rows : r.convo = c}

\* The first N of the conversation in that order.
Recent(c) == {r \in Of(c) : Cardinality({s \in Of(c) : Later(s, r)}) < N}

\* How many lines of the window are before r once they are turned round.
Place(c, r) == Cardinality({s \in Recent(c) : Later(r, s)})

\* PromptContext turns them round: the oldest first.
Prompt(c) == [i \in 1..Cardinality(Recent(c)) |->
                CHOOSE r \in Recent(c) : Place(c, r) = i - 1]

-----------------------------------------------------------------------------
(* Dispatch records each turn after it was answered *)

Receive(c) ==
  /\ at = "recv" /\ turns < MaxTurns
  /\ at' = "turn" /\ convo' = c /\ turns' = turns + 1
  /\ UNCHANGED <<rows, nextId, clock, steps, losses, failed>>

\* Append: the stamp is the time of the call.
Record(role) ==
  /\ rows' = rows \cup {[id |-> nextId, convo |-> convo, role |-> role, at |-> clock,
                         turn |-> turns, era |-> steps]}
  /\ nextId' = nextId + 1

Answered ==
  /\ at = "turn" /\ at' = "owner"
  /\ UNCHANGED <<rows, nextId, clock, convo, turns, steps, losses, failed>>

\* A turn that was only acknowledged, or whose pet line fails, ends here.
RecordOwner ==
  /\ at = "owner"
  /\ Record("owner")
  /\ at' \in {"pet", "recv"}
  /\ UNCHANGED <<clock, convo, turns, steps, losses, failed>>

\* An error of the owner line is logged, and the pet line is written all the same.
RecordOwnerFails ==
  /\ at = "owner"
  /\ at' \in {"pet", "recv"}
  /\ failed' = failed \cup {turns}
  /\ UNCHANGED <<rows, nextId, clock, convo, turns, steps, losses>>

RecordPet ==
  /\ at = "pet"
  /\ Record("pet")
  /\ at' = "recv"
  /\ UNCHANGED <<clock, convo, turns, steps, losses, failed>>

-----------------------------------------------------------------------------
(* The board *)

Tick ==
  /\ clock < MaxClock
  /\ clock' = clock + 1
  /\ UNCHANGED <<rows, nextId, at, convo, turns, steps, losses, failed>>

StepBack ==
  /\ steps < MaxSteps
  /\ clock' \in 0..(clock - 1)
  /\ steps' = steps + 1
  /\ UNCHANGED <<rows, nextId, at, convo, turns, losses, failed>>

\* Mutant: what is lost need not be what was written last.
PowerLossAnywhere ==
  /\ losses < MaxLosses
  /\ \E r \in rows : rows' = rows \ {r}
  /\ at' = "recv" /\ losses' = losses + 1
  /\ UNCHANGED <<nextId, clock, convo, turns, steps, failed>>

\* Under WAL with synchronous=NORMAL the transactions committed last may be lost
\* with the power, the AUTOINCREMENT with them. A kill of the process loses none.
PowerLoss ==
  /\ losses < MaxLosses
  /\ \E kept \in 1..nextId :
       /\ rows' = {r \in rows : r.id < kept}
       /\ nextId' = kept
  /\ at' = "recv" /\ losses' = losses + 1
  /\ UNCHANGED <<clock, convo, turns, steps, failed>>

WindowNext == \/ \E c \in Convo : Receive(c)
              \/ Answered \/ RecordOwner \/ RecordOwnerFails \/ RecordPet
              \/ Tick \/ StepBack \/ PowerLoss

WindowSpec == WindowInit /\ [][WindowNext]_windowVars

-----------------------------------------------------------------------------
(* Properties *)

\* As long as the clock was not stepped back, the window is what was written
\* last: "most-recent-first" (store.go:133) by stamp is that by the order of
\* writing, and neither equal stamps nor other conversations nor a loss of power
\* let an older line displace a younger one.
Latest(c) == {r \in rows : r.convo = c
                /\ Cardinality({s \in rows : s.convo = c /\ s.id > r.id}) < N}
WindowIsLatest == steps = 0 => \A c \in Convo : Recent(c) = Latest(c)

\* After steps back, too, a line in the window brings along every younger line of
\* its era: lines are displaced by those of another era only. (That the next
\* turn's window includes the last one, dispatch.go:101-102, fails then: its lines
\* may sort behind the old ones.)
NoGapWithinEra ==
  \A c \in Convo : \A r \in Recent(c), s \in rows :
    s.convo = c /\ s.era = r.era /\ s.id > r.id => s \in Recent(c)

\* The prompt reads as a conversation: but for a first line whose owner line the
\* limit cut off, each reply comes right after the line it replies to, if that
\* line could be written.
PromptPaired ==
  steps = 0 => \A c \in Convo : LET p == Prompt(c) IN
    \A i \in 2..Len(p) :
      p[i].role = "pet" /\ p[i].turn \notin failed =>
        p[i-1].role = "owner" /\ p[i-1].turn = p[i].turn
==============================================================================
