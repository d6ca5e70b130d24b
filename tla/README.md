# Verifying shelldon

shelldon is a companion that lives on a small board: it chats over a terminal or
Telegram, blinks, drifts in mood, pings its owner now and then, and dreams, which
is to go over what it learned and decide what to keep. All of it is one Go process
with a supervised goroutine (an *edge*) per concern, a table of channels between
them, and at most one call to a language model at a time.

This directory holds TLA+ models of its core, the TLC configurations that check
them, and TLAPS proofs of what matters most. Paths are relative to `src/`.

    tlc -workers 2 -config MCArbiter.cfg MCArbiter      # one run
    tlapm ArbiterProofs.tla                             # one module of proofs

## 1. The system

| component | state it keeps | operations | talks to |
|---|---|---|---|
| arbiter (`core/arbiter`) | a token channel of one slot | `Submit` | calls the worker; called by dispatch, ping, dream |
| dispatch (`core/dispatch`) | none of its own | `Serve`, `publishReply` | inbound channel → arbiter → outbound channel → recorder; stamps the personality |
| bus (`core/bus`) | kind → channel, fixed at boot | `Publish`, `PublishContext` | every producer |
| transports (`transport/cli`, `transport/telegram`) | a read loop beside `Serve` | read, publish, deliver | inbound and outbound channels |
| turn tier (`core/turntier`) | `lastFired` per job, counter and day per budget | `run`, `tryConsume` | arbiter; called by the scheduler |
| proactive ping (`core/proactive`), dream (`core/dream`) | none; the dream's is in the memory layers | `OnResult`, `build`, `applyResult` | turn tier, bus, memory |
| scheduler (`core/scheduler`) | a timer per job | `Serve`, `runJob` | reflexes, ping, dream |
| memory (`core/memory`) | sqlite: messages, learnings; a tree of markdown files | `Append`, `Recent`, `PromptContext`, `ApplyLearning`, `setLearningStatus`, `Learnings`, `AppendFact`, `WriteAtomic` | dispatch, dream, the worker's prompt |
| personality (`core/state`) | mood and last interaction in RAM; one checkpoint file | `Touch`, `SetMood`, `Checkpoint`, the loop | dispatch, mood drift, blink |
| reflexes (`core/reflexes`) | none | mood drift, blink | personality, compositor |
| compositor, display (`core/compositor`, `display/terminal`) | frame numbers; last number painted | `PushFace`, `handle` | bus |
| supervisor (`core/supervisor`) | the edges in start order | restart, drain in reverse | every edge |
| worker (`worker/monolith`, `worker/privsep`) | privsep: a child process and a socket | `AssembleAndPropose`, `Close` | broker |
| broker (`broker`) | a chain of providers | `Complete` | HTTP |

What is hard about it:

* **Concurrency.** A turn is a goroutine the arbiter may stop waiting for but cannot
  stop. Three callers compete for it. Two goroutines checkpoint the same state.
  Privsep's reading goroutine outlives the turn that spawned it.
* **Selects with two ready cases.** A result or its deadline, a frame or the
  cancellation, room in a channel or the end of the context: Go picks either.
* **Two writes that belong together.** A promotion is a row in sqlite and a line in
  a file; an exchange is two rows; a blink is two frames.
* **Time.** Deadlines race answers; a run keeps the time it read at its start; the
  board has no clock of its own, so the wall clock may be set back, and rows are
  ordered by it. Timers run inside one another: a request's timeout in a retry
  policy in a turn's deadline.
* **Faults.** An edge panics and is started again while its old goroutines go on; the
  process is killed; the power fails and takes the last committed rows with it; the
  model proposes what it was not asked.
* **Shutdown.** Edges are cancelled one by one, each given five seconds, while
  others still send to them.

What makes each part correct is in section 3; every property says in a comment
which behaviour of the code it is about. `PROJECT.json` lists the hazards with the
line where each bites and the properties that would catch it.

## 2. The modules

| module | models | state and actions |
|---|---|---|
| `TurnGate` | what the arbiter promises | turns wait, enter, leave or are turned away; one inside at a time |
| `Arbiter` | `core/arbiter` | one action per step of `Submit`: `Admit`, `Refuse`, the two cases of the select, `Release`, `Return`; the per-turn goroutine `WorkerDone`, which may never happen; `Expire`, `Shutdown` |
| `Conversation` | a transport (CLI, Telegram, or the stand-in for a missing token), the channels, dispatch, the ping, the recorder, panics and restarts, the drain | INSTANCEs `Arbiter` with messages and pings as its turns; `disp`, `pinger`, `posting`, `sending` are where each goroutine stands; a restarted transport has one more of `loops`; `setup` is what `main` wired and what may happen in a behaviour |
| `PromptWindow` | the messages table, `Recent` and the order `PromptContext` gives it | `Record` is `Append` with the stamp of its moment; `Recent` is the query as a set, `Prompt` the same rows oldest first, each at the place that the number of rows before it gives; `Tick`, `StepBack`, `PowerLoss` are the board |
| `Broker` | `Broker.Complete` and `classify` | a clock from the start of the call; `over` is when the turn's context ends, and every `Request` and `Backoff` sets with `wake` when it will be over itself, `Within` that context; a provider `Answers` in one of six ways or not at all; `Retry`, `TimesOut`, `Aborts` are the timers; `GiveUp` goes down the chain |
| `OrderedDrain` | what the supervisor promises | edges fail and come back, and are told to leave from the last to the first |
| `Supervisor` | `core/supervisor` over suture | `Panics` is Guard; `BeginDrain`, `Remove`, `Waited`, `TimesOut`, `Cancel`, `Return` are `Root.Serve` step by step; `Restart` is suture's |
| `TurnTier` | `core/turntier` | `Begin` reads both clocks; `PowerDenies`, `Exhausted`, `Consume` are the gates; `Restart` forgets, and the histories `before` and `fires` do not |
| `Lifecycle` | what a dream promises of a learning | observed, then decided once, database and tree in one step; nothing of a key the model decided unasked |
| `Dream` | `core/dream` on the learnings table and the facts file | `newer` is the order of `updated_at`, in which every write gives a row a new place (`Stamp`), not always the first: the wall clock may stand still or be set back; captures; `Build`, the worker's operations, any it likes, and the two writes of a promotion with the revert between them; `Crash` at any step |
| `Continuity` | `core/state`, mood drift, the checkpoint loop, the drain | a checkpoint is `Snapshot` then `WriteAtomic`; kills and boots |
| `Face` | blink, compositor, display channel, renderer, the drain | `Number` and `Publish` are the two halves of `PushFace`; `late` is a drain that timed out on the blink, which then goes on, or waits in `Publish` |
| `Privsep` | `worker/privsep`, both sides of the socket | the turn under the mutex, the reading goroutine, the child, `Close`; a frame is a prefix and a body |

`ArbiterProofs`, `ConversationProofs`, `TurnTierProofs`, `ContinuityProofs`,
`SupervisorProofs`, `FaceProofs`, `MemoryProofs` (`PromptWindow` and `Dream`) and
`WorkerProofs` (`Broker` and `Privsep`) hold the theorems. The last two extend two
modules each, which is why `PromptWindow` and `Broker` put their names before `Init`,
`Next`, `Spec` and `TypeOK`. Each `MC` module fixes the instance TLC checks. Variables commented *history* are not in the code: they record
what happened so that a property can speak of it. Definitions commented *Mutant*
are not part of a specification: each is a version of the action or operator below
it with a plausible bug, by which the property named for it in `PROJECT.json` is
known to be able to fail.

How they meet: `Conversation` runs `Arbiter` inside it, and has three of the edges
that `Supervisor` runs, with their channels, where that module has any number of them
and looks only at their coming and going. `Broker` is one call of the arbiter's worker, its
`Deadline` what `Expire` is there. `PromptWindow` refines the bare sequence that is
`Conversation`'s `history` to rows with stamps. In `Conversation` a panic and
the restart it leads to are one step; `Supervisor` has them apart.

Time is a number only in `TurnTier`, `Broker` and `PromptWindow`. Elsewhere a
deadline, a tick, a timeout is an action that may happen at any moment. Data is abstract where the properties do not
look at it: a message is a number, a learning a key, a mood a small integer.

## 3. The runs

| run | question | answer |
|---|---|---|
| `arbiter` | is the slot ever leaked, shared or given back twice; can a late worker answer for a later turn; does an admitted caller return? | no, no, yes; and the arbiter implements `TurnGate`, fairness included |
| `conversation` | are answers in order and given once, is the history made of pairs and complete for the next prompt? | yes, with pings competing, workers that hang, and edges that panic: a panic costs the message in hand and no other, and the second read loop it leaves answers nothing twice |
| | is every message answered, do all edges halt? | yes, though the outbound channel may be full and nobody reads it, in one setup from the start |
| `tier` | does a budget bound the turns of a day, is the cooldown kept, does the budget refuse only when it is spent? | yes for the budgets as wired, with one day's allowance more for each step back of the wall clock and each restart, and one cooldown saved by each restart |
| `dream` | do row and fact agree, is a fact ever written twice, does a recurring learning come up, do two writes act as one? | yes, but for a promotion torn by a kill or a failed revert, which `torn` records, and for keys the model decided unasked or twice, which `strayed` records |
| `dream_crash` | is a promoted learning always durable in the tree? | **no**, after a kill between the writes |
| `window` | is the window what was written last, without gaps, and does it read as a conversation? | yes, until the clock is stepped back; without gaps in an era even then |
| `broker` | does a call end, within its turn and its worst case, and does it fail only after it asked every provider that could be left time for? | yes |
| `supervisor` | does a failed edge come back, is the drain in order whatever fails meanwhile, does it end? | yes, and the root implements `OrderedDrain`, safety |
| `continuity` | is a clean exit lossless, is an interaction ever undone, does a mood reach the disk? | yes, no, yes |
| `face` | does a closed face reopen, is the last frame sent before the renderer stops an open one, does the drain end? | yes; yes, unless the drain timed out on the blink; yes, and the blink with it unless it timed out and the renderer stopped with the channel full |
| `privsep` | can a turn get another's result, can two children be spoken to, does every turn return? | no, no, yes |
| `privsep_panic` | does the process survive every turn? | **no** |

The two runs that end in a violation each contradict a line of the repository;
`PROJECT.json` quotes it under `findings`.

The type invariants of `Conversation`, `Dream` and `Privsep` are also checked in their
runs; those of all modules are proved (section 4). Every safety property in the table,
every action property and both refinements without fairness are proved too, so that
the runs show them on an instance small enough to look at, and the mutants that each
can fail; what the runs alone show is what must eventually happen.

### Bounds

* `arbiter`: three turns. One is abandoned, one is admitted while the first one's
  worker still runs, one is refused or arrives at the release. The proofs lift the
  safety part to any number.
* `conversation`: channels of one slot instead of sixteen, and four setups. In
  *Chat* (two messages and a ping, the CLI) the second message waits in a full
  channel, and a message and a ping take the slot from each other; it is not shut
  down, which keeps it small. In *Restarts* two panics make three read loops for two
  messages: a loop of a dead Serve holds one message while the newest takes the
  other. In *Network* (Telegram) sends and the recorder fail, and an edge panics. In
  *Dormant* nobody reads the outbound channel, and of two pings the second is stuck.
  The last three may be shut down at any moment.
* `tier`: two days of three ticks, a ping allowed twice a day and a dream once,
  cooldowns of two ticks, one step back of the clock, one restart (what was charged and
  fired before it counts on), a power gate
  that may refuse. A run can begin on one day and consume on the next, and the step
  can bring an old day back.
* `dream`: two keys and one unkeyed row against a window of two rows, so that the
  window can be crowded; counts to three with the threshold at two; two operations
  in a dream; two kills; a key no row has, and one proposal that decides a key twice
  or one that was not offered. `MaxFacts` is two so that a duplicate is a state. The
  crash run needs one key and one kill.
* `window`: three turns in two conversations and a window of three rows, so that it
  cuts a turn in two; three ticks, so that rows share a stamp; one step back; one
  loss. The proofs lift this to any size.
* `broker`: three providers, two retries, a delay of two ticks and a timeout of three,
  so that one provider takes thirteen at most, against a deadline of twenty-seven: the
  third must still be asked and cannot finish its retries, and the context may end in
  the middle of a request or of a delay. The proofs lift the safety part to any chain
  and deadline.
* `supervisor`: three edges and two failures: one fails while a later one is waited
  for, or the same one twice; any may hang.
* `continuity`: five moods, drift by one, so that the mood saturates; two stamps;
  two starts of the process.
* `face`: a channel of two frames and four blinks: the pusher has to wait, and the drain
  may time out while it does.
* `privsep`: two turns and two children: the second turn runs after the first was
  cancelled at any of its steps. Starting a third child is never needed.

All runs stop for good in some states (every turn has returned, the process has
exited), so deadlock is not checked; that nothing is stuck is what the liveness
properties say.

### Fairness

Weak fairness stands for Go's scheduler and for timers: a goroutine that can go on
does, a deadline passes. It is never assumed of a worker or a child (they may hang
for ever), of the owner, of a job becoming due, of a signal, a kill or a capture. In
`Conversation` it is stated of all read loops, or all turns, at once: a behaviour has
finitely many of their steps, so that is fairness to each.
Strong fairness is used four times: a privsep turn waiting for the mutex gets it
(Go's mutex hands itself to a waiter after a millisecond); reading the learnings
works again and again among failing reads; so do writes of the checkpoint;
the reflex scheduler's select sees its cancellation between blinks, which are
seconds apart. Telegram's network call in `Send` is assumed to end. In `Supervisor`
suture restarts what failed and an edge that does not hang returns when told; in
`Broker` time goes on and a wait that is over ends before it does, which is how
late a Go timer is on the scale of seconds. When a wait is over is not part of that: the
step that begins it says so (`wake`), from the timer and the context the code gives it.

## 4. The proofs

TLAPS checks these for every value of the constants. Few of the properties are
inductive as they stand; what each proof adds is named here.

**`ArbiterProofs`**, for any set of turns. `ArbiterTypes` is the type invariant.
`TokenSafety` (the token is taken exactly while a turn is in flight, and then one
is) is inductive together with it: the only steps that touch token or stage are
those of the caller who holds the token. `TurnFence` (a verdict comes from the
turn's own worker) needs a strengthening, that what lies in a done channel came
from that turn's worker; an abandoned worker then writes where nobody else reads.
`ArbiterRefinesGate` shows that each step of the arbiter is, under the refinement
mapping, a step of `TurnGate` or leaves it alone: `Admit` enters because
`TokenSafety` says nobody is inside when the token is free, and the two cases of
the select change nothing the gate sees. `TurnGate`'s fairness is left to TLC.

**`ConversationProofs`**, for any number of messages, pings and panics, any capacity
of the channels and any set of setups. It does not repeat the arbiter: it takes
`ArbiterProofs` as an instance whose turns are the messages and pings, and
`ConversationSubmits` shows that every step of the conversation, a panic or a drain
included, is a step of `Arbiter` or leaves its state alone. `ConversationFence` (one
turn in flight, each with its own worker's answer) and `ConversationGate` (the
conversation implements `TurnGate`, safety) are then the arbiter's theorems.
`ConversationTypes` needs that a read loop exists for each start of the transport and
no other publishes, and that each start but the first took a panic (`LoopsCounted`),
and that whoever is at work has a turn in hand (`HandsFull`).
`ConversationHistory` adds that while the loop is about to write a pet line its owner
line is the last one, unless the recorder refuses lines by then (`LastIsOwner`).
`ConversationWindow` is about a message and the *next* one, so its invariant follows
each really answered message: it is in the loop's hand with what is missing still to
be written, or both lines are in the history (`AnsweredIsKept`); a message can be in
Submit only while the loop waits there with it (`InSubmit`).
`ConversationAnswers` follows every message through the stations of its way, from a
read loop over the inbound channel, the loop's hand and the outbound channel to the
transport's hand and the owner (`Pipeline`). Whatever is at a station is ahead of
everything at the stations behind it and of what is behind it at its own, where *ahead*
means written earlier while there is one read loop and only different once there are
more; two loops that publish at once have different messages, and there is a second
one only after a restart (`PostsApart`). Every step moves one message by one station,
drops one, adds the youngest, makes *ahead* mean less, or leaves them all alone.

**`TurnTierProofs`**. `TierTypes` is the type invariant, which includes that no
counter passes its limit. `BudgetSafety` says that with a budget to itself no job
set charges more than `PerDay` turns to a calendar day, plus `PerDay` for each step
back of the wall clock and each restart, for any jobs, limits and days. `WithinBudget` is
far from inductive, since `tryConsume` resets its counter whenever the day differs.
The invariant splits time into eras, each ended by a step back or a restart. Within
an era (`DaysForward`) a budget's day, its job's pending run and the clock are in
order, which is where the assumption `OwnBudgets` is needed: another job's run
could be older than the counter. So within an era the counter is exact for its
day (`CounterExact`) and no later day has been charged in it; each finished era
left at most `PerDay` turns on each day; and the eras number `steps + restarts + 1`.
Section 5 says what happens without `OwnBudgets`. The other two need no such wiring.
`CooldownSafety` must show that what `Begin` checked still stands when `tryConsume`
is reached, which is another critical section: nobody but the run itself moves
`lastFired`, and the moment it will be set to is the one that was checked
(`CheckStands`). Over several boots the fires stay in order (`InTime`), so that of two
that follow each other only those with a restart between them may be close
(`AppendKeepsApart`). `RefusalSafety`, about steps, needs that what a budget counts as used
was charged to the day it counts (`UsedWasCharged`), also when two jobs share it.

**`ContinuityProofs`**, for any mood range, drift, clock and number of starts.
`ContinuityTypes` is the type invariant. `StampsKept` (the stamp of the last
interaction is never turned back while the process runs) needs that nothing which
could be put back into RAM is ahead of the clock (`StampsPast`), and that `SetMood`
replaces one field. `FlushIsFinal` (a clean exit leaves the final state on disk)
rests on the order of the drain, which is its invariant `DrainInOrder`: as long as
no edge outlived its timeout, the reflexes have stopped before dispatch is
cancelled, and dispatch before the loop is. After that nobody writes to RAM, so what
the loop holds for its last write is the final state, and nobody else writes the
file after it.

**`WorkerProofs`**, first `Broker`, for any chain, retries, delay, timeout and deadline.
`BrokerTypes` is the type invariant, with no provider asked more than `MaxRetries`
times again. `ChainBudget` says how long a call is at most: past its first `p`
providers within `p` times `PerProvider`. It is not inductive, since it does not see
where in a provider's retries the call is. The invariant `Timely` gives every request and every
delay the latest moment it can have begun (`Latest`) and bounds the end it sets itself by
one timeout or delay more. The arithmetic is in
`LatestFacts`. `Fallback` (a provider is asked, if the worst that those before it do
leaves time) follows from it with a second invariant, `Asked`: every provider the call has come to
was asked, if those before it left time and the shutdown did not begin.
Part of `Timely` is `InContext`: whatever a step begins to wait for, it waits for within
the context. From it follows `AbandonedWindsDown`: once the context is done the call waits
for nothing, and each of its steps gives up a provider. That it takes those steps, so
that the call is over the moment its turn is (`EndsWithTurn`), is left to TLC.

Then `Privsep`, for any number of turns and children. `WallTypes` and `WallOneChild`
(only the running child can be spoken to) need to know who holds the mutex at each
step and what has not begun (`Ownership`, `Unborn`). `WallOwnResult` is the one that
is hard: no frame names its turn, and a reading goroutine left by a cancelled turn may
read from the connection of a later one. The invariant `StreamIsTheTurns` says what is
in the stream instead: while a turn waits, everything between it and the live child is
that turn's, once, as a job, at work or as what is left of one result, and the turn's
own goroutine reads from there; when nobody waits, or the waiting turn has its result,
the stream is empty. A late goroutine that takes a part leaves the rest without a
beginning, and a turn that gets no whole frame gets a wire error.

**`MemoryProofs`**, first `PromptWindow`, for any window, any conversations and any number of
turns, steps back and losses. `WindowTypes` includes that ids are unique, although
a loss of power takes the AUTOINCREMENT back. The invariant behind the other two is
`StampsInEra`: within an era, rows with higher ids have no earlier stamps, and no row's
stamp of the current era is ahead of the clock. So within an era the order of the
query is the order of writing, ties included (`LaterWithinEra`); `WindowLatest` is
that for the one era before any step back, and `WindowHasNoGap` for each.
`PromptReadsInPairs` adds that in the table a reply has the number after its owner line
(`RepliesFollow`), and two facts about the reading: that the places of the rows in a
window are one to one (a count of what is before a row, so that it needs the library's
facts on cardinality), and that with no row between two of them their places differ by
one.

Then `Dream`, for any keys, window, threshold, operations and number of kills.
`DreamTypes` includes that `newer` is a strict total order of the rows. The two writes
of a promotion leave a moment where neither `PromotedIffFact` nor its negation says
anything, so the invariant has two parts. `JobInv` is about the job: what it is in the
middle of, that what is offered is pending until the worker answers, and that a key
not named wrongly is in one operation and pending until the job comes to it.
`DurableInv` is about the rows: besides the two properties, that in the moment between
the writes there is no fact yet (`HalfDoneIsNew`). One lemma, `KeyStep`, says of every
step that it moves at most one learning, and how. From it follow `PromotionSafety` and
`FactSafety`, one key at a time, and `DreamIsLifecycle`: the first write is a stutter, and what
ends the moment after it, the second write, a revert or a kill, is one decision or none.

**`SupervisorProofs`**, for any number of edges. `SupervisorTypes` is the type
invariant. `LaterStopped` is not inductive, since it does not say how far the drain
is: the invariant adds which edges were told at which place of the loop
(`ToldFrom`), that suture's table is the rest and holds nothing that is gone
(`Table`), and that everything told is settled, but for the one being waited for
(`Settled`). With it `SupervisorDrains` shows `ImplementsDrain`: each step of an edge or
of the root changes the status of one edge as a step of `OrderedDrain` may
(`OneMove`), or of none. The spec of `OrderedDrain` is safety only, and so is its proof.

**`FaceProofs`**, for a channel of any capacity and any number of blinks. `FaceTypes`
is the type invariant; that the numbers stay within two per blink needs to know which
number each step of the blink is at (`Numbered`). `FramesInOrder` adds what is being
published and what is on screen to the order of the channel (`InOrder`): the one pusher
numbers its next frame only when the last one is in the channel, so that the renderer
never drops one as stale (`terminal.go:56`). `EyesLeftOpen` follows the
frame sent last (`Sent`) from the pusher through the channel to the screen: it is open
unless the blink is between its two frames, and by the time the renderer is told to
stop the blink has ended, or the drain timed out on it (`late`).

The only assumptions are those on the constants, each named and checked by TLC on
every run of its module, and `OwnBudgets`.

**Only model-checked:** every liveness property and what holds under fairness only,
which is outside the prover's reach, as is ENABLED: that an admitted turn returns, every
message is answered, a call ends, and with its turn, a drain ends, an edge and an eye come back, a mood
reaches the disk, a recurring learning comes up; and the fairness half of `TurnGate`.
The findings of section 5 are runs too: a violation is shown by one behaviour.

## 5. What the code does that its documents do not say

Met while modelling. Two contradict a line of the repository and have a run that shows
it, `privsep_panic` and `dream_crash`; the others are recorded here.

* AD-8 of the architecture spine has events during a turn "coalesce into a single
  pending catch-up slot". The arbiter has no such slot: it refuses, the owner gets
  the acknowledgement, a ping or dream waits for its next cadence, and the budget
  it consumed is spent.
* The slot is free after a deadline while the abandoned worker goes on, so two
  workers may run at once although AD-2 and AD-8 say "≤1 worker turn in flight".
  The gate is about turns, and is kept. Under privsep the second one waits on the mutex.
* AD-7 has a re-observed learning go back to `status=pending`; `learnings.go:48-51`
  leaves it alone on purpose, and `NoDuplicateFact` fails if it does not.
* `RecurringOffered` has an escape: the window is cut before the threshold is
  applied, and rows below the threshold never leave, so enough of them hide a
  recurring learning for good (AD-15 is about preventing that).
* Core applies a dream's operations as they come, neither against what was offered
  nor against each other (`dream.go:108`), although AD-6 has core validate what the
  worker proposes. After [promote k, prune k] the fact stands and its row is pruned;
  a key promoted twice gives its fact twice. `strayed` records such keys; what is
  promised of the others holds.
* A power failure is harsher than a kill: sqlite runs with `synchronous(NORMAL)`
  (`store.go:50`), which keeps the database whole but may lose the last commits, while
  the facts file is synced. A promotion may then be gone and its fact stay, and the
  next dream appends it again. The directory of the renamed file is not synced
  (`atomic.go:20-22` says so), so the reverse can happen too. `PromptWindow` has the
  loss of rows; `Dream` has kills only.
* The comment on `Budget` (`turntier.go:43-45`) says one is shared by all turn jobs.
  `tryConsume` resets the counter whenever the caller's day differs, also when it is
  earlier: of two jobs on one budget, one that read the time before midnight sets the
  day back after the other consumed, and the next reset gives the day a second
  allowance. `main.go:223,239` give each job its own, where it cannot happen; the
  assumption `OwnBudgets` of the proof says that.
* The renderer's select may take its cancellation while the open face is queued
  (`terminal.go:41`), so that "the face is never left frozen mid-blink"
  (`blink.go:88-90`) holds of what was sent (`ReopenSent`) and not of what was painted.
* "The reflex edge drains before the renderer, so this push still reaches it"
  (`blink.go:90`) is true while the drain waits: after five seconds (`supervisor.go:65`) it
  goes on, so a renderer that stalled with a full channel is cancelled while the blink
  still waits to push, the last frame it was sent may be a closed one, and if it stops
  with the channel full the blink waits until the process is gone: `PushFace` has no
  context. `late` records such a drain; `ReopenSent` and `DrainCompletes` say what is
  left then.
* `Recent` orders by wall-clock time (`store.go:143`). After the clock is stepped back
  a turn just recorded sorts behind older ones and may be cut off, so that "the next
  turn's recent window includes it" (`dispatch.go:101-102`) is true within an era:
  `WindowIsLatest`, `NoGapWithinEra`.
* The timeout of a provider (`broker.go:48`) is as long as the deadline of the turn
  (`main.go:69`), which began earlier: a first provider that hangs leaves nothing for
  the next, against AC1 of story 3-2. `FallbackInTime` says what deadline would do. It
  shows once `New` wires a second provider.
* `failsafe.With(retry, timeout)` (`broker.go:108`) puts the retries around the
  timeout, so that the timeout is one request's and does not "cover the full retry
  sequence" as `deferred-work.md:58` has it: `PerProvider` is what a provider can take.
* `classify` (`openai.go:36`) marks every `RequestError` transient. go-openai returns
  one also for a 4xx whose body is not in its error format, which is then retried
  although `broker.go:98-99` has a 4xx fall through at once. In `Broker` it is the
  answer "request4xx".
* `openai.go:17-21` counts network failures as transient; go-openai hands a failed
  connection on as it is, not as a `RequestError`, so `classify` does not mark it and
  the broker does not retry it. In `Broker` it is the answer "other".
* The broker asks the next provider of its chain also when the context is done; the
  request fails at once. `tried` therefore counts the providers asked in time, and
  `WindsDown` says that what is left of the chain takes no time.
* Budgets and cooldowns are lost with the process (`main.go:216-217` says so), so a
  process that keeps restarting spends one day's allowance, and saves one cooldown, with
  each start: `WithinBudget` and `CooldownKept` say no more is lost, and NFR14's bound
  holds of one boot only.
* A reply whose `Send` fails is gone (`telegram.go:124`): it was recorded, the owner does
  not get it, and nothing tries again.
* A panic of the CLI transport leaves its read loop behind (`cli.go:42`), so that two
  loops scan one input. Messages may then overtake each other (`AnswersInOrder` is
  claimed for the first loop only), and nothing is answered twice. In the model
  each loop takes whole lines: `bufio.Scanner`'s own buffer, which the loops do not
  share, is not modelled.
* A learning captured by a reply turn cannot reach the table today: dispatch
  ignores `Result.MemoryOps` and `ApplyMemoryOps` has no caller outside tests. The
  model's captures are `ApplyLearning` as the code defines it.
* A mood-drift checkpoint and the loop's may overlap, and the older snapshot may win
  until the next tick (`MoodReachesDisk` is "in the end"). If an edge outlives the
  five seconds of the drain the final flush of `main.go:244-246` need not be the
  last write: `CleanExitDurable` excepts that (`late`).
* A privsep reading goroutine that starts late may read a frame of the next turn's
  child. `OwnResult` holds all the same, as that turn then fails on a wire error.

## 6. Not modelled, and the plan

Not modelled, and why:

* prompt wording, the reading of the model's JSON, full-text search, gob: functions of
  text, without state of the program;
* HTTP to providers, Telegram's long polling, the credential header: I/O;
* the vault's permissions, the child's uid, the re-execution: attributes handed to the
  kernel;
* environment parsing and the wiring of `main` beyond the channels, edges and
  budgets: done once, before anything runs;
* the cadence of the scheduler: a run may begin at any time, which allows more than
  the code does; and the recovery of a panicking job inside the scheduler;
* the end of the CLI's input: the owner may stop writing at any moment, which is the
  same to everybody else;
* the branch of `Root.Serve` for a suture that ends on its own (`supervisor.go:58-60`): no
  edge of `main` returns what would make it;
* the inside of suture, failsafe-go, sqlite and renameio: modelled from how the code
  uses them (restart and removal, retry around timeout, a table that keeps what it
  synced, a file that is replaced or not).

The order of work was: the gate every turn passes (`Arbiter`), the path of the
owner's message through it (`Conversation`), the gates of the pet's own turns
(`TurnTier`), what they write (`Dream`), what survives (`Continuity`), the screen
(`Face`), the second worker (`Privsep`); then the call inside a turn (`Broker`), what
the next prompt sees (`PromptWindow`), the root over the edges (`Supervisor`), and
panics, restarts and power failures in the modules that were there. What is left,
in order:

1. Proofs: the safety that the runs check is proved. Worth stating next is what joins
   the modules: that `Conversation`'s `history` is what `PromptWindow` records, and that
   its edges are drained as `Supervisor` drains them.
2. Captures from reply turns through `ApplyMemoryOps`, once dispatch calls it.
3. A second provider in the chain, once `New` wires one: the deadline of the turn is
   then to be set by `FallbackInTime`.
4. Power failures in `Dream`, and the order of sqlite's and the tree's syncs.
