------------------------------- MODULE TurnTier -------------------------------
(* core/turntier: the gates in front of every scheduled turn (the proactive   *)
(* ping, the dream). Each job runs on a goroutine of its own, one run at a    *)
(* time, and passes a cooldown, the power gate and a daily budget before it   *)
(* submits a turn. Budgets are shared by reference: BudgetOf says who shares. *)
(* The scheduler's cadence is left out: a run may begin at any time.          *)
EXTENDS Integers, Sequences

CONSTANTS
  Job,          \* the turn jobs
  Budget,       \* the Budget objects main creates
  BudgetOf,     \* which one each job was given
  PerDay,       \* the daily limit of each
  Cooldown,     \* least time between two fires of a job
  MaxTime,      \* bound on time
  DayOf,        \* the calendar day of a wall-clock time
  Battery,      \* may the power gate say no? (never, with ACPower)
  MaxSteps,     \* bound on steps of the wall clock (0: it only runs forward)
  MaxRestarts   \* bound on restarts of the process

Time == 0..MaxTime

ASSUME TurnTierAssumption ==
  /\ MaxTime \in Nat /\ MaxSteps \in Nat /\ MaxRestarts \in Nat
  /\ BudgetOf \in [Job -> Budget]
  /\ PerDay \in [Budget -> Nat]
  /\ Cooldown \in [Job -> Nat]
  /\ Battery \in BOOLEAN
  /\ DayOf \in [Time -> Nat \ {0}]
  /\ \A s, t \in Time : s <= t => DayOf[s] <= DayOf[t]

Never == -1

VARIABLES
  mono,       \* the monotonic clock, which now.Sub uses
  wall,       \* the wall clock, which now.Year and now.YearDay use
  steps,      \* how often the wall clock was stepped back
  restarts,   \* how often the process restarted
  pc,         \* where each job's run is
  now,        \* the time each run read when it began: [mono, wall], and its era
  used, day,  \* each budget's counter and the day it counts (0: none yet)
  lastFired,  \* each job's lastFired, Never when zero
  era,        \* history: the era a budget counts in
  charged,    \* history: turns charged to a budget per calendar day, this boot
  before,     \* history: the same, in the boots before
  fires       \* history: each job's fires, when and in which boot

gateVars == <<pc, now, used, day, lastFired, era, charged, before, fires>>
vars == <<mono, wall, steps, restarts, gateVars>>

Days == {DayOf[t] : t \in Time}

\* Within an era no calendar day comes again: a step back of the wall clock and a
\* restart, which forgets the day that was counted, each begin a new one.
Era == steps + restarts

Fire == [at : Nat, boot : Nat]

TypeOK ==
  /\ mono \in Nat /\ wall \in Time /\ steps \in Nat /\ restarts \in Nat
  /\ pc \in [Job -> {"idle", "gates", "submit"}]
  /\ now \in [Job -> [mono : Nat, wall : Time, era : Nat]]
  /\ used \in [Budget -> Nat] /\ \A b \in Budget : used[b] <= PerDay[b]
  /\ day \in [Budget -> Days \cup {0}]
  /\ lastFired \in [Job -> Nat \cup {Never}]
  /\ era \in [Budget -> Nat]
  /\ charged \in [Budget -> [Days -> Nat]]
  /\ before \in [Budget -> [Days -> Nat]]
  /\ fires \in [Job -> Seq(Fire)]

FreshGates ==
  /\ pc = [j \in Job |-> "idle"]
  /\ now = [j \in Job |-> [mono |-> 0, wall |-> 0, era |-> 0]]
  /\ used = [b \in Budget |-> 0]
  /\ day = [b \in Budget |-> 0]
  /\ lastFired = [j \in Job |-> Never]
  /\ era = [b \in Budget |-> 0]
  /\ charged = [b \in Budget |-> [d \in Days |-> 0]]
  /\ before = [b \in Budget |-> [d \in Days |-> 0]]
  /\ fires = [j \in Job |-> <<>>]

Init == /\ mono = 0 /\ wall = 0 /\ steps = 0 /\ restarts = 0
        /\ FreshGates

-----------------------------------------------------------------------------
(* A run of a job *)

\* lastFired is set and the cooldown has not elapsed since.
Cooling(j, t) == lastFired[j] # Never /\ t - lastFired[j] < Cooldown[j]

\* The run reads the time once, at its start, and checks the cooldown. A run
\* that is still cooling down leaves nothing behind.
Begin(j) ==
  /\ pc[j] = "idle"
  /\ ~Cooling(j, mono)
  /\ now' = [now EXCEPT ![j] = [mono |-> mono, wall |-> wall, era |-> Era]]
  /\ pc' = [pc EXCEPT ![j] = "gates"]
  /\ UNCHANGED <<mono, wall, steps, restarts, used, day, lastFired, era, charged, before, fires>>

\* The battery gate says no.
PowerDenies(j) ==
  /\ Battery
  /\ pc[j] = "gates"
  /\ pc' = [pc EXCEPT ![j] = "idle"]
  /\ UNCHANGED <<mono, wall, steps, restarts, now, used, day, lastFired, era, charged,
                 before, fires>>

\* Mutant: no reset at the day boundary.
UsedEver(b, d) == used[b]

\* tryConsume's reset: what is used up of the budget once the counter is
\* brought to the day d of the caller.
UsedOn(b, d) == IF d # day[b] THEN 0 ELSE used[b]

\* tryConsume refuses. The reset at a day boundary stays.
Exhausted(j) ==
  LET b == BudgetOf[j]
      d == DayOf[now[j].wall]
  IN /\ pc[j] = "gates"
     /\ UsedOn(b, d) >= PerDay[b]
     /\ used' = [used EXCEPT ![b] = UsedOn(b, d)]
     /\ day' = [day EXCEPT ![b] = d]
     /\ era' = [era EXCEPT ![b] = now[j].era]
     /\ pc' = [pc EXCEPT ![j] = "idle"]
     /\ UNCHANGED <<mono, wall, steps, restarts, now, lastFired, charged, before, fires>>

\* Mutant: the reset does not note the day it is for.
ConsumeKeepsDay(j) ==
  LET b == BudgetOf[j]
      d == DayOf[now[j].wall]
  IN /\ pc[j] = "gates"
     /\ UsedOn(b, d) < PerDay[b]
     /\ used' = [used EXCEPT ![b] = UsedOn(b, d) + 1]
     /\ lastFired' = [lastFired EXCEPT ![j] = now[j].mono]
     /\ charged' = [charged EXCEPT ![b][d] = @ + 1]
     /\ fires' = [fires EXCEPT ![j] = Append(@, [at |-> now[j].mono, boot |-> restarts])]
     /\ pc' = [pc EXCEPT ![j] = "submit"]
     /\ UNCHANGED <<mono, wall, steps, restarts, now, day, era, before>>

\* Mutant: lastFired is kept only once, on the first fire.
ConsumeMarksOnce(j) ==
  LET b == BudgetOf[j]
      d == DayOf[now[j].wall]
  IN /\ pc[j] = "gates"
     /\ UsedOn(b, d) < PerDay[b]
     /\ used' = [used EXCEPT ![b] = UsedOn(b, d) + 1]
     /\ day' = [day EXCEPT ![b] = d]
     /\ era' = [era EXCEPT ![b] = now[j].era]
     /\ lastFired' = [lastFired EXCEPT ![j] = IF @ = Never THEN now[j].mono ELSE @]
     /\ charged' = [charged EXCEPT ![b][d] = @ + 1]
     /\ fires' = [fires EXCEPT ![j] = Append(@, [at |-> now[j].mono, boot |-> restarts])]
     /\ pc' = [pc EXCEPT ![j] = "submit"]
     /\ UNCHANGED <<mono, wall, steps, restarts, now, before>>

\* tryConsume reserves a turn and the run sets lastFired, to the time it began.
Consume(j) ==
  LET b == BudgetOf[j]
      d == DayOf[now[j].wall]
  IN /\ pc[j] = "gates"
     /\ UsedOn(b, d) < PerDay[b]
     /\ used' = [used EXCEPT ![b] = UsedOn(b, d) + 1]
     /\ day' = [day EXCEPT ![b] = d]
     /\ era' = [era EXCEPT ![b] = now[j].era]
     /\ lastFired' = [lastFired EXCEPT ![j] = now[j].mono]
     /\ charged' = [charged EXCEPT ![b][d] = @ + 1]
     /\ fires' = [fires EXCEPT ![j] = Append(@, [at |-> now[j].mono, boot |-> restarts])]
     /\ pc' = [pc EXCEPT ![j] = "submit"]
     /\ UNCHANGED <<mono, wall, steps, restarts, now, before>>

\* Submit returns, at once when a turn is in flight, and OnResult ran. What was
\* reserved is spent whatever the outcome.
SubmitReturns(j) ==
  /\ pc[j] = "submit"
  /\ pc' = [pc EXCEPT ![j] = "idle"]
  /\ UNCHANGED <<mono, wall, steps, restarts, now, used, day, lastFired, era, charged,
                 before, fires>>

-----------------------------------------------------------------------------
(* The clocks and the process *)

TimePasses == /\ wall < MaxTime /\ mono < MaxTime + MaxSteps
              /\ mono' = mono + 1
              /\ wall' = wall + 1
              /\ UNCHANGED <<steps, restarts, gateVars>>

\* The wall clock is set back (NTP on a board without a real-time clock); the
\* monotonic clock is not.
ClockSteps(t) == /\ steps < MaxSteps
                 /\ t < wall
                 /\ wall' = t
                 /\ steps' = steps + 1
                 /\ UNCHANGED <<mono, restarts, gateVars>>

\* The budgets and cooldowns are in memory only (main.go:216-217): a process that
\* starts knows nothing of what was spent before it.
Restart ==
  /\ restarts < MaxRestarts
  /\ restarts' = restarts + 1
  /\ pc' = [j \in Job |-> "idle"]
  /\ now' = [j \in Job |-> [mono |-> 0, wall |-> 0, era |-> 0]]
  /\ used' = [b \in Budget |-> 0]
  /\ day' = [b \in Budget |-> 0]
  /\ lastFired' = [j \in Job |-> Never]
  /\ era' = [b \in Budget |-> Era + 1]
  /\ charged' = [b \in Budget |-> [d \in Days |-> 0]]
  /\ before' = [b \in Budget |-> [d \in Days |-> before[b][d] + charged[b][d]]]
  /\ UNCHANGED <<mono, wall, steps, fires>>

Next == \/ \E j \in Job : \/ Begin(j) \/ PowerDenies(j) \/ Exhausted(j)
                          \/ Consume(j) \/ SubmitReturns(j)
        \/ TimePasses
        \/ \E t \in Time : ClockSteps(t)
        \/ Restart

Spec == Init /\ [][Next]_vars

-----------------------------------------------------------------------------
(* Properties *)

\* NFR14, turntier.go:43-45: no more than perDay turns are charged to a budget
\* for one calendar day, whenever the runs that charge them began. Every step
\* back of the wall clock and every restart forgives at most one day's allowance
\* more: a board without a clock of its own, or one that keeps crashing, spends
\* no more than that. True when each job has a budget of its own, as main wires
\* it; false when two share one.
WithinBudget ==
  \A b \in Budget : \A d \in Days :
    before[b][d] + charged[b][d] <= PerDay[b] * (steps + restarts + 1)

\* Two fires of a job are at least its cooldown apart on the monotonic clock,
\* though the check and the update of lastFired are two critical sections and
\* the wall clock may be set in between. A restart forgets lastFired, and each
\* saves the job at most one cooldown: of the fires of n boots, n + 1 cannot
\* come within one.
CooldownKept ==
  \A j \in Job : \A i, k \in DOMAIN fires[j] :
    i < k /\ fires[j][k].boot - fires[j][i].boot < k - i
      => fires[j][k].at - fires[j][i].at >= Cooldown[j]

\* A refusal is honest: a run is turned away by the budget only when the whole
\* limit of that day was really charged (no reset, stale or early, loses turns).
RefusalHonest ==
  [][\A j \in Job : Exhausted(j) =>
       charged[BudgetOf[j]][DayOf[now[j].wall]] >= PerDay[BudgetOf[j]]]_vars
===============================================================================
