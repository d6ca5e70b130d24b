---------------------------- MODULE TurnTierProofs ----------------------------
(* Theorems about core/turntier for every number of jobs, limit, cooldown and *)
(* calendar. The daily budget holds when each job has a budget of its own, as *)
(* main wires it. The invariant that carries the proof says what the code     *)
(* relies on and nowhere states: within one era, which a step back of the     *)
(* wall clock or a restart ends, a run between its reading of the clock and   *)
(* tryConsume is never behind the day its budget already counts.              *)
EXTENDS TurnTier, TLAPS

OwnBudgets == \A i, j \in Job : BudgetOf[i] = BudgetOf[j] => i = j

\* What may have been charged for the day d in the era b counts in: the whole
\* limit if d has gone by, the counter if d is counted, nothing if d is to come.
InEra(b, d) == IF d < day[b] THEN PerDay[b] ELSE IF d = day[b] THEN used[b] ELSE 0

\* An era that is over forgives each day at most one limit.
CounterExact ==
  \A b \in Budget : \A d \in Days :
    before[b][d] + charged[b][d] <= PerDay[b] * era[b] + InEra(b, d)

\* Within an era nobody counts, or is about to count, a day that has not come,
\* and a run in its gates is not behind its budget.
DaysForward ==
  /\ \A b \in Budget : /\ era[b] <= Era
                       /\ era[b] = Era => day[b] <= DayOf[wall]
  /\ \A j \in Job : pc[j] = "gates" =>
       /\ now[j].era <= Era
       /\ now[j].era = Era => now[j].wall <= wall
       /\ era[BudgetOf[j]] <= now[j].era
       /\ era[BudgetOf[j]] = now[j].era => day[BudgetOf[j]] <= DayOf[now[j].wall]

IInv == TypeOK /\ CounterExact /\ DaysForward

LEMMA TypeInit == Init => TypeOK
BY TurnTierAssumption DEF Init, FreshGates, TypeOK, Time, Never

\* Every step of the tier stays within the types.
LEMMA TypeStep == TypeOK /\ [Next]_vars => TypeOK'
<1> SUFFICES ASSUME TypeOK, [Next]_vars PROVE TypeOK'
  OBVIOUS
<1> USE TurnTierAssumption DEF TypeOK
<1>0. ASSUME NEW j \in Job
      PROVE  /\ BudgetOf[j] \in Budget
             /\ DayOf[now[j].wall] \in Days
             /\ UsedOn(BudgetOf[j], DayOf[now[j].wall]) \in Nat
             /\ UsedOn(BudgetOf[j], DayOf[now[j].wall]) <= PerDay[BudgetOf[j]]
  <2>1. BudgetOf[j] \in Budget /\ now[j].wall \in Time
    OBVIOUS
  <2>2. DayOf[now[j].wall] \in Days
    BY <2>1 DEF Days
  <2> QED BY <2>1, <2>2 DEF UsedOn
<1>1. ASSUME NEW j \in Job, Begin(j) PROVE TypeOK'
  BY <1>1 DEF Begin, Era
<1>2. ASSUME NEW j \in Job, PowerDenies(j) PROVE TypeOK'
  BY <1>2 DEF PowerDenies
<1>3. ASSUME NEW j \in Job, Exhausted(j) PROVE TypeOK'
  <2>1. /\ used' = [used EXCEPT ![BudgetOf[j]] = UsedOn(BudgetOf[j], DayOf[now[j].wall])]
        /\ day' = [day EXCEPT ![BudgetOf[j]] = DayOf[now[j].wall]]
        /\ pc' = [pc EXCEPT ![j] = "idle"]
    BY <1>3 DEF Exhausted
  <2>2. /\ era' = [era EXCEPT ![BudgetOf[j]] = now[j].era]
        /\ UNCHANGED <<mono, wall, steps, restarts, now, lastFired, charged, before, fires>>
    BY <1>3 DEF Exhausted
  <2> QED BY <1>0, <2>1, <2>2
<1>4. ASSUME NEW j \in Job, Consume(j) PROVE TypeOK'
  <2> DEFINE b == BudgetOf[j]
             d == DayOf[now[j].wall]
             u == UsedOn(b, d)
  <2>1. /\ u < PerDay[b]
        /\ used' = [used EXCEPT ![b] = u + 1]
        /\ day' = [day EXCEPT ![b] = d]
        /\ lastFired' = [lastFired EXCEPT ![j] = now[j].mono]
        /\ era' = [era EXCEPT ![b] = now[j].era]
        /\ charged' = [charged EXCEPT ![b][d] = @ + 1]
        /\ fires' = [fires EXCEPT ![j] = Append(@, [at |-> now[j].mono, boot |-> restarts])]
        /\ pc' = [pc EXCEPT ![j] = "submit"]
        /\ UNCHANGED <<mono, wall, steps, restarts, now, before>>
    BY <1>4 DEF Consume
  <2>2. b \in Budget /\ d \in Days /\ u \in Nat
    BY <1>0
  <2> HIDE DEF b, d, u
  <2>3. used' \in [Budget -> Nat] /\ \A c \in Budget : used'[c] <= PerDay[c]
    <3>1. /\ used \in [Budget -> Nat] /\ \A c \in Budget : used[c] <= PerDay[c]
          /\ PerDay \in [Budget -> Nat]
      OBVIOUS
    <3>2. /\ b \in Budget /\ u \in Nat /\ u < PerDay[b]
          /\ used' = [used EXCEPT ![b] = u + 1]
      BY <2>1, <2>2
    <3> HIDE DEF TypeOK
    <3>3. u + 1 \in Nat /\ u + 1 <= PerDay[b]
      BY <3>1, <3>2
    <3> QED BY <3>1, <3>2, <3>3
  <2>4. charged' \in [Budget -> [Days -> Nat]]
    <3>1. charged \in [Budget -> [Days -> Nat]] /\ charged[b][d] + 1 \in Nat
      BY <2>2
    <3>2. charged' = [charged EXCEPT ![b] = [charged[b] EXCEPT ![d] = charged[b][d] + 1]]
      BY <2>1
    <3>3. [charged[b] EXCEPT ![d] = charged[b][d] + 1] \in [Days -> Nat]
      BY <2>2, <3>1
    <3> HIDE DEF TypeOK
    <3> QED BY <3>1, <3>2, <3>3
  <2>5. fires' \in [Job -> Seq(Fire)]
    <3>1. [at |-> now[j].mono, boot |-> restarts] \in Fire
      BY DEF Fire
    <3> QED BY <2>1, <3>1
  <2> QED BY <2>1, <2>2, <2>3, <2>4, <2>5
<1>5. ASSUME NEW j \in Job, SubmitReturns(j) PROVE TypeOK'
  BY <1>5 DEF SubmitReturns
<1>6. CASE TimePasses
  BY <1>6 DEF TimePasses, Time, gateVars
<1>7. ASSUME NEW t \in Time, ClockSteps(t) PROVE TypeOK'
  BY <1>7 DEF ClockSteps, gateVars
<1>8. CASE Restart
  <2>1. before' \in [Budget -> [Days -> Nat]] /\ charged' \in [Budget -> [Days -> Nat]]
    BY <1>8 DEF Restart
  <2>2. era' \in [Budget -> Nat]
    BY <1>8 DEF Restart, Era
  <2> QED BY <1>8, <2>1, <2>2 DEF Restart, Time, Never
<1>9. CASE UNCHANGED vars
  BY <1>9 DEF vars, gateVars
<1> QED
  BY <1>1, <1>2, <1>3, <1>4, <1>5, <1>6, <1>7, <1>8, <1>9 DEF Next

\* Clocks, counters and logs stay within their types, and no counter exceeds
\* its limit, whoever shares a budget and whatever the clocks do.
THEOREM TierTypes == Spec => []TypeOK
BY TypeInit, TypeStep, PTL DEF Spec

-----------------------------------------------------------------------------
(* The daily budget, under the wiring of main. *)

\* A day's allowance more for each era.
LEMMA EraAllowance ==
  ASSUME NEW p \in Nat, NEW a \in Nat, NEW c \in Nat
  PROVE  /\ p * a \in Nat
         /\ p * (a + 1) = p * a + p
         /\ a < c => p * a + p <= p * c
<1>1. p * a \in Nat /\ p * (a + 1) = p * a + p
  OBVIOUS
<1>2. ASSUME a < c PROVE p * a + p <= p * c
  <2>1. PICK k \in Nat : c = a + 1 + k
    <3>1. c - (a + 1) \in Nat /\ c = a + 1 + (c - (a + 1))
      BY <1>2
    <3> QED BY <3>1
  <2>2. p * c = p * (a + 1) + p * k
    BY <2>1
  <2>3. p * k \in Nat
    OBVIOUS
  <2> QED BY <1>1, <2>2, <2>3
<1> QED BY <1>1, <1>2

LEMMA BudgetInit == Init => CounterExact /\ DaysForward
<1> SUFFICES ASSUME Init PROVE CounterExact /\ DaysForward
  OBVIOUS
<1>1. 0 \in Time /\ DayOf[0] \in Nat
  BY TurnTierAssumption DEF Time
<1>2. \A d \in Days : d \in Nat \ {0}
  BY TurnTierAssumption DEF Days
<1>3. ASSUME NEW b \in Budget, NEW d \in Days
      PROVE  before[b][d] + charged[b][d] <= PerDay[b] * era[b] + InEra(b, d)
  <2>1. charged[b][d] = 0 /\ before[b][d] = 0 /\ era[b] = 0 /\ InEra(b, d) = 0
    BY <1>2, <1>3 DEF Init, FreshGates, InEra
  <2>2. PerDay[b] \in Nat
    BY <1>3, TurnTierAssumption
  <2> QED BY <2>1, <2>2
<1> QED
  BY <1>1, <1>3, TurnTierAssumption DEF Init, FreshGates, CounterExact, DaysForward, Era

\* A refusal or a reservation charges nobody else's budget and keeps the
\* counter of its own exact: it moves the counted day forward, or not at all,
\* or into a new era.
LEMMA TryConsumeStep ==
  ASSUME OwnBudgets, IInv, NEW j \in Job, Exhausted(j) \/ Consume(j)
  PROVE  CounterExact' /\ DaysForward'
<1> DEFINE b == BudgetOf[j]
           d == DayOf[now[j].wall]
           a == now[j].era
           u == UsedOn(b, d)
<1>1. b \in Budget /\ d \in Days /\ d \in Nat /\ a \in Nat
  BY TurnTierAssumption DEF IInv, TypeOK, Days
<1>2. /\ day' = [day EXCEPT ![b] = d]
      /\ era' = [era EXCEPT ![b] = a]
      /\ pc[j] = "gates" /\ pc'[j] # "gates"
      /\ \A i \in Job : i # j => pc'[i] = pc[i]
      /\ UNCHANGED <<wall, now, before>> /\ Era' = Era
  BY DEF Exhausted, Consume, IInv, TypeOK, Era
<1>3. \/ used' = [used EXCEPT ![b] = u] /\ charged' = charged
      \/ /\ u < PerDay[b]
         /\ used' = [used EXCEPT ![b] = u + 1]
         /\ charged' = [charged EXCEPT ![b][d] = @ + 1]
  BY DEF Exhausted, Consume
<1>4. /\ used \in [Budget -> Nat] /\ charged \in [Budget -> [Days -> Nat]]
      /\ day \in [Budget -> Days \cup {0}] /\ PerDay \in [Budget -> Nat]
      /\ era \in [Budget -> Nat] /\ Era \in Nat
      /\ before \in [Budget -> [Days -> Nat]]
      /\ wall \in Time /\ now[j].wall \in Time
      /\ \A c \in Budget : used[c] <= PerDay[c]
  BY TurnTierAssumption DEF IInv, TypeOK, Era
<1>5. DayOf[wall] \in Nat /\ \A x \in Days : x \in Nat
  BY <1>4, TurnTierAssumption DEF Days
<1>6. /\ a <= Era /\ era[b] <= a
      /\ era[b] = a => day[b] <= d
      /\ a = Era => now[j].wall <= wall
  BY <1>1, <1>2 DEF IInv, DaysForward
<1>7. a = Era => d <= DayOf[wall]
  BY <1>4, <1>6, TurnTierAssumption DEF Time
<1>8. u = (IF d # day[b] THEN 0 ELSE used[b])
  BY DEF UsedOn
<1> HIDE DEF b, d, a, u
<1>9. DaysForward'
  <2>1. \A c \in Budget : /\ era'[c] <= Era
                          /\ era'[c] = Era => day'[c] <= DayOf[wall]
    BY <1>1, <1>2, <1>4, <1>6, <1>7 DEF IInv, DaysForward
  <2>2. ASSUME NEW i \in Job, pc'[i] = "gates"
        PROVE  /\ now[i].era <= Era
               /\ now[i].era = Era => now[i].wall <= wall
               /\ era'[BudgetOf[i]] <= now[i].era
               /\ era'[BudgetOf[i]] = now[i].era => day'[BudgetOf[i]] <= DayOf[now[i].wall]
    <3>1. i # j /\ pc[i] = "gates"
      BY <1>2, <2>2
    <3>2. BudgetOf[i] # b
      BY <3>1 DEF OwnBudgets, b
    <3>3. day'[BudgetOf[i]] = day[BudgetOf[i]] /\ era'[BudgetOf[i]] = era[BudgetOf[i]]
      BY <1>2, <1>4, <3>2, TurnTierAssumption
    <3> QED BY <3>1, <3>3 DEF IInv, DaysForward
  <2> QED BY <1>2, <2>1, <2>2 DEF DaysForward
<1>10. CounterExact'
  <2> SUFFICES ASSUME NEW c \in Budget, NEW e \in Days
               PROVE  before[c][e] + charged'[c][e] <= PerDay[c] * era'[c] + InEra(c, e)'
    BY <1>2 DEF CounterExact
  <2>0. before[c][e] + charged[c][e] <= PerDay[c] * era[c] + InEra(c, e)
    BY DEF IInv, CounterExact
  <2>1. CASE c # b
    <3>1. /\ day'[c] = day[c] /\ used'[c] = used[c]
          /\ era'[c] = era[c] /\ charged'[c] = charged[c]
      BY <2>1, <1>2, <1>3, <1>4
    <3> QED BY <2>0, <3>1 DEF InEra
  <2>2. CASE c = b
    <3> DEFINE p == PerDay[b]
               old == p * era[b]
               new == p * a
               x == before[b][e] + charged[b][e]
    <3>1. day'[b] = d /\ era'[b] = a
      BY <1>1, <1>2, <1>4
    <3>2. /\ p \in Nat /\ old \in Nat /\ new \in Nat
          /\ era[b] < a => old + p <= new
          /\ era[b] = a => old = new
      BY <1>1, <1>4, EraAllowance
    <3>3. day[b] \in Nat /\ e \in Nat /\ used[b] \in Nat /\ used[b] <= p /\ x \in Nat
      <4>1. day[b] \in Days \cup {0}
        BY <1>1, <1>4
      <4>2. charged[b] \in [Days -> Nat] /\ before[b] \in [Days -> Nat]
        BY <1>1, <1>4
      <4>3. x \in Nat
        BY <4>2
      <4>4. day[b] \in Nat /\ e \in Nat
        BY <4>1, <1>5
      <4>5. used[b] \in Nat /\ used[b] <= p
        BY <1>1, <1>4
      <4> QED BY <4>3, <4>4, <4>5
    <3>4. x <= old + (IF e < day[b] THEN p ELSE IF e = day[b] THEN used[b] ELSE 0)
      BY <2>0, <2>2 DEF InEra
    <3>5. u \in Nat
      BY <1>8, <3>3
    <3> HIDE DEF p, old, new, x
    <3>6. x <= new + (IF e < d THEN p ELSE IF e = d THEN u ELSE 0)
      <4>1. CASE era[b] < a
        <5>1. x <= new
          BY <4>1, <3>2, <3>3, <3>4
        <5> QED BY <5>1, <3>2, <3>3, <3>5
      <4>2. CASE era[b] = a
        <5>1. old = new /\ day[b] <= d
          BY <4>2, <3>2, <1>6
        <5>2. CASE day[b] = d
          BY <5>1, <5>2, <3>4, <1>8
        <5>3. CASE day[b] < d
          <6>1. u = 0
            BY <5>3, <1>1, <1>8, <3>3
          <6>2. CASE e < d
            BY <5>1, <6>2, <3>2, <3>3, <3>4, <1>1
          <6>3. CASE ~(e < d)
            BY <5>1, <5>3, <6>1, <6>3, <3>2, <3>3, <3>4, <1>1
          <6> QED BY <6>2, <6>3
        <5> QED BY <5>1, <5>2, <5>3, <1>1, <3>3
      <4>3. era[b] \in Nat
        BY <1>1, <1>4
      <4> QED BY <4>1, <4>2, <4>3, <1>1, <1>6
    <3>7. CASE used' = [used EXCEPT ![b] = u] /\ charged' = charged
      <4>1. used'[b] = u /\ before[b][e] + charged'[b][e] = x
        BY <3>7, <1>1, <1>4 DEF x
      <4> QED BY <4>1, <3>1, <3>6, <2>2 DEF InEra, p, new
    <3>8. CASE /\ u < PerDay[b]
               /\ used' = [used EXCEPT ![b] = u + 1]
               /\ charged' = [charged EXCEPT ![b][d] = @ + 1]
      <4>1. used'[b] = u + 1
        BY <3>8, <1>1, <1>4
      <4>2. before[b][e] + charged'[b][e] = IF e = d THEN x + 1 ELSE x
        <5>1. charged[b] \in [Days -> Nat] /\ before[b] \in [Days -> Nat]
          BY <1>1, <1>4
        <5>2. charged[b][e] \in Nat /\ before[b][e] \in Nat
          BY <5>1
        <5>3. charged'[b][e] = IF e = d THEN charged[b][e] + 1 ELSE charged[b][e]
          BY <3>8, <1>1, <1>4
        <5> QED BY <5>2, <5>3 DEF x
      <4>3. before[b][e] + charged'[b][e] <= new + (IF e < d THEN p ELSE IF e = d THEN u + 1 ELSE 0)
        BY <4>2, <3>2, <3>3, <3>5, <3>6, <1>1
      <4> QED BY <4>1, <4>3, <3>1, <2>2 DEF InEra, p, new
    <3> QED BY <1>3, <3>7, <3>8
  <2> QED BY <2>1, <2>2
<1> QED BY <1>9, <1>10

\* One step keeps the counters exact and the days of an era moving forward.
LEMMA BudgetStep ==
  ASSUME OwnBudgets, IInv, [Next]_vars
  PROVE  CounterExact' /\ DaysForward'
<1>0. /\ wall \in Time /\ Era \in Nat
      /\ now \in [Job -> [mono : Nat, wall : Time, era : Nat]]
      /\ BudgetOf \in [Job -> Budget] /\ pc \in [Job -> {"idle", "gates", "submit"}]
      /\ day \in [Budget -> Days \cup {0}] /\ era \in [Budget -> Nat]
  BY TurnTierAssumption DEF IInv, TypeOK, Era
<1>1. ASSUME NEW j \in Job, Begin(j) PROVE CounterExact' /\ DaysForward'
  <2>1. CounterExact'
    BY <1>1 DEF Begin, IInv, CounterExact, InEra
  <2>2. DaysForward'
    <3>1. /\ now' = [now EXCEPT ![j] = [mono |-> mono, wall |-> wall, era |-> Era]]
          /\ pc' = [pc EXCEPT ![j] = "gates"]
          /\ UNCHANGED <<wall, day, era>> /\ Era' = Era
      BY <1>1 DEF Begin, Era
    <3>2. ASSUME NEW i \in Job, pc'[i] = "gates"
          PROVE  /\ now'[i].era <= Era
                 /\ now'[i].era = Era => now'[i].wall <= wall
                 /\ era[BudgetOf[i]] <= now'[i].era
                 /\ era[BudgetOf[i]] = now'[i].era =>
                      day[BudgetOf[i]] <= DayOf[now'[i].wall]
      <4>1. CASE i = j
        <5>1. now'[i].wall = wall /\ now'[i].era = Era
          BY <1>0, <3>1, <4>1
        <5> QED BY <1>0, <5>1 DEF IInv, DaysForward, Time
      <4>2. CASE i # j
        BY <1>0, <3>1, <3>2, <4>2 DEF IInv, DaysForward
      <4> QED BY <4>1, <4>2
    <3> QED BY <3>1, <3>2 DEF IInv, DaysForward
  <2> QED BY <2>1, <2>2
<1>2. ASSUME NEW j \in Job, PowerDenies(j) \/ SubmitReturns(j)
      PROVE  CounterExact' /\ DaysForward'
  BY <1>0, <1>2 DEF PowerDenies, SubmitReturns, IInv, CounterExact, InEra, DaysForward, Era
<1>3. ASSUME NEW j \in Job, Exhausted(j) \/ Consume(j)
      PROVE  CounterExact' /\ DaysForward'
  BY <1>3, TryConsumeStep
<1>4. CASE TimePasses
  <2>1. /\ wall' = wall + 1 /\ wall \in Nat
        /\ UNCHANGED <<pc, now, used, day, era, charged, before>> /\ Era' = Era
    BY <1>0, <1>4 DEF TimePasses, gateVars, Time, Era
  <2>2. wall + 1 \in Time
    BY <1>0, <1>4, TurnTierAssumption DEF TimePasses, Time
  <2>3. DayOf[wall] <= DayOf[wall + 1] /\ DayOf[wall] \in Nat /\ DayOf[wall + 1] \in Nat
    BY <1>0, <2>1, <2>2, TurnTierAssumption
  <2>4. CounterExact'
    BY <2>1 DEF IInv, CounterExact, InEra
  <2>5. \A b \in Budget : era'[b] <= Era' /\ (era'[b] = Era' => day'[b] <= DayOf[wall'])
    <3>1. \A b \in Budget : day[b] \in Nat
      BY <1>0, TurnTierAssumption DEF Days
    <3> QED BY <2>1, <2>3, <3>1 DEF IInv, DaysForward
  <2>6. ASSUME NEW j \in Job, pc'[j] = "gates"
        PROVE  /\ now'[j].era <= Era'
               /\ now'[j].era = Era' => now'[j].wall <= wall'
               /\ era'[BudgetOf[j]] <= now'[j].era
               /\ era'[BudgetOf[j]] = now'[j].era =>
                    day'[BudgetOf[j]] <= DayOf[now'[j].wall]
    <3>1. now[j].wall \in Nat
      BY <1>0 DEF Time
    <3> QED BY <2>1, <2>6, <3>1 DEF IInv, DaysForward
  <2> QED BY <2>4, <2>5, <2>6 DEF DaysForward
<1>5. ASSUME NEW t \in Time, ClockSteps(t) PROVE CounterExact' /\ DaysForward'
  <2>1. /\ Era' = Era + 1
        /\ UNCHANGED <<pc, now, used, day, era, charged, before>>
    BY <1>5 DEF ClockSteps, gateVars, Era, IInv, TypeOK
  <2>2. CounterExact'
    BY <2>1 DEF IInv, CounterExact, InEra
  <2>3. \A b \in Budget : era'[b] <= Era' /\ era'[b] # Era'
    BY <1>0, <2>1 DEF IInv, DaysForward
  <2>4. ASSUME NEW j \in Job, pc'[j] = "gates"
        PROVE  /\ now'[j].era <= Era' /\ now'[j].era # Era'
               /\ era'[BudgetOf[j]] <= now'[j].era
               /\ era'[BudgetOf[j]] = now'[j].era =>
                    day'[BudgetOf[j]] <= DayOf[now'[j].wall]
    BY <1>0, <2>1, <2>4 DEF IInv, DaysForward
  <2> QED BY <2>2, <2>3, <2>4 DEF DaysForward
<1>6. CASE Restart
  <2>1. DayOf[wall] \in Nat
    BY <1>0, TurnTierAssumption
  <2>2. /\ \A b \in Budget : day'[b] = 0 /\ era'[b] = Era + 1
        /\ \A b \in Budget : \A d \in Days :
             charged'[b][d] = 0 /\ before'[b][d] = before[b][d] + charged[b][d]
        /\ \A j \in Job : pc'[j] = "idle"
        /\ UNCHANGED wall
    BY <1>6 DEF Restart
  <2>3. Era' = Era + 1
    BY <1>6 DEF Restart, Era, IInv, TypeOK
  <2>4. \A d \in Days : d \in Nat \ {0}
    BY TurnTierAssumption DEF Days
  <2>5. ASSUME NEW b \in Budget, NEW d \in Days
        PROVE  before'[b][d] + charged'[b][d] <= PerDay[b] * era'[b] + InEra(b, d)'
    <3> DEFINE p == PerDay[b]
    <3>1. /\ p \in Nat /\ era[b] \in Nat /\ used[b] \in Nat /\ used[b] <= p
          /\ before[b][d] \in Nat /\ charged[b][d] \in Nat
      BY TurnTierAssumption DEF IInv, TypeOK
    <3>2. era[b] < Era + 1
      BY <1>0, <3>1 DEF IInv, DaysForward
    <3>3. InEra(b, d) \in Nat /\ InEra(b, d) <= p
      BY <3>1 DEF InEra
    <3>4. before[b][d] + charged[b][d] <= p * era[b] + InEra(b, d)
      BY DEF IInv, CounterExact
    <3>5. InEra(b, d)' = 0
      BY <2>2, <2>4 DEF InEra
    <3> HIDE DEF p
    <3>6. p * era[b] \in Nat /\ p * (Era + 1) \in Nat /\ p * era[b] + p <= p * (Era + 1)
      <4>1. Era + 1 \in Nat
        BY <1>0
      <4> QED BY <3>1, <3>2, <4>1, EraAllowance
    <3>7. before[b][d] + charged[b][d] <= p * (Era + 1)
      BY <3>1, <3>3, <3>4, <3>6
    <3>8. /\ before'[b][d] + charged'[b][d] = before[b][d] + charged[b][d]
          /\ era'[b] = Era + 1
      BY <2>2, <3>1
    <3> QED BY <3>5, <3>6, <3>7, <3>8 DEF p
  <2>6. CounterExact'
    BY <2>5 DEF CounterExact
  <2> QED BY <1>0, <2>1, <2>2, <2>3, <2>6 DEF DaysForward
<1>7. CASE UNCHANGED vars
  BY <1>7 DEF vars, gateVars, IInv, CounterExact, InEra, DaysForward, Era
<1> QED
  BY <1>1, <1>2, <1>3, <1>4, <1>5, <1>6, <1>7 DEF Next

\* The counters and the eras bound what a calendar day is charged.
LEMMA BudgetBound == IInv => WithinBudget
<1> SUFFICES ASSUME IInv, NEW b \in Budget, NEW d \in Days
             PROVE  before[b][d] + charged[b][d] <= PerDay[b] * (Era + 1)
  BY DEF WithinBudget, Era
<1> DEFINE p == PerDay[b]
<1>1. /\ p \in Nat /\ era[b] \in Nat /\ Era \in Nat /\ era[b] <= Era
      /\ used[b] \in Nat /\ used[b] <= p /\ charged[b][d] \in Nat /\ before[b][d] \in Nat
  BY TurnTierAssumption DEF IInv, TypeOK, DaysForward, Era
<1>2. InEra(b, d) \in Nat /\ InEra(b, d) <= p
  BY <1>1 DEF InEra
<1>3. before[b][d] + charged[b][d] <= p * era[b] + InEra(b, d)
  BY DEF IInv, CounterExact
<1>4. p * era[b] \in Nat /\ p * (Era + 1) \in Nat /\ p * era[b] + p <= p * (Era + 1)
  <2>1. Era + 1 \in Nat /\ era[b] < Era + 1
    BY <1>1
  <2> HIDE DEF p
  <2> QED BY <1>1, <2>1, EraAllowance
<1> HIDE DEF p
<1>5. before[b][d] + charged[b][d] <= p * (Era + 1)
  BY <1>1, <1>2, <1>3, <1>4
<1> QED BY <1>5 DEF p

\* NFR14: with a budget per job, no calendar day is charged more turns than the
\* limit, and one limit more for each time the wall clock was set back or the
\* process restarted, however long a run lingers in its gates and wherever
\* midnight falls.
THEOREM BudgetSafety ==
  ASSUME OwnBudgets
  PROVE  Spec => []WithinBudget
<1>1. Init => IInv
  BY TypeInit, BudgetInit DEF IInv
<1>2. IInv /\ [Next]_vars => IInv'
  BY TypeStep, BudgetStep DEF IInv
<1>3. IInv => WithinBudget
  BY BudgetBound
<1> QED BY <1>1, <1>2, <1>3, PTL DEF Spec

-----------------------------------------------------------------------------
(* The cooldown, however the wall clock is set and whoever shares a budget. *)

\* What CooldownKept says of one job's fires.
Apart(q, c) ==
  \A i, k \in DOMAIN q : i < k /\ q[k].boot - q[i].boot < k - i => q[k].at - q[i].at >= c

Ordered(q) ==
  \A i, k \in DOMAIN q : i < k => q[i].boot <= q[k].boot /\ q[i].at <= q[k].at

Last(q) == q[Len(q)]

\* The fires come one after the other, none ahead of the clock or of this boot,
\* nor of the time a run in its gates has noted.
InTime ==
  \A j \in Job :
    /\ Ordered(fires[j])
    /\ \A i \in DOMAIN fires[j] : fires[j][i].boot <= restarts /\ fires[j][i].at <= mono
    /\ pc[j] = "gates" => /\ now[j].mono <= mono
                          /\ \A i \in DOMAIN fires[j] : fires[j][i].at <= now[j].mono

\* A fire of this boot is the one lastFired knows of.
LastIsLogged ==
  \A j \in Job : fires[j] # <<>> /\ Last(fires[j]).boot = restarts
                   => lastFired[j] = Last(fires[j]).at

\* What Begin checked is still true when tryConsume is reached: nobody but the
\* run itself moves lastFired, and the time it will note is the one it checked.
CheckStands == \A j \in Job : pc[j] = "gates" => ~Cooling(j, now[j].mono)

CooldownInv == CooldownKept /\ InTime /\ LastIsLogged /\ CheckStands

\* A fire that keeps its distance from the last one of its boot keeps it from
\* all of them, and a boot between two fires excuses one of them at most.
LEMMA AppendKeepsApart ==
  ASSUME NEW q \in Seq(Fire), NEW c \in Nat, NEW f \in Fire, Apart(q, c), Ordered(q),
         \A i \in DOMAIN q : q[i].boot <= f.boot /\ q[i].at <= f.at,
         q # <<>> /\ Last(q).boot = f.boot => f.at - Last(q).at >= c
  PROVE  Apart(Append(q, f), c) /\ Ordered(Append(q, f))
<1> DEFINE a == Append(q, f)
           n == Len(q)
<1>1. /\ DOMAIN q = 1..n /\ n \in Nat
      /\ DOMAIN a = 1..(n + 1) /\ a[n + 1] = f
      /\ \A i \in 1..n : a[i] = q[i] /\ q[i] \in Fire
  OBVIOUS
<1>2. \A g \in Fire : g.at \in Nat /\ g.boot \in Nat
  BY DEF Fire
<1>3. n > 0 => q # <<>> /\ Last(q) = q[n]
  BY <1>1 DEF Last
<1> HIDE DEF a, n
<1>4. \A i \in 1..n : /\ q[i].at \in Nat /\ q[i].boot \in Nat
                      /\ q[i].boot <= f.boot /\ q[i].at <= f.at
  BY <1>1, <1>2
<1>5. f.at \in Nat /\ f.boot \in Nat
  BY <1>2
<1>6. \A i, k \in 1..n : i < k => q[i].boot <= q[k].boot /\ q[i].at <= q[k].at
  BY <1>1 DEF Ordered
<1>7. Ordered(a)
  <2> SUFFICES ASSUME NEW i \in 1..(n + 1), NEW k \in 1..(n + 1), i < k
               PROVE  a[i].boot <= a[k].boot /\ a[i].at <= a[k].at
    BY <1>1 DEF Ordered
  <2>1. i \in 1..n /\ (k \in 1..n \/ k = n + 1)
    BY <1>1
  <2> QED BY <1>1, <1>4, <1>6, <2>1
<1>8. Apart(a, c)
  <2> SUFFICES ASSUME NEW i \in 1..(n + 1), NEW k \in 1..(n + 1), i < k,
                      a[k].boot - a[i].boot < k - i
               PROVE  a[k].at - a[i].at >= c
    BY <1>1 DEF Apart
  <2>1. i \in 1..n /\ a[i] = q[i] /\ n \in 1..n
    BY <1>1
  <2>2. CASE k \in 1..n
    BY <1>1, <2>1, <2>2 DEF Apart
  <2>3. CASE k = n + 1
    <3>1. a[k] = f
      BY <1>1, <2>3
    <3>2. q[n].at - q[i].at >= 0
      <4>1. CASE i = n
        BY <1>4, <2>1, <4>1
      <4>2. CASE i < n
        BY <1>4, <1>6, <2>1, <4>2
      <4> QED BY <1>1, <2>1, <4>1, <4>2
    <3>3. CASE q[n].boot = f.boot
      <4>1. f.at - q[n].at >= c
        BY <1>1, <1>3, <2>1, <3>3
      <4> QED BY <1>4, <1>5, <2>1, <3>1, <3>2, <4>1
    <3>4. CASE q[n].boot # f.boot
      <4>1. q[n].boot < f.boot
        BY <1>4, <1>5, <2>1, <3>4
      <4>2. i < n
        <5>1. f.boot - q[i].boot < (n + 1) - i
          BY <2>1, <2>3, <3>1
        <5>2. CASE i = n
          BY <1>4, <1>5, <2>1, <4>1, <5>1, <5>2
        <5> QED BY <1>1, <2>1, <5>2
      <4>3. q[n].boot - q[i].boot < n - i
        <5>1. f.boot - q[i].boot < (n + 1) - i
          BY <2>1, <2>3, <3>1
        <5> QED BY <1>1, <1>4, <1>5, <2>1, <4>1, <5>1
      <4>4. q[n].at - q[i].at >= c
        BY <1>1, <2>1, <4>2, <4>3 DEF Apart
      <4> QED BY <1>4, <1>5, <2>1, <3>1, <4>4
    <3> QED BY <3>3, <3>4
  <2> QED BY <1>1, <2>2, <2>3
<1> QED BY <1>7, <1>8 DEF a

LEMMA CooldownStep ==
  ASSUME TypeOK, CooldownInv, [Next]_vars
  PROVE  CooldownInv'
<1>0. /\ lastFired \in [Job -> Nat \cup {Never}] /\ fires \in [Job -> Seq(Fire)]
      /\ now \in [Job -> [mono : Nat, wall : Time, era : Nat]]
      /\ pc \in [Job -> {"idle", "gates", "submit"}] /\ mono \in Nat /\ restarts \in Nat
      /\ Cooldown \in [Job -> Nat]
  BY TurnTierAssumption DEF TypeOK
<1>1. \A j \in Job : \A i \in DOMAIN fires[j] :
        fires[j][i].at \in Nat /\ fires[j][i].boot \in Nat
  <2>1. \A g \in Fire : g.at \in Nat /\ g.boot \in Nat
    BY DEF Fire
  <2>2. \A j \in Job : \A i \in DOMAIN fires[j] : fires[j][i] \in Fire
    BY <1>0
  <2> QED BY <2>1, <2>2
<1>2. ASSUME NEW j \in Job, Begin(j) PROVE CooldownInv'
  <2>1. /\ ~Cooling(j, mono)
        /\ now' = [now EXCEPT ![j] = [mono |-> mono, wall |-> wall, era |-> Era]]
        /\ pc' = [pc EXCEPT ![j] = "gates"]
        /\ UNCHANGED <<mono, restarts, lastFired, fires>>
    BY <1>2 DEF Begin
  <2>2. now'[j].mono = mono
    BY <1>0, <2>1
  <2>3. \A i \in Job : i # j => pc'[i] = pc[i] /\ now'[i] = now[i]
    BY <1>0, <2>1
  <2>4. CheckStands'
    BY <1>0, <2>1, <2>2, <2>3 DEF CooldownInv, CheckStands, Cooling
  <2>5. InTime'
    BY <1>0, <2>1, <2>2, <2>3 DEF CooldownInv, InTime
  <2> QED BY <2>1, <2>4, <2>5 DEF CooldownInv, CooldownKept, LastIsLogged
<1>3. ASSUME NEW j \in Job, PowerDenies(j) \/ Exhausted(j) \/ SubmitReturns(j)
      PROVE  CooldownInv'
  <2>1. /\ pc' = [pc EXCEPT ![j] = "idle"]
        /\ UNCHANGED <<mono, restarts, now, lastFired, fires>>
    BY <1>3 DEF PowerDenies, Exhausted, SubmitReturns
  <2>2. \A i \in Job : pc'[i] = "gates" => pc[i] = "gates"
    BY <1>0, <2>1
  <2> QED
    BY <2>1, <2>2 DEF CooldownInv, CooldownKept, InTime, LastIsLogged, CheckStands, Cooling
<1>4. ASSUME NEW j \in Job, Consume(j) PROVE CooldownInv'
  <2> DEFINE f == [at |-> now[j].mono, boot |-> restarts]
             q == fires[j]
  <2>1. /\ pc[j] = "gates" /\ pc' = [pc EXCEPT ![j] = "submit"]
        /\ lastFired' = [lastFired EXCEPT ![j] = f.at]
        /\ fires' = [fires EXCEPT ![j] = Append(@, f)]
        /\ UNCHANGED <<mono, restarts, now>>
    BY <1>4 DEF Consume
  <2>2. /\ f \in Fire /\ f.at = now[j].mono /\ f.boot = restarts /\ f.at \in Nat
        /\ q \in Seq(Fire) /\ Cooldown[j] \in Nat
    BY <1>0 DEF Fire
  <2>3. fires'[j] = Append(q, f) /\ lastFired'[j] = f.at /\ pc'[j] = "submit"
    BY <1>0, <2>1
  <2>4. \A i \in Job : i # j => /\ fires'[i] = fires[i] /\ lastFired'[i] = lastFired[i]
                                /\ pc'[i] = pc[i] /\ now'[i] = now[i]
    BY <1>0, <2>1
  <2>5. /\ Apart(q, Cooldown[j]) /\ Ordered(q)
        /\ f.at <= mono /\ \A i \in DOMAIN q : q[i].boot <= f.boot /\ q[i].at <= f.at
    BY <2>1, <2>2 DEF CooldownInv, CooldownKept, Apart, InTime
  <2>6. q # <<>> /\ Last(q).boot = f.boot => f.at - Last(q).at >= Cooldown[j]
    <3> SUFFICES ASSUME q # <<>>, Last(q).boot = f.boot
                 PROVE  f.at - Last(q).at >= Cooldown[j]
      OBVIOUS
    <3>1. ~Cooling(j, f.at) /\ lastFired[j] = Last(q).at
      BY <2>1, <2>2 DEF CooldownInv, CheckStands, LastIsLogged
    <3>2. Last(q).at \in Nat
      <4>1. Len(q) \in DOMAIN q
        BY <2>2
      <4> QED BY <1>1, <4>1 DEF Last
    <3> QED BY <2>2, <3>1, <3>2 DEF Cooling, Never
  <2> HIDE DEF f, q
  <2>7. Apart(fires'[j], Cooldown[j]) /\ Ordered(fires'[j])
    BY <2>2, <2>3, <2>5, <2>6, AppendKeepsApart
  <2>8. CooldownKept'
    BY <2>4, <2>7 DEF CooldownInv, CooldownKept, Apart
  <2>9. InTime'
    <3>1. \A i \in DOMAIN fires'[j] : fires'[j][i].boot <= restarts /\ fires'[j][i].at <= mono
      <4>1. /\ DOMAIN fires'[j] = 1..(Len(q) + 1) /\ Len(q) \in Nat /\ DOMAIN q = 1..Len(q)
            /\ \A i \in 1..Len(q) : fires'[j][i] = q[i]
            /\ fires'[j][Len(q) + 1] = f
        BY <2>2, <2>3
      <4>2. \A i \in DOMAIN q : q[i].boot <= restarts /\ q[i].at <= mono
        BY DEF CooldownInv, InTime, q
      <4>3. f.boot <= restarts /\ f.at <= mono
        BY <1>0, <2>2, <2>5
      <4> QED BY <4>1, <4>2, <4>3
    <3> QED BY <2>1, <2>3, <2>4, <2>7, <3>1 DEF CooldownInv, InTime
  <2>10. LastIsLogged'
    <3>1. fires'[j][Len(fires'[j])] = f
      BY <2>2, <2>3
    <3> QED BY <2>1, <2>3, <2>4, <3>1 DEF CooldownInv, LastIsLogged, Last
  <2>11. CheckStands'
    BY <2>3, <2>4 DEF CooldownInv, CheckStands, Cooling
  <2> QED BY <2>8, <2>9, <2>10, <2>11 DEF CooldownInv
<1>5. CASE TimePasses \/ (\E t \in Time : ClockSteps(t)) \/ UNCHANGED vars
  <2>1. /\ UNCHANGED <<restarts, pc, now, lastFired, fires>>
        /\ mono' \in Nat /\ mono <= mono'
    BY <1>0, <1>5 DEF TimePasses, ClockSteps, vars, gateVars
  <2>2. InTime'
    BY <1>0, <1>1, <2>1 DEF CooldownInv, InTime
  <2> QED BY <2>1, <2>2 DEF CooldownInv, CooldownKept, LastIsLogged, CheckStands, Cooling
<1>6. CASE Restart
  <2>1. /\ restarts' = restarts + 1 /\ UNCHANGED <<mono, fires>>
        /\ \A j \in Job : pc'[j] = "idle"
    BY <1>6 DEF Restart
  <2>2. InTime'
    BY <1>0, <1>1, <2>1 DEF CooldownInv, InTime
  <2>3. LastIsLogged'
    <3>1. ASSUME NEW j \in Job, fires[j] # <<>> PROVE Last(fires[j]).boot # restarts + 1
      <4>1. Len(fires[j]) \in DOMAIN fires[j]
        BY <1>0, <3>1
      <4>2. Last(fires[j]).boot <= restarts /\ Last(fires[j]).boot \in Nat
        BY <1>1, <4>1 DEF CooldownInv, InTime, Last
      <4> QED BY <1>0, <4>2
    <3> QED BY <2>1, <3>1 DEF LastIsLogged
  <2> QED BY <2>1, <2>2, <2>3 DEF CooldownInv, CooldownKept, CheckStands
<1> QED
  BY <1>2, <1>3, <1>4, <1>5, <1>6 DEF Next

\* Two fires of a job in one boot are never closer than its cooldown, and each
\* restart saves a job at most one, although the check and the update of
\* lastFired are two critical sections, for any cooldown, any wiring of the
\* budgets and any setting of the wall clock.
THEOREM CooldownSafety == Spec => []CooldownKept
<1>1. Init => CooldownInv
  BY DEF Init, FreshGates, CooldownInv, CooldownKept, InTime, Ordered, LastIsLogged, CheckStands
<1>2. TypeOK /\ CooldownInv /\ [Next]_vars => CooldownInv'
  BY CooldownStep
<1>3. CooldownInv => CooldownKept
  BY DEF CooldownInv
<1> QED BY <1>1, <1>2, <1>3, TypeInit, TypeStep, PTL DEF Spec

-----------------------------------------------------------------------------
(* Refusals *)

\* Whatever a budget counts as used was charged to the day it counts.
UsedWasCharged ==
  \A b \in Budget : IF day[b] = 0 THEN used[b] = 0 ELSE used[b] <= charged[b][day[b]]

LEMMA UsedWasChargedStep ==
  ASSUME TypeOK, UsedWasCharged, [Next]_vars
  PROVE  UsedWasCharged'
<1>0. /\ used \in [Budget -> Nat] /\ day \in [Budget -> Days \cup {0}]
      /\ charged \in [Budget -> [Days -> Nat]]
      /\ \A d \in Days : d \in Nat \ {0}
  <2>1. \A d \in Days : d \in Nat \ {0}
    BY TurnTierAssumption DEF Days
  <2> QED BY <2>1 DEF TypeOK
<1>1. ASSUME NEW j \in Job, Exhausted(j) \/ Consume(j) PROVE UsedWasCharged'
  <2> DEFINE b == BudgetOf[j]
             d == DayOf[now[j].wall]
             u == UsedOn(b, d)
  <2>1. b \in Budget /\ d \in Days
    BY TurnTierAssumption DEF TypeOK, Days
  <2>2. /\ day' = [day EXCEPT ![b] = d]
        /\ \/ used' = [used EXCEPT ![b] = u] /\ charged' = charged
           \/ /\ used' = [used EXCEPT ![b] = u + 1]
              /\ charged' = [charged EXCEPT ![b][d] = @ + 1]
    BY <1>1 DEF Exhausted, Consume
  <2>3. u = (IF d # day[b] THEN 0 ELSE used[b])
    BY DEF UsedOn
  <2> HIDE DEF b, d, u
  <2>4. charged[b][d] \in Nat /\ u \in Nat /\ u <= charged[b][d] /\ d # 0
    <3>1. charged[b] \in [Days -> Nat]
      BY <1>0, <2>1
    <3> QED BY <1>0, <2>1, <2>3, <3>1 DEF UsedWasCharged
  <2>5. day'[b] = d /\ used'[b] <= charged'[b][d]
    <3>1. CASE used' = [used EXCEPT ![b] = u] /\ charged' = charged
      BY <1>0, <2>1, <2>2, <2>4, <3>1
    <3>2. CASE /\ used' = [used EXCEPT ![b] = u + 1]
               /\ charged' = [charged EXCEPT ![b][d] = @ + 1]
      <4>1. used'[b] = u + 1 /\ charged'[b][d] = charged[b][d] + 1
        BY <1>0, <2>1, <3>2
      <4> QED BY <1>0, <2>1, <2>2, <2>4, <4>1
    <3> QED BY <2>2, <3>1, <3>2
  <2>6. \A c \in Budget : c # b => /\ day'[c] = day[c] /\ used'[c] = used[c]
                                   /\ charged'[c] = charged[c]
    BY <1>0, <2>1, <2>2
  <2> QED BY <2>4, <2>5, <2>6 DEF UsedWasCharged
<1>2. CASE Restart
  BY <1>2 DEF Restart, UsedWasCharged
<1>3. CASE UNCHANGED <<used, day, charged>>
  BY <1>3 DEF UsedWasCharged
<1> QED
  BY <1>1, <1>2, <1>3
     DEF Next, Begin, PowerDenies, SubmitReturns, TimePasses, ClockSteps, vars, gateVars

\* A run is turned away only when the whole limit of its day was charged: no
\* reset at midnight, early, late or repeated, and no other job that shares the
\* budget, loses a turn that was not spent.
THEOREM RefusalSafety == Spec => RefusalHonest
<1> DEFINE Honest == \A j \in Job : Exhausted(j) =>
             charged[BudgetOf[j]][DayOf[now[j].wall]] >= PerDay[BudgetOf[j]]
<1>1. Init => UsedWasCharged
  BY DEF Init, FreshGates, UsedWasCharged
<1>2. TypeOK /\ UsedWasCharged /\ [Next]_vars => UsedWasCharged'
  BY UsedWasChargedStep
<1>3. TypeOK /\ UsedWasCharged => Honest
  <2> SUFFICES ASSUME TypeOK, UsedWasCharged, NEW j \in Job, Exhausted(j)
               PROVE  charged[BudgetOf[j]][DayOf[now[j].wall]] >= PerDay[BudgetOf[j]]
    OBVIOUS
  <2> DEFINE b == BudgetOf[j]
             d == DayOf[now[j].wall]
  <2>1. b \in Budget /\ d \in Days /\ d # 0 /\ PerDay[b] \in Nat
    BY TurnTierAssumption DEF TypeOK, Days
  <2>2. UsedOn(b, d) >= PerDay[b] /\ charged[b] \in [Days -> Nat] /\ used[b] \in Nat
    BY <2>1 DEF Exhausted, TypeOK
  <2> HIDE DEF b, d
  <2>3. charged[b][d] >= PerDay[b]
    BY <2>1, <2>2 DEF UsedOn, UsedWasCharged
  <2> QED BY <2>3 DEF b, d
<1>4. Spec => [](TypeOK /\ UsedWasCharged)
  BY <1>1, <1>2, TypeInit, TypeStep, PTL DEF Spec
<1> QED BY <1>3, <1>4, PTL DEF Spec, RefusalHonest
===============================================================================
