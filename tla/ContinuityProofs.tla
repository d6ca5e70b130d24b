--------------------------- MODULE ContinuityProofs ---------------------------
(* Theorems about core/state for every mood range, clock and number of starts. *)
(* The drain order of main carries the durability of a clean exit: once the    *)
(* reflexes and dispatch have stopped nobody writes to the RAM, so the last    *)
(* snapshot of the checkpoint loop is the final state.                         *)
EXTENDS Continuity, TLAPS

LEMMA PersonalityType ==
  /\ \A p \in Personality : p.mood \in MoodMin..MoodMax /\ p.last \in 0..MaxClock
  /\ \A p \in Personality, v \in MoodMin..MoodMax : [p EXCEPT !.mood = v] \in Personality
  /\ \A p \in Personality, c \in 0..MaxClock : [p EXCEPT !.last = c] \in Personality
  /\ NoFile \notin Personality
BY ContinuityAssumption DEF Personality, NoFile

LEMMA ClampRange == \A v \in Int : Clamp(v) \in MoodMin..MoodMax
BY ContinuityAssumption DEF Clamp

\* What a boot restores is a personality.
LEMMA LoadType ==
  ASSUME TypeOK
  PROVE  Load \subseteq Personality
BY ContinuityAssumption DEF TypeOK, Load, Default, Personality

LEMMA TypeInit == Init => TypeOK
<1> SUFFICES ASSUME Init PROVE TypeOK
  OBVIOUS
<1>1. Default \in Personality
  BY ContinuityAssumption DEF Init, Default, Personality
<1>2. ram \in Personality
  BY <1>1 DEF Init, Load
<1>3. dispatch \in BOOLEAN /\ late \in BOOLEAN
  BY Zenon DEF Init
<1> QED BY <1>2, <1>3, ContinuityAssumption DEF Init, TypeOK

LEMMA TypeStep == TypeOK /\ [Next]_vars => TypeOK'
<1> SUFFICES ASSUME TypeOK, [Next]_vars PROVE TypeOK'
  OBVIOUS
<1> USE ContinuityAssumption
<1>1. CASE Touch
  <2>1. clock + 1 \in 0..MaxClock /\ ram' \in Personality
    BY <1>1, PersonalityType DEF Touch, TypeOK
  <2> QED BY <1>1, <2>1 DEF Touch, TypeOK
<1>2. CASE MoodRead
  BY <1>2 DEF MoodRead, Snapshot, Goto, TypeOK, Job
<1>3. CASE MoodSet
  <2>1. held["mood"].mood + Step \in Int
    BY PersonalityType DEF TypeOK, Job
  <2>2. ram' \in Personality
    BY <1>3, <2>1, ClampRange, PersonalityType DEF MoodSet, SetMood, TypeOK
  <2> QED BY <1>3, <2>2 DEF MoodSet, Goto, TypeOK, Job
<1>4. CASE MoodSnapshot
  BY <1>4 DEF MoodSnapshot, Snapshot, Goto, TypeOK, Job
<1>5. CASE MoodWrite
  BY <1>5 DEF MoodWrite, WriteAtomic, Goto, TypeOK, Job
<1>6. CASE LoopTick
  BY <1>6 DEF LoopTick, Snapshot, Goto, TypeOK, Job
<1>7. CASE LoopWrite
  BY <1>7 DEF LoopWrite, WriteAtomic, Goto, TypeOK, Job
<1>8. CASE LoopFlush
  BY <1>8 DEF LoopFlush, Snapshot, Goto, TypeOK, Job
<1>9. CASE LoopFinalWrite
  BY <1>9 DEF LoopFinalWrite, Goto, TypeOK, Job
<1>10. CASE SchedulerStops
  BY <1>10 DEF SchedulerStops, Goto, TypeOK, Job
<1>11. CASE DispatchStops \/ Terminate
  <2>1. dispatch' \in BOOLEAN
    BY <1>11, Zenon DEF DispatchStops, Terminate, TypeOK
  <2> QED BY <1>11, <2>1 DEF DispatchStops, Terminate, TypeOK
<1>12. CASE Drain \/ Exit
  <2>1. late' \in BOOLEAN
    BY <1>12, Zenon DEF Drain, Exit, Waited, TypeOK
  <2> QED BY <1>12, <2>1 DEF Drain, Exit, TypeOK
<1>13. CASE Kill
  BY <1>13 DEF Kill, TypeOK
<1>14. CASE Boot
  <2>1. ram' \in Personality
    BY <1>14, LoadType DEF Boot
  <2>2. dispatch' \in BOOLEAN /\ late' \in BOOLEAN
    BY <1>14, Zenon DEF Boot
  <2> QED BY <1>14, <2>1, <2>2 DEF Boot, TypeOK, Job
<1>15. CASE UNCHANGED vars
  BY <1>15 DEF vars, TypeOK
<1> QED
  BY <1>1, <1>2, <1>3, <1>4, <1>5, <1>6, <1>7, <1>8, <1>9, <1>10, <1>11,
     <1>12, <1>13, <1>14, <1>15 DEF Next, MoodStep, LoopStep, DrainStep

\* The personality, its copies and its checkpoint keep their ranges: the drift
\* never leaves the valence range (mood.go:49), whatever a boot restored.
THEOREM ContinuityTypes == Spec => []TypeOK
BY TypeInit, TypeStep, PTL DEF Spec

-----------------------------------------------------------------------------
(* The owner's last message. *)

\* No copy of the personality is ahead of the clock.
StampsPast ==
  /\ ram.last <= clock /\ disk.last <= clock
  /\ \A j \in Job : held[j].last <= clock

LEMMA StampsInit == Init => StampsPast
BY ContinuityAssumption DEF Init, Load, Default, NoFile, StampsPast

\* A stamp is the clock's new time, which is later than every copy; all other
\* steps copy what is there. A running process loses none of its stamps.
LEMMA StampsStep ==
  TypeOK /\ StampsPast /\ [Next]_vars =>
    StampsPast' /\ ((process = "up" /\ process' = "up") => ram'.last >= ram.last)
<1> SUFFICES ASSUME TypeOK, StampsPast, [Next]_vars
             PROVE  /\ StampsPast'
                    /\ (process = "up" /\ process' = "up") => ram'.last >= ram.last
  OBVIOUS
<1>0. /\ ram \in Personality /\ held["mood"] \in Personality /\ held["loop"] \in Personality
      /\ ram.last \in Nat /\ clock \in Nat /\ disk.last \in Int
      /\ \A j \in Job : held[j] \in Personality /\ held[j].last \in Nat
  BY PersonalityType, ContinuityAssumption DEF TypeOK, Job, NoFile
<1>1. CASE Touch
  <2>1. ram'.last = clock + 1 /\ clock' = clock + 1 /\ UNCHANGED <<disk, held>>
    BY <1>1, PersonalityType, ContinuityAssumption DEF Touch, TypeOK, Personality
  <2> QED BY <1>0, <2>1 DEF StampsPast
<1>2. CASE MoodRead \/ MoodSnapshot
  <2>1. held' = [held EXCEPT !["mood"] = ram] /\ UNCHANGED <<ram, disk, clock>>
    BY <1>2 DEF MoodRead, MoodSnapshot, Snapshot
  <2>2. \A j \in Job : held'[j] \in {held[j], ram}
    BY <2>1 DEF TypeOK
  <2> QED BY <1>0, <2>1, <2>2 DEF StampsPast
<1>3. CASE LoopTick \/ LoopFlush
  <2>1. held' = [held EXCEPT !["loop"] = ram] /\ UNCHANGED <<ram, disk, clock>>
    BY <1>3 DEF LoopTick, LoopFlush, Snapshot
  <2>2. \A j \in Job : held'[j] \in {held[j], ram}
    BY <2>1 DEF TypeOK
  <2> QED BY <1>0, <2>1, <2>2 DEF StampsPast
<1>4. CASE MoodSet
  <2>1. ram'.last = ram.last /\ UNCHANGED <<disk, held, clock>>
    BY <1>4, <1>0 DEF MoodSet, SetMood, Personality
  <2> QED BY <1>0, <2>1 DEF StampsPast
<1>5. CASE MoodWrite \/ LoopWrite \/ LoopFinalWrite
  <2>1. UNCHANGED <<ram, held, clock>> /\ disk' \in {disk, held["mood"], held["loop"]}
    BY <1>5 DEF MoodWrite, LoopWrite, LoopFinalWrite, WriteAtomic
  <2> QED BY <1>0, <2>1 DEF StampsPast, Job
<1>6. CASE SchedulerStops \/ DispatchStops \/ Terminate \/ Drain \/ Exit \/ Kill
  <2>1. UNCHANGED <<ram, disk, held, clock>>
    BY <1>6 DEF SchedulerStops, DispatchStops, Terminate, Drain, Exit, Kill
  <2> QED BY <1>0, <2>1 DEF StampsPast
<1>7. CASE Boot
  <2>1. ram' \in Load /\ held' = [j \in Job |-> ram'] /\ UNCHANGED <<disk, clock>> /\ process # "up"
    BY <1>7 DEF Boot
  <2>2. ram'.last <= clock
    BY <1>0, <2>1 DEF Load, Default, StampsPast
  <2> QED BY <2>1, <2>2 DEF StampsPast
<1>8. CASE UNCHANGED vars
  BY <1>0, <1>8 DEF vars, StampsPast
<1> QED
  BY <1>1, <1>2, <1>3, <1>4, <1>5, <1>6, <1>7, <1>8 DEF Next, MoodStep, LoopStep, DrainStep

\* While the process runs, the stamp of the owner's last message is never turned
\* back, though the mood job reads, changes and writes the same structure
\* (mood.go:49-50), for any interleaving of its steps with dispatch's.
THEOREM StampsKept == Spec => TouchKept
<1>1. TypeOK /\ StampsPast /\ [Next]_vars =>
        [(process = "up" /\ process' = "up") => ram'.last >= ram.last]_vars
  BY StampsStep
<1>2. Spec => [](TypeOK /\ StampsPast)
  BY TypeInit, TypeStep, StampsInit, StampsStep, PTL DEF Spec
<1> QED BY <1>1, <1>2, PTL DEF Spec, TouchKept

-----------------------------------------------------------------------------
(* A clean exit. *)

\* As long as no edge outlived its timeout: the reflexes have stopped before
\* dispatch is cancelled and dispatch before the loop is, so that what the loop
\* holds for its last write, and then the disk, is the state in RAM.
DrainInOrder ==
  /\ pc["loop"] \in {"final", "stopped", "failed"} => drain = 3
  /\ process = "clean" /\ ~late => pc["loop"] \in {"stopped", "failed"}
  /\ ~late /\ drain >= 2 => pc["mood"] = "stopped"
  /\ ~late /\ drain = 3 => ~dispatch
  /\ ~late /\ pc["loop"] = "final" => held["loop"] = ram
  /\ ~late /\ pc["loop"] = "stopped" => disk = ram

LEMMA DrainInit == Init => DrainInOrder
BY DEF Init, DrainInOrder, Job

LEMMA DrainOrderStep == TypeOK /\ DrainInOrder /\ [Next]_vars => DrainInOrder'
<1> SUFFICES ASSUME TypeOK, DrainInOrder, [Next]_vars PROVE DrainInOrder'
  OBVIOUS
<1> USE DEF DrainInOrder
<1>0. DOMAIN pc = {"mood", "loop"} /\ DOMAIN held = {"mood", "loop"} /\ drain \in 0..3
  BY DEF TypeOK, Job
<1>1. CASE Touch
  BY <1>0, <1>1 DEF Touch
<1>2. CASE MoodRead \/ MoodSet \/ MoodSnapshot \/ MoodWrite
  BY <1>0, <1>2 DEF MoodRead, MoodSet, MoodSnapshot, MoodWrite, Snapshot, Goto, At, SetMood
<1>3. CASE LoopTick \/ LoopWrite
  BY <1>0, <1>3 DEF LoopTick, LoopWrite, Snapshot, Goto, At
<1>4. CASE LoopFlush \/ LoopFinalWrite
  BY <1>0, <1>4 DEF LoopFlush, LoopFinalWrite, Snapshot, Goto, At
<1>5. CASE SchedulerStops \/ DispatchStops \/ Terminate
  BY <1>0, <1>5 DEF SchedulerStops, DispatchStops, Terminate, Goto, At
<1>6. CASE Drain \/ Exit
  <2>1. UNCHANGED <<ram, disk, pc, held, dispatch>>
    BY <1>6 DEF Drain, Exit
  <2>2. CASE late'
    <3>1. (Exit => drain = 3) /\ (Drain => drain' = drain + 1 /\ drain \in 1..2)
      BY DEF Exit, Drain
    <3>2. Exit => drain' = drain
      BY DEF Exit
    <3> QED BY <1>0, <1>6, <2>1, <2>2, <3>1, <3>2
  <2>3. CASE ~late'
    <3>1. CASE Drain
      <4>a. drain \in 1..2 /\ drain' = drain + 1 /\ process' = process
        BY <3>1 DEF Drain
      <4>b. Waited(drain)
        BY <3>1, Zenon DEF Drain
      <4>c. Stopped(drain) /\ late' = late
        BY <4>b, <2>3, Zenon DEF Waited
      <4>1. drain \in 1..2 /\ drain' = drain + 1 /\ process' = process /\ Stopped(drain) /\ ~late
        BY <4>a, <4>c, <2>3, Zenon
      <4>2. CASE drain = 1
        BY <1>0, <2>1, <4>1, <4>2 DEF Stopped
      <4>3. CASE drain = 2
        BY <1>0, <2>1, <4>1, <4>3 DEF Stopped
      <4> QED BY <4>1, <4>2, <4>3
    <3>2. CASE Exit
      <4>a. drain' = drain /\ process' = "clean"
        BY <3>2 DEF Exit
      <4>b. Waited(3)
        BY <3>2, Zenon DEF Exit
      <4>c. Stopped(3) /\ late' = late
        BY <4>b, <2>3, Zenon DEF Waited
      <4>1. drain' = drain /\ process' = "clean" /\ Stopped(3) /\ ~late
        BY <4>a, <4>c, <2>3, Zenon
      <4> QED BY <1>0, <2>1, <4>1 DEF Stopped
    <3> QED BY <1>6, <3>1, <3>2
  <2> QED BY <2>2, <2>3
<1>7. CASE Kill
  BY <1>7 DEF Kill
<1>8. CASE Boot
  BY <1>8 DEF Boot, Job
<1>9. CASE UNCHANGED vars
  BY <1>9 DEF vars
<1> QED
  BY <1>1, <1>2, <1>3, <1>4, <1>5, <1>6, <1>7, <1>8, <1>9 DEF Next, MoodStep, LoopStep, DrainStep

\* A process that exited by itself left its final state on disk (main.go:244-246),
\* whatever was being written when the drain began: if no edge outlived its
\* timeout and the last write worked.
THEOREM FlushIsFinal == Spec => []CleanExitDurable
<1>1. DrainInOrder => CleanExitDurable
  BY DEF DrainInOrder, CleanExitDurable
<1> QED BY <1>1, TypeInit, TypeStep, DrainInit, DrainOrderStep, PTL DEF Spec
==============================================================================
