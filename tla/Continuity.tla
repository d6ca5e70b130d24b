------------------------------ MODULE Continuity ------------------------------
(* core/state: the pet's volatile personality in RAM, its checkpoint on disk,  *)
(* and the three goroutines that meet there: dispatch stamps an interaction,   *)
(* the mood-drift reflex moves the mood and checkpoints, the checkpoint loop   *)
(* flushes on a tick and once more on shutdown. A checkpoint is two steps, a   *)
(* snapshot under the lock and an atomic replacement of the file without it.   *)
(* The edges are drained in reverse start order; the process may be killed.    *)
EXTENDS Integers

CONSTANTS
  MoodMin, MoodMax,  \* the valence range, in drift steps
  Step,              \* moodDriftStep, in drift steps
  MaxClock,          \* bound on the stamps of last_interaction
  MaxBoots,          \* bound on the starts of the process
  WriteFails,        \* may a write of the checkpoint fail?
  ReadFails,         \* may the checkpoint be unreadable at boot?
  SlowDrain          \* may an edge outlive the drain timeout?

ASSUME ContinuityAssumption ==
  /\ MoodMin \in Int /\ MoodMax \in Int /\ MoodMin <= 0 /\ 0 <= MoodMax
  /\ Step \in Int /\ MaxClock \in Nat /\ MaxBoots \in Nat \ {0}
  /\ {WriteFails, ReadFails, SlowDrain} \subseteq BOOLEAN

Personality == [mood : MoodMin..MoodMax, last : 0..MaxClock]
NoFile == [mood |-> 0, last |-> -1]       \* what a missing file restores
Job == {"mood", "loop"}

VARIABLES
  ram,      \* Store.p
  disk,     \* the checkpoint file
  pc,       \* where each of the two goroutines that checkpoint stands
  held,     \* what it last read: the value it will write
  dispatch, \* is the dispatch edge still running?
  drain,    \* edges cancelled: none, scheduler, dispatch, state-checkpoint
  late,     \* did an edge outlive the drain timeout?
  process,  \* up, clean (exited by itself) or killed
  clock,    \* the wall clock, as owner messages see it
  boots     \* starts of the process so far

vars == <<ram, disk, pc, held, dispatch, drain, late, process, clock, boots>>

TypeOK ==
  /\ ram \in Personality
  /\ disk \in Personality \cup {NoFile}
  /\ pc \in [Job -> {"idle", "set", "snapshot", "write", "flush", "final", "stopped", "failed"}]
  /\ held \in [Job -> Personality]
  /\ dispatch \in BOOLEAN
  /\ drain \in 0..3 /\ late \in BOOLEAN
  /\ process \in {"up", "clean", "killed"}
  /\ clock \in 0..MaxClock
  /\ boots \in 0..MaxBoots

\* Default: neutral, and not idle since the epoch.
Default == [mood |-> 0, last |-> clock]

\* Load: a missing or unreadable file restores the default.
Load == IF disk = NoFile THEN {Default}
        ELSE IF ReadFails THEN {disk, Default} ELSE {disk}

Init ==
  /\ clock = 0 /\ disk = NoFile
  /\ ram \in Load
  /\ pc = [j \in Job |-> "idle"]
  /\ held = [j \in Job |-> ram]
  /\ dispatch = TRUE /\ drain = 0 /\ late = FALSE /\ process = "up"
  /\ boots = 1

-----------------------------------------------------------------------------
(* The store *)

Clamp(v) == IF v < MoodMin THEN MoodMin ELSE IF v > MoodMax THEN MoodMax ELSE v

\* Snapshot, into the goroutine's own copy.
Snapshot(j) == held' = [held EXCEPT ![j] = ram]

\* Mutant: the whole snapshot is written back.
SetMoodOfSnapshot(v) == ram' = [held["mood"] EXCEPT !.mood = v]

\* SetMood: one field under the lock.
SetMood(v) == ram' = [ram EXCEPT !.mood = v]

\* Touch, when dispatch receives an owner message; the clock has moved on.
Touch ==
  /\ process = "up" /\ dispatch
  /\ clock < MaxClock
  /\ clock' = clock + 1
  /\ ram' = [ram EXCEPT !.last = clock + 1]
  /\ UNCHANGED <<disk, pc, held, dispatch, drain, late, process, boots>>

\* WriteAtomic: the rename replaces the file, or the old one stays.
WriteAtomic(p) == disk' = p \/ (WriteFails /\ UNCHANGED disk)

Goto(j, l) == pc' = [pc EXCEPT ![j] = l]
At(j, l) == process = "up" /\ pc[j] = l

-----------------------------------------------------------------------------
(* The mood-drift reflex *)

MoodRead ==
  /\ At("mood", "idle")
  /\ Snapshot("mood") /\ Goto("mood", "set")
  /\ UNCHANGED <<ram, disk, dispatch, drain, late, process, clock, boots>>

MoodSet ==
  /\ At("mood", "set")
  /\ SetMood(Clamp(held["mood"].mood + Step)) /\ Goto("mood", "snapshot")
  /\ UNCHANGED <<disk, held, dispatch, drain, late, process, clock, boots>>

MoodSnapshot ==
  /\ At("mood", "snapshot")
  /\ Snapshot("mood") /\ Goto("mood", "write")
  /\ UNCHANGED <<ram, disk, dispatch, drain, late, process, clock, boots>>

MoodWrite ==
  /\ At("mood", "write")
  /\ WriteAtomic(held["mood"]) /\ Goto("mood", "idle")
  /\ UNCHANGED <<ram, held, dispatch, drain, late, process, clock, boots>>

-----------------------------------------------------------------------------
(* The checkpoint loop *)

LoopTick ==
  /\ At("loop", "idle")
  /\ Snapshot("loop") /\ Goto("loop", "write")
  /\ UNCHANGED <<ram, disk, dispatch, drain, late, process, clock, boots>>

\* Mutant: a write error ends the loop.
LoopWriteOrStop ==
  /\ At("loop", "write")
  /\ \/ disk' = held["loop"] /\ Goto("loop", "idle")
     \/ WriteFails /\ UNCHANGED disk /\ Goto("loop", "failed")
  /\ UNCHANGED <<ram, held, dispatch, drain, late, process, clock, boots>>

\* A write error is logged and the loop continues.
LoopWrite ==
  /\ At("loop", "write")
  /\ WriteAtomic(held["loop"]) /\ Goto("loop", "idle")
  /\ UNCHANGED <<ram, held, dispatch, drain, late, process, clock, boots>>

\* Mutant: the loop just returns when it is cancelled.
LoopReturnsAtOnce ==
  /\ At("loop", "idle") /\ drain = 3
  /\ Goto("loop", "stopped")
  /\ UNCHANGED <<ram, disk, held, dispatch, drain, late, process, clock, boots>>

\* Cancelled: one last snapshot, one last write.
LoopFlush ==
  /\ At("loop", "idle") /\ drain = 3
  /\ Snapshot("loop") /\ Goto("loop", "final")
  /\ UNCHANGED <<ram, disk, dispatch, drain, late, process, clock, boots>>

LoopFinalWrite ==
  /\ At("loop", "final")
  /\ \/ disk' = held["loop"] /\ Goto("loop", "stopped")
     \/ WriteFails /\ UNCHANGED disk /\ Goto("loop", "failed")
  /\ UNCHANGED <<ram, held, dispatch, drain, late, process, clock, boots>>

-----------------------------------------------------------------------------
(* Shutdown, kills and restarts *)

\* The scheduler edge returns once its jobs have: the mood job between runs.
SchedulerStops ==
  /\ At("mood", "idle") /\ drain >= 1
  /\ Goto("mood", "stopped")
  /\ UNCHANGED <<ram, disk, held, dispatch, drain, late, process, clock, boots>>

DispatchStops ==
  /\ process = "up" /\ dispatch /\ drain >= 2
  /\ dispatch' = FALSE
  /\ UNCHANGED <<ram, disk, pc, held, drain, late, process, clock, boots>>

\* SIGTERM: the first edge in reverse start order is cancelled.
Terminate ==
  /\ process = "up" /\ drain = 0
  /\ drain' = 1
  /\ UNCHANGED <<ram, disk, pc, held, dispatch, late, process, clock, boots>>

\* An edge in the middle of a write to a slow card, or of a turn's records.
Stuck(e) == SlowDrain /\ CASE e = 1 -> pc["mood"] \in {"snapshot", "write"}
                           [] e = 2 -> dispatch
                           [] e = 3 -> pc["loop"] \in {"write", "final"}

Stopped(e) == CASE e = 1 -> pc["mood"] = "stopped"
                [] e = 2 -> ~dispatch
                [] e = 3 -> pc["loop"] \in {"stopped", "failed"}

\* RemoveAndWait returned, or timed out on an edge that is stuck.
Waited(e) ==
  \/ Stopped(e) /\ UNCHANGED late
  \/ ~Stopped(e) /\ Stuck(e) /\ late' = TRUE

\* The next edge is cancelled.
Drain ==
  /\ process = "up" /\ drain \in 1..2
  /\ Waited(drain)
  /\ drain' = drain + 1
  /\ UNCHANGED <<ram, disk, pc, held, dispatch, process, clock, boots>>

Exit ==
  /\ process = "up" /\ drain = 3
  /\ Waited(3)
  /\ process' = "clean"
  /\ UNCHANGED <<ram, disk, pc, held, dispatch, drain, clock, boots>>

Kill ==
  /\ process = "up"
  /\ process' = "killed"
  /\ UNCHANGED <<ram, disk, pc, held, dispatch, drain, late, clock, boots>>

Boot ==
  /\ process # "up" /\ boots < MaxBoots
  /\ ram' \in Load
  /\ pc' = [j \in Job |-> "idle"]
  /\ held' = [j \in Job |-> ram']
  /\ dispatch' = TRUE /\ drain' = 0 /\ late' = FALSE /\ process' = "up"
  /\ boots' = boots + 1
  /\ UNCHANGED <<disk, clock>>

MoodStep == MoodRead \/ MoodSet \/ MoodSnapshot \/ MoodWrite
LoopStep == LoopTick \/ LoopWrite \/ LoopFlush \/ LoopFinalWrite
DrainStep == SchedulerStops \/ DispatchStops \/ Terminate \/ Drain \/ Exit

Next == Touch \/ MoodStep \/ LoopStep \/ DrainStep \/ Kill \/ Boot

\* The ticker of the loop keeps firing and the disk works again and again; no
\* message, drift, signal or kill is forced.
Fairness == /\ WF_vars(LoopStep)
            /\ WF_vars(MoodSet \/ MoodSnapshot \/ MoodWrite)
            /\ SF_vars(LoopWrite /\ disk' = held["loop"])

Spec == Init /\ [][Next]_vars /\ Fairness

-----------------------------------------------------------------------------
(* Properties *)

\* An interaction stamped while the mood job stands between its read and its
\* write is not undone by it, and no other goroutine turns the stamp back: the
\* pet never forgets a message it has seen while it runs.
TouchKept == [][(process = "up" /\ process' = "up") => ram'.last >= ram.last]_vars

\* A process that exited by itself left its final state on disk, whatever the
\* mood job was writing when the drain began: if every edge stopped in time and
\* the last write worked.
CleanExitDurable ==
  process = "clean" /\ ~late /\ pc["loop"] # "failed" => disk = ram

\* Whatever an older snapshot overwrites, and however often a write fails, a
\* mood that stays is on disk in the end, while the process runs undrained.
MoodReachesDisk ==
  \A v \in MoodMin..MoodMax :
    ram.mood = v ~> (disk.mood = v \/ ram.mood # v \/ process # "up" \/ drain > 0)
==============================================================================
