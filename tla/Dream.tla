-------------------------------- MODULE Dream --------------------------------
(* core/dream over the learnings table and the curated tree of core/memory.   *)
(* A dream reads the pending learnings, offers the recurring ones to the      *)
(* worker, and applies the promote and prune operations it proposes, one by   *)
(* one: a row update in sqlite, then for a promotion an append to the facts   *)
(* file, and a revert of the row if the append fails. Captures of the reply   *)
(* turns go on meanwhile; the process may be killed between any two steps.    *)
EXTENDS Naturals, Sequences, FiniteSets

CONSTANTS
  Key,            \* pattern keys of learnings
  Note,           \* captures without a key: a row each
  Ghost,          \* keys a model may invent: no row has them
  MaxCount,       \* bound on recurrence_count
  Threshold,      \* promoteThreshold
  Window,         \* maxCandidates
  MaxOps,         \* bound on the operations of one dream
  MaxFacts,       \* bound on the copies of a fact
  MaxCrashes,     \* bound on the times the process is killed
  MaxStray,       \* bound on the proposals that decide what was not asked
  RevertFails     \* may the compensating revert fail?

ASSUME DreamAssumption ==
  /\ MaxCount \in Nat \ {0} /\ Threshold \in Nat /\ Window \in Nat
  /\ MaxOps \in Nat /\ MaxFacts \in Nat /\ MaxCrashes \in Nat /\ MaxStray \in Nat
  /\ RevertFails \in BOOLEAN
  /\ Key \cap Note = {} /\ (Key \cup Note) \cap Ghost = {}

Row == Key \cup Note
Op == [kind : {"promote", "prune"}, key : Key \cup Ghost]

VARIABLES
  status,    \* learnings.status of each row ("absent": no such row)
  count,     \* learnings.recurrence_count
  newer,     \* the order of updated_at: pairs of rows, the later stamp first
  facts,     \* copies of each learning's fact in facts/learnings.md
  pc,        \* the dream job: idle, turn, apply, append, revert
  offered,   \* the keys in the dream's input
  ops,       \* the worker's operations still to be applied
  torn,      \* history: promotions of which only the first write was made
  crashes,   \* how often the process was killed
  strays,    \* proposals so far that decided what was not asked
  strayed    \* history: the keys such a proposal named wrongly

tableVars == <<status, count, newer>>
strayVars == <<strays, strayed>>
vars == <<tableVars, facts, pc, offered, ops, torn, crashes, strayVars>>

\* The rows of the table.
Present == {r \in Row : status[r] # "absent"}

TypeOK ==
  /\ status \in [Row -> {"absent", "pending", "promoted", "pruned"}]
  /\ count \in [Row -> 0..MaxCount]
  /\ newer \subseteq Present \X Present
  /\ \A q, r \in Present : q # r => (<<q, r>> \in newer <=> <<r, q>> \notin newer)
  /\ \A q, r, s \in Present : <<q, r>> \in newer /\ <<r, s>> \in newer => <<q, s>> \in newer
  /\ \A r \in Present : <<r, r>> \notin newer
  /\ facts \in [Key -> 0..MaxFacts]
  /\ pc \in {"idle", "turn", "apply", "append", "revert"}
  /\ offered \subseteq Key
  /\ ops \in Seq(Op)
  /\ torn \subseteq Key
  /\ crashes \in 0..MaxCrashes
  /\ strays \in 0..MaxStray /\ strayed \subseteq Key

Init ==
  /\ status = [r \in Row |-> "absent"]
  /\ count = [r \in Row |-> 0]
  /\ newer = {}
  /\ facts = [k \in Key |-> 0]
  /\ pc = "idle" /\ offered = {} /\ ops = <<>>
  /\ torn = {} /\ crashes = 0
  /\ strays = 0 /\ strayed = {}

-----------------------------------------------------------------------------
(* The table *)

\* Mutant: the old place of the row is kept, as if the upsert were an insert.
RefreshedTwice(r, ahead) == newer \cup (ahead \X {r}) \cup ({r} \X (Present \ (ahead \cup {r})))

\* The row r gets a new place, behind the rows that are ahead.
Refreshed(r, ahead) == {p \in newer : r \notin {p[1], p[2]}}
                         \cup (ahead \X {r}) \cup ({r} \X (Present \ (ahead \cup {r})))

\* What may be ahead of a row that is written: nothing, as a rule; the latest
\* rows, if the wall clock that stamps updated_at stood still or was set back.
Ahead(r) == {A \in SUBSET (Present \ {r}) :
               \A q \in A, p \in Present \ {r} : <<p, q>> \in newer => p \in A}

Stamp(r) == \E A \in Ahead(r) : newer' = Refreshed(r, A)

\* Mutant: a repeat puts the learning back in the queue (the Epic-4 bug).
StatusOnConflictResets(r) == "pending"

\* What the upsert makes of the status of a row that exists.
StatusOnConflict(r) == status[r]

\* ApplyLearning: a new key is pending with count one; a known one counts up
\* and keeps its status, whatever the dream decided.
Capture(k) ==
  /\ count[k] < MaxCount
  /\ status' = [status EXCEPT ![k] =
                  IF status[k] = "absent" THEN "pending" ELSE StatusOnConflict(k)]
  /\ count' = [count EXCEPT ![k] = @ + 1]
  /\ Stamp(k)
  /\ UNCHANGED <<facts, pc, offered, ops, torn, crashes, strayVars>>

\* ApplyLearning without a key: NULL never conflicts, so it is a fresh row.
CaptureNote(n) ==
  /\ status[n] = "absent"
  /\ status' = [status EXCEPT ![n] = "pending"]
  /\ count' = [count EXCEPT ![n] = 1]
  /\ Stamp(n)
  /\ UNCHANGED <<facts, pc, offered, ops, torn, crashes, strayVars>>

\* Mutant: the query forgets its WHERE clause.
LearningsOfAnyStatus(s, n) ==
  {r \in Present : Cardinality({q \in Present : <<q, r>> \in newer}) < n}

\* Learnings(status, n): the first n rows of that status, latest stamp first.
Learnings(s, n) ==
  {r \in Present : status[r] = s
     /\ Cardinality({q \in Present : status[q] = s /\ <<q, r>> \in newer}) < n}

\* setLearningStatus on a row that exists.
SetStatus(k, s) ==
  /\ status' = [status EXCEPT ![k] = s]
  /\ Stamp(k)
  /\ UNCHANGED count

Exists(k) == k \in Key /\ status[k] # "absent"

-----------------------------------------------------------------------------
(* One dream *)

\* build: the window of pending rows is cut first, then those below the
\* threshold are left out, so a short window may offer nothing.
PendingWindow == Learnings("pending", Window)

\* Mutant: above the threshold only.
CandidatesAbove == {r \in PendingWindow : r \in Key /\ count[r] > Threshold}

Candidates == {r \in PendingWindow : r \in Key /\ count[r] >= Threshold}

Build ==
  /\ pc = "idle"
  /\ offered' = Candidates
  /\ pc' = "turn"
  /\ UNCHANGED <<tableVars, facts, ops, torn, crashes, strayVars>>

\* A read error degrades to an empty dream.
BuildFails ==
  /\ pc = "idle"
  /\ offered' = {}
  /\ pc' = "turn"
  /\ UNCHANGED <<tableVars, facts, ops, torn, crashes, strayVars>>

\* The turn was refused, failed or timed out: nothing changes.
TurnFails ==
  /\ pc = "turn"
  /\ pc' = "idle"
  /\ offered' = {}
  /\ UNCHANGED <<tableVars, facts, ops, torn, crashes, strayVars>>

OpSeqs == UNION {[1..n -> Op] : n \in 0..MaxOps}

\* The keys a proposal decides although they were not offered, or twice.
Stray(s) == {s[i].key : i \in {i \in DOMAIN s :
               s[i].key \notin offered \/ \E j \in DOMAIN s : j # i /\ s[j].key = s[i].key}}

\* The worker proposes operations; nothing in core checks them against what
\* was offered, or against each other.
TurnProposes ==
  /\ pc = "turn"
  /\ \E s \in OpSeqs :
       /\ ops' = s
       /\ IF Stray(s) = {} THEN UNCHANGED strayVars
          ELSE /\ strays < MaxStray /\ strays' = strays + 1
               /\ strayed' = strayed \cup (Stray(s) \cap Key)
  /\ pc' = "apply"
  /\ UNCHANGED <<tableVars, facts, offered, torn, crashes>>

\* applyResult has applied the last operation.
ApplyEnds ==
  /\ pc = "apply" /\ ops = <<>>
  /\ pc' = "idle"
  /\ offered' = {}
  /\ UNCHANGED <<tableVars, facts, ops, torn, crashes, strayVars>>

\* The update of the row fails: no such key, or a database error. The
\* operation is skipped.
OpSkipped ==
  /\ pc = "apply" /\ ops # <<>>
  /\ ops' = Tail(ops)
  /\ UNCHANGED <<tableVars, facts, pc, offered, torn, crashes, strayVars>>

MarkPromoted ==
  /\ pc = "apply" /\ ops # <<>>
  /\ Head(ops).kind = "promote" /\ Exists(Head(ops).key)
  /\ SetStatus(Head(ops).key, "promoted")
  /\ pc' = "append"
  /\ UNCHANGED <<facts, offered, ops, torn, crashes, strayVars>>

MarkPruned ==
  /\ pc = "apply" /\ ops # <<>>
  /\ Head(ops).kind = "prune" /\ Exists(Head(ops).key)
  /\ SetStatus(Head(ops).key, "pruned")
  /\ ops' = Tail(ops)
  /\ UNCHANGED <<facts, pc, offered, torn, crashes, strayVars>>

\* AppendFact: read the file, add the observation, replace the file atomically.
AppendFact ==
  /\ pc = "append"
  /\ facts[Head(ops).key] < MaxFacts
  /\ facts' = [facts EXCEPT ![Head(ops).key] = @ + 1]
  /\ ops' = Tail(ops)
  /\ pc' = "apply"
  /\ UNCHANGED <<tableVars, offered, torn, crashes, strayVars>>

\* Mutant: the failed append is logged and the row stays promoted.
AppendFailsSilently ==
  /\ pc = "append"
  /\ ops' = Tail(ops)
  /\ pc' = "apply"
  /\ UNCHANGED <<tableVars, facts, offered, torn, crashes, strayVars>>

\* The append fails and leaves the file as it was.
AppendFails ==
  /\ pc = "append"
  /\ pc' = "revert"
  /\ UNCHANGED <<tableVars, facts, offered, ops, torn, crashes, strayVars>>

\* The promotion between its two writes, which nobody but the dream sees.
HalfDone(k) == pc \in {"append", "revert"} /\ Head(ops).key = k

\* RevertLearningToPending; a failure of it is logged and left.
Revert ==
  /\ pc = "revert"
  /\ \/ SetStatus(Head(ops).key, "pending") /\ UNCHANGED torn
     \/ RevertFails /\ torn' = torn \cup {Head(ops).key} /\ UNCHANGED tableVars
  /\ ops' = Tail(ops)
  /\ pc' = "apply"
  /\ UNCHANGED <<facts, offered, crashes, strayVars>>

\* The process is killed; the table and the tree are on disk.
Crash ==
  /\ crashes < MaxCrashes
  /\ crashes' = crashes + 1
  /\ torn' = torn \cup {k \in Key : HalfDone(k)}
  /\ pc' = "idle" /\ offered' = {} /\ ops' = <<>>
  /\ UNCHANGED <<tableVars, facts, strayVars>>

-----------------------------------------------------------------------------
ApplyStep == \/ ApplyEnds \/ OpSkipped \/ MarkPromoted \/ MarkPruned
             \/ AppendFact \/ AppendFails \/ Revert

Next == \/ \E k \in Key : Capture(k)
        \/ \E n \in Note : CaptureNote(n)
        \/ Build \/ BuildFails \/ TurnFails \/ TurnProposes
        \/ ApplyStep
        \/ Crash

\* The scheduler keeps dreaming, the read of the table succeeds again and again,
\* and a dream finishes what it applies; no capture and no crash is forced.
Fairness == /\ WF_vars(ApplyStep)
            /\ WF_vars(TurnFails \/ TurnProposes)
            /\ SF_vars(Build)

Spec == Init /\ [][Next]_vars /\ Fairness

-----------------------------------------------------------------------------
(* Properties *)

\* "a learning is promoted iff its fact is durable in the tree" (dream.go:119),
\* outside the one operation in progress: appends may fail, promotions be tried
\* again and captures go on. Only a kill or a failed revert between the two
\* writes tears a promotion, and then it is promoted without a fact for good;
\* never is a fact in the tree that the table offers again or calls noise. A
\* model that decides a key twice, or one it was not offered, can break that for
\* the keys it named, which nothing in core prevents, and for no other.
PromotedIffFact ==
  \A k \in Key \ strayed :
    \/ HalfDone(k)
    \/ status[k] = "promoted" <=> (facts[k] > 0 \/ k \in torn)

\* "the retry appends no duplicate" (dream.go:122): no fact is in the tree
\* twice, nor in it after a torn promotion, though appends fail, promotions are
\* retried, the process is killed anywhere and the learning is captured again
\* before, during and after its promotion; unless the model named it twice.
NoDuplicateFact ==
  \A k \in Key \ strayed : facts[k] + (IF k \in torn THEN 1 ELSE 0) <= 1

\* The durable half of dream.go:119 as it is written, "avoids a promoted row
\* with no backing fact": false once the process is killed between the two.
PromotedIsDurable ==
  \A k \in Key : status[k] = "promoted" => HalfDone(k) \/ facts[k] > 0

\* AD-15 "Prevents: ... learnings sitting in sqlite forever": a recurring
\* learning comes up in some dream, though reads and turns fail and the process
\* is killed, as long as the pending rows fit the window. (More of them than
\* the window holds starve it: the rows below the threshold never leave.)
RecurringOffered ==
  LET crowded == Cardinality({r \in Row : status[r] = "pending"}) > Window
  IN \A k \in Key :
       (status[k] = "pending" /\ count[k] >= Threshold)
         ~> (k \in offered \/ crowded \/ k \in strayed)

\* Each learning lives the life the dream promises: the two writes and the
\* revert together are one decision, or none; a torn promotion decided nothing.
\* A key the model named wrongly is astray, and disturbs no other.
Undecided(k) == HalfDone(k) \/ k \in torn
Life == INSTANCE Lifecycle WITH
  fate <- [k \in Key |-> IF k \in strayed THEN "astray"
                         ELSE IF Undecided(k) THEN "pending" ELSE status[k]],
  copies <- [k \in Key |-> IF k \in strayed THEN 0 ELSE facts[k]]
ImplementsLifecycle == Life!Spec
==============================================================================
