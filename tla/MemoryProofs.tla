----------------------------- MODULE MemoryProofs -----------------------------
(* The two tables of core/memory, for any value of the parameters: first what  *)
(* the recent window holds, for any number of conversations, any limit and any *)
(* wall clock, then the dream over the learnings, for any table, any tree and  *)
(* any operations a worker proposes.                                           *)
EXTENDS PromptWindow, Dream, FiniteSetTheorems, TLAPS

LEMMA WindowTypeInit == WindowInit => WindowTypeOK
BY WindowAssumption DEF WindowInit, WindowTypeOK

\* A row that is written keeps the table well typed.
LEMMA RecordType ==
  ASSUME WindowTypeOK, NEW role \in {"owner", "pet"}, Record(role)
  PROVE  /\ rows' \subseteq Line /\ nextId' \in Nat
         /\ \A r \in rows' : r.id < nextId'
         /\ \A r, s \in rows' : r.id = s.id => r = s
<1> DEFINE new == [id |-> nextId, convo |-> convo, role |-> role, at |-> clock,
                   turn |-> turns, era |-> steps]
<1>1. new \in Line /\ new.id = nextId /\ nextId \in Nat
  BY DEF WindowTypeOK, Line
<1>2. rows' = rows \cup {new} /\ nextId' = nextId + 1
  BY DEF Record
<1>3. \A r \in rows : r.id \in Nat /\ r.id < nextId
  BY DEF WindowTypeOK, Line
<1>4. \A r, s \in rows : r.id = s.id => r = s
  BY DEF WindowTypeOK
<1>5. rows \subseteq Line
  BY DEF WindowTypeOK
<1> HIDE DEF new
<1>6. rows' \subseteq Line
  BY <1>1, <1>2, <1>5
<1>7. \A r \in rows' : r.id < nextId'
  BY <1>1, <1>2, <1>3
<1>8. \A r, s \in rows' : r.id = s.id => r = s
  BY <1>1, <1>2, <1>3, <1>4
<1> QED  BY <1>1, <1>2, <1>6, <1>7, <1>8

LEMMA WindowTypeStep == WindowTypeOK /\ [WindowNext]_windowVars => WindowTypeOK'
<1> SUFFICES ASSUME WindowTypeOK, [WindowNext]_windowVars PROVE WindowTypeOK'
  OBVIOUS
<1> USE WindowAssumption
<1>1. ASSUME NEW c \in Convo, Receive(c) PROVE WindowTypeOK'
  BY <1>1 DEF Receive, WindowTypeOK
<1>2. CASE Answered
  BY <1>2 DEF Answered, WindowTypeOK
<1>3. CASE RecordOwner
  BY <1>3, RecordType DEF RecordOwner, WindowTypeOK
<1>4. CASE RecordOwnerFails
  BY <1>4 DEF RecordOwnerFails, WindowTypeOK
<1>5. CASE RecordPet
  BY <1>5, RecordType DEF RecordPet, WindowTypeOK
<1>6. CASE Tick
  BY <1>6 DEF Tick, WindowTypeOK
<1>7. CASE StepBack
  BY <1>7 DEF StepBack, WindowTypeOK
<1>8. CASE PowerLoss
  BY <1>8 DEF PowerLoss, WindowTypeOK
<1>9. CASE UNCHANGED windowVars
  BY <1>9 DEF windowVars, WindowTypeOK
<1> QED  BY <1>1, <1>2, <1>3, <1>4, <1>5, <1>6, <1>7, <1>8, <1>9 DEF WindowNext

-----------------------------------------------------------------------------
(* The order of the stamps *)

\* Within an era stamps follow the order of writing, and none is ahead of the
\* clock; eras follow the order of writing. The table is finite.
StampsInEra ==
  /\ IsFiniteSet(rows)
  /\ \A r \in rows : r.era <= steps /\ (r.era = steps => r.at <= clock)
  /\ \A r, s \in rows : r.id < s.id => r.era <= s.era /\ (r.era = s.era => r.at <= s.at)

LEMMA RowTypes ==
  ASSUME WindowTypeOK, NEW r \in rows
  PROVE  /\ r.id \in Nat /\ r.at \in Nat /\ r.era \in Nat
         /\ r.id < nextId /\ nextId \in Nat /\ steps \in Nat /\ clock \in Nat
BY WindowAssumption DEF WindowTypeOK, Line

LEMMA RecordKeepsStamps ==
  ASSUME WindowTypeOK, StampsInEra, NEW role \in {"owner", "pet"}, Record(role),
         UNCHANGED <<clock, steps>>
  PROVE  StampsInEra'
<1> DEFINE new == [id |-> nextId, convo |-> convo, role |-> role, at |-> clock,
                   turn |-> turns, era |-> steps]
<1>1. rows' = rows \cup {new} /\ clock' = clock /\ steps' = steps
  BY DEF Record
<1>2. new.id = nextId /\ new.at = clock /\ new.era = steps
  OBVIOUS
<1>3. nextId \in Nat /\ steps \in Nat /\ clock \in Nat
  BY WindowAssumption DEF WindowTypeOK
<1> HIDE DEF new
<1>4. IsFiniteSet(rows')
  BY <1>1, FS_AddElement DEF StampsInEra
<1>5. \A r \in rows' : r.era <= steps' /\ (r.era = steps' => r.at <= clock')
  BY <1>1, <1>2, <1>3 DEF StampsInEra
<1>6. ASSUME NEW r \in rows', NEW s \in rows', r.id < s.id
      PROVE  r.era <= s.era /\ (r.era = s.era => r.at <= s.at)
  <2>1. CASE r \in rows /\ s \in rows
    BY <1>6, <2>1 DEF StampsInEra
  <2>2. CASE s = new /\ r \in rows
    BY <1>2, <2>2 DEF StampsInEra
  <2>3. r # new
    <3>1. CASE s \in rows
      BY <1>2, <1>6, <3>1, RowTypes
    <3>2. CASE s = new
      BY <1>2, <1>3, <1>6, <3>2
    <3> QED  BY <1>1, <3>1, <3>2
  <2> QED  BY <1>1, <2>1, <2>2, <2>3
<1> QED  BY <1>4, <1>5, <1>6 DEF StampsInEra

LEMMA StampsStep == WindowTypeOK /\ StampsInEra /\ [WindowNext]_windowVars => StampsInEra'
<1> SUFFICES ASSUME WindowTypeOK, StampsInEra, [WindowNext]_windowVars PROVE StampsInEra'
  OBVIOUS
<1>1. CASE UNCHANGED <<rows, clock, steps>>
  BY <1>1 DEF StampsInEra
<1>2. CASE RecordOwner \/ RecordPet
  BY <1>2, RecordKeepsStamps DEF RecordOwner, RecordPet
<1>3. CASE Tick
  <2>1. \A r \in rows : r.at \in Nat /\ clock \in Nat
    BY RowTypes
  <2> QED  BY <1>3, <2>1 DEF Tick, StampsInEra
<1>4. CASE StepBack
  <2>1. \A r \in rows : r.era \in Nat /\ steps \in Nat
    BY RowTypes
  <2> QED  BY <1>4, <2>1 DEF StepBack, StampsInEra
<1>5. CASE PowerLoss
  <2>1. rows' \subseteq rows /\ UNCHANGED <<clock, steps>>
    BY <1>5 DEF PowerLoss
  <2>2. IsFiniteSet(rows')
    BY <2>1, FS_Subset DEF StampsInEra
  <2> QED  BY <2>1, <2>2 DEF StampsInEra
<1> QED  BY <1>1, <1>2, <1>3, <1>4, <1>5
         DEF WindowNext, Receive, Answered, RecordOwnerFails, windowVars

LEMMA WindowInvariant == WindowSpec => [](WindowTypeOK /\ StampsInEra)
<1>1. WindowInit => StampsInEra
  BY FS_EmptySet DEF WindowInit, StampsInEra
<1> QED  BY <1>1, WindowTypeInit, WindowTypeStep, StampsStep, PTL DEF WindowSpec

-----------------------------------------------------------------------------
(* Theorems *)

\* The conversation store is well typed: ids are never given out twice.
THEOREM WindowTypes == WindowSpec => []WindowTypeOK
BY WindowInvariant, PTL

\* The order of the query, by stamp, is the order of writing within an era.
LEMMA LaterWithinEra ==
  ASSUME WindowTypeOK, StampsInEra, NEW r \in rows, NEW s \in rows, r.era = s.era
  PROVE  Later(s, r) <=> s.id > r.id
<1>1. r.id \in Nat /\ s.id \in Nat /\ r.at \in Nat /\ s.at \in Nat
  BY RowTypes
<1>2. r.id = s.id => r = s
  BY DEF WindowTypeOK
<1>3. r.id < s.id => r.at <= s.at
  BY DEF StampsInEra
<1>4. s.id < r.id => s.at <= r.at
  BY DEF StampsInEra
<1> QED  BY <1>1, <1>2, <1>3, <1>4 DEF Later

\* As long as the clock was never stepped back, the recent window of every
\* conversation is what was written to it last.
THEOREM WindowLatest == WindowSpec => []WindowIsLatest
<1>1. WindowTypeOK /\ StampsInEra => WindowIsLatest
  <2> SUFFICES ASSUME WindowTypeOK, StampsInEra, steps = 0, NEW c \in Convo
               PROVE  Recent(c) = Latest(c)
    BY DEF WindowIsLatest
  <2>1. \A r \in rows : r.era = 0
    BY RowTypes DEF StampsInEra
  <2>2. ASSUME NEW r \in rows
        PROVE  {s \in Of(c) : Later(s, r)} = {s \in rows : s.convo = c /\ s.id > r.id}
    BY <2>1, LaterWithinEra DEF Of
  <2>3. Recent(c) = {r \in rows : r.convo = c
                       /\ Cardinality({s \in Of(c) : Later(s, r)}) < N}
    BY DEF Recent, Of
  <2> QED  BY <2>2, <2>3 DEF Latest
<1> QED  BY <1>1, WindowInvariant, PTL

\* Whatever the clock did, a line in the window brings along every younger line
\* of its era.
THEOREM WindowHasNoGap == WindowSpec => []NoGapWithinEra
<1>1. WindowTypeOK /\ StampsInEra => NoGapWithinEra
  <2> SUFFICES ASSUME WindowTypeOK, StampsInEra, NEW c \in Convo, NEW r \in Recent(c),
                      NEW s \in rows, s.convo = c, s.era = r.era, s.id > r.id
               PROVE  s \in Recent(c)
    BY DEF NoGapWithinEra
  <2> DEFINE before(x) == {t \in Of(c) : Later(t, x)}
  <2>1. r \in rows /\ r \in Of(c) /\ s \in Of(c) /\ Cardinality(before(r)) < N
    BY DEF Recent, Of
  <2>2. Later(s, r)
    BY <2>1, LaterWithinEra
  <2>3. before(s) \subseteq before(r)
    <3> SUFFICES ASSUME NEW t \in Of(c), Later(t, s) PROVE Later(t, r)
      OBVIOUS
    <3>1. t \in rows
      BY DEF Of
    <3>2. /\ t.id \in Nat /\ t.at \in Nat /\ s.id \in Nat /\ s.at \in Nat
          /\ r.id \in Nat /\ r.at \in Nat
      BY <2>1, <3>1, RowTypes
    <3> QED  BY <2>2, <3>2 DEF Later
  <2>4. IsFiniteSet(before(r))
    BY FS_Subset DEF StampsInEra, Of
  <2>5. Cardinality(before(s)) <= Cardinality(before(r)) /\ IsFiniteSet(before(s))
    BY <2>3, <2>4, FS_Subset
  <2>6. Cardinality(before(s)) \in Nat /\ Cardinality(before(r)) \in Nat
    BY <2>4, <2>5, FS_CardinalityType
  <2>7. Cardinality(before(s)) < N
    <3> HIDE DEF before
    <3> QED  BY <2>1, <2>5, <2>6, WindowAssumption
  <2> QED  BY <2>1, <2>7 DEF Recent
<1> QED  BY <1>1, WindowInvariant, PTL

-----------------------------------------------------------------------------
(* The prompt *)

\* A reply has the number after the line it replies to, if that one was written.
RepliesFollow ==
  /\ \A r \in rows : r.role = "pet" /\ r.turn \notin failed =>
       \E o \in rows : /\ o.id = r.id - 1 /\ o.role = "owner"
                       /\ o.turn = r.turn /\ o.convo = r.convo
  /\ at = "pet" /\ turns \notin failed =>
       \E o \in rows : /\ o.id = nextId - 1 /\ o.role = "owner"
                       /\ o.turn = turns /\ o.convo = convo

LEMMA RecordOwnerKeepsReplies ==
  ASSUME WindowTypeOK, RepliesFollow, RecordOwner
  PROVE  RepliesFollow'
<1> DEFINE new == [id |-> nextId, convo |-> convo, role |-> "owner", at |-> clock,
                   turn |-> turns, era |-> steps]
<1>1. /\ rows' = rows \cup {new} /\ nextId' = nextId + 1 /\ nextId \in Nat
      /\ UNCHANGED <<convo, turns, failed>>
  BY DEF RecordOwner, Record, WindowTypeOK
<1>2. new.id = nextId /\ new.role = "owner" /\ new.turn = turns /\ new.convo = convo
  OBVIOUS
<1> HIDE DEF new
<1> QED  BY <1>1, <1>2 DEF RepliesFollow

LEMMA RecordPetKeepsReplies ==
  ASSUME WindowTypeOK, RepliesFollow, RecordPet
  PROVE  RepliesFollow'
<1> DEFINE new == [id |-> nextId, convo |-> convo, role |-> "pet", at |-> clock,
                   turn |-> turns, era |-> steps]
<1>1. /\ rows' = rows \cup {new} /\ at = "pet" /\ at' = "recv"
      /\ UNCHANGED <<convo, turns, failed>>
  BY DEF RecordPet, Record
<1>2. new.id = nextId /\ new.turn = turns /\ new.convo = convo
  OBVIOUS
<1> HIDE DEF new
<1> QED  BY <1>1, <1>2 DEF RepliesFollow

LEMMA RepliesStep == WindowTypeOK /\ RepliesFollow /\ [WindowNext]_windowVars => RepliesFollow'
<1> SUFFICES ASSUME WindowTypeOK, RepliesFollow, [WindowNext]_windowVars PROVE RepliesFollow'
  OBVIOUS
<1>1. CASE RecordOwner \/ RecordPet
  BY <1>1, RecordOwnerKeepsReplies, RecordPetKeepsReplies
<1>2. CASE RecordOwnerFails
  BY <1>2 DEF RecordOwnerFails, RepliesFollow
<1>3. CASE PowerLoss
  <2>1. PICK kept \in 1..nextId : rows' = {r \in rows : r.id < kept}
    BY <1>3 DEF PowerLoss
  <2>2. at' = "recv" /\ failed' = failed
    BY <1>3 DEF PowerLoss
  <2>3. kept \in Int /\ \A r \in rows : r.id \in Nat
    BY RowTypes DEF WindowTypeOK
  <2> QED  BY <2>1, <2>2, <2>3 DEF RepliesFollow
<1>4. CASE (\E c \in Convo : Receive(c)) \/ Answered
  <2>1. at' # "pet" /\ UNCHANGED <<rows, failed>>
    BY <1>4 DEF Receive, Answered
  <2> QED  BY <2>1 DEF RepliesFollow
<1>5. CASE UNCHANGED <<rows, nextId, at, convo, turns, failed>>
  BY <1>5 DEF RepliesFollow
<1> QED  BY <1>1, <1>2, <1>3, <1>4, <1>5 DEF WindowNext, Tick, StepBack, windowVars

\* Numbers order the lines of a conversation whose clock was never stepped back.
LEMMA LaterIsYounger ==
  ASSUME WindowTypeOK, StampsInEra, steps = 0, NEW r \in rows, NEW s \in rows
  PROVE  Later(s, r) <=> s.id > r.id
<1>1. r.era = s.era
  BY RowTypes DEF StampsInEra
<1> QED  BY <1>1, LaterWithinEra

\* Two lines of a window have different places, and each place from 0 is taken:
\* the prompt shows every line of the window, and the older ones first.
LEMMA PlaceOrder ==
  ASSUME WindowTypeOK, StampsInEra, steps = 0, NEW c \in Convo
  PROVE  LET W == Recent(c) IN
         /\ IsFiniteSet(W) /\ Cardinality(W) \in Nat
         /\ \A r \in W : Place(c, r) \in 0..(Cardinality(W) - 1)
         /\ \A r, s \in W : s.id < r.id => Place(c, s) < Place(c, r)
<1> DEFINE W == Recent(c)
           before(r) == {s \in W : Later(r, s)}
<1>1. W \subseteq rows /\ IsFiniteSet(W) /\ Cardinality(W) \in Nat
  <2>1. W \subseteq rows
    BY DEF Recent, Of
  <2> QED  BY <2>1, FS_Subset, FS_CardinalityType DEF StampsInEra
<1>2. ASSUME NEW r \in W
      PROVE  /\ IsFiniteSet(before(r)) /\ Cardinality(before(r)) \in Nat
             /\ Cardinality(before(r)) < Cardinality(W)
  <2>1. r.id \in Nat /\ before(r) \in SUBSET W /\ r \notin before(r)
    BY <1>1, <1>2, RowTypes, LaterIsYounger
  <2>2. /\ IsFiniteSet(before(r)) /\ Cardinality(before(r)) <= Cardinality(W)
        /\ Cardinality(W) # Cardinality(before(r))
    BY <1>1, <1>2, <2>1, FS_Subset
  <2>3. Cardinality(before(r)) \in Nat
    BY <2>2, FS_CardinalityType
  <2> HIDE DEF W, before
  <2> QED  BY <1>1, <2>2, <2>3
<1>3. ASSUME NEW r \in W, NEW s \in W, s.id < r.id
      PROVE  Cardinality(before(s)) < Cardinality(before(r))
  <2>1. s \in before(r) /\ s \notin before(s) /\ before(s) \in SUBSET before(r)
    <3>1. \A t \in W : t.id \in Nat /\ t \in rows
      BY <1>1, RowTypes
    <3>2. \A t \in W, u \in W : Later(u, t) <=> u.id > t.id
      BY <1>1, LaterIsYounger
    <3> HIDE DEF W
    <3> QED  BY <3>1, <3>2, <1>3
  <2>2. /\ Cardinality(before(s)) <= Cardinality(before(r))
        /\ Cardinality(before(r)) # Cardinality(before(s))
    BY <1>2, <2>1, FS_Subset
  <2> HIDE DEF W, before
  <2> QED  BY <1>2, <1>3, <2>2
<1> HIDE DEF W
<1>4. \A r : Place(c, r) = Cardinality(before(r))
  BY DEF Place, W
<1> HIDE DEF before
<1>5. \A r \in W : Place(c, r) \in 0..(Cardinality(W) - 1)
  BY <1>1, <1>2, <1>4
<1>6. \A r, s \in W : s.id < r.id => Place(c, s) < Place(c, r)
  BY <1>3, <1>4
<1> QED  BY <1>1, <1>5, <1>6 DEF W

LEMMA PromptAtPlace ==
  ASSUME WindowTypeOK, StampsInEra, steps = 0, NEW c \in Convo,
         NEW i \in 1..Cardinality(Recent(c))
  PROVE  /\ Prompt(c)[i] \in Recent(c) /\ Place(c, Prompt(c)[i]) = i - 1
         /\ \A r \in Recent(c) : Place(c, r) = i - 1 => r = Prompt(c)[i]
<1> DEFINE W == Recent(c)
           n == Cardinality(W)
           T == 0..(n - 1)
           place == [r \in W |-> Place(c, r)]
<1>1. /\ IsFiniteSet(W) /\ n \in Nat /\ \A r \in W : Place(c, r) \in T
      /\ \A r, s \in W : s.id < r.id => Place(c, s) < Place(c, r)
  BY PlaceOrder
<1>2. \A r, s \in W : r.id \in Nat /\ (r.id = s.id => r = s)
  BY RowTypes DEF Recent, Of, WindowTypeOK
<1>3. IsFiniteSet(T) /\ Cardinality(T) = n
  <2>1. n \in Nat /\ 0 \in Int /\ n - 1 \in Int
    BY <1>1
  <2> HIDE DEF n
  <2> QED  BY <2>1, FS_Interval
<1> HIDE DEF W, n
<1>4. \A r, s \in W : Place(c, r) = Place(c, s) => r = s
  BY <1>1, <1>2
<1>5. place \in Injection(W, T)
  BY <1>1, <1>4 DEF Injection, IsInjective
<1>6. place \in Surjection(W, T)
  BY <1>1, <1>3, <1>5, FS_Injection DEF n
<1>7. i - 1 \in T /\ i \in 1..n
  BY <1>1 DEF n, W
<1>8. \E r \in W : Place(c, r) = i - 1
  BY <1>6, <1>7 DEF Surjection
<1>9. Prompt(c)[i] = CHOOSE r \in W : Place(c, r) = i - 1
  BY <1>7 DEF Prompt, n, W
<1>10. Prompt(c)[i] \in W /\ Place(c, Prompt(c)[i]) = i - 1
  BY <1>8, <1>9
<1> QED  BY <1>4, <1>10 DEF W

\* The lines just before and just after one another in writing are so in the
\* prompt.
LEMMA NeighboursInPrompt ==
  ASSUME WindowTypeOK, StampsInEra, steps = 0, NEW c \in Convo,
         NEW r \in Recent(c), NEW o \in Recent(c), o.id = r.id - 1
  PROVE  Place(c, r) = Place(c, o) + 1
<1> DEFINE W == Recent(c)
           before(x) == {s \in W : Later(x, s)}
<1>1. \A s, t \in W : /\ s.id \in Nat /\ t.id \in Nat /\ (s.id = t.id => s = t)
                      /\ Later(s, t) <=> s.id > t.id
  BY RowTypes, LaterIsYounger DEF Recent, Of, WindowTypeOK
<1>2. IsFiniteSet(W)
  BY PlaceOrder
<1>3. r \in W /\ o \in W
  OBVIOUS
<1>4. Place(c, r) = Cardinality(before(r)) /\ Place(c, o) = Cardinality(before(o))
  BY DEF Place
<1> HIDE DEF W
<1>5. before(r) = before(o) \cup {o} /\ o \notin before(o)
  BY <1>1, <1>3
<1>6. IsFiniteSet(before(o))
  BY <1>2, FS_Subset
<1> QED  BY <1>4, <1>5, <1>6, FS_AddElement

\* The prompt reads as a conversation: each reply comes right after the line it
\* replies to, if that line was written and the limit did not cut it off.
THEOREM PromptReadsInPairs == WindowSpec => []PromptPaired
<1>1. WindowTypeOK /\ StampsInEra /\ RepliesFollow /\ NoGapWithinEra => PromptPaired
  <2> SUFFICES ASSUME WindowTypeOK, StampsInEra, RepliesFollow, NoGapWithinEra, steps = 0,
                      NEW c \in Convo, NEW i \in 2..Len(Prompt(c)),
                      Prompt(c)[i].role = "pet", Prompt(c)[i].turn \notin failed
               PROVE  /\ Prompt(c)[i-1].role = "owner"
                      /\ Prompt(c)[i-1].turn = Prompt(c)[i].turn
    BY DEF PromptPaired
  <2> DEFINE r == Prompt(c)[i]
             q == Prompt(c)[i-1]
             n == Cardinality(Recent(c))
  <2>1. n \in Nat /\ Len(Prompt(c)) = n
    BY PlaceOrder DEF Prompt
  <2>2. i \in 1..n /\ i - 1 \in 1..n
    BY <2>1
  <2>3. r \in Recent(c) /\ Place(c, r) = i - 1
    BY <2>2, PromptAtPlace
  <2>4. q \in Recent(c) /\ Place(c, q) = i - 2
    BY <2>2, PromptAtPlace
  <2>5. r \in rows /\ q \in rows /\ r.convo = c
    BY <2>3, <2>4 DEF Recent, Of
  <2>6. PICK o \in rows : /\ o.id = r.id - 1 /\ o.role = "owner"
                          /\ o.turn = r.turn /\ o.convo = r.convo
    BY <2>5 DEF RepliesFollow
  <2> HIDE DEF r, q, n
  <2>7. r.id \in Nat /\ q.id \in Nat /\ o.id \in Nat
        /\ r.era = 0 /\ q.era = 0 /\ o.era = 0
    BY <2>5, RowTypes DEF StampsInEra
  <2>8. q.id < r.id
    <3>1. r.id < q.id => i - 1 < i - 2
      BY <2>3, <2>4, PlaceOrder
    <3>2. r.id = q.id => i - 1 = i - 2
      BY <2>3, <2>4, <2>5 DEF WindowTypeOK
    <3> QED  BY <3>1, <3>2, <2>7
  <2>9. o \in Recent(c)
    <3>1. CASE o.id = q.id
      BY <3>1, <2>4, <2>5 DEF WindowTypeOK
    <3>2. CASE o.id > q.id
      BY <3>2, <2>4, <2>5, <2>6, <2>7 DEF NoGapWithinEra
    <3> QED  BY <3>1, <3>2, <2>6, <2>7, <2>8
  <2>10. Place(c, o) \in Nat /\ Place(c, o) = i - 2
    <3>1. Place(c, o) \in Nat
      BY <2>9, PlaceOrder
    <3>2. Place(c, r) = Place(c, o) + 1
      BY <2>3, <2>6, <2>9, NeighboursInPrompt
    <3> QED  BY <3>1, <3>2, <2>3
  <2>11. o = q
    <3>1. \A s \in Recent(c) : Place(c, s) = (i - 1) - 1 => s = Prompt(c)[i-1]
      BY <2>2, PromptAtPlace DEF n
    <3> QED  BY <2>9, <2>10, <3>1 DEF q
  <2> QED  BY <2>6, <2>11 DEF r, q
<1>2. WindowInit => RepliesFollow
  BY DEF WindowInit, RepliesFollow
<1>3. WindowSpec => [](WindowTypeOK /\ StampsInEra /\ RepliesFollow)
  <2>1. WindowInit => WindowTypeOK /\ StampsInEra
    BY WindowTypeInit, FS_EmptySet DEF WindowInit, StampsInEra
  <2> QED  BY <1>2, <2>1, WindowTypeStep, StampsStep, RepliesStep, PTL DEF WindowSpec
<1> QED  BY <1>1, <1>3, WindowHasNoGap, PTL

-----------------------------------------------------------------------------
(* The dream: the invariant of the job *)

\* Where the two writes of a promotion stand: the head of the operations is the
\* promotion of a row that exists, and the row says promoted already.
HeadIsPromotion ==
  pc \in {"append", "revert"} =>
    ops # <<>> /\ Head(ops).key \in Key /\ status[Head(ops).key] = "promoted"

\* What is offered to the worker is pending until the worker has answered.
OfferedPending == pc = "turn" => \A k \in offered : status[k] = "pending"

\* The job holds operations only while it applies them.
NothingLeftOver == pc \in {"idle", "turn"} => ops = <<>>

\* A key that no proposal named wrongly is in one operation at most, and pending
\* until the job comes to it.
NamedOnce ==
  \A k \in Key \ strayed : \A i, j \in DOMAIN ops :
    ops[i].key = k /\ ops[j].key = k => i = j
AwaitingPending ==
  \A k \in Key \ strayed : \A i \in DOMAIN ops :
    ops[i].key = k /\ (pc = "apply" \/ i > 1) => status[k] = "pending"

\* Between the two writes neither the tree nor history has the promotion.
HalfDoneIsNew == \A k \in Key \ strayed : HalfDone(k) => facts[k] = 0 /\ k \notin torn

JobInv == HeadIsPromotion /\ OfferedPending /\ NothingLeftOver /\ NamedOnce /\ AwaitingPending
DurableInv == PromotedIffFact /\ NoDuplicateFact /\ HalfDoneIsNew

-----------------------------------------------------------------------------
(* Types *)

\* A strict total order of the rows in P.
Orders(O, P) ==
  /\ O \subseteq P \X P
  /\ \A q, r \in P : q # r => (<<q, r>> \in O <=> <<r, q>> \notin O)
  /\ \A q, r, s \in P : <<q, r>> \in O /\ <<r, s>> \in O => <<q, s>> \in O
  /\ \A r \in P : <<r, r>> \notin O

\* A row that is put behind the first ones, be it new or not, leaves the rest in
\* order.
LEMMA PutBehind ==
  ASSUME NEW O, NEW P, NEW r, Orders(O, P), NEW A \in SUBSET (P \ {r}),
         \A q \in A, p \in P \ {r} : <<p, q>> \in O => p \in A
  PROVE  Orders({p \in O : r \notin {p[1], p[2]}}
                  \cup (A \X {r}) \cup ({r} \X (P \ (A \cup {r}))), P \cup {r})
<1> DEFINE M == {p \in O : r \notin {p[1], p[2]}}
                  \cup (A \X {r}) \cup ({r} \X (P \ (A \cup {r})))
<1>1. \A q, s : <<q, s>> \in M <=> \/ <<q, s>> \in O /\ q # r /\ s # r
                                   \/ q \in A /\ s = r
                                   \/ q = r /\ s \in P \ (A \cup {r})
  OBVIOUS
<1>2. M \subseteq (P \cup {r}) \X (P \cup {r})
  BY DEF Orders
<1> HIDE DEF M
<1>3. \A q, s : <<q, s>> \in O => q \in P /\ s \in P
  BY DEF Orders
<1>4. \A q, s \in P \cup {r} : q # s => (<<q, s>> \in M <=> <<s, q>> \notin M)
  BY <1>1 DEF Orders
<1>5. ASSUME NEW q \in P \cup {r}, NEW s \in P \cup {r}, NEW t \in P \cup {r},
             <<q, s>> \in M, <<s, t>> \in M
      PROVE  <<q, t>> \in M
  <2>1. CASE q = r
    <3>1. s \in P \ (A \cup {r}) /\ <<s, t>> \in O /\ t # r
      BY <1>1, <1>5, <2>1
    <3>2. t \in P \ (A \cup {r})
      BY <1>3, <3>1
    <3> QED  BY <1>1, <2>1, <3>2
  <2>2. CASE s = r
    <3>1. q \in A /\ t \in P \ (A \cup {r}) /\ q # r /\ q \in P
      BY <1>1, <1>5, <2>2
    <3>2. <<t, q>> \notin O /\ q # t
      BY <3>1
    <3>3. <<q, t>> \in O
      BY <3>1, <3>2 DEF Orders
    <3> QED  BY <1>1, <3>1, <3>3
  <2>3. CASE t = r
    <3>1. s \in A \/ q = r
      BY <1>1, <1>5, <2>3
    <3>2. CASE s \in A /\ q # r
      <4>1. <<q, s>> \in O
        BY <1>1, <1>5, <3>2
      <4>2. q \in A
        BY <1>3, <3>2, <4>1
      <4> QED  BY <1>1, <2>3, <4>2
    <3> QED  BY <2>1, <3>1, <3>2
  <2>4. CASE q # r /\ s # r /\ t # r
    <3>1. <<q, s>> \in O /\ <<s, t>> \in O
      BY <1>1, <1>5, <2>4
    <3>2. <<q, t>> \in O
      BY <1>3, <3>1 DEF Orders
    <3> QED  BY <1>1, <2>4, <3>2
  <2> QED  BY <2>1, <2>2, <2>3, <2>4
<1>6. \A q \in P \cup {r} : <<q, q>> \notin M
  BY <1>1 DEF Orders
<1>7. Orders(M, P \cup {r})
  BY <1>2, <1>4, <1>5, <1>6 DEF Orders
<1> QED  BY <1>7 DEF M

\* The table with the status of one row set and that row stamped anew.
LEMMA TableType ==
  ASSUME TypeOK, NEW r \in Row, NEW s \in {"pending", "promoted", "pruned"},
         status' = [status EXCEPT ![r] = s], Stamp(r)
  PROVE  status' \in [Row -> {"absent", "pending", "promoted", "pruned"}]
         /\ Orders(newer', Present')
<1>1. Present' = Present \cup {r}
  BY DEF Present, TypeOK
<1>2. Orders(newer, Present)
  BY DEF TypeOK, Orders
<1>3. PICK A \in Ahead(r) : newer' = Refreshed(r, A)
  BY DEF Stamp
<1>4. /\ A \in SUBSET (Present \ {r})
      /\ \A q \in A, p \in Present \ {r} : <<p, q>> \in newer => p \in A
  BY DEF Ahead
<1>5. Orders(newer', Present \cup {r})
  BY <1>2, <1>3, <1>4, PutBehind DEF Refreshed
<1> QED  BY <1>1, <1>5 DEF TypeOK

\* What is left of the operations when the first is done.
LEMMA TailOfOps ==
  ASSUME TypeOK, ops # <<>>
  PROVE  /\ Head(ops) \in Op /\ Head(ops) = ops[1] /\ 1 \in DOMAIN ops
         /\ Tail(ops) \in Seq(Op)
         /\ \A i \in DOMAIN Tail(ops) :
              i + 1 \in DOMAIN ops /\ i + 1 > 1 /\ Tail(ops)[i] = ops[i + 1] /\ i \in Nat
BY DEF TypeOK

LEMMA DreamTypeInit == Init => TypeOK
BY DreamAssumption DEF Init, TypeOK, Present

\* The part of the state that TypeOK says of the job, the tree and history.
JobType ==
  /\ facts \in [Key -> 0..MaxFacts]
  /\ pc \in {"idle", "turn", "apply", "append", "revert"}
  /\ offered \subseteq Key
  /\ ops \in Seq(Op)
  /\ torn \subseteq Key
  /\ crashes \in 0..MaxCrashes
  /\ strays \in 0..MaxStray /\ strayed \subseteq Key
TableTyped ==
  /\ status \in [Row -> {"absent", "pending", "promoted", "pruned"}]
  /\ count \in [Row -> 0..MaxCount]
  /\ Orders(newer, Present)

LEMMA TypeParts == TypeOK <=> TableTyped /\ JobType
BY DEF TypeOK, TableTyped, JobType, Orders

LEMMA SetStatusType ==
  ASSUME TypeOK, NEW k \in Row, NEW s \in {"pending", "promoted", "pruned"}, SetStatus(k, s)
  PROVE  TableTyped'
BY TableType, TypeParts DEF SetStatus, TableTyped

LEMMA TableFrame == TableTyped /\ UNCHANGED tableVars => TableTyped'
BY DEF TableTyped, tableVars, Present, Orders

LEMMA DreamTypeStep == TypeOK /\ HeadIsPromotion /\ [Next]_vars => TypeOK'
<1> SUFFICES ASSUME TypeOK, HeadIsPromotion, [Next]_vars PROVE TableTyped' /\ JobType'
  BY DEF TypeOK, TableTyped, JobType, Orders
<1> USE DreamAssumption
<1>0. TableTyped /\ JobType
  BY TypeParts
<1>1. ASSUME NEW k \in Key, Capture(k) PROVE TableTyped' /\ JobType'
  <2> DEFINE s == IF status[k] = "absent" THEN "pending" ELSE status[k]
  <2>1. s \in {"pending", "promoted", "pruned"} /\ k \in Row
    BY DEF TypeOK, Row
  <2>2. status' = [status EXCEPT ![k] = s] /\ Stamp(k)
    BY <1>1 DEF Capture, StatusOnConflict
  <2>3. TableTyped'
    <3>1. count' \in [Row -> 0..MaxCount]
      BY <1>1, <2>1 DEF Capture, TypeOK
    <3> QED  BY <2>1, <2>2, <3>1, TableType DEF TableTyped
  <2>4. JobType'
    BY <1>0, <1>1 DEF Capture, JobType, strayVars
  <2> QED  BY <2>3, <2>4
<1>2. ASSUME NEW n \in Note, CaptureNote(n) PROVE TableTyped' /\ JobType'
  <2>1. n \in Row
    BY DEF Row
  <2>2. count' \in [Row -> 0..MaxCount]
    BY <1>2, <2>1 DEF CaptureNote, TypeOK
  <2>3. status' = [status EXCEPT ![n] = "pending"] /\ Stamp(n)
    BY <1>2 DEF CaptureNote
  <2>4. TableTyped'
    BY <2>1, <2>2, <2>3, TableType DEF TableTyped
  <2>5. JobType'
    BY <1>0, <1>2 DEF CaptureNote, JobType, strayVars
  <2> QED  BY <2>4, <2>5
<1>3. CASE Build
  <2>1. Candidates \subseteq Key
    BY DEF Candidates
  <2> QED  BY <1>0, <1>3, <2>1, TableFrame DEF Build, JobType, strayVars
<1>4. CASE BuildFails \/ TurnFails
  BY <1>0, <1>4, TableFrame DEF BuildFails, TurnFails, JobType, strayVars
<1>5. CASE TurnProposes
  <2>1. PICK s \in OpSeqs :
          /\ ops' = s
          /\ IF Stray(s) = {} THEN UNCHANGED strayVars
             ELSE /\ strays < MaxStray /\ strays' = strays + 1
                  /\ strayed' = strayed \cup (Stray(s) \cap Key)
    BY <1>5 DEF TurnProposes
  <2>2. s \in Seq(Op)
    BY DEF OpSeqs
  <2>3. strays' \in 0..MaxStray /\ strayed' \subseteq Key
    BY <1>0, <2>1 DEF JobType, strayVars
  <2>4. /\ pc' = "apply" /\ UNCHANGED tableVars
        /\ UNCHANGED <<facts, offered, torn, crashes>>
    BY <1>5 DEF TurnProposes
  <2> QED  BY <1>0, <2>1, <2>2, <2>3, <2>4, TableFrame DEF JobType
<1>6. CASE ApplyEnds
  BY <1>0, <1>6, TableFrame DEF ApplyEnds, JobType, strayVars
<1>7. CASE OpSkipped
  BY <1>0, <1>7, TailOfOps, TableFrame DEF OpSkipped, JobType, strayVars
<1>8. CASE MarkPromoted
  <2>1. TableTyped'
    BY <1>8, SetStatusType DEF MarkPromoted, Exists, Row
  <2> QED  BY <1>0, <1>8, <2>1 DEF MarkPromoted, JobType, strayVars
<1>9. CASE MarkPruned
  <2>1. TableTyped'
    BY <1>9, SetStatusType DEF MarkPruned, Exists, Row
  <2> QED  BY <1>0, <1>9, <2>1, TailOfOps DEF MarkPruned, JobType, strayVars
<1>10. CASE AppendFact
  <2>1. ops # <<>> /\ Head(ops).key \in Key
    BY <1>10 DEF AppendFact, HeadIsPromotion
  <2>2. facts' \in [Key -> 0..MaxFacts]
    BY <1>0, <1>10, <2>1 DEF AppendFact, JobType
  <2> QED  BY <1>0, <1>10, <2>1, <2>2, TailOfOps, TableFrame DEF AppendFact, JobType, strayVars
<1>11. CASE AppendFails
  BY <1>0, <1>11, TableFrame DEF AppendFails, JobType, strayVars
<1>12. CASE Revert
  <2>1. ops # <<>> /\ Head(ops).key \in Key
    BY <1>12 DEF Revert, HeadIsPromotion
  <2>2. TableTyped'
    BY <1>0, <1>12, <2>1, SetStatusType, TableFrame DEF Revert, Row
  <2>3. torn' \subseteq Key
    BY <1>0, <1>12, <2>1 DEF Revert, JobType
  <2> QED  BY <1>0, <1>12, <2>1, <2>2, <2>3, TailOfOps DEF Revert, JobType, strayVars
<1>13. CASE Crash
  BY <1>0, <1>13, TableFrame DEF Crash, JobType, strayVars
<1>14. CASE UNCHANGED vars
  BY <1>0, <1>14, TableFrame DEF vars, JobType, strayVars
<1> QED
  BY <1>1, <1>2, <1>3, <1>4, <1>5, <1>6, <1>7, <1>8, <1>9, <1>10, <1>11, <1>12, <1>13, <1>14
     DEF Next, ApplyStep

-----------------------------------------------------------------------------
(* The job *)

LEMMA JobInit == Init => JobInv /\ DurableInv
BY DEF Init, JobInv, DurableInv, HeadIsPromotion, OfferedPending, NothingLeftOver, NamedOnce,
       AwaitingPending, HalfDoneIsNew, HalfDone, PromotedIffFact, NoDuplicateFact, Row

\* Dropping the first operation.
LEMMA DropFirst ==
  ASSUME TypeOK, NamedOnce, AwaitingPending, ops # <<>>, ops' = Tail(ops),
         UNCHANGED strayed, pc' = "apply",
         \A k \in Key : k # Head(ops).key => status'[k] = status[k]
  PROVE  NamedOnce' /\ AwaitingPending'
<1>1. NamedOnce'
  <2> SUFFICES ASSUME NEW k \in Key \ strayed, NEW i \in DOMAIN Tail(ops),
                      NEW j \in DOMAIN Tail(ops), Tail(ops)[i].key = k, Tail(ops)[j].key = k
               PROVE  i = j
    BY DEF NamedOnce
  <2>1. i + 1 = j + 1
    BY TailOfOps DEF NamedOnce
  <2> QED  BY <2>1, TailOfOps
<1>2. AwaitingPending'
  <2> SUFFICES ASSUME NEW k \in Key \ strayed, NEW i \in DOMAIN Tail(ops), Tail(ops)[i].key = k
               PROVE  status'[k] = "pending"
    BY DEF AwaitingPending
  <2>1. i + 1 \in DOMAIN ops /\ i + 1 > 1 /\ ops[i + 1].key = k
    BY TailOfOps
  <2>2. status[k] = "pending"
    BY <2>1 DEF AwaitingPending
  <2>3. k # Head(ops).key
    BY <2>1, TailOfOps DEF NamedOnce
  <2> QED  BY <2>2, <2>3
<1> QED  BY <1>1, <1>2

LEMMA JobStep == TypeOK /\ JobInv /\ [Next]_vars => JobInv'
<1> SUFFICES ASSUME TypeOK, JobInv, [Next]_vars PROVE JobInv'
  OBVIOUS
<1> USE DEF JobInv
<1> DEFINE Frame == /\ HeadIsPromotion' /\ OfferedPending' /\ NothingLeftOver'
                    /\ NamedOnce' /\ AwaitingPending'
\* Captures change no status but that of a row that was absent.
<1>1. ASSUME NEW r \in Row, \A k \in Key : status[k] # "absent" => status'[k] = status[k],
             UNCHANGED <<pc, offered, ops, strayed>>
      PROVE  Frame
  <2>1. HeadIsPromotion'
    BY <1>1 DEF HeadIsPromotion
  <2>2. OfferedPending'
    BY <1>1 DEF OfferedPending, TypeOK
  <2>3. NothingLeftOver' /\ NamedOnce'
    BY <1>1 DEF NothingLeftOver, NamedOnce
  <2>4. AwaitingPending'
    BY <1>1 DEF AwaitingPending
  <2> QED  BY <2>1, <2>2, <2>3, <2>4
<1>2. ASSUME NEW k \in Key, Capture(k) PROVE Frame
  <2>1. \A q \in Key : status[q] # "absent" => status'[q] = status[q]
    BY <1>2 DEF Capture, StatusOnConflict, TypeOK
  <2> QED  BY <1>1, <1>2, <2>1 DEF Capture, strayVars, Row
<1>3. ASSUME NEW n \in Note, CaptureNote(n) PROVE Frame
  <2>1. \A q \in Key : status'[q] = status[q]
    BY <1>3, DreamAssumption DEF CaptureNote, TypeOK, Row
  <2> QED  BY <1>1, <1>3, <2>1 DEF CaptureNote, strayVars, Row
<1>4. CASE Build
  <2>1. \A k \in Candidates : status[k] = "pending"
    BY DEF Candidates, PendingWindow, Learnings
  <2> QED  BY <1>4, <2>1 DEF Build, strayVars, tableVars, HeadIsPromotion, OfferedPending,
                             NothingLeftOver, NamedOnce, AwaitingPending
<1>5. CASE BuildFails \/ TurnFails
  BY <1>5 DEF BuildFails, TurnFails, strayVars, tableVars, HeadIsPromotion, OfferedPending,
              NothingLeftOver, NamedOnce, AwaitingPending
<1>6. CASE TurnProposes
  <2>1. PICK s \in OpSeqs :
          /\ ops' = s
          /\ IF Stray(s) = {} THEN UNCHANGED strayVars
             ELSE /\ strays < MaxStray /\ strays' = strays + 1
                  /\ strayed' = strayed \cup (Stray(s) \cap Key)
    BY <1>6 DEF TurnProposes
  <2>2. pc = "turn" /\ pc' = "apply" /\ UNCHANGED status
    BY <1>6 DEF TurnProposes, tableVars
  <2>3. \A k \in Key \ strayed' : k \notin Stray(s)
    BY <2>1
  <2>4. ASSUME NEW k \in Key \ strayed', NEW i \in DOMAIN s, s[i].key = k
        PROVE  k \in offered /\ \A j \in DOMAIN s : s[j].key = k => i = j
    BY <2>3, <2>4 DEF Stray
  <2>5. NamedOnce'
    BY <2>1, <2>4 DEF NamedOnce
  <2>6. AwaitingPending'
    BY <2>1, <2>2, <2>4 DEF AwaitingPending, OfferedPending
  <2> QED  BY <2>2, <2>5, <2>6 DEF HeadIsPromotion, OfferedPending, NothingLeftOver
<1>7. CASE ApplyEnds
  BY <1>7 DEF ApplyEnds, strayVars, tableVars, HeadIsPromotion, OfferedPending,
              NothingLeftOver, NamedOnce, AwaitingPending
<1>8. CASE OpSkipped
  <2>1. NamedOnce' /\ AwaitingPending'
    BY <1>8, DropFirst DEF OpSkipped, strayVars, tableVars
  <2> QED  BY <1>8, <2>1 DEF OpSkipped, HeadIsPromotion, OfferedPending, NothingLeftOver
<1>9. CASE MarkPromoted
  <2>1. /\ pc = "apply" /\ pc' = "append" /\ ops # <<>> /\ UNCHANGED <<ops, strayed>>
        /\ Head(ops).key \in Key
        /\ status' = [status EXCEPT ![Head(ops).key] = "promoted"]
    BY <1>9 DEF MarkPromoted, SetStatus, Exists, strayVars
  <2>2. HeadIsPromotion'
    BY <2>1 DEF HeadIsPromotion, TypeOK, Row
  <2>3. NamedOnce'
    BY <2>1 DEF NamedOnce
  <2>4. AwaitingPending'
    <3> SUFFICES ASSUME NEW k \in Key \ strayed, NEW i \in DOMAIN ops, ops[i].key = k, i > 1
                 PROVE  status'[k] = "pending"
      BY <2>1 DEF AwaitingPending
    <3>1. status[k] = "pending"
      BY DEF AwaitingPending
    <3>2. k # Head(ops).key
      BY <2>1, TailOfOps DEF NamedOnce
    <3> QED  BY <2>1, <3>1, <3>2
  <2> QED  BY <2>1, <2>2, <2>3, <2>4 DEF OfferedPending, NothingLeftOver
<1>10. CASE MarkPruned
  <2>1. /\ pc = "apply" /\ pc' = "apply" /\ ops # <<>> /\ ops' = Tail(ops)
        /\ UNCHANGED strayed
        /\ status' = [status EXCEPT ![Head(ops).key] = "pruned"]
    BY <1>10 DEF MarkPruned, SetStatus, strayVars
  <2>2. NamedOnce' /\ AwaitingPending'
    BY <2>1, DropFirst
  <2> QED  BY <2>1, <2>2 DEF HeadIsPromotion, OfferedPending, NothingLeftOver
<1>11. CASE AppendFact
  <2>1. /\ pc = "append" /\ pc' = "apply" /\ ops' = Tail(ops)
        /\ UNCHANGED <<status, strayed>>
    BY <1>11 DEF AppendFact, strayVars, tableVars
  <2>2. NamedOnce' /\ AwaitingPending'
    BY <2>1, DropFirst DEF HeadIsPromotion
  <2> QED  BY <2>1, <2>2 DEF HeadIsPromotion, OfferedPending, NothingLeftOver
<1>12. CASE AppendFails
  BY <1>12 DEF AppendFails, strayVars, tableVars, HeadIsPromotion, OfferedPending,
               NothingLeftOver, NamedOnce, AwaitingPending
<1>13. CASE Revert
  <2>1. /\ pc = "revert" /\ pc' = "apply" /\ ops' = Tail(ops) /\ UNCHANGED strayed
        /\ \/ status' = [status EXCEPT ![Head(ops).key] = "pending"]
           \/ UNCHANGED status
    BY <1>13 DEF Revert, SetStatus, strayVars, tableVars
  <2>2. \A k \in Key : k # Head(ops).key => status'[k] = status[k]
    BY <2>1 DEF TypeOK, Row
  <2>3. NamedOnce' /\ AwaitingPending'
    BY <2>1, <2>2, DropFirst DEF HeadIsPromotion
  <2> QED  BY <2>1, <2>3 DEF HeadIsPromotion, OfferedPending, NothingLeftOver
<1>14. CASE Crash
  BY <1>14 DEF Crash, HeadIsPromotion, OfferedPending, NothingLeftOver, NamedOnce, AwaitingPending
<1>15. CASE UNCHANGED vars
  BY <1>15 DEF vars, strayVars, tableVars, HeadIsPromotion, OfferedPending,
               NothingLeftOver, NamedOnce, AwaitingPending
<1> QED
  BY <1>2, <1>3, <1>4, <1>5, <1>6, <1>7, <1>8, <1>9, <1>10, <1>11, <1>12, <1>13, <1>14, <1>15
     DEF Next, ApplyStep

\* The rows of the table and the job are well typed, and the job decides what
\* it was asked (dream.go, Apply).
LEMMA JobInvariant == Spec => [](TypeOK /\ JobInv)
<1>1. Init => TypeOK /\ JobInv
  BY DreamTypeInit, JobInit
<1>2. TypeOK /\ JobInv /\ [Next]_vars => (TypeOK /\ JobInv)'
  BY DreamTypeStep, JobStep DEF JobInv
<1> QED  BY <1>1, <1>2, PTL DEF Spec

\* The table, the tree and history are well typed: of any two rows one was
\* updated later, and what is executed is an operation on a row that exists.
THEOREM DreamTypes == Spec => []TypeOK
BY JobInvariant, PTL

-----------------------------------------------------------------------------
(* What a step does to one learning that no proposal named wrongly *)

Same(k) == /\ status'[k] = status[k] /\ facts'[k] = facts[k]
           /\ k \in torn' <=> k \in torn
           /\ HalfDone(k)' <=> HalfDone(k)
Observed(k) == /\ status[k] = "absent" /\ status'[k] = "pending" /\ facts'[k] = facts[k]
               /\ k \in torn' <=> k \in torn
               /\ ~HalfDone(k) /\ ~HalfDone(k)'
Begun(k) == /\ status[k] = "pending" /\ status'[k] = "promoted" /\ facts'[k] = facts[k]
            /\ k \in torn' <=> k \in torn
            /\ ~HalfDone(k) /\ HalfDone(k)'
Pruned(k) == /\ status[k] = "pending" /\ status'[k] = "pruned" /\ facts'[k] = facts[k]
             /\ k \in torn' <=> k \in torn
             /\ ~HalfDone(k) /\ ~HalfDone(k)'
\* A promotion that had only its first write is completed, undone or left torn.
Ended(k) ==
  /\ HalfDone(k) /\ ~HalfDone(k)' /\ status[k] = "promoted"
  /\ \/ status'[k] = "promoted" /\ facts'[k] = facts[k] + 1 /\ (k \in torn' <=> k \in torn)
     \/ status'[k] = "pending" /\ facts'[k] = facts[k] /\ (k \in torn' <=> k \in torn)
     \/ status'[k] = "promoted" /\ facts'[k] = facts[k] /\ k \in torn'
Moves(k) == Same(k) \/ Observed(k) \/ Begun(k) \/ Pruned(k) \/ Ended(k)

\* Each step moves one learning at most; in the step in which keys go astray
\* none moves.
LEMMA KeyStep ==
  ASSUME TypeOK, JobInv, [Next]_vars
  PROVE  \/ /\ UNCHANGED strayed
            /\ \E t : \A k \in Key \ strayed : IF k = t THEN Moves(k) ELSE Same(k)
         \/ strayed \subseteq strayed' /\ strayed' \subseteq Key /\ \A k \in Key : Same(k)
<1> DEFINE One == UNCHANGED strayed
                  /\ \E t : \A k \in Key \ strayed : IF k = t THEN Moves(k) ELSE Same(k)
<1> DEFINE None == strayed \subseteq strayed' /\ strayed' \subseteq Key /\ \A k \in Key : Same(k)
<1> SUFFICES One \/ None
  OBVIOUS
<1> USE DEF JobInv, strayVars, tableVars
<1>0. /\ \A k \in Key : k \in Row
      /\ strayed \subseteq Key /\ Key \cap Note = {}
  BY DreamAssumption DEF TypeOK, Row
<1>1. ASSUME NEW r \in Key, Capture(r) PROVE One
  <2>1. /\ status' = [status EXCEPT ![r] = IF status[r] = "absent" THEN "pending" ELSE status[r]]
        /\ UNCHANGED <<facts, pc, ops, torn, strayed>>
    BY <1>1 DEF Capture, StatusOnConflict
  <2>2. \A k \in Key : HalfDone(k)' <=> HalfDone(k)
    BY <2>1 DEF HalfDone
  <2>3. \A k \in Key : k # r => Same(k)
    BY <2>1, <2>2, <1>0 DEF Same, TypeOK
  <2>4. status[r] # "absent" => Same(r)
    BY <2>1, <2>2, <1>0 DEF Same, TypeOK
  <2>5. status[r] = "absent" => Observed(r)
    BY <2>1, <2>2, <1>0 DEF Observed, TypeOK, HeadIsPromotion, HalfDone
  <2> QED  BY <2>1, <2>3, <2>4, <2>5 DEF Moves
<1>2. ASSUME NEW n \in Note, CaptureNote(n) PROVE None
  BY <1>0, <1>2 DEF CaptureNote, Same, HalfDone, TypeOK
<1>3. CASE Build \/ BuildFails \/ TurnFails
  BY <1>0, <1>3 DEF Build, BuildFails, TurnFails, Same, HalfDone
<1>4. CASE TurnProposes
  <2>1. PICK s \in OpSeqs :
          /\ ops' = s
          /\ IF Stray(s) = {} THEN UNCHANGED strayVars
             ELSE /\ strays < MaxStray /\ strays' = strays + 1
                  /\ strayed' = strayed \cup (Stray(s) \cap Key)
    BY <1>4 DEF TurnProposes
  <2>2. strayed \subseteq strayed' /\ strayed' \subseteq Key
    BY <1>0, <2>1
  <2>3. \A k \in Key : Same(k)
    BY <1>4 DEF TurnProposes, Same, HalfDone
  <2> QED  BY <2>2, <2>3
<1>5. CASE ApplyEnds \/ OpSkipped
  BY <1>0, <1>5 DEF ApplyEnds, OpSkipped, Same, HalfDone
<1>6. CASE MarkPromoted
  <2>0. PICK t : t = Head(ops).key
    OBVIOUS
  <2>1. /\ pc = "apply" /\ pc' = "append" /\ ops # <<>> /\ t \in Key
        /\ status' = [status EXCEPT ![t] = "promoted"]
        /\ UNCHANGED <<facts, ops, torn, strayed>>
    BY <2>0, <1>6 DEF MarkPromoted, SetStatus, Exists
  <2>2. \A k \in Key : ~HalfDone(k) /\ (HalfDone(k)' <=> k = t)
    BY <2>0, <2>1 DEF HalfDone
  <2>3. t \notin strayed => status[t] = "pending"
    BY <2>0, <2>1, TailOfOps DEF AwaitingPending
  <2>4. t \notin strayed => Begun(t)
    BY <2>0, <2>1, <2>2, <2>3, <1>0 DEF Begun, TypeOK
  <2>5. \A k \in Key : k # t => Same(k)
    BY <2>0, <2>1, <2>2, <1>0 DEF Same, TypeOK
  <2> QED  BY <2>1, <2>4, <2>5 DEF Moves
<1>7. CASE MarkPruned
  <2>0. PICK t : t = Head(ops).key
    OBVIOUS
  <2>1. /\ pc = "apply" /\ pc' = "apply" /\ ops # <<>> /\ t \in Key
        /\ status' = [status EXCEPT ![t] = "pruned"]
        /\ UNCHANGED <<facts, torn, strayed>>
    BY <2>0, <1>7 DEF MarkPruned, SetStatus, Exists
  <2>2. \A k \in Key : ~HalfDone(k) /\ ~HalfDone(k)'
    BY <2>0, <2>1 DEF HalfDone
  <2>3. t \notin strayed => status[t] = "pending"
    BY <2>0, <2>1, TailOfOps DEF AwaitingPending
  <2>4. t \notin strayed => Pruned(t)
    BY <2>0, <2>1, <2>2, <2>3, <1>0 DEF Pruned, TypeOK
  <2>5. \A k \in Key : k # t => Same(k)
    BY <2>0, <2>1, <2>2, <1>0 DEF Same, TypeOK
  <2> QED  BY <2>1, <2>4, <2>5 DEF Moves
<1>8. CASE AppendFact
  <2>0. PICK t : t = Head(ops).key
    OBVIOUS
  <2>1. /\ pc = "append" /\ pc' = "apply" /\ t \in Key /\ status[t] = "promoted"
        /\ facts' = [facts EXCEPT ![t] = @ + 1]
        /\ UNCHANGED <<status, torn, strayed>>
    BY <2>0, <1>8 DEF AppendFact, HeadIsPromotion
  <2>2. \A k \in Key : (HalfDone(k) <=> k = t) /\ ~HalfDone(k)'
    BY <2>0, <2>1 DEF HalfDone
  <2>3. Ended(t)
    BY <2>0, <2>1, <2>2 DEF Ended, TypeOK
  <2>4. \A k \in Key : k # t => Same(k)
    BY <2>0, <2>1, <2>2 DEF Same, TypeOK
  <2> QED  BY <2>1, <2>3, <2>4 DEF Moves
<1>9. CASE AppendFails
  BY <1>0, <1>9 DEF AppendFails, Same, HalfDone
<1>10. CASE Revert
  <2>0. PICK t : t = Head(ops).key
    OBVIOUS
  <2>1. /\ pc = "revert" /\ pc' = "apply" /\ t \in Key /\ status[t] = "promoted"
        /\ UNCHANGED <<facts, strayed>>
    BY <2>0, <1>10 DEF Revert, HeadIsPromotion
  <2>2. \A k \in Key : (HalfDone(k) <=> k = t) /\ ~HalfDone(k)'
    BY <2>0, <2>1 DEF HalfDone
  <2>3. CASE SetStatus(t, "pending") /\ UNCHANGED torn
    <3>1. status' = [status EXCEPT ![t] = "pending"]
      BY <2>0, <2>3 DEF SetStatus
    <3>2. Ended(t)
      BY <2>0, <2>1, <2>2, <2>3, <3>1, <1>0 DEF Ended, TypeOK
    <3>3. \A k \in Key : k # t => Same(k)
      BY <2>0, <2>1, <2>2, <2>3, <3>1, <1>0 DEF Same, TypeOK
    <3> QED  BY <2>1, <3>2, <3>3 DEF Moves
  <2>4. CASE torn' = torn \cup {t} /\ UNCHANGED status
    <3>1. Ended(t)
      BY <2>0, <2>1, <2>2, <2>4 DEF Ended
    <3>2. \A k \in Key : k # t => Same(k)
      BY <2>0, <2>1, <2>2, <2>4 DEF Same
    <3> QED  BY <2>1, <3>1, <3>2 DEF Moves
  <2>5. (SetStatus(t, "pending") /\ UNCHANGED torn) \/ (torn' = torn \cup {t} /\ UNCHANGED status)
    BY <1>10, <2>0 DEF Revert
  <2> HIDE DEF One
  <2> QED  BY <2>3, <2>4, <2>5
<1>11. CASE Crash
  <2>1. /\ pc' = "idle" /\ torn' = torn \cup {k \in Key : HalfDone(k)}
        /\ UNCHANGED <<status, facts, strayed>>
    BY <1>11 DEF Crash
  <2>2. \A k \in Key : ~HalfDone(k)'
    BY <2>1 DEF HalfDone
  <2>3. CASE pc \in {"append", "revert"}
    <3>0. PICK t : t = Head(ops).key
      OBVIOUS
    <3>1. t \in Key /\ status[t] = "promoted" /\ \A k \in Key : HalfDone(k) <=> k = t
      BY <3>0, <2>3 DEF HeadIsPromotion, HalfDone
    <3>2. Ended(t)
      BY <2>1, <2>2, <3>1 DEF Ended
    <3>3. \A k \in Key : k # t => Same(k)
      BY <2>1, <2>2, <3>1 DEF Same
    <3> QED  BY <2>1, <3>2, <3>3 DEF Moves
  <2>4. CASE pc \notin {"append", "revert"}
    <3>1. \A k \in Key : ~HalfDone(k)
      BY <2>4 DEF HalfDone
    <3> QED  BY <2>1, <2>2, <3>1, <1>0 DEF Same
  <2> QED  BY <2>3, <2>4
<1>12. CASE UNCHANGED vars
  BY <1>0, <1>12 DEF vars, Same, HalfDone
<1> QED
  BY <1>1, <1>2, <1>3, <1>4, <1>5, <1>6, <1>7, <1>8, <1>9, <1>10, <1>11, <1>12
     DEF Next, ApplyStep

-----------------------------------------------------------------------------
(* Durability *)

\* DurableInv for one learning.
Durable(k) ==
  /\ HalfDone(k) \/ (status[k] = "promoted" <=> (facts[k] > 0 \/ k \in torn))
  /\ facts[k] + (IF k \in torn THEN 1 ELSE 0) <= 1
  /\ HalfDone(k) => facts[k] = 0 /\ k \notin torn

LEMMA DurableEach == DurableInv <=> \A k \in Key \ strayed : Durable(k)
BY DEF DurableInv, PromotedIffFact, NoDuplicateFact, HalfDoneIsNew, Durable

LEMMA DurableMoves ==
  ASSUME TypeOK, NEW k \in Key, Durable(k), Moves(k) PROVE Durable(k)'
<1>1. facts[k] \in Nat
  BY DreamAssumption DEF TypeOK
<1>2. CASE Same(k)
  BY <1>1, <1>2 DEF Same, Durable
<1>3. CASE Observed(k)
  BY <1>1, <1>3 DEF Observed, Durable
<1>4. CASE Begun(k)
  BY <1>1, <1>4 DEF Begun, Durable
<1>5. CASE Pruned(k)
  BY <1>1, <1>5 DEF Pruned, Durable
<1>6. CASE Ended(k)
  BY <1>1, <1>6 DEF Ended, Durable
<1> QED  BY <1>2, <1>3, <1>4, <1>5, <1>6 DEF Moves

LEMMA DurableStep == TypeOK /\ JobInv /\ DurableInv /\ [Next]_vars => DurableInv'
<1> SUFFICES ASSUME TypeOK, JobInv, DurableInv, [Next]_vars, NEW k \in Key, k \notin strayed'
             PROVE  Durable(k)'
  BY DEF DurableInv, PromotedIffFact, NoDuplicateFact, HalfDoneIsNew, Durable
<1>1. k \notin strayed /\ Moves(k)
  BY KeyStep DEF Moves
<1> QED  BY <1>1, DurableEach, DurableMoves

LEMMA DurableInvariant == Spec => [](TypeOK /\ JobInv /\ DurableInv)
<1>1. Init => DurableInv
  BY JobInit
<1>2. (TypeOK /\ JobInv) /\ DurableInv /\ [Next]_vars => DurableInv'
  BY DurableStep
<1> QED  BY <1>1, <1>2, JobInvariant, PTL DEF Spec

\* "a learning is promoted iff its fact is durable in the tree" (dream.go:119),
\* for every learning no proposal named wrongly.
THEOREM PromotionSafety == Spec => []PromotedIffFact
BY DurableInvariant, PTL DEF DurableInv

\* "the retry appends no duplicate" (dream.go:122), through any number of failed
\* appends, retries, captures and kills.
THEOREM FactSafety == Spec => []NoDuplicateFact
BY DurableInvariant, PTL DEF DurableInv

-----------------------------------------------------------------------------
(* The dream implements the lifecycle *)

Fate(k) == IF k \in strayed THEN "astray" ELSE IF Undecided(k) THEN "pending" ELSE status[k]
Copies(k) == IF k \in strayed THEN 0 ELSE facts[k]

\* What a step of one learning is to the lifecycle.
LEMMA MoveOfFate ==
  ASSUME TypeOK, NEW k \in Key, k \notin strayed, k \notin strayed', Durable(k), Moves(k)
  PROVE  \/ Fate(k)' = Fate(k) /\ Copies(k)' = Copies(k)
         \/ Fate(k) = "absent" /\ Fate(k)' = "pending" /\ Copies(k)' = Copies(k)
         \/ Fate(k) = "pending" /\ Fate(k)' = "promoted" /\ Copies(k)' = 1
         \/ Fate(k) = "pending" /\ Fate(k)' = "pruned" /\ Copies(k)' = Copies(k)
<1>1. facts[k] \in Nat
  BY DreamAssumption DEF TypeOK
<1> USE DEF Fate, Copies, Undecided
<1>2. CASE Same(k)
  BY <1>2 DEF Same
<1>3. CASE Observed(k)
  BY <1>1, <1>3 DEF Observed, Durable
<1>4. CASE Begun(k)
  BY <1>1, <1>4 DEF Begun, Durable
<1>5. CASE Pruned(k)
  BY <1>1, <1>5 DEF Pruned, Durable
<1>6. CASE Ended(k)
  BY <1>1, <1>6 DEF Ended, Durable
<1> QED  BY <1>2, <1>3, <1>4, <1>5, <1>6 DEF Moves

LEMMA LifeStep == TypeOK /\ JobInv /\ DurableInv /\ [Next]_vars => [Life!Next]_Life!vars
<1> SUFFICES ASSUME TypeOK, JobInv, DurableInv, [Next]_vars PROVE Life!Next \/ UNCHANGED Life!vars
  OBVIOUS
<1>1. CASE /\ UNCHANGED strayed
           /\ \E t : \A k \in Key \ strayed : IF k = t THEN Moves(k) ELSE Same(k)
  <2>1. PICK t : \A k \in Key \ strayed : IF k = t THEN Moves(k) ELSE Same(k)
    BY <1>1
  <2>2. \A k \in Key : k # t \/ k \in strayed => Fate(k)' = Fate(k) /\ Copies(k)' = Copies(k)
    BY <1>1, <2>1 DEF Fate, Copies, Undecided, Same
  <2>3. CASE t \in Key \ strayed
    <3>1. Moves(t) /\ t \notin strayed' /\ Durable(t)
      BY <1>1, <2>1, <2>3, DurableEach
    <3>2. CASE Fate(t)' = Fate(t) /\ Copies(t)' = Copies(t)
      <4>1. \A k \in Key : Fate(k)' = Fate(k) /\ Copies(k)' = Copies(k)
        BY <2>2, <3>2
      <4> QED  BY <4>1 DEF Life!vars, Fate, Copies
    <3>3. CASE Fate(t) = "absent" /\ Fate(t)' = "pending" /\ Copies(t)' = Copies(t)
      <4>1. \A k \in Key : Copies(k)' = Copies(k)
                          /\ Fate(k)' = (IF k = t THEN "pending" ELSE Fate(k))
        BY <2>2, <3>3
      <4>2. Life!Observe(t)
        BY <2>3, <3>3, <4>1 DEF Life!Observe, Fate, Copies
      <4> QED  BY <2>3, <4>2 DEF Life!Next
    <3>4. CASE Fate(t) = "pending" /\ Fate(t)' = "promoted" /\ Copies(t)' = 1
      <4>1. \A k \in Key : /\ Copies(k)' = (IF k = t THEN 1 ELSE Copies(k))
                           /\ Fate(k)' = (IF k = t THEN "promoted" ELSE Fate(k))
        BY <2>2, <3>4
      <4>2. Life!Promote(t)
        BY <2>3, <3>4, <4>1 DEF Life!Promote, Fate, Copies
      <4> QED  BY <2>3, <4>2 DEF Life!Next
    <3>5. CASE Fate(t) = "pending" /\ Fate(t)' = "pruned" /\ Copies(t)' = Copies(t)
      <4>1. \A k \in Key : Copies(k)' = Copies(k)
                          /\ Fate(k)' = (IF k = t THEN "pruned" ELSE Fate(k))
        BY <2>2, <3>5
      <4>2. Life!Prune(t)
        BY <2>3, <3>5, <4>1 DEF Life!Prune, Fate, Copies
      <4> QED  BY <2>3, <4>2 DEF Life!Next
    <3> QED  BY <2>3, <3>1, <3>2, <3>3, <3>4, <3>5, MoveOfFate
  <2>4. CASE t \notin Key \ strayed
    <3>1. \A k \in Key : Fate(k)' = Fate(k) /\ Copies(k)' = Copies(k)
      BY <2>2, <2>4
    <3> QED  BY <3>1 DEF Life!vars, Fate, Copies
  <2> QED  BY <2>3, <2>4
<1>2. CASE strayed \subseteq strayed' /\ strayed' \subseteq Key /\ \A k \in Key : Same(k)
  <2>1. \A k \in Key : /\ Fate(k)' = (IF k \in strayed' THEN "astray" ELSE Fate(k))
                       /\ Copies(k)' = (IF k \in strayed' THEN 0 ELSE Copies(k))
    BY <1>2 DEF Fate, Copies, Undecided, Same
  <2>2. Life!Astray
    BY <1>2, <2>1 DEF Life!Astray, Fate, Copies
  <2> QED  BY <2>2 DEF Life!Next
<1> QED  BY <1>1, <1>2, KeyStep

LEMMA LifeInit == Init => Life!Init
BY DEF Init, Life!Init, Undecided, HalfDone, Row

\* The two writes of a promotion, the revert and the kills between them amount to
\* one decision or none (dream.go:119-123).
THEOREM DreamIsLifecycle == Spec => ImplementsLifecycle
BY LifeInit, LifeStep, DurableInvariant, PTL DEF Spec, ImplementsLifecycle, Life!Spec
==============================================================================
