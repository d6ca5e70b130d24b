------------------------------ MODULE FaceProofs ------------------------------
(* The way of a frame from the blink to the screen, for a channel of any       *)
(* capacity and any number of blinks.                                         *)
EXTENDS Face, TLAPS

\* The frame the blink is publishing, or the channel would get.
Numbered ==
  /\ blink = "close" => seq = 2 * blinks /\ pushing = {[seq |-> seq, open |-> FALSE]}
  /\ blink = "hold" => seq = 2 * blinks /\ pushing = {}
  /\ blink = "reopen" => seq = 2 * blinks + 1 /\ pushing = {[seq |-> seq, open |-> TRUE]}
  /\ blink \in {"idle", "stopped"} => seq = 2 * blinks + 1 /\ pushing = {}

Typed == TypeOK /\ Numbered

LEMMA TypedInit == Init => Typed
<1> SUFFICES ASSUME Init PROVE Typed
  OBVIOUS
<1> USE FaceAssumption
<1>1. <<[seq |-> 1, open |-> TRUE]>> \in Seq(Frame) /\ Len(<<[seq |-> 1, open |-> TRUE]>>) = 1
  BY DEF Frame
<1>2. shown \in Frame /\ display \in Seq(Frame) /\ Len(display) = 1 /\ pushing = {}
  BY <1>1 DEF Init, Frame, Nothing
<1>3. seq = 1 /\ blinks = 0 /\ drain = 0 /\ late = FALSE /\ renderer = TRUE /\ blink = "idle"
  BY DEF Init
<1>4. TypeOK
  <2>1. seq \in 0..(2 * MaxBlinks + 1) /\ blinks \in 0..MaxBlinks /\ drain \in 0..2
    BY <1>3
  <2>2. Len(display) <= DisplayCap
    BY <1>2
  <2>3. renderer \in BOOLEAN /\ late \in BOOLEAN /\ pushing \subseteq Frame
    BY <1>2, <1>3
  <2>4. blink \in {"idle", "close", "hold", "reopen", "stopped"}
    BY <1>3
  <2> QED  BY <1>2, <2>1, <2>2, <2>3, <2>4 DEF TypeOK
<1>5. Numbered
  BY DEF Init, Numbered
<1> QED  BY <1>4, <1>5 DEF Typed

\* What a push puts into the channel while one frame waits for it.
LEMMA PublishOne ==
  ASSUME TypeOK, NEW f \in Frame, pushing = {f}, Publish
  PROVE  /\ display' = Append(display, f) /\ pushing' = {}
         /\ display' \in Seq(Frame) /\ Len(display') = Len(display) + 1
         /\ Len(display') <= DisplayCap
<1> USE FaceAssumption
<1>1. (CHOOSE g \in pushing : TRUE) = f
  OBVIOUS
<1>2. display \in Seq(Frame) /\ Len(display) < DisplayCap
  BY DEF TypeOK, Publish
<1>3. display' = Append(display, f) /\ pushing' = {}
  BY <1>1, <1>2 DEF Publish
<1> QED  BY <1>2, <1>3

\* The painter takes the oldest frame.
LEMMA HandleOne ==
  ASSUME TypeOK, Handle
  PROVE  /\ Head(display) \in Frame
         /\ display' \in Seq(Frame) /\ Len(display') = Len(display) - 1
         /\ \A i \in DOMAIN display' : display'[i] = display[i + 1] /\ i + 1 \in DOMAIN display
         /\ Head(display) = display[1] /\ Len(display) > 0
<1>1. display \in Seq(Frame) /\ display # <<>> /\ display' = Tail(display)
  BY DEF TypeOK, Handle
<1> QED  BY <1>1

LEMMA TypedStep == Typed /\ [Next]_vars => Typed'
<1> SUFFICES ASSUME TypeOK, Numbered, [Next]_vars PROVE TypeOK' /\ Numbered'
  BY DEF Typed
<1> USE FaceAssumption
<1>0. seq \in Nat /\ blinks \in Nat /\ blinks <= MaxBlinks
  BY DEF TypeOK
<1>1. CASE BlinkDue
  <2>1. seq = 2 * blinks + 1 /\ pushing = {} /\ blinks + 1 <= MaxBlinks
    BY <1>0, <1>1 DEF BlinkDue, Numbered
  <2>2. /\ seq' = seq + 1 /\ pushing' = {[seq |-> seq + 1, open |-> FALSE]}
        /\ blink' = "close" /\ blinks' = blinks + 1
        /\ UNCHANGED <<display, shown, renderer, drain, late>>
    BY <1>1 DEF BlinkDue, Number
  <2>3. Numbered'
    BY <1>0, <2>1, <2>2 DEF Numbered
  <2>4. [seq |-> seq + 1, open |-> FALSE] \in Frame
    BY <1>0 DEF Frame
  <2>5. seq' \in 0..(2 * MaxBlinks + 1) /\ blinks' \in 0..MaxBlinks
    BY <1>0, <2>1, <2>2
  <2>6. TypeOK'
    BY <2>2, <2>4, <2>5 DEF TypeOK
  <2> QED  BY <2>3, <2>6
<1>2. CASE ClosedPushed
  <2> DEFINE f == [seq |-> seq, open |-> FALSE]
  <2>1. f \in Frame /\ pushing = {f} /\ seq = 2 * blinks
    BY <1>0, <1>2 DEF ClosedPushed, Numbered, Frame
  <2>2. Publish /\ blink' = "hold" /\ UNCHANGED <<seq, shown, blinks, renderer, drain, late>>
    BY <1>2 DEF ClosedPushed
  <2> HIDE DEF f
  <2>3. /\ display' \in Seq(Frame) /\ Len(display') <= DisplayCap /\ pushing' = {}
    BY <2>1, <2>2, PublishOne
  <2> QED  BY <2>1, <2>2, <2>3 DEF TypeOK, Numbered
<1>3. CASE HoldEnds
  <2>1. seq = 2 * blinks /\ pushing = {}
    BY <1>3 DEF HoldEnds, Numbered
  <2>2. /\ seq' = seq + 1 /\ pushing' = {[seq |-> seq + 1, open |-> TRUE]}
        /\ blink' = "reopen" /\ UNCHANGED <<display, shown, blinks, renderer, drain, late>>
    BY <1>3 DEF HoldEnds, Number
  <2>3. [seq |-> seq + 1, open |-> TRUE] \in Frame /\ seq' \in 0..(2 * MaxBlinks + 1)
    BY <1>0, <2>1, <2>2 DEF Frame
  <2>4. Numbered'
    BY <1>0, <2>1, <2>2 DEF Numbered
  <2>5. TypeOK'
    BY <2>2, <2>3 DEF TypeOK
  <2> QED  BY <2>4, <2>5
<1>4. CASE OpenPushed
  <2> DEFINE f == [seq |-> seq, open |-> TRUE]
  <2>1. f \in Frame /\ pushing = {f} /\ seq = 2 * blinks + 1
    BY <1>0, <1>4 DEF OpenPushed, Numbered, Frame
  <2>2. Publish /\ blink' = "idle" /\ UNCHANGED <<seq, shown, blinks, renderer, drain, late>>
    BY <1>4 DEF OpenPushed
  <2> HIDE DEF f
  <2>3. /\ display' \in Seq(Frame) /\ Len(display') <= DisplayCap /\ pushing' = {}
    BY <2>1, <2>2, PublishOne
  <2> QED  BY <2>1, <2>2, <2>3 DEF TypeOK, Numbered
<1>5. CASE ReflexStops
  BY <1>5 DEF ReflexStops, TypeOK, Numbered
<1>6. CASE Handle
  <2>1. /\ display' \in Seq(Frame) /\ Len(display') <= DisplayCap
        /\ shown' \in Frame
    BY <1>6, HandleOne DEF Handle, TypeOK
  <2> QED  BY <1>6, <2>1 DEF Handle, TypeOK, Numbered
<1>7. CASE RendererStops
  BY <1>7 DEF RendererStops, TypeOK, Numbered
<1>8. CASE Terminate
  BY <1>8 DEF Terminate, TypeOK, Numbered
<1>9. CASE Drain
  BY <1>9 DEF Drain, TypeOK, Numbered
<1>10. CASE UNCHANGED vars
  BY <1>10 DEF vars, TypeOK, Numbered
<1> QED
  BY <1>1, <1>2, <1>3, <1>4, <1>5, <1>6, <1>7, <1>8, <1>9, <1>10 DEF Next, BlinkStep

LEMMA TypedInvariant == Spec => []Typed
BY TypedInit, TypedStep, PTL DEF Spec

\* The state of the way from the reflex to the screen stays well typed: the
\* channel keeps its capacity and every blink takes two numbers.
THEOREM FaceTypes == Spec => []TypeOK
<1>1. Typed => TypeOK
  BY DEF Typed
<1> QED  BY <1>1, TypedInvariant, PTL

-----------------------------------------------------------------------------
(* The order of the frames *)

\* The frames wait in the order of their numbers and are all newer than the one
\* on screen, so the renderer drops none.
NoFrameStale ==
  /\ \A i \in DOMAIN display :
       /\ display[i].seq > shown.seq
       /\ \A j \in 1..(i - 1) : display[j].seq < display[i].seq
  /\ \A f \in pushing, i \in DOMAIN display : display[i].seq < f.seq

\* Numbers are given in the order of publishing, since the one pusher waits for
\* a frame before it numbers the next; none is ahead of the counter.
InOrder ==
  /\ NoFrameStale
  /\ \A i \in DOMAIN display : display[i].seq <= seq
  /\ \A f \in pushing : shown.seq < f.seq
  /\ shown.seq <= seq

LEMMA Numbers ==
  TypeOK => /\ seq \in Nat /\ shown.seq \in Nat
            /\ \A i \in DOMAIN display : display[i].seq \in Nat
<1> SUFFICES ASSUME TypeOK
             PROVE  /\ seq \in Nat /\ shown.seq \in Nat
                    /\ \A i \in DOMAIN display : display[i].seq \in Nat
  OBVIOUS
<1>1. \A i \in DOMAIN display : display[i] \in Frame
  BY DEF TypeOK
<1>2. seq \in Nat /\ shown \in Frame
  BY DEF TypeOK
<1>3. \A f \in Frame : f.seq \in Nat
  BY DEF Frame
<1> QED  BY <1>1, <1>2, <1>3

LEMMA InOrderInit == Init => InOrder
<1> SUFFICES ASSUME Init PROVE InOrder
  OBVIOUS
<1>1. /\ display = <<[seq |-> 1, open |-> TRUE]>> /\ shown = [seq |-> 0, open |-> TRUE]
      /\ pushing = {} /\ seq = 1
  BY DEF Init, Nothing
<1>2. DOMAIN display = {1} /\ display[1] = [seq |-> 1, open |-> TRUE]
  BY <1>1
<1> QED  BY <1>1, <1>2 DEF InOrder, NoFrameStale

\* A new number is ahead of all that was published.
LEMMA NumberInOrder ==
  ASSUME TypeOK, InOrder, NEW o \in BOOLEAN, Number(o), UNCHANGED <<display, shown>>
  PROVE  InOrder'
<1>1. seq \in Nat /\ shown.seq \in Nat /\ \A i \in DOMAIN display : display[i].seq \in Nat
  BY Numbers
<1>2. seq' = seq + 1 /\ pushing' = {[seq |-> seq + 1, open |-> o]}
  BY DEF Number
<1>3. \A f \in pushing' : f.seq = seq + 1
  BY <1>2
<1>4. NoFrameStale'
  BY <1>1, <1>3 DEF InOrder, NoFrameStale
<1> QED  BY <1>1, <1>2, <1>3, <1>4 DEF InOrder

\* A frame that is published goes behind all the others.
LEMMA PublishInOrder ==
  ASSUME TypeOK, InOrder, NEW f \in Frame, pushing = {f}, f.seq = seq, Publish,
         UNCHANGED <<seq, shown>>
  PROVE  InOrder'
<1>1. /\ seq \in Nat /\ shown.seq \in Nat /\ f.seq \in Nat
      /\ \A i \in DOMAIN display : display[i].seq \in Nat
  BY Numbers
<1>2. display' = Append(display, f) /\ pushing' = {} /\ display \in Seq(Frame)
  BY PublishOne DEF TypeOK
<1>3. /\ DOMAIN display' = 1..(Len(display) + 1) /\ DOMAIN display = 1..Len(display)
      /\ \A i \in 1..Len(display) : display'[i] = display[i]
      /\ display'[Len(display) + 1] = f /\ Len(display) \in Nat
  BY <1>2
<1>4. \A i \in DOMAIN display' : display'[i].seq <= seq /\ display'[i].seq > shown.seq
  BY <1>1, <1>3 DEF InOrder, NoFrameStale
<1>5. \A i \in DOMAIN display' : \A j \in 1..(i - 1) : display'[j].seq < display'[i].seq
  <2> SUFFICES ASSUME NEW i \in DOMAIN display', NEW j \in 1..(i - 1)
               PROVE  display'[j].seq < display'[i].seq
    OBVIOUS
  <2>1. j \in 1..Len(display) /\ display'[j] = display[j]
    BY <1>3
  <2>2. CASE i = Len(display) + 1
    BY <1>1, <1>3, <2>1, <2>2 DEF InOrder, NoFrameStale
  <2>3. CASE i \in 1..Len(display)
    BY <1>3, <2>1, <2>3 DEF InOrder, NoFrameStale
  <2> QED  BY <1>3, <2>2, <2>3
<1> QED  BY <1>1, <1>2, <1>4, <1>5 DEF InOrder, NoFrameStale

\* The oldest frame is painted, and all that follow are newer.
LEMMA HandleInOrder ==
  ASSUME TypeOK, InOrder, Handle
  PROVE  InOrder' /\ shown' = Head(display)
<1>1. /\ seq \in Nat /\ shown.seq \in Nat
      /\ \A i \in DOMAIN display : display[i].seq \in Nat
  BY Numbers
<1>2. /\ display' \in Seq(Frame) /\ Head(display) = display[1] /\ 1 \in DOMAIN display
      /\ \A i \in DOMAIN display' : display'[i] = display[i + 1] /\ i + 1 \in DOMAIN display
      /\ \A i \in DOMAIN display' : i \in Nat /\ i >= 1
      /\ UNCHANGED <<seq, pushing>>
  BY HandleOne DEF Handle, TypeOK
<1>3. shown' = display[1] /\ shown'.seq <= seq
  BY <1>1, <1>2 DEF Handle, InOrder, NoFrameStale
<1>4. \A i \in DOMAIN display' : display'[i].seq > shown'.seq
  BY <1>1, <1>2, <1>3 DEF InOrder, NoFrameStale
<1>5. \A i \in DOMAIN display' : \A j \in 1..(i - 1) : display'[j].seq < display'[i].seq
  <2> SUFFICES ASSUME NEW i \in DOMAIN display', NEW j \in 1..(i - 1)
               PROVE  display'[j].seq < display'[i].seq
    OBVIOUS
  <2>1. j + 1 \in 1..((i + 1) - 1) /\ i + 1 \in DOMAIN display
    BY <1>2
  <2>2. display[j + 1].seq < display[i + 1].seq
    BY <2>1 DEF InOrder, NoFrameStale
  <2>3. j \in DOMAIN display'
    BY <1>2
  <2> QED  BY <1>2, <2>2, <2>3
<1>6. \A f \in pushing', i \in DOMAIN display' : display'[i].seq < f.seq
  BY <1>2 DEF InOrder, NoFrameStale
<1>7. \A f \in pushing' : shown'.seq < f.seq
  BY <1>2, <1>3 DEF InOrder, NoFrameStale
<1> QED  BY <1>2, <1>3, <1>4, <1>5, <1>6, <1>7 DEF InOrder, NoFrameStale

LEMMA InOrderStep == Typed /\ InOrder /\ [Next]_vars => InOrder'
<1> SUFFICES ASSUME TypeOK, Numbered, InOrder, [Next]_vars PROVE InOrder'
  BY DEF Typed
<1>0. seq \in Nat
  BY DEF TypeOK
<1>1. CASE BlinkDue
  BY <1>1, NumberInOrder DEF BlinkDue
<1>2. CASE ClosedPushed
  <2> DEFINE f == [seq |-> seq, open |-> FALSE]
  <2>1. f \in Frame /\ pushing = {f} /\ f.seq = seq
    BY <1>0, <1>2 DEF ClosedPushed, Numbered, Frame
  <2> HIDE DEF f
  <2> QED  BY <1>2, <2>1, PublishInOrder DEF ClosedPushed
<1>3. CASE HoldEnds
  BY <1>3, NumberInOrder DEF HoldEnds
<1>4. CASE OpenPushed
  <2> DEFINE f == [seq |-> seq, open |-> TRUE]
  <2>1. f \in Frame /\ pushing = {f} /\ f.seq = seq
    BY <1>0, <1>4 DEF OpenPushed, Numbered, Frame
  <2> HIDE DEF f
  <2> QED  BY <1>4, <2>1, PublishInOrder DEF OpenPushed
<1>5. CASE Handle
  BY <1>5, HandleInOrder
<1>6. CASE UNCHANGED <<seq, display, shown, pushing>>
  BY <1>6 DEF InOrder, NoFrameStale
<1> QED
  BY <1>1, <1>2, <1>3, <1>4, <1>5, <1>6
  DEF Next, BlinkStep, ReflexStops, RendererStops, Terminate, Drain, vars

LEMMA InOrderInvariant == Spec => []InOrder
<1>1. Init /\ [][Next]_vars /\ []Typed => []InOrder
  BY InOrderInit, InOrderStep, PTL
<1> QED  BY <1>1, TypedInvariant, PTL DEF Spec

\* compositor.go:33-39 and terminal.go:56: though a frame is numbered in one step
\* and published in another, none arrives with a number the renderer has passed.
THEOREM FramesInOrder == Spec => []NoFrameStale
<1>1. InOrder => NoFrameStale
  BY DEF InOrder
<1> QED  BY <1>1, InOrderInvariant, PTL

-----------------------------------------------------------------------------
(* The last frame *)

\* The frame sent last, painted by now or still in the channel.
Sent == IF display = <<>> THEN shown ELSE display[Len(display)]

\* It is open unless the blink is between its two frames, and the renderer is
\* not told to stop before the blink has, unless the drain timed out on it.
Reopening ==
  /\ Sent.open <=> blink \notin {"hold", "reopen"}
  /\ drain >= 2 /\ ~late => blink = "stopped"

LEMMA ReopeningInit == Init => Reopening
BY DEF Init, Reopening, Sent

LEMMA SentPublished ==
  ASSUME TypeOK, NEW f \in Frame, pushing = {f}, Publish
  PROVE  Sent' = f
<1>1. display' = Append(display, f) /\ display \in Seq(Frame)
  BY PublishOne DEF TypeOK
<1>2. display' # <<>> /\ display'[Len(display')] = f
  BY <1>1
<1> QED  BY <1>2 DEF Sent

LEMMA SentHandled ==
  ASSUME TypeOK, InOrder, Handle
  PROVE  Sent' = Sent
<1>1. display \in Seq(Frame) /\ display # <<>> /\ display' = Tail(display)
  BY DEF TypeOK, Handle
<1>2. shown' = Head(display)
  BY HandleInOrder
<1>3. CASE Len(display) = 1
  <2>1. display' = <<>> /\ Head(display) = display[Len(display)]
    BY <1>1, <1>3
  <2> QED  BY <1>1, <1>2, <2>1 DEF Sent
<1>4. CASE Len(display) # 1
  <2>1. Len(display) \in Nat /\ Len(display) > 1
    <3>1. Len(display) \in Nat
      BY <1>1
    <3> QED  BY <1>4, <3>1, HandleOne
  <2>2. /\ Len(display') = Len(display) - 1
        /\ \A i \in 1..Len(display') : display'[i] = display[i + 1]
    BY <1>1, <2>1
  <2>3. display'[Len(display')] = display[Len(display)] /\ display' # <<>>
    BY <2>1, <2>2
  <2> QED  BY <1>1, <2>3 DEF Sent
<1> QED  BY <1>3, <1>4

LEMMA ReopeningStep == Typed /\ InOrder /\ Reopening /\ [Next]_vars => Reopening'
<1> SUFFICES ASSUME TypeOK, Numbered, InOrder, Reopening, [Next]_vars PROVE Reopening'
  BY DEF Typed
<1>0. seq \in Nat /\ drain \in Nat
  BY DEF TypeOK
<1>1. CASE BlinkDue
  BY <1>1 DEF BlinkDue, Reopening, Sent
<1>2. CASE ClosedPushed
  <2> DEFINE f == [seq |-> seq, open |-> FALSE]
  <2>1. f \in Frame /\ pushing = {f} /\ f.open = FALSE
    BY <1>0, <1>2 DEF ClosedPushed, Numbered, Frame
  <2> HIDE DEF f
  <2>2. Sent' = f
    BY <1>2, <2>1, SentPublished DEF ClosedPushed
  <2> QED  BY <1>2, <2>1, <2>2 DEF ClosedPushed, Reopening
<1>3. CASE HoldEnds
  BY <1>3 DEF HoldEnds, Reopening, Sent
<1>4. CASE OpenPushed
  <2> DEFINE f == [seq |-> seq, open |-> TRUE]
  <2>1. f \in Frame /\ pushing = {f} /\ f.open = TRUE
    BY <1>0, <1>4 DEF OpenPushed, Numbered, Frame
  <2> HIDE DEF f
  <2>2. Sent' = f
    BY <1>4, <2>1, SentPublished DEF OpenPushed
  <2> QED  BY <1>4, <2>1, <2>2 DEF OpenPushed, Reopening
<1>5. CASE ReflexStops
  BY <1>5 DEF ReflexStops, Reopening, Sent
<1>6. CASE Handle
  <2>1. Sent' = Sent /\ UNCHANGED <<blink, drain, late>>
    BY <1>6, SentHandled DEF Handle
  <2> QED  BY <2>1 DEF Reopening
<1>7. CASE RendererStops
  BY <1>7 DEF RendererStops, Reopening, Sent
<1>8. CASE Terminate
  BY <1>8 DEF Terminate, Reopening, Sent
<1>9. CASE Drain
  BY <1>9 DEF Drain, Reopening, Sent
<1>10. CASE UNCHANGED vars
  BY <1>10 DEF vars, Reopening, Sent
<1> QED
  BY <1>1, <1>2, <1>3, <1>4, <1>5, <1>6, <1>7, <1>8, <1>9, <1>10 DEF Next, BlinkStep

\* blink.go:88-90: wherever in a blink the shutdown strikes, the last frame the
\* renderer was sent when it is told to stop opens the eyes, unless the drain
\* timed out on the blink and went on without it.
THEOREM EyesLeftOpen == Spec => []ReopenSent
<1>1. Init /\ [][Next]_vars /\ []Typed /\ []InOrder => []Reopening
  BY ReopeningInit, ReopeningStep, PTL
<1>2. Reopening => ReopenSent
  BY DEF Reopening, ReopenSent, Sent
<1> QED  BY <1>1, <1>2, TypedInvariant, InOrderInvariant, PTL DEF Spec
===============================================================================
