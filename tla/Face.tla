--------------------------------- MODULE Face ---------------------------------
(* A blink on its way to the screen: the reflex asks the compositor to push a  *)
(* closed and then an open face, the compositor numbers the frames, the bus    *)
(* hands them over a buffered channel, the renderer paints those newer than    *)
(* the last. On shutdown the reflexes are drained before the renderer, unless  *)
(* they take more than the drain timeout; a push takes no context, so it waits *)
(* for room however long that takes.                                          *)
EXTENDS Naturals, Sequences

CONSTANTS
  DisplayCap,   \* capacity of the display channel
  MaxBlinks     \* bound on the blinks

ASSUME FaceAssumption == DisplayCap \in Nat \ {0} /\ MaxBlinks \in Nat

Frame == [seq : Nat, open : BOOLEAN]
Nothing == [seq |-> 0, open |-> TRUE]

VARIABLES
  seq,       \* Compositor.seq
  display,   \* the channel of face snapshots
  shown,     \* the last frame painted: lastSeq and the eyes on screen
  blink,     \* the blink job: idle, close, hold, reopen, or stopped
  pushing,   \* the numbered frame the job waits to publish, if any
  blinks,    \* blinks begun
  renderer,  \* is the display edge running?
  drain,     \* edges cancelled: none, reflex-scheduler, display
  late       \* the drain went on from the scheduler before the blink stopped

vars == <<seq, display, shown, blink, pushing, blinks, renderer, drain, late>>

TypeOK ==
  /\ seq \in 0..(2 * MaxBlinks + 1)
  /\ display \in Seq(Frame) /\ Len(display) <= DisplayCap
  /\ shown \in Frame
  /\ blink \in {"idle", "close", "hold", "reopen", "stopped"}
  /\ pushing \subseteq Frame
  /\ blinks \in 0..MaxBlinks
  /\ renderer \in BOOLEAN
  /\ drain \in 0..2 /\ late \in BOOLEAN

\* main pushes an open face before the edges start.
Init ==
  /\ seq = 1 /\ display = <<[seq |-> 1, open |-> TRUE]>>
  /\ shown = Nothing
  /\ blink = "idle" /\ pushing = {} /\ blinks = 0
  /\ renderer = TRUE /\ drain = 0 /\ late = FALSE

-----------------------------------------------------------------------------
(* Compositor and bus *)

\* PushFace takes the next number under the lock ...
Number(o) ==
  /\ pushing = {}
  /\ seq' = seq + 1
  /\ pushing' = {[seq |-> seq + 1, open |-> o]}

\* Mutant: a full channel drops the frame instead of holding the pusher.
PublishOrDrop ==
  /\ pushing # {}
  /\ display' = IF Len(display) < DisplayCap
                THEN display \o <<CHOOSE f \in pushing : TRUE>> ELSE display
  /\ pushing' = {}

\* ... and publishes without it, waiting for room with no way out.
Publish ==
  /\ pushing # {} /\ Len(display) < DisplayCap
  /\ display' = display \o <<CHOOSE f \in pushing : TRUE>>
  /\ pushing' = {}

-----------------------------------------------------------------------------
(* The blink reflex *)

BlinkDue ==
  /\ blink = "idle" /\ blinks < MaxBlinks
  /\ blink' = "close" /\ blinks' = blinks + 1
  /\ Number(FALSE)
  /\ UNCHANGED <<display, shown, renderer, drain, late>>

ClosedPushed ==
  /\ blink = "close" /\ Publish
  /\ blink' = "hold"
  /\ UNCHANGED <<seq, shown, blinks, renderer, drain, late>>

\* Mutant: a cancelled hold returns without the second push.
HoldReturns ==
  /\ blink = "hold"
  /\ IF drain = 0 THEN Number(TRUE) ELSE UNCHANGED <<seq, pushing>>
  /\ blink' = IF drain = 0 THEN "reopen" ELSE "idle"
  /\ UNCHANGED <<display, shown, blinks, renderer, drain, late>>

\* The hold is over, or cancelled: the eyes reopen either way.
HoldEnds ==
  /\ blink = "hold"
  /\ blink' = "reopen"
  /\ Number(TRUE)
  /\ UNCHANGED <<display, shown, blinks, renderer, drain, late>>

OpenPushed ==
  /\ blink = "reopen" /\ Publish
  /\ blink' = "idle"
  /\ UNCHANGED <<seq, shown, blinks, renderer, drain, late>>

ReflexStops ==
  /\ blink = "idle" /\ drain >= 1
  /\ blink' = "stopped"
  /\ UNCHANGED <<seq, display, shown, pushing, blinks, renderer, drain, late>>

-----------------------------------------------------------------------------
(* The renderer *)

\* handle: paint a frame newer than the last painted, drop any other.
Handle ==
  /\ renderer /\ display # <<>>
  /\ shown' = IF Head(display).seq <= shown.seq THEN shown ELSE Head(display)
  /\ display' = Tail(display)
  /\ UNCHANGED <<seq, blink, pushing, blinks, renderer, drain, late>>

\* Its select may take the cancellation though a frame is waiting.
RendererStops ==
  /\ renderer /\ drain >= 2
  /\ renderer' = FALSE
  /\ UNCHANGED <<seq, display, shown, blink, pushing, blinks, drain, late>>

-----------------------------------------------------------------------------
(* Shutdown *)

Terminate ==
  /\ drain = 0
  /\ drain' = 1
  /\ UNCHANGED <<seq, display, shown, blink, pushing, blinks, renderer, late>>

\* Mutant: the display is cancelled together with the reflexes.
DrainTogether ==
  /\ drain = 1
  /\ drain' = 2
  /\ UNCHANGED <<seq, display, shown, blink, pushing, blinks, renderer, late>>

\* The display is cancelled once the reflexes have stopped or, five seconds on,
\* though they have not: a renderer that stalls keeps the pusher waiting.
Drain ==
  /\ drain = 1
  /\ drain' = 2 /\ late' = (blink # "stopped")
  /\ UNCHANGED <<seq, display, shown, blink, pushing, blinks, renderer>>

BlinkStep == ClosedPushed \/ HoldEnds \/ OpenPushed
Next == BlinkDue \/ BlinkStep \/ ReflexStops \/ Handle \/ RendererStops
        \/ Terminate \/ Drain

\* Goroutines run on; no blink and no signal is forced. The scheduler's select
\* sees the cancellation between two blinks, which are seconds apart.
Fairness == /\ WF_vars(BlinkStep) /\ SF_vars(ReflexStops)
            /\ WF_vars(Handle \/ RendererStops) /\ WF_vars(RendererStops)
            /\ WF_vars(Drain)

Spec == Init /\ [][Next]_vars /\ Fairness

-----------------------------------------------------------------------------
(* Properties *)

\* A frame painted is followed by an open face: the pet never stares at the
\* owner with closed eyes for ever, however far the renderer lags behind the
\* blinks, also while the reflexes are drained; until it stops itself.
EyesReopen == (~shown.open) ~> (shown.open \/ ~renderer)

\* A push takes no context (compositor.go:38), and still the drain gets through:
\* the renderer makes room for the last frames of the blink. The blink is left
\* behind only if the drain timed out on it and the renderer then stopped with
\* the channel full: there it waits in Publish until the process is gone.
DrainCompletes ==
  (drain > 0) ~>
    /\ ~renderer
    /\ \/ blink = "stopped"
       \/ late /\ pushing # {} /\ Len(display) = DisplayCap

\* blink.go:88-90 "so the face is never left frozen mid-blink (eyes closed) on
\* shutdown ... The reflex edge drains before the renderer, so this push still
\* reaches it": when the renderer is told to stop, the last frame it was ever
\* sent opens the eyes, wherever in a blink the shutdown struck, unless the drain
\* timed out on the blink. (That it paints the frame is more than the code
\* ensures: see RendererStops.)
ReopenSent ==
  drain >= 2 /\ ~late =>
    IF display = <<>> THEN shown.open ELSE display[Len(display)].open
==============================================================================
