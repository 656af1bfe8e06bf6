---------------------------- MODULE FramePacing ----------------------------
(***************************************************************************)
(* The frame-rate limiter of a screencast stream: when a buffer may be     *)
(* filled that PipeWire hands out.  The clock starts when a frame is ready *)
(* and the next capture waits for the rest of the frame interval.          *)
(*                                                                         *)
(* Time goes on in ticks, and is counted from the last start of the clock. *)
(* The delay is rounded down to milliseconds, and a Qt timer may be early. *)
(***************************************************************************)
EXTENDS Integers

CONSTANTS
    Second,       \* ticks in a second
    Millisecond,  \* ticks in a millisecond
    Early,        \* ticks by which a timer may be early
    Rates         \* frame rates of screens: 0 for a screen that has none

ASSUME PacingAssumption == /\ Second \in Nat \ {0}
                           /\ Millisecond \in Nat \ {0}
                           /\ Early \in Nat
                           /\ Rates \subseteq Nat

MaxRate == CHOOSE r \in Rates : \A s \in Rates : s <= r

VARIABLES
    screenRate, \* the rate of the screen, which buildFormats() offers
    framerate,  \* m_framerate
    measured,   \* fps_limit.frame_last_time is set
    since,      \* ticks since then, up to a second
    frames,     \* m_seq > 0
    held,       \* m_currentFrame.pwBuffer is set
    left,       \* ticks left on m_timer, -1 when it is not running
    capturing,  \* a frame is being captured
    asked,      \* history: the interval of the rate when a buffer was last had
    interval    \* history: that of the capture in progress, 0 for the first one

pacingVars == <<screenRate, framerate, measured, since, frames, held, left,
                capturing, asked, interval>>

\* (1.0 / max_fps) * TIMESPEC_NSEC_PER_SEC, truncated
Target(fps) == Second \div fps

\* fps_limit_measure_start()
MeasureStart(fps) ==
    IF fps <= 0 THEN UNCHANGED <<measured, since>>
                ELSE measured' = TRUE /\ since' = 0

\* createStream() with the rate of the screen
PacingInit ==
    /\ screenRate \in Rates
    /\ framerate = screenRate
    /\ measured = (screenRate > 0)
    /\ since = 0
    /\ frames = FALSE
    /\ held = FALSE
    /\ left = -1
    /\ capturing = FALSE
    /\ asked = 0
    /\ interval = 0

---------------------------------------------------------------------------
\* onStreamParamChanged(): the rate PipeWire settled on is one of those that were
\* offered, 1 to the rate of the screen, as a fraction whose quotient is taken.
\* The range for a screen without a rate is empty but for its default.
ParamChanged(fps) ==
    /\ fps \in IF screenRate = 0 THEN {0} ELSE 1..screenRate
    /\ framerate' = fps
    /\ UNCHANGED <<screenRate, measured, since, frames, held, left, capturing,
                   asked, interval>>

\* Mutant: the elapsed time is not taken off, but added.
DelayAdded(fps) ==
    IF fps <= 0 THEN 0
    ELSE LET delay == Target(fps) - 2 * since
         IN IF delay > 0 THEN delay ELSE 0

\* fps_limit_measure_end()
MeasureEnd(fps) ==
    IF fps <= 0 THEN 0
    ELSE LET delay == Target(fps) - since IN IF delay > 0 THEN delay ELSE 0

\* startframeCapture(): nothing without a buffer, or while a capture goes on
StartFrameCapture(buffer, apart) ==
    IF buffer /\ ~capturing THEN capturing' = TRUE /\ interval' = apart
                            ELSE UNCHANGED <<capturing, interval>>

\* onStreamProcess() has a buffer: it is captured into at once, or when the
\* timer has run for the delay in milliseconds.
Process ==
    /\ ~held
    /\ held' = TRUE
    /\ asked' = IF frames /\ framerate > 0 THEN Target(framerate) ELSE 0
    /\ LET delay == IF frames THEN MeasureEnd(framerate) ELSE 0 IN
       IF delay > 0
       THEN /\ left' = (delay \div Millisecond) * Millisecond
            /\ UNCHANGED <<capturing, interval>>
       ELSE StartFrameCapture(TRUE, asked') /\ UNCHANGED left
    /\ UNCHANGED <<screenRate, framerate, measured, since, frames>>

\* handleTimeOut()
HandleTimeOut ==
    /\ left \in 0..Early
    /\ left' = -1
    /\ StartFrameCapture(held, asked)
    /\ UNCHANGED <<screenRate, framerate, measured, since, frames, held, asked>>

\* enqueueBuffer() counts a buffer with metadata for a header.
EnqueueBuffer ==
    /\ held' = FALSE
    /\ frames' \in IF held THEN {frames, TRUE} ELSE {frames}

\* onStreamStateChanged(): a stream that is paused gives its buffer back.
Pause ==
    /\ EnqueueBuffer
    /\ UNCHANGED <<screenRate, framerate, measured, since, left, capturing, asked,
                   interval>>

\* handleFrameReady()
HandleFrameReady ==
    /\ capturing
    /\ capturing' = FALSE
    /\ MeasureStart(framerate)
    /\ EnqueueBuffer
    /\ UNCHANGED <<screenRate, framerate, left, asked, interval>>

\* handleFrameFailed() does not start the clock, and returns the buffer only for
\* a mismatch of constraints.
HandleFrameFailed ==
    /\ capturing
    /\ capturing' = FALSE
    /\ EnqueueBuffer \/ UNCHANGED <<held, frames>>
    /\ UNCHANGED <<screenRate, framerate, measured, since, left, asked, interval>>

\* onStreamRemoveBuffer() takes the buffer away; a timer goes on, as does a
\* capture.
RemoveBuffer ==
    /\ held
    /\ held' = FALSE
    /\ UNCHANGED <<screenRate, framerate, measured, since, frames, left,
                   capturing, asked, interval>>

\* Time passes, but not past a timer that is due.
Elapse ==
    /\ left # 0
    /\ since < Second \/ left > 0
    /\ since' = IF since < Second THEN since + 1 ELSE since
    /\ left' = IF left > 0 THEN left - 1 ELSE left
    /\ UNCHANGED <<screenRate, framerate, measured, frames, held, capturing,
                   asked, interval>>

PacingNext ==
    \/ \E fps \in 0..MaxRate : ParamChanged(fps)
    \/ Process \/ HandleTimeOut \/ HandleFrameReady \/ HandleFrameFailed
    \/ Pause \/ RemoveBuffer \/ Elapse

PacingSpec == PacingInit /\ [][PacingNext]_pacingVars

---------------------------------------------------------------------------
(* Properties *)

PacingTypeOK ==
    /\ screenRate \in Rates
    /\ framerate \in 0..screenRate
    /\ measured \in BOOLEAN
    /\ since \in 0..Second
    /\ frames \in BOOLEAN
    /\ held \in BOOLEAN
    /\ left \in -1..Second
    /\ capturing \in BOOLEAN
    /\ asked \in 0..Second
    /\ interval \in 0..Second

\* The limiter keeps the frame rate: a capture starts no sooner after the last
\* good frame than the interval of the rate that was in force when PipeWire
\* handed out the buffer, short of a millisecond and what a timer may be early.
\* The limiter never divides by zero and never finds its clock not started, as
\* it asserts.
PacingIsKept ==
    /\ PacingTypeOK
    /\ framerate > 0 => measured
    /\ capturing => since + Millisecond + Early > interval
===========================================================================
