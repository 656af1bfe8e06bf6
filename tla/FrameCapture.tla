--------------------------- MODULE FrameCapture ---------------------------
(***************************************************************************)
(* One screencast stream from pw_stream_connect to its destruction: the    *)
(* cycle of AbstractPipeWireStream that takes a buffer of the PipeWire     *)
(* pool, waits for the frame-rate limit, has the compositor copy a frame   *)
(* into it and queues it to the consumer.                                  *)
(*                                                                         *)
(* PipeWire's callbacks, the compositor's frame and session events and the *)
(* QTimer are all dispatched by the one Qt event loop, so each handler is  *)
(* one atomic step; what the model interleaves is the handlers.            *)
(*                                                                         *)
(* A source buffer (fd and wl_buffer) is named by the pw_buffer it was     *)
(* created for.  Pixels, sizes and time stamps are left out; the damage of *)
(* a buffer is "empty" or "not empty".                                     *)
(***************************************************************************)

CONSTANTS
    Buffers,    \* the pw_buffers of the stream's pool
    None,       \* nullptr
    Orphan,     \* the target of a capture whose wl_buffer was destroyed
    Metas,      \* the metadata the consumer accepted with the buffers
    DebugLogged \* the debug messages of the category are switched on

ASSUME BuffersAssumption ==
    /\ None \notin Buffers
    /\ Orphan \notin Buffers
    /\ None # Orphan

ASSUME MetasAssumption == Metas \subseteq {"header", "damage"}

ASSUME LoggingAssumption == DebugLogged \in BOOLEAN

VARIABLES
    life,        \* this object: "running", "crashed", "aborted", "destroyed"
    pw,          \* the state of the pw_stream
    streaming,   \* m_isStreaming
    announced,   \* m_nodeId is set and ready() was emitted
    slot,        \* where each pw_buffer is, and how it was labelled
    src,         \* m_buffers: the pw_buffers with a source buffer
    cur,         \* m_currentFrame.pwBuffer
    curSrc,      \* m_currentFrame.pipeWireSourceBuffer
    frame,       \* the buffer m_frame captures into, None without m_frame
    timer,       \* m_timer is running
    frameState,  \* m_frameState
    err,         \* m_err
    seq,         \* m_seq > 0
    damaged,     \* the source buffers with a non-empty damage region
    manager,     \* the capture source manager of the compositor
    stopped,     \* the compositor stopped the capture session
    interrupted, \* history: m_frame lost its buffer since it was created
    unreported   \* history: damage no good buffer has reported, and that
                 \* some buffer of the pool has recorded

poolVars == <<slot, src, cur, curSrc>>
captureVars == <<frame, timer, frameState, interrupted>>
vars == <<life, pw, streaming, announced, poolVars, captureVars,
          err, seq, damaged, manager, stopped, unreported>>

PwState == {"connecting", "paused", "streaming", "error", "unconnected"}
Slot == {"absent", "free", "held", "good", "corrupt"}
FrameState == {"none", "started", "failed", "success"}
Reason == {"unknown", "constraints", "stopped"}

Running == life = "running"
Present == {b \in Buffers : slot[b] # "absent"}
ManagerIsActive == manager # "inactive"

---------------------------------------------------------------------------
(* createStream and pw_stream_connect have returned.  *)

Init ==
    /\ life = "running"
    /\ pw = "connecting"
    /\ streaming = FALSE
    /\ announced = FALSE
    /\ slot = [b \in Buffers |-> "absent"]
    /\ src = {}
    /\ cur = None
    /\ curSrc = None
    /\ frame = None
    /\ timer = FALSE
    /\ frameState = "none"
    /\ err = FALSE
    /\ seq = FALSE
    /\ damaged = {}
    /\ manager = "active"
    /\ stopped = FALSE
    /\ interrupted = FALSE
    /\ unreported = FALSE

---------------------------------------------------------------------------
(* The pieces the handlers are made of.  *)

\* enqueueBuffer() reads the damage of the source buffer when the pool carries
\* damage metadata, and its size for a debug message: without a source buffer
\* that is a null dereference.
EnqueueCrashes == /\ cur # None /\ curSrc = None
                  /\ "damage" \in Metas \/ DebugLogged

\* Mutant: the label ignores m_frameState.
EnqueueAlwaysGood(fs) ==
    /\ life' = IF EnqueueCrashes THEN "crashed" ELSE life
    /\ slot' = IF cur = None THEN slot ELSE [slot EXCEPT ![cur] = "good"]
    /\ seq' = (seq \/ (cur # None /\ "header" \in Metas))
    /\ cur' = None
    /\ curSrc' = None

\* Mutant: m_currentFrame is not reset after the buffer is queued.
EnqueueKeepsCurrent(fs) ==
    /\ life' = IF EnqueueCrashes THEN "crashed" ELSE life
    /\ slot' = IF cur = None THEN slot
               ELSE [slot EXCEPT ![cur] =
                        IF fs = "success" THEN "good" ELSE "corrupt"]
    /\ seq' = (seq \/ (cur # None /\ "header" \in Metas))
    /\ UNCHANGED <<cur, curSrc>>

\* enqueueBuffer(), called with m_frameState = fs
EnqueueBuffer(fs) ==
    /\ life' = IF EnqueueCrashes THEN "crashed" ELSE life
    /\ slot' = IF cur = None THEN slot
               ELSE [slot EXCEPT ![cur] =
                        IF fs = "success" THEN "good" ELSE "corrupt"]
    /\ seq' = (seq \/ (cur # None /\ "header" \in Metas))
    /\ cur' = None
    /\ curSrc' = None

KeepBuffer == UNCHANGED <<life, slot, seq, cur, curSrc>>

\* Mutant: the damage of the other buffers is not merged.
CreateFrameWithoutDamage(s) ==
    /\ frame' = IF frame = None THEN s ELSE frame
    /\ UNCHANGED damaged

\* createImageCaptureFrame() for the source buffer s.  m_frame->damaged(...) is
\* the signal the stream itself listens to: every source buffer receives the
\* damage of every other one.
CreateImageCaptureFrame(s) ==
    IF frame = None
    THEN /\ frame' = s
         /\ damaged' = IF damaged = {} THEN {} ELSE src
    ELSE UNCHANGED <<frame, damaged>>

\* startframeCapture() and frameCapture() for the source buffer s.
StartFrameCapture(s) ==
    LET ready == ManagerIsActive /\ s # None /\ ~err
    IN  IF ready /\ streaming
        THEN /\ frameState' = "started"
             /\ CreateImageCaptureFrame(s)
        ELSE /\ frameState' = IF ready THEN "none" ELSE frameState
             /\ UNCHANGED <<frame, damaged>>

\* destroyImageCaptureFrame()
DestroyImageCaptureFrame ==
    /\ frame' = None
    /\ interrupted' = FALSE

---------------------------------------------------------------------------
(* The callbacks of the pw_stream.  *)

\* onStreamStateChanged(CONNECTING, PAUSED): the node exists; ready().
NodeReady ==
    /\ Running /\ pw = "connecting"
    /\ pw' = "paused"
    /\ announced' = TRUE
    /\ UNCHANGED <<life, streaming, poolVars, captureVars, err, seq,
                   damaged, manager, stopped, unreported>>

\* onStreamStateChanged(PAUSED, STREAMING)
StartStreaming ==
    /\ Running /\ pw = "paused"
    /\ pw' = "streaming"
    /\ streaming' = TRUE
    /\ UNCHANGED <<life, announced, poolVars, captureVars, err, seq,
                   damaged, manager, stopped, unreported>>

\* onStreamStateChanged(STREAMING, PAUSED): the held buffer goes back with the
\* label of the last capture; the timer and m_frame stay as they are.
Pause ==
    /\ Running /\ pw = "streaming"
    /\ pw' = "paused"
    /\ streaming' = FALSE
    /\ EnqueueBuffer(frameState)
    /\ interrupted' = (frame # None)
    /\ UNCHANGED <<announced, src, frame, timer, frameState, err,
                   damaged, manager, stopped, unreported>>

\* onStreamStateChanged(_, ERROR) only logs, and (_, UNCONNECTED) only emits
\* closed(): m_isStreaming keeps its value.
StreamLost(state) ==
    /\ Running /\ pw \notin {"error", "unconnected"}
    /\ pw' = state
    /\ UNCHANGED <<life, streaming, announced, poolVars, captureVars, err,
                   seq, damaged, manager, stopped, unreported>>

\* onStreamAddBuffer() for a pw_buffer PipeWire adds to the pool.
AddBuffer(b) ==
    /\ Running /\ pw \in {"paused", "streaming"}
    /\ slot[b] = "absent"
    /\ slot' = [slot EXCEPT ![b] = "free"]
    /\ src' = src \cup {b}
    /\ UNCHANGED <<life, pw, streaming, announced, cur, curSrc, captureVars,
                   err, seq, damaged, manager, stopped, unreported>>

\* onStreamAddBuffer(), its two early returns: the memory type is not one the
\* stream offered, or the source buffer cannot be created.  PipeWire keeps the
\* buffer in the pool all the same.
AddBufferFails(b) ==
    /\ Running /\ pw \in {"paused", "streaming"}
    /\ slot[b] = "absent"
    /\ slot' = [slot EXCEPT ![b] = "free"]
    /\ err' = TRUE
    /\ UNCHANGED <<life, pw, streaming, announced, src, cur, curSrc,
                   captureVars, seq, damaged, manager, stopped, unreported>>

\* onStreamAddBuffer(), its assertions: the memory is not of the type negotiated
\* last, or has not as many planes as the source buffer made for it.
AddBufferAborts(b) ==
    /\ Running /\ pw \in {"paused", "streaming"}
    /\ slot[b] = "absent"
    /\ life' = "aborted"
    /\ UNCHANGED <<pw, streaming, announced, poolVars, captureVars, err, seq,
                   damaged, manager, stopped, unreported>>

\* Mutant: m_currentFrame keeps both pointers.
RemoveBufferKeepsCurrent(b) ==
    /\ Running /\ slot[b] # "absent"
    /\ slot' = [slot EXCEPT ![b] = "absent"]
    /\ src' = src \ {b}
    /\ damaged' = damaged \ {b}
    /\ frame' = IF frame = b THEN Orphan ELSE frame
    /\ interrupted' = (interrupted \/ frame = b)
    /\ unreported' = (unreported /\ damaged \ {b} # {})
    /\ UNCHANGED <<life, pw, streaming, announced, cur, curSrc, timer,
                   frameState, err, seq, manager, stopped>>

\* onStreamRemoveBuffer().  m_frame is not told that its wl_buffer is gone.
RemoveBuffer(b) ==
    /\ Running /\ slot[b] # "absent"
    /\ slot' = [slot EXCEPT ![b] = "absent"]
    /\ src' = src \ {b}
    /\ damaged' = damaged \ {b}
    /\ cur' = IF cur = b THEN None ELSE cur
    /\ curSrc' = IF cur = b THEN None ELSE curSrc
    /\ frame' = IF frame = b THEN Orphan ELSE frame
    /\ interrupted' = (interrupted \/ frame = b)
    /\ unreported' = (unreported /\ damaged \ {b} # {})
    /\ UNCHANGED <<life, pw, streaming, announced, timer, frameState, err,
                   seq, manager, stopped>>

\* Mutant: "buffer already exported" is not checked.
ProcessWhileHolding(b) ==
    /\ Running /\ pw = "streaming" /\ streaming
    /\ slot[b] = "free"
    /\ slot' = [slot EXCEPT ![b] = "held"]
    /\ cur' = b
    /\ curSrc' = IF b \in src THEN b ELSE None
    /\ StartFrameCapture(curSrc')
    /\ UNCHANGED <<life, pw, streaming, announced, src, timer, err, seq,
                   manager, stopped, interrupted, unreported>>

\* Mutant: the delay is computed and the timer is never started.
ProcessForgetsTimer(b) ==
    /\ Running /\ pw = "streaming" /\ streaming
    /\ cur = None
    /\ slot[b] = "free"
    /\ slot' = [slot EXCEPT ![b] = "held"]
    /\ cur' = b
    /\ curSrc' = IF b \in src THEN b ELSE None
    /\ IF seq THEN UNCHANGED <<frame, frameState, damaged>>
              ELSE StartFrameCapture(curSrc')
    /\ UNCHANGED <<life, pw, streaming, announced, src, timer, err, seq,
                   manager, stopped, interrupted, unreported>>

\* onStreamProcess() past its two early returns, with dequeueBuffer() finding
\* b; fps_limit_measure_end() asks for a delay, or not.
Process(b) ==
    /\ Running /\ pw = "streaming" /\ streaming
    /\ cur = None
    /\ slot[b] = "free"
    /\ slot' = [slot EXCEPT ![b] = "held"]
    /\ cur' = b
    /\ curSrc' = IF b \in src THEN b ELSE None
    /\ \/ /\ seq
          /\ timer' = TRUE
          /\ UNCHANGED <<frame, frameState, damaged>>
       \/ /\ StartFrameCapture(curSrc')
          /\ UNCHANGED timer
    /\ UNCHANGED <<life, pw, streaming, announced, src, err, seq, manager,
                   stopped, interrupted, unreported>>

\* The consumer is done with a buffer and PipeWire has it back.
Recycle(b) ==
    /\ Running /\ slot[b] \in {"good", "corrupt"}
    /\ slot' = [slot EXCEPT ![b] = "free"]
    /\ UNCHANGED <<life, pw, streaming, announced, src, cur, curSrc,
                   captureVars, err, seq, damaged, manager, stopped,
                   unreported>>

---------------------------------------------------------------------------
(* The timer, and the events of the compositor.  *)

\* handleTimeOut(), of the single-shot timer
HandleTimeOut ==
    /\ Running /\ timer
    /\ timer' = FALSE
    /\ StartFrameCapture(curSrc)
    /\ UNCHANGED <<life, pw, streaming, announced, poolVars, err, seq,
                   manager, stopped, interrupted, unreported>>

\* handleFrameDamage(): every source buffer records it.
HandleFrameDamage ==
    /\ Running /\ frame # None /\ ~stopped
    /\ damaged' = src
    /\ unreported' = (src # {})
    /\ UNCHANGED <<life, pw, streaming, announced, poolVars, captureVars,
                   err, seq, manager, stopped>>

\* handleFrameReady()
HandleFrameReady ==
    /\ Running /\ frame # None /\ ~stopped
    /\ frameState' = "success"
    /\ DestroyImageCaptureFrame
    /\ EnqueueBuffer("success")
    /\ damaged' = damaged \ {curSrc}
    /\ unreported' = (unreported /\ curSrc = None)
    /\ UNCHANGED <<pw, streaming, announced, src, timer, err, manager,
                   stopped>>

\* Mutant: m_frame survives its failure.
FrameFailedKeepsFrame(reason) ==
    /\ Running /\ frame # None
    /\ stopped => reason = "stopped"
    /\ frameState' = "failed"
    /\ IF reason = "constraints" THEN EnqueueBuffer("failed") ELSE KeepBuffer
    /\ UNCHANGED <<pw, streaming, announced, src, frame, timer, err, damaged,
                   manager, stopped, interrupted, unreported>>

\* handleFrameFailed(): only a constraint mismatch gives the buffer back.
HandleFrameFailed(reason) ==
    /\ Running /\ frame # None
    /\ stopped => reason = "stopped"
    /\ frameState' = "failed"
    /\ DestroyImageCaptureFrame
    /\ IF reason = "constraints" THEN EnqueueBuffer("failed") ELSE KeepBuffer
    /\ UNCHANGED <<pw, streaming, announced, src, timer, err, damaged,
                   manager, stopped, unreported>>

\* handleCaptureSessionStopped() only emits failed(), to which nothing listens
\* once the stream is announced.
HandleCaptureSessionStopped ==
    /\ Running /\ ~stopped
    /\ stopped' = TRUE
    /\ UNCHANGED <<life, pw, streaming, announced, poolVars, captureVars,
                   err, seq, damaged, manager, unreported>>

\* The compositor withdraws the source manager's global, or offers it again.
ManagerChanges ==
    /\ Running
    /\ manager' = IF ManagerIsActive THEN "inactive" ELSE "returned"
    /\ UNCHANGED <<life, pw, streaming, announced, poolVars, captureVars,
                   err, seq, damaged, stopped, unreported>>

\* ~AbstractPipeWireStream(): stopStreaming(), or the three second limit of
\* startStreaming(), deleted the stream.
Destroy ==
    /\ Running
    /\ life' = "destroyed"
    /\ timer' = FALSE
    /\ DestroyImageCaptureFrame
    /\ pw' = "unconnected"
    /\ slot' = [b \in Buffers |-> "absent"]
    /\ src' = {} /\ damaged' = {} /\ cur' = None /\ curSrc' = None
    /\ unreported' = FALSE
    /\ UNCHANGED <<streaming, announced, frameState, err, seq, manager,
                   stopped>>

---------------------------------------------------------------------------
Pool == \E b \in Buffers : \/ AddBuffer(b) \/ AddBufferFails(b)
                           \/ AddBufferAborts(b)
                           \/ RemoveBuffer(b) \/ Process(b) \/ Recycle(b)

FrameAnswered == \/ HandleFrameReady
                 \/ \E reason \in Reason : HandleFrameFailed(reason)

Next ==
    \/ NodeReady \/ StartStreaming \/ Pause
    \/ \E state \in {"error", "unconnected"} : StreamLost(state)
    \/ Pool
    \/ HandleTimeOut \/ HandleFrameDamage \/ FrameAnswered
    \/ HandleCaptureSessionStopped \/ ManagerChanges
    \/ Destroy

Spec == Init /\ [][Next]_vars

\* The event loop runs due timers; the compositor answers every capture; the
\* consumer gives its buffers back and PipeWire then asks for the next one.
Fairness ==
    /\ WF_vars(HandleTimeOut)
    /\ WF_vars(FrameAnswered)
    /\ \A b \in Buffers : WF_vars(Recycle(b))
    /\ WF_vars(\E b \in Buffers : Process(b))

FairSpec == Spec /\ Fairness

---------------------------------------------------------------------------
(* Properties *)

TypeOK ==
    /\ life \in {"running", "crashed", "aborted", "destroyed"}
    /\ pw \in PwState
    /\ streaming \in BOOLEAN
    /\ announced \in BOOLEAN
    /\ slot \in [Buffers -> Slot]
    /\ src \in SUBSET Buffers
    /\ cur \in Buffers \cup {None}
    /\ curSrc \in Buffers \cup {None}
    /\ frame \in Buffers \cup {None, Orphan}
    /\ timer \in BOOLEAN
    /\ frameState \in FrameState
    /\ err \in BOOLEAN
    /\ seq \in BOOLEAN
    /\ damaged \in SUBSET Buffers
    /\ manager \in {"active", "inactive", "returned"}
    /\ stopped \in BOOLEAN
    /\ interrupted \in BOOLEAN
    /\ unreported \in BOOLEAN

\* The stream never forgets a buffer it dequeued: exactly the buffer of
\* m_currentFrame is out of PipeWire's hands, whatever callbacks interleave.
HeldIsCurrent == \A b \in Buffers : slot[b] = "held" <=> cur = b

\* enqueueBuffer(), frameCapture() and handleFrameReady() dereference
\* m_currentFrame.pipeWireSourceBuffer: it is null or a live source buffer of
\* the pw_buffer in hand, and damage is kept for live source buffers only.
NoDanglingSource ==
    /\ curSrc # None => curSrc = cur /\ curSrc \in src
    /\ damaged \subseteq src
    /\ src \subseteq Present

\* A capture nobody interrupted writes into the buffer that is in hand, so
\* handleFrameReady() queues the buffer the compositor has just filled.
CaptureTargetsCurrent ==
    frame # None /\ ~interrupted => frame = cur /\ frame = curSrc

\* The dereference in enqueueBuffer() goes wrong only after onStreamAddBuffer()
\* failed, which the stream then remembers in m_err.
CrashNeedsFailedAdd == life = "crashed" => err

\* The pool as the handlers see it, in one: every variable is in its range, the
\* buffer in hand is remembered, what refers to a buffer is null or good, and
\* the one null pointer that is dereferenced has its cause.
PoolIsSound == /\ TypeOK
               /\ HeldIsCurrent
               /\ NoDanglingSource
               /\ CrashNeedsFailedAdd

\* A held buffer that nothing is going to give back: no capture, no timer.
Stalled == cur # None /\ frame = None /\ ~timer

StallCause == \/ err
              \/ manager # "active"
              \/ frameState = "failed"

\* onStreamProcess() refuses to run while a buffer is in hand, so a stalled
\* stream shows its last picture for ever.  It stalls only after a failed
\* onStreamAddBuffer(), a withdrawn source manager or a failed capture.
StallHasCause == Stalled => StallCause

\* A buffer leaves as good outside of a pause only when the capture that just
\* succeeded wrote into it, or that capture had lost its buffer earlier.
GoodIsCaptured ==
    [][\A b \in Buffers :
          slot[b] = "held" /\ slot'[b] = "good" /\ pw' = pw
              => frameState' = "success" /\ (frame = b \/ interrupted)]_vars

\* Damage is never forgotten: as long as a buffer that recorded it is in the
\* pool, the next good buffer reports it, whichever buffer that is and however
\* many captures failed in between.
DamageReported ==
    [][\A b \in Buffers :
          slot[b] = "held" /\ slot'[b] = "good" /\ pw' = pw
              => (unreported /\ ~interrupted => b \in damaged)]_vars

\* Towards PipeWire the stream is a borrower of one buffer at a time.
Owner == [b \in Buffers |->
             CASE slot[b] = "absent" -> "none"
               [] slot[b] = "free"   -> "stream"
               [] slot[b] = "held"   -> "portal"
               [] OTHER              -> "consumer"]

Loan == INSTANCE BufferLoan WITH owner <- Owner
LoanSpec == Loan!Spec

\* While the stream streams over a steady pool and nothing known stalls it,
\* buffers keep being taken and given back: onStreamProcess() never waits for
\* a timer or a capture that nobody started.
Healthy == /\ Running /\ pw = "streaming"
           /\ Present = Buffers
           /\ ~(Stalled /\ StallCause)

BuffersKeepFlowing == <>[]Healthy => []<>(cur # None) /\ []<>(cur = None)
===========================================================================
