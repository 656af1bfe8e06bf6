------------------------ MODULE FrameCaptureProofs ------------------------
(***************************************************************************)
(* Theorems about FrameCapture, for every pool of buffers and every set of *)
(* accepted metadata.                                                      *)
(***************************************************************************)
EXTENDS FrameCapture, TLAPS

USE BuffersAssumption, MetasAssumption

\* A buffer in the pool without a source buffer got there by a failed
\* onStreamAddBuffer(), and only a streaming stream holds a buffer.
SourceOrError ==
    /\ Present # src => err
    /\ cur # None /\ curSrc = None => cur \notin src
    /\ cur # None => streaming

\* Damage nobody reported yet is recorded somewhere in the pool, and by the
\* buffer being captured.
DamageIsRecorded ==
    unreported => /\ damaged # {}
                  /\ frame # None /\ ~interrupted => frame \in damaged

IInv ==
    /\ TypeOK
    /\ HeldIsCurrent
    /\ NoDanglingSource
    /\ CaptureTargetsCurrent
    /\ CrashNeedsFailedAdd
    /\ StallHasCause
    /\ SourceOrError
    /\ DamageIsRecorded

---------------------------------------------------------------------------
(* Type correctness.  Each operation of the code keeps every variable in   *)
(* its range.                                                              *)

\* enqueueBuffer() leaves its five variables well typed.
LEMMA EnqueueBufferType ==
    ASSUME TypeOK, NEW fs \in FrameState, EnqueueBuffer(fs)
    PROVE  /\ life' \in {"running", "crashed", "aborted", "destroyed"}
           /\ slot' \in [Buffers -> Slot]
           /\ seq' \in BOOLEAN
           /\ cur' = None /\ curSrc' = None
BY DEF TypeOK, EnqueueBuffer, Slot

\* startframeCapture() leaves its three variables well typed.
LEMMA StartFrameCaptureType ==
    ASSUME TypeOK, NEW s \in Buffers \cup {None}, StartFrameCapture(s)
    PROVE  /\ frame' \in Buffers \cup {None, Orphan}
           /\ frameState' \in FrameState
           /\ damaged' \in SUBSET Buffers
BY DEF TypeOK, StartFrameCapture, CreateImageCaptureFrame, FrameState

\* Every handler of AbstractPipeWireStream keeps the state well typed.
LEMMA TypeStep == TypeOK /\ [Next]_vars => TypeOK'
<1> SUFFICES ASSUME TypeOK, [Next]_vars PROVE TypeOK'
  OBVIOUS
<1> USE DEF captureVars, poolVars
<1>1. CASE NodeReady
  BY <1>1 DEF NodeReady, TypeOK, PwState
<1>2. CASE StartStreaming
  BY <1>2 DEF StartStreaming, TypeOK, PwState
<1>3. CASE Pause
  <2>1. frameState \in FrameState /\ EnqueueBuffer(frameState)
    BY <1>3 DEF Pause, TypeOK
  <2> QED BY <1>3, <2>1, EnqueueBufferType DEF Pause, TypeOK, PwState
<1>4. ASSUME NEW state \in {"error", "unconnected"}, StreamLost(state)
      PROVE  TypeOK'
  BY <1>4 DEF StreamLost, TypeOK, PwState
<1>5. ASSUME NEW b \in Buffers, AddBuffer(b) PROVE TypeOK'
  BY <1>5 DEF AddBuffer, TypeOK, Slot
<1>6. ASSUME NEW b \in Buffers, AddBufferFails(b) PROVE TypeOK'
  BY <1>6 DEF AddBufferFails, TypeOK, Slot
<1>6a. ASSUME NEW b \in Buffers, AddBufferAborts(b) PROVE TypeOK'
  BY <1>6a DEF AddBufferAborts, TypeOK
<1>7. ASSUME NEW b \in Buffers, RemoveBuffer(b) PROVE TypeOK'
  BY <1>7 DEF RemoveBuffer, TypeOK, Slot
<1>8. ASSUME NEW b \in Buffers, Process(b) PROVE TypeOK'
  <2>1. curSrc' \in Buffers \cup {None}
    BY <1>8 DEF Process
  <2>2. /\ frame' \in Buffers \cup {None, Orphan}
        /\ frameState' \in FrameState
        /\ damaged' \in SUBSET Buffers
    BY <1>8, <2>1, StartFrameCaptureType DEF Process, TypeOK
  <2>3. slot' \in [Buffers -> Slot] /\ cur' \in Buffers \cup {None}
    BY <1>8 DEF Process, TypeOK, Slot
  <2>4. timer' \in BOOLEAN
    BY <1>8 DEF Process, TypeOK
  <2>5. UNCHANGED <<life, pw, streaming, announced, src, err, seq, manager,
                    stopped, interrupted, unreported>>
    BY <1>8 DEF Process
  <2> QED BY <2>1, <2>2, <2>3, <2>4, <2>5 DEF TypeOK
<1>9. ASSUME NEW b \in Buffers, Recycle(b) PROVE TypeOK'
  BY <1>9 DEF Recycle, TypeOK, Slot
<1>10. CASE HandleTimeOut
  <2>1. /\ frame' \in Buffers \cup {None, Orphan}
        /\ frameState' \in FrameState
        /\ damaged' \in SUBSET Buffers
    BY <1>10
    DEF HandleTimeOut, StartFrameCapture, CreateImageCaptureFrame, TypeOK,
        FrameState
  <2>2. /\ timer' = FALSE
        /\ UNCHANGED <<life, pw, streaming, announced, poolVars, err, seq,
                       manager, stopped, interrupted, unreported>>
    BY <1>10 DEF HandleTimeOut
  <2>3. /\ life' \in {"running", "crashed", "aborted", "destroyed"}
        /\ pw' \in PwState
        /\ slot' \in [Buffers -> Slot]
        /\ src' \in SUBSET Buffers
        /\ cur' \in Buffers \cup {None}
        /\ curSrc' \in Buffers \cup {None}
        /\ manager' \in {"active", "inactive", "returned"}
    BY <2>2 DEF TypeOK
  <2>4. /\ timer' \in BOOLEAN /\ err' \in BOOLEAN /\ seq' \in BOOLEAN
        /\ streaming' \in BOOLEAN /\ announced' \in BOOLEAN
        /\ stopped' \in BOOLEAN /\ interrupted' \in BOOLEAN
        /\ unreported' \in BOOLEAN
    BY <2>2 DEF TypeOK
  <2> QED BY <2>1, <2>3, <2>4 DEF TypeOK
<1>11. CASE HandleFrameDamage
  BY <1>11 DEF HandleFrameDamage, TypeOK
<1>12. CASE HandleFrameReady
  <2>1. "success" \in FrameState /\ EnqueueBuffer("success")
    BY <1>12 DEF HandleFrameReady, FrameState
  <2>2. damaged' \in SUBSET Buffers /\ unreported' \in BOOLEAN
    BY <1>12 DEF HandleFrameReady, TypeOK
  <2> QED
    BY <1>12, <2>1, <2>2, EnqueueBufferType
    DEF HandleFrameReady, DestroyImageCaptureFrame, TypeOK
<1>13. ASSUME NEW reason \in Reason, HandleFrameFailed(reason)
       PROVE  TypeOK'
  <2>1. CASE reason = "constraints"
    <3>1. "failed" \in FrameState /\ EnqueueBuffer("failed")
      BY <1>13, <2>1 DEF HandleFrameFailed, FrameState
    <3>2. /\ life' \in {"running", "crashed", "aborted", "destroyed"}
          /\ slot' \in [Buffers -> Slot] /\ seq' \in BOOLEAN
          /\ cur' = None /\ curSrc' = None
      BY <3>1, EnqueueBufferType
    <3>3. frameState' = "failed" /\ frame' = None /\ interrupted' = FALSE
      BY <1>13 DEF HandleFrameFailed, DestroyImageCaptureFrame
    <3>4. UNCHANGED <<pw, streaming, announced, src, timer, err, damaged,
                      manager, stopped, unreported>>
      BY <1>13 DEF HandleFrameFailed
    <3> QED BY <3>1, <3>2, <3>3, <3>4 DEF TypeOK
  <2>2. CASE reason # "constraints"
    <3>1. frameState' \in FrameState /\ frame' = None /\ interrupted' = FALSE
      BY <1>13 DEF HandleFrameFailed, DestroyImageCaptureFrame, FrameState
    <3>2. UNCHANGED <<life, pw, streaming, announced, slot, src, cur, curSrc,
                      timer, err, seq, damaged, manager, stopped, unreported>>
      BY <1>13, <2>2 DEF HandleFrameFailed, KeepBuffer
    <3>3. /\ life' \in {"running", "crashed", "aborted", "destroyed"}
          /\ pw' \in PwState
          /\ slot' \in [Buffers -> Slot]
          /\ src' \in SUBSET Buffers
          /\ damaged' \in SUBSET Buffers
          /\ cur' \in Buffers \cup {None}
          /\ curSrc' \in Buffers \cup {None}
          /\ manager' \in {"active", "inactive", "returned"}
      BY <3>2 DEF TypeOK
    <3>4. /\ timer' \in BOOLEAN /\ err' \in BOOLEAN /\ seq' \in BOOLEAN
          /\ streaming' \in BOOLEAN /\ announced' \in BOOLEAN
          /\ stopped' \in BOOLEAN /\ unreported' \in BOOLEAN
      BY <3>2 DEF TypeOK
    <3>5. interrupted' \in BOOLEAN
      BY <3>1
    <3> QED BY <3>1, <3>3, <3>4, <3>5 DEF TypeOK
  <2> QED BY <2>1, <2>2
<1>14. CASE HandleCaptureSessionStopped
  BY <1>14 DEF HandleCaptureSessionStopped, TypeOK
<1>15. CASE ManagerChanges
  BY <1>15 DEF ManagerChanges, TypeOK
<1>16. CASE Destroy
  BY <1>16 DEF Destroy, DestroyImageCaptureFrame, TypeOK, Slot, PwState
<1>17. CASE UNCHANGED vars
  BY <1>17 DEF vars, TypeOK
<1> QED
  BY <1>1, <1>2, <1>3, <1>4, <1>5, <1>6, <1>6a, <1>7, <1>8, <1>9, <1>10, <1>11,
     <1>12, <1>13, <1>14, <1>15, <1>16, <1>17
  DEF Next, Pool, FrameAnswered

\* Type correctness of the stream: what the handlers of
\* AbstractPipeWireStream store is always in its range.
THEOREM TypeCorrect == Spec => []TypeOK
<1>1. Init => TypeOK
  BY DEF Init, TypeOK, PwState, Slot, FrameState
<1> QED BY <1>1, TypeStep, PTL DEF Spec

---------------------------------------------------------------------------
(* The invariant.  *)

\* A buffer that leaves by enqueueBuffer() leaves the rest of the pool alone.
LEMMA EnqueueBufferStep ==
    ASSUME IInv, NEW fs, EnqueueBuffer(fs), src' = src, damaged' \subseteq src,
           err' = err
    PROVE  /\ HeldIsCurrent' /\ NoDanglingSource' /\ CrashNeedsFailedAdd'
           /\ Present' = Present /\ cur' = None /\ curSrc' = None
<1> USE DEF IInv, TypeOK, EnqueueBuffer
<1>1. HeldIsCurrent'
  BY DEF HeldIsCurrent
<1>2. Present' = Present
  BY DEF Present, HeldIsCurrent
<1>3. NoDanglingSource'
  BY <1>2 DEF NoDanglingSource
<1>4. CrashNeedsFailedAdd'
  <2>1. EnqueueCrashes => err
    BY DEF EnqueueCrashes, SourceOrError, HeldIsCurrent, Present
  <2> QED BY <2>1 DEF CrashNeedsFailedAdd
<1> QED BY <1>1, <1>2, <1>3, <1>4

\* Every handler preserves the invariant.
LEMMA InvariantStep == IInv /\ [Next]_vars => IInv'
<1> SUFFICES ASSUME IInv, [Next]_vars PROVE IInv'
  OBVIOUS
<1>0. TypeOK /\ TypeOK'
  BY TypeStep DEF IInv
<1> DEFINE Rest == /\ HeldIsCurrent' /\ NoDanglingSource'
                   /\ CaptureTargetsCurrent' /\ CrashNeedsFailedAdd'
                   /\ StallHasCause' /\ SourceOrError' /\ DamageIsRecorded'
<1> SUFFICES Rest
  BY <1>0 DEF IInv
<1> USE DEF captureVars, poolVars
<1> USE DEF IInv, HeldIsCurrent, NoDanglingSource, CaptureTargetsCurrent,
            CrashNeedsFailedAdd, StallHasCause, Stalled, StallCause,
            SourceOrError, DamageIsRecorded, Present
<1>1. CASE NodeReady
  BY <1>1 DEF NodeReady
<1>2. CASE StartStreaming
  BY <1>2 DEF StartStreaming
<1>3. CASE Pause
  <2>1. /\ HeldIsCurrent' /\ NoDanglingSource' /\ CrashNeedsFailedAdd'
        /\ Present' = Present /\ cur' = None /\ curSrc' = None
    BY <1>3, EnqueueBufferStep DEF Pause
  <2> QED BY <1>3, <2>1 DEF Pause
<1>4. ASSUME NEW state \in {"error", "unconnected"}, StreamLost(state)
      PROVE  Rest
  BY <1>4 DEF StreamLost
<1>5. ASSUME NEW b \in Buffers, AddBuffer(b) PROVE Rest
  BY <1>0, <1>5 DEF AddBuffer, TypeOK
<1>6. ASSUME NEW b \in Buffers, AddBufferFails(b) PROVE Rest
  BY <1>0, <1>6 DEF AddBufferFails, TypeOK
<1>6a. ASSUME NEW b \in Buffers, AddBufferAborts(b) PROVE Rest
  BY <1>6a DEF AddBufferAborts
<1>7. ASSUME NEW b \in Buffers, RemoveBuffer(b) PROVE Rest
  BY <1>0, <1>7 DEF RemoveBuffer, TypeOK
<1>8. ASSUME NEW b \in Buffers, Process(b) PROVE Rest
  BY <1>0, <1>8
  DEF Process, StartFrameCapture, CreateImageCaptureFrame, ManagerIsActive,
      TypeOK
<1>9. ASSUME NEW b \in Buffers, Recycle(b) PROVE Rest
  BY <1>0, <1>9 DEF Recycle, TypeOK
<1>10. CASE HandleTimeOut
  BY <1>0, <1>10
  DEF HandleTimeOut, StartFrameCapture, CreateImageCaptureFrame,
      ManagerIsActive, TypeOK
<1>11. CASE HandleFrameDamage
  BY <1>0, <1>11 DEF HandleFrameDamage, TypeOK
<1>12. CASE HandleFrameReady
  <2>1. /\ HeldIsCurrent' /\ NoDanglingSource' /\ CrashNeedsFailedAdd'
        /\ Present' = Present /\ cur' = None /\ curSrc' = None
    BY <1>12, EnqueueBufferStep DEF HandleFrameReady
  <2> QED BY <1>0, <1>12, <2>1 DEF HandleFrameReady, DestroyImageCaptureFrame, TypeOK
<1>13. ASSUME NEW reason \in Reason, HandleFrameFailed(reason) PROVE Rest
  <2>1. CASE reason = "constraints"
    <3>1. /\ HeldIsCurrent' /\ NoDanglingSource' /\ CrashNeedsFailedAdd'
          /\ Present' = Present /\ cur' = None /\ curSrc' = None
      BY <1>13, <2>1, EnqueueBufferStep DEF HandleFrameFailed
    <3> QED
      BY <1>13, <3>1 DEF HandleFrameFailed, DestroyImageCaptureFrame
  <2>2. CASE reason # "constraints"
    BY <1>13, <2>2
    DEF HandleFrameFailed, DestroyImageCaptureFrame, KeepBuffer
  <2> QED BY <2>1, <2>2
<1>14. CASE HandleCaptureSessionStopped
  BY <1>14 DEF HandleCaptureSessionStopped
<1>15. CASE ManagerChanges
  BY <1>15 DEF ManagerChanges, ManagerIsActive
<1>16. CASE Destroy
  BY <1>16 DEF Destroy, DestroyImageCaptureFrame
<1>17. CASE UNCHANGED vars
  BY <1>17 DEF vars
<1> QED
  BY <1>1, <1>2, <1>3, <1>4, <1>5, <1>6, <1>6a, <1>7, <1>8, <1>9, <1>10, <1>11,
     <1>12, <1>13, <1>14, <1>15, <1>16, <1>17
  DEF Next, Pool, FrameAnswered

\* The invariant holds of every behaviour of the stream.
THEOREM Invariant == Spec => []IInv
<1>1. Init => IInv
  BY DEF Init, IInv, TypeOK, PwState, Slot, FrameState, HeldIsCurrent,
         NoDanglingSource, CaptureTargetsCurrent, CrashNeedsFailedAdd,
         StallHasCause, Stalled, SourceOrError, DamageIsRecorded, Present
<1> QED BY <1>1, InvariantStep, PTL DEF Spec

---------------------------------------------------------------------------
(* What follows from the invariant.  *)

\* Whatever callbacks interleave, the buffer out of PipeWire's hands is the
\* one of m_currentFrame.
THEOREM BuffersAreNotLost == Spec => []HeldIsCurrent
<1>1. IInv => HeldIsCurrent
  BY DEF IInv
<1> QED BY <1>1, Invariant, PTL

\* No handler reaches a source buffer that onStreamRemoveBuffer() destroyed.
THEOREM SourcesAreLive == Spec => []NoDanglingSource
<1>1. IInv => NoDanglingSource
  BY DEF IInv
<1> QED BY <1>1, Invariant, PTL

\* A capture nobody interrupted fills the buffer in hand.
THEOREM CapturesFillCurrent == Spec => []CaptureTargetsCurrent
<1>1. IInv => CaptureTargetsCurrent
  BY DEF IInv
<1> QED BY <1>1, Invariant, PTL

\* enqueueBuffer() dereferences null only after a failed onStreamAddBuffer().
THEOREM CrashesHaveCause == Spec => []CrashNeedsFailedAdd
<1>1. IInv => CrashNeedsFailedAdd
  BY DEF IInv
<1> QED BY <1>1, Invariant, PTL

\* A stream that holds a buffer and waits for nothing has a known cause.
THEOREM StallsHaveCause == Spec => []StallHasCause
<1>1. IInv => StallHasCause
  BY DEF IInv
<1> QED BY <1>1, Invariant, PTL

\* The pool is sound as a whole: ranges, the buffer in hand, the pointers to
\* source buffers and the cause of the null dereference.
THEOREM PoolStaysSound == Spec => []PoolIsSound
<1>1. IInv => PoolIsSound
  BY DEF IInv, PoolIsSound
<1> QED BY <1>1, Invariant, PTL

\* How a buffer can leave as good: by enqueueBuffer() in a pause or in
\* handleFrameReady().
LEMMA GoodStep ==
    ASSUME IInv, [Next]_vars, NEW b \in Buffers,
           slot[b] = "held", slot'[b] = "good", pw' = pw
    PROVE  HandleFrameReady /\ b = cur
<1> USE DEF captureVars, poolVars, IInv, TypeOK, HeldIsCurrent
<1>1. b = cur
  OBVIOUS
<1>2. ~ (\/ NodeReady \/ StartStreaming \/ Pause
         \/ \E state \in {"error", "unconnected"} : StreamLost(state)
         \/ HandleTimeOut \/ HandleFrameDamage
         \/ HandleCaptureSessionStopped \/ ManagerChanges
         \/ Destroy \/ UNCHANGED vars)
  BY DEF NodeReady, StartStreaming, Pause, StreamLost, HandleTimeOut,
         HandleFrameDamage, HandleCaptureSessionStopped, ManagerChanges,
         Destroy, vars
<1>3. ~Pool
  BY DEF Pool, AddBuffer, AddBufferFails, AddBufferAborts, RemoveBuffer,
         Process, Recycle
<1>4. ASSUME NEW reason \in Reason, HandleFrameFailed(reason) PROVE FALSE
  BY <1>1, <1>4 DEF HandleFrameFailed, EnqueueBuffer, KeepBuffer
<1> QED BY <1>1, <1>2, <1>3, <1>4 DEF Next, FrameAnswered

\* handleFrameReady() delivers as good what the compositor has just filled.
THEOREM GoodBuffersAreCaptured == Spec => GoodIsCaptured
<1>1. IInv /\ [Next]_vars =>
        [\A b \in Buffers :
           slot[b] = "held" /\ slot'[b] = "good" /\ pw' = pw
               => frameState' = "success" /\ (frame = b \/ interrupted)]_vars
  BY GoodStep DEF HandleFrameReady, IInv, CaptureTargetsCurrent
<1> QED BY <1>1, Invariant, PTL DEF Spec, GoodIsCaptured

\* Damage outlives failed captures: handleFrameDamage() records it with every
\* source buffer and createImageCaptureFrame() spreads it to new ones.
THEOREM DamageIsReported == Spec => DamageReported
<1>1. IInv /\ [Next]_vars =>
        [\A b \in Buffers :
           slot[b] = "held" /\ slot'[b] = "good" /\ pw' = pw
               => (unreported /\ ~interrupted => b \in damaged)]_vars
  BY GoodStep
  DEF HandleFrameReady, IInv, CaptureTargetsCurrent, DamageIsRecorded
<1> QED BY <1>1, Invariant, PTL DEF Spec, DamageReported

---------------------------------------------------------------------------
(* The stream implements the loan of one buffer at a time.  *)

\* Every handler is a step of BufferLoan or leaves the owners alone.
LEMMA LoanStep == IInv /\ [Next]_vars => [Loan!Next]_Owner
<1> SUFFICES ASSUME IInv, [Next]_vars PROVE [Loan!Next]_Owner
  OBVIOUS
<1> USE DEF captureVars, poolVars, Owner, Loan!Next, Loan!Move, Loan!Owner
<1>0. /\ slot \in [Buffers -> Slot]
      /\ cur \in Buffers \cup {None}
      /\ HeldIsCurrent
  BY DEF IInv, TypeOK
<1>a. ASSUME NEW fs, EnqueueBuffer(fs) PROVE [Loan!Next]_Owner
  <2>1. CASE cur = None
    BY <1>a, <2>1 DEF EnqueueBuffer
  <2>2. CASE cur # None
    <3>1. cur \in Buffers /\ slot[cur] = "held"
      BY <1>0, <2>2 DEF HeldIsCurrent
    <3>2. Loan!GiveBack(cur)
      BY <1>0, <1>a, <2>2, <3>1 DEF EnqueueBuffer, Loan!GiveBack, Slot
    <3> QED BY <3>1, <3>2 DEF Loan!GiveBack
  <2> QED BY <2>1, <2>2
<1>b. ASSUME slot' = slot PROVE [Loan!Next]_Owner
  BY <1>b
<1>1. ASSUME NEW b \in Buffers, AddBuffer(b) \/ AddBufferFails(b)
      PROVE  [Loan!Next]_Owner
  <2>1. Loan!Add(b)
    BY <1>0, <1>1 DEF AddBuffer, AddBufferFails, Loan!Add, Slot
  <2> QED BY <2>1
<1>2. ASSUME NEW b \in Buffers, RemoveBuffer(b) PROVE [Loan!Next]_Owner
  <2>1. Loan!Remove(b)
    BY <1>0, <1>2 DEF RemoveBuffer, Loan!Remove, Slot
  <2> QED BY <2>1
<1>3. ASSUME NEW b \in Buffers, Process(b) PROVE [Loan!Next]_Owner
  <2>1. \A c \in Buffers : slot[c] # "held"
    BY <1>0, <1>3 DEF Process, HeldIsCurrent
  <2>2. slot[b] = "free" /\ slot' = [slot EXCEPT ![b] = "held"]
    BY <1>3 DEF Process
  <2>3. Loan!Borrow(b)
    BY <1>0, <2>1, <2>2 DEF Loan!Borrow, Slot
  <2> QED BY <2>3
<1>4. ASSUME NEW b \in Buffers, Recycle(b) PROVE [Loan!Next]_Owner
  <2>1. Loan!Recycle(b)
    BY <1>0, <1>4 DEF Recycle, Loan!Recycle, Slot
  <2> QED BY <2>1
<1>5. CASE Destroy
  <2>1. Loan!Teardown
    BY <1>5 DEF Destroy, Loan!Teardown
  <2> QED BY <2>1
<1>6. CASE Pause \/ FrameAnswered
  BY <1>6, <1>a, <1>b
  DEF Pause, FrameAnswered, HandleFrameReady, HandleFrameFailed, KeepBuffer
<1>7. CASE \/ NodeReady \/ StartStreaming
           \/ \E b \in Buffers : AddBufferAborts(b)
           \/ \E state \in {"error", "unconnected"} : StreamLost(state)
           \/ HandleTimeOut \/ HandleFrameDamage
           \/ HandleCaptureSessionStopped \/ ManagerChanges
           \/ UNCHANGED vars
  BY <1>7, <1>b
  DEF NodeReady, StartStreaming, AddBufferAborts, StreamLost, HandleTimeOut,
      HandleFrameDamage, HandleCaptureSessionStopped, ManagerChanges, vars
<1> QED
  BY <1>1, <1>2, <1>3, <1>4, <1>5, <1>6, <1>7 DEF Next, Pool

\* The stream implements BufferLoan: it borrows one buffer of PipeWire at a
\* time and gives back only what it borrowed.
THEOREM ImplementsLoan == Spec => LoanSpec
<1>1. Init => Loan!Init
  BY DEF Init, Loan!Init, Owner
<1> QED BY <1>1, LoanStep, Invariant, PTL DEF Spec, LoanSpec, Loan!Spec
===========================================================================
