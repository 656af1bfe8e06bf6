------------------------- MODULE ScreenshotProofs -------------------------
(***************************************************************************)
(* Theorems about Screenshot, for every set of screens and every number of *)
(* calls.                                                                  *)
(***************************************************************************)
EXTENDS Screenshot, FiniteSetTheorems, TLAPS

USE ScreenshotAssumption

\* A full screenshot captures screens, an interactive one what was selected.
FramesOfKind ==
    \A c \in Calls :
        /\ kind[c] # "full" => \A s \in Screens : frame[c][s] = "none"
        /\ kind[c] # "interactive" =>
               frame[c][Selection] = "none" /\ phase[c] = "none"

\* Only calls that were made run, quit or are answered.
CallsAreMade ==
    /\ \A i \in 1..Len(stack) : stack[i] \in Made
    /\ quit \subseteq Made
    /\ \A c \in Calls : answer[c] # "none" => c \in Made

IInv ==
    /\ TypeOK
    /\ PendingIsExact
    /\ PictureIsComplete
    /\ FramesOfKind
    /\ CallsAreMade

Waited(c) == {s \in Screens : frame[c][s] \in Outstanding}

---------------------------------------------------------------------------
(* The innermost call *)

\* The innermost call is one that was made.
LEMMA TopIsMade ==
    ASSUME IInv, stack # <<>> PROVE Top \in Made
<1>1. Len(stack) \in 1..Len(stack)
  BY DEF IInv, TypeOK
<1> QED BY <1>1 DEF IInv, CallsAreMade, Top, Last

\* Returning from the innermost loop leaves the others.
LEMMA FrontType ==
    ASSUME IInv, stack # <<>>
    PROVE  /\ Front(stack) \in Seq(Calls)
           /\ \A i \in 1..Len(Front(stack)) : Front(stack)[i] = stack[i]
           /\ Len(Front(stack)) < Len(stack)
BY DEF IInv, TypeOK, Front

LEMMA FrontIsMade ==
    ASSUME IInv, stack # <<>>
    PROVE  \A i \in 1..Len(Front(stack)) : Front(stack)[i] \in Made
<1>1. \A i \in 1..Len(stack) : stack[i] \in Made
  BY DEF IInv, CallsAreMade
<1>2. /\ Len(Front(stack)) < Len(stack)
      /\ \A i \in 1..Len(Front(stack)) : Front(stack)[i] = stack[i]
  BY FrontType
<1>3. Len(stack) \in Nat /\ Len(Front(stack)) \in Nat
  BY FrontType DEF IInv, TypeOK
<1>4. \A i \in 1..Len(Front(stack)) : i \in 1..Len(stack)
  BY <1>2, <1>3
<1> QED BY <1>1, <1>2, <1>4

---------------------------------------------------------------------------
(* The counter *)

\* As long as a screen of a full screenshot is outstanding the counter is not
\* zero, and taking the screen off the set takes one off the counter.
LEMMA OutstandingCounts ==
    ASSUME IInv, NEW c \in Calls, NEW s \in Sources,
           frame[c][s] \in Outstanding, kind[c] = "full"
    PROVE  /\ s \in Screens
           /\ c \in Made
           /\ pending[c] = Cardinality(Waited(c))
           /\ pending[c] # 0 /\ pending[c] - 1 \in 0..Cardinality(Screens)
           /\ Cardinality(Waited(c) \ {s}) = pending[c] - 1
<1>1. s \in Screens /\ c \in Made
  BY DEF IInv, FramesOfKind, Outstanding, Sources, Made
<1>2. pending[c] = Cardinality(Waited(c))
  BY <1>1 DEF IInv, PendingIsExact, Waited
<1>3. s \in Waited(c)
  BY <1>1 DEF Waited
<1>4. IsFiniteSet(Waited(c)) /\ Cardinality(Waited(c)) <= Cardinality(Screens)
  BY FS_Subset DEF Waited
<1>5. Cardinality(Waited(c)) \in Nat /\ Cardinality(Screens) \in Nat
  BY <1>4, FS_CardinalityType
<1>6. Waited(c) # {} /\ Cardinality(Waited(c)) # 0
  BY <1>3, <1>4, FS_EmptySet
<1>7. Cardinality(Waited(c) \ {s}) = Cardinality(Waited(c)) - 1
  BY <1>3, <1>4, FS_RemoveElement
<1> QED BY <1>1, <1>2, <1>4, <1>5, <1>6, <1>7

\* A full screenshot waits for no more screens than there are.
LEMMA PluggedCounts ==
    ASSUME TypeOK
    PROVE  Cardinality(screens) \in 0..Cardinality(Screens)
<1>1. IsFiniteSet(screens) /\ Cardinality(screens) <= Cardinality(Screens)
  BY FS_Subset DEF TypeOK
<1> QED BY <1>1, FS_CardinalityType

---------------------------------------------------------------------------
(* Type correctness *)

\* What the end of a capture leaves behind is well typed.
LEMMA CountDownType ==
    ASSUME IInv, NEW c \in Calls, NEW s \in Sources,
           frame[c][s] \in Outstanding, CountDown(c)
    PROVE  /\ pending' \in [Calls -> 0..Cardinality(Screens)]
           /\ quit' \in SUBSET Calls
<1>1. CASE kind[c] = "full"
  <2>1. pending[c] - 1 \in 0..Cardinality(Screens)
    BY <1>1, OutstandingCounts
  <2> QED BY <1>1, <2>1 DEF CountDown, IInv, TypeOK
<1>2. CASE kind[c] # "full"
  BY <1>2 DEF CountDown, IInv, TypeOK
<1> QED BY <1>1, <1>2

\* Every step keeps every variable in its range.
LEMMA TypeStep == IInv /\ [Next]_vars => TypeOK'
<1> SUFFICES ASSUME IInv, [Next]_vars PROVE TypeOK'
  OBVIOUS
<1> USE DEF TypeOK, callVars, captureVars
<1>1. ASSUME NEW c \in Calls, FullScreenShot(c) PROVE TypeOK'
  <2>1. Cardinality(screens) \in 0..Cardinality(Screens)
    BY PluggedCounts DEF IInv
  <2>2. frame' \in [Calls -> [Sources -> Frame]]
    BY <1>1 DEF FullScreenShot, IInv, Frame
  <2>3. stack' \in Seq(Calls) /\ kind' \in [Calls -> Kind]
    BY <1>1 DEF FullScreenShot, IInv, Kind
  <2>4. pending' \in [Calls -> 0..Cardinality(Screens)]
    BY <1>1, <2>1 DEF FullScreenShot, IInv
  <2> QED BY <1>1, <2>2, <2>3, <2>4 DEF FullScreenShot, IInv
<1>2. ASSUME NEW c \in Calls, CaptureInteractively(c) PROVE TypeOK'
  BY <1>2 DEF CaptureInteractively, IInv, Kind, Phase
<1>3. ASSUME NEW c \in Calls, SourceReady(c) PROVE TypeOK'
  BY <1>3 DEF SourceReady, IInv, Phase
<1>4. ASSUME NEW c \in Calls, SourceFailed(c) PROVE TypeOK'
  BY <1>4 DEF SourceFailed, IInv, Phase
<1>5. ASSUME NEW c \in Calls, NEW s \in Sources, Buffer(c, s) PROVE TypeOK'
  BY <1>5 DEF Buffer, IInv, Frame
<1>6. ASSUME NEW c \in Calls, NEW s \in Sources, Ready(c, s) PROVE TypeOK'
  <2>1. frame' \in [Calls -> [Sources -> Frame]]
    BY <1>6 DEF Ready, IInv, Frame
  <2>2. pending' \in [Calls -> 0..Cardinality(Screens)] /\ quit' \in SUBSET Calls
    BY <1>6, CountDownType DEF Ready, Outstanding
  <2> QED BY <1>6, <2>1, <2>2 DEF Ready, IInv
<1>7. ASSUME NEW c \in Calls, NEW s \in Sources, Failed(c, s) PROVE TypeOK'
  <2>1. frame' \in [Calls -> [Sources -> Frame]]
    BY <1>7 DEF Failed, IInv, Frame
  <2>2. pending' \in [Calls -> 0..Cardinality(Screens)] /\ quit' \in SUBSET Calls
    BY <1>7, CountDownType DEF Failed
  <2> QED BY <1>7, <2>1, <2>2 DEF Failed, IInv
<1>8. ASSUME NEW s \in Screens, ScreenRemoved(s) PROVE TypeOK'
  BY <1>8 DEF ScreenRemoved, IInv
<1>9. CASE SaveScreens
  <2>1. Top \in Calls /\ Front(stack) \in Seq(Calls)
    BY <1>9, TopIsMade, FrontType DEF SaveScreens, Made
  <2> QED BY <1>9, <2>1 DEF SaveScreens, IInv, Reply
<1>10. CASE CaptureSource
  <2>1. Top \in Calls
    BY <1>10, TopIsMade DEF CaptureSource, Made
  <2> QED BY <1>10, <2>1 DEF CaptureSource, IInv, Frame
<1>11. CASE SaveSource
  <2>1. Top \in Calls /\ Front(stack) \in Seq(Calls)
    BY <1>11, TopIsMade, FrontType DEF SaveSource, Made
  <2> QED BY <1>11, <2>1 DEF SaveSource, IInv, Reply
<1>12. CASE UNCHANGED vars
  BY <1>12 DEF vars, IInv
<1> QED BY <1>1, <1>2, <1>3, <1>4, <1>5, <1>6, <1>7, <1>8, <1>9, <1>10, <1>11,
           <1>12 DEF Next, Selects, Captured, LoopReturns

\* Type correctness rests on the counter, and the counter on what is captured:
\* the other parts of the invariant follow.
LEMMA FramesStep ==
    ASSUME IInv, [Next]_vars PROVE FramesOfKind' /\ CallsAreMade'
<1> USE DEF TypeOK, FramesOfKind, CallsAreMade, Made, callVars, captureVars
<1>1. ASSUME NEW c \in Calls, FullScreenShot(c)
      PROVE  FramesOfKind' /\ CallsAreMade'
  <2>1. FramesOfKind'
    BY <1>1 DEF FullScreenShot, IInv, Sources, Arrives
  <2>2. stack' = Append(stack, c) /\ kind' = [kind EXCEPT ![c] = "full"]
    BY <1>1 DEF FullScreenShot
  <2>3. \A i \in 1..Len(stack') : stack'[i] \in Made'
    BY <2>2 DEF IInv
  <2> QED BY <1>1, <2>1, <2>2, <2>3 DEF FullScreenShot, IInv
<1>2. ASSUME NEW c \in Calls, CaptureInteractively(c)
      PROVE  FramesOfKind' /\ CallsAreMade'
  <2>1. FramesOfKind'
    BY <1>2 DEF CaptureInteractively, IInv, Sources, Arrives
  <2>2. stack' = Append(stack, c) /\ kind' = [kind EXCEPT ![c] = "interactive"]
    BY <1>2 DEF CaptureInteractively
  <2>3. \A i \in 1..Len(stack') : stack'[i] \in Made'
    BY <2>2 DEF IInv
  <2> QED BY <1>2, <2>1, <2>2, <2>3 DEF CaptureInteractively, IInv
<1>3. ASSUME NEW c \in Calls, SourceReady(c) PROVE FramesOfKind' /\ CallsAreMade'
  BY <1>3 DEF SourceReady, IInv
<1>4. ASSUME NEW c \in Calls, SourceFailed(c) PROVE FramesOfKind' /\ CallsAreMade'
  BY <1>4 DEF SourceFailed, IInv
<1>5. ASSUME NEW c \in Calls, NEW s \in Sources, Buffer(c, s)
      PROVE  FramesOfKind' /\ CallsAreMade'
  BY <1>5 DEF Buffer, IInv, Sources
<1>6. ASSUME NEW c \in Calls, NEW s \in Sources, Ready(c, s)
      PROVE  FramesOfKind' /\ CallsAreMade'
  BY <1>6 DEF Ready, CountDown, IInv, Sources
<1>7. ASSUME NEW c \in Calls, NEW s \in Sources, Failed(c, s)
      PROVE  FramesOfKind' /\ CallsAreMade'
  BY <1>7 DEF Failed, CountDown, Outstanding, IInv, Sources
<1>8. ASSUME NEW s \in Screens, ScreenRemoved(s)
      PROVE  FramesOfKind' /\ CallsAreMade'
  BY <1>8 DEF ScreenRemoved, IInv
<1>9. CASE SaveScreens
  <2>1. Top \in Made
    BY <1>9, TopIsMade DEF SaveScreens
  <2>2. UNCHANGED <<kind, quit, frame, phase>>
    BY <1>9 DEF SaveScreens
  <2>3. \A i \in 1..Len(stack') : stack'[i] \in Made
    <3>1. kind' = kind /\ stack # <<>> /\ stack' \in {stack, Front(stack)}
      BY <1>9 DEF SaveScreens
    <3>2. \A i \in 1..Len(stack) : stack[i] \in Made
      BY DEF IInv
    <3> QED BY <3>1, <3>2, FrontIsMade
  <2>4. \A c \in Calls : c # Top => answer'[c] = answer[c]
    BY <1>9 DEF SaveScreens, IInv
  <2> QED BY <2>1, <2>2, <2>3, <2>4 DEF IInv
<1>10. CASE CaptureSource
  BY <1>10, TopIsMade DEF CaptureSource, IInv, Sources
<1>11. CASE SaveSource
  <2>1. Top \in Made
    BY <1>11, TopIsMade DEF SaveSource
  <2>2. UNCHANGED <<kind, quit, frame, phase>>
    BY <1>11 DEF SaveSource
  <2>3. \A i \in 1..Len(stack') : stack'[i] \in Made
    <3>1. stack # <<>> /\ stack' = Front(stack) /\ kind' = kind
      BY <1>11 DEF SaveSource
    <3> QED BY <3>1, FrontIsMade
  <2>4. \A c \in Calls : c # Top => answer'[c] = answer[c]
    BY <1>11 DEF SaveSource, IInv
  <2> QED BY <2>1, <2>2, <2>3, <2>4 DEF IInv
<1>12. CASE UNCHANGED vars
  BY <1>12 DEF vars, IInv
<1> QED BY <1>1, <1>2, <1>3, <1>4, <1>5, <1>6, <1>7, <1>8, <1>9, <1>10, <1>11,
           <1>12 DEF Next, Selects, Captured, LoopReturns

---------------------------------------------------------------------------
(* What is counted and what is saved *)

\* The end of a capture takes its screen off the set and one off the counter.
LEMMA EndStep ==
    ASSUME IInv, NEW c \in Calls, NEW s \in Sources,
           frame[c][s] \in Outstanding, CountDown(c), UNCHANGED kind,
           NEW e \in Frame \ Outstanding,
           frame' = [frame EXCEPT ![c][s] = e]
    PROVE  PendingIsExact'
<1> USE DEF PendingIsExact, TypeOK, Made
<1>1. ASSUME NEW d \in Calls, kind[d] = "full", d # c
      PROVE  /\ pending'[d] = Cardinality(Waited(d)')
             /\ d \in quit' => pending'[d] = 0
  <2>1. Waited(d)' = Waited(d) /\ Waited(d) = {x \in Screens : frame[d][x] \in Outstanding}
    BY <1>1 DEF Waited, IInv
  <2>2. pending'[d] = pending[d] /\ (d \in quit' <=> d \in quit)
    BY <1>1 DEF CountDown, IInv
  <2> QED BY <1>1, <2>1, <2>2 DEF IInv
<1>2. ASSUME kind[c] = "full"
      PROVE  /\ pending'[c] = Cardinality(Waited(c)')
             /\ c \in quit' => pending'[c] = 0
  <2>1. Waited(c)' = Waited(c) \ {s}
    BY DEF Waited, IInv, Sources
  <2>2. pending[c] - 1 = Cardinality(Waited(c) \ {s}) /\ pending[c] # 0
    BY <1>2, OutstandingCounts
  <2>3. pending'[c] = pending[c] - 1 /\ quit' = IF pending'[c] = 0 THEN quit \cup {c} ELSE quit
    BY <1>2 DEF CountDown, IInv
  <2>4. c \notin quit
    BY <1>2, <2>2 DEF IInv
  <2> QED BY <2>1, <2>2, <2>3, <2>4
<1> QED BY <1>1, <1>2 DEF Waited

LEMMA CountUnchanged ==
    ASSUME PendingIsExact, UNCHANGED <<kind, quit, pending, frame>>
    PROVE  PendingIsExact'
BY DEF PendingIsExact, Made

\* Only what is not outstanding is counted out or saved.
LEMMA CountStep ==
    ASSUME IInv, [Next]_vars PROVE PendingIsExact'
<1> USE DEF TypeOK, PendingIsExact, Made, callVars, captureVars
<1>1. ASSUME NEW c \in Calls, FullScreenShot(c) PROVE PendingIsExact'
  <2>1. {s \in Screens : frame'[c][s] \in Outstanding} = screens
    BY <1>1 DEF FullScreenShot, IInv, Sources, Outstanding
  <2>2. c \notin quit /\ quit' = quit
    BY <1>1 DEF FullScreenShot, Arrives, IInv, CallsAreMade
  <2>3. pending'[c] = Cardinality(screens)
    BY <1>1 DEF FullScreenShot, IInv
  <2>4. ASSUME NEW d \in Calls, d # c
        PROVE kind'[d] = kind[d] /\ pending'[d] = pending[d] /\ frame'[d] = frame[d]
    BY <1>1, <2>4 DEF FullScreenShot, IInv
  <2>5. kind'[c] = "full" /\ c \in Calls
    BY <1>1 DEF FullScreenShot, IInv
  <2>6. ASSUME NEW d \in Made', kind'[d] = "full"
        PROVE  /\ pending'[d] = Cardinality({s \in Screens : frame'[d][s] \in Outstanding})
               /\ d \in quit' => pending'[d] = 0
    <3>1. CASE d = c
      BY <3>1, <2>1, <2>2, <2>3
    <3>2. CASE d # c
      <4>1. /\ kind[d] = "full" /\ d \in Made
            /\ pending'[d] = pending[d] /\ frame'[d] = frame[d]
        BY <3>2, <2>4, <2>6
      <4> QED BY <4>1, <2>2 DEF IInv
    <3> QED BY <3>1, <3>2
  <2> QED BY <2>6
<1>2. ASSUME NEW c \in Calls, CaptureInteractively(c) PROVE PendingIsExact'
  BY <1>2 DEF CaptureInteractively, IInv
<1>3. ASSUME NEW c \in Calls, SourceReady(c) PROVE PendingIsExact'
  <2>1. kind[c] # "full"
    BY <1>3 DEF SourceReady, IInv, FramesOfKind
  <2>2. UNCHANGED <<kind, pending, frame>> /\ quit' = quit \cup {c}
    BY <1>3 DEF SourceReady
  <2> QED BY <2>1, <2>2 DEF IInv
<1>4. ASSUME NEW c \in Calls, SourceFailed(c) PROVE PendingIsExact'
  BY <1>4, CountUnchanged DEF SourceFailed, IInv
<1>5. ASSUME NEW c \in Calls, NEW s \in Sources, Buffer(c, s) PROVE PendingIsExact'
  <2>1. ASSUME NEW d \in Calls
        PROVE  {x \in Screens : frame'[d][x] \in Outstanding}
                   = {x \in Screens : frame[d][x] \in Outstanding}
    BY <1>5 DEF Buffer, Outstanding, IInv
  <2> QED BY <1>5, <2>1 DEF Buffer, IInv
<1>6. ASSUME NEW c \in Calls, NEW s \in Sources, Ready(c, s) PROVE PendingIsExact'
  BY <1>6, EndStep DEF Ready, Outstanding, Frame
<1>7. ASSUME NEW c \in Calls, NEW s \in Sources, Failed(c, s) PROVE PendingIsExact'
  <2>1. PICK e \in {"failed", "blank"} : frame' = [frame EXCEPT ![c][s] = e]
    BY <1>7 DEF Failed, IInv
  <2>2. e \in Frame \ Outstanding
    BY DEF Frame, Outstanding
  <2>3. frame[c][s] \in Outstanding /\ CountDown(c) /\ UNCHANGED kind
    BY <1>7 DEF Failed
  <2> QED BY <2>1, <2>2, <2>3, EndStep
<1>8. ASSUME NEW s \in Screens, ScreenRemoved(s) PROVE PendingIsExact'
  BY <1>8, CountUnchanged DEF ScreenRemoved, IInv
<1>9. CASE SaveScreens
  <2>1. UNCHANGED <<kind, quit, pending, frame>>
    BY <1>9 DEF SaveScreens
  <2> QED BY <2>1, CountUnchanged DEF IInv
<1>10. CASE CaptureSource
  <2>1. ASSUME NEW d \in Calls
        PROVE  {x \in Screens : frame'[d][x] \in Outstanding}
                   = {x \in Screens : frame[d][x] \in Outstanding}
    BY <1>10 DEF CaptureSource, IInv, Sources
  <2> QED BY <1>10, <2>1 DEF CaptureSource, IInv
<1>11. CASE SaveSource
  <2>1. UNCHANGED <<kind, quit, pending, frame>>
    BY <1>11 DEF SaveSource
  <2> QED BY <2>1, CountUnchanged DEF IInv
<1>12. CASE UNCHANGED vars
  BY <1>12 DEF vars, IInv
<1> QED BY <1>1, <1>2, <1>3, <1>4, <1>5, <1>6, <1>7, <1>8, <1>9, <1>10, <1>11,
           <1>12 DEF Next, Selects, Captured, LoopReturns

\* A full screenshot is saved when its counter is zero, an interactive one when
\* its capture is ready, and what ended stays as it ended.
LEMMA PictureStep ==
    ASSUME IInv, [Next]_vars PROVE PictureIsComplete'
<1> USE DEF TypeOK, PictureIsComplete, Made, Outstanding, callVars, captureVars
<1>1. ASSUME NEW c \in Calls, FullScreenShot(c) PROVE PictureIsComplete'
  BY <1>1 DEF FullScreenShot, Arrives, IInv, CallsAreMade
<1>2. ASSUME NEW c \in Calls, CaptureInteractively(c) PROVE PictureIsComplete'
  BY <1>2 DEF CaptureInteractively, Arrives, IInv, CallsAreMade
<1>3. ASSUME NEW c \in Calls, SourceReady(c) PROVE PictureIsComplete'
  BY <1>3 DEF SourceReady, IInv
<1>4. ASSUME NEW c \in Calls, SourceFailed(c) PROVE PictureIsComplete'
  BY <1>4 DEF SourceFailed, IInv
<1>5. ASSUME NEW c \in Calls, NEW s \in Sources, Buffer(c, s) PROVE PictureIsComplete'
  BY <1>5 DEF Buffer, IInv, CallsAreMade, Sources
<1>6. ASSUME NEW c \in Calls, NEW s \in Sources, Ready(c, s) PROVE PictureIsComplete'
  BY <1>6 DEF Ready, IInv, CallsAreMade, Sources
<1>7. ASSUME NEW c \in Calls, NEW s \in Sources, Failed(c, s) PROVE PictureIsComplete'
  BY <1>7 DEF Failed, IInv, CallsAreMade, Sources
<1>8. ASSUME NEW s \in Screens, ScreenRemoved(s) PROVE PictureIsComplete'
  BY <1>8 DEF ScreenRemoved, IInv
<1>9. CASE SaveScreens
  <2>1. Top \in Made /\ Top \in quit /\ kind[Top] = "full"
    BY <1>9, TopIsMade DEF SaveScreens
  <2>2. Cardinality(Waited(Top)) = 0
    BY <2>1 DEF IInv, PendingIsExact, Waited
  <2>3. Waited(Top) = {}
    BY <2>2, FS_Subset, FS_EmptySet DEF Waited
  <2>4. \A s \in Sources : frame[Top][s] \notin Outstanding
    BY <2>1, <2>3 DEF Waited, Sources, IInv, FramesOfKind
  <2> QED BY <1>9, <2>1, <2>4 DEF SaveScreens, IInv
<1>10. CASE CaptureSource
  <2>1. answer[Top] # "picture"
    BY <1>10, TopIsMade DEF CaptureSource, IInv
  <2> QED BY <1>10, <2>1 DEF CaptureSource, IInv
<1>11. CASE SaveSource
  <2>1. Top \in Made /\ kind[Top] = "interactive"
    BY <1>11, TopIsMade DEF SaveSource
  <2>2. \A s \in Screens : frame[Top][s] = "none"
    BY <2>1 DEF IInv, FramesOfKind
  <2> QED BY <1>11, <2>1, <2>2 DEF SaveSource, IInv, Sources
<1>12. CASE UNCHANGED vars
  BY <1>12 DEF vars, IInv
<1> QED BY <1>1, <1>2, <1>3, <1>4, <1>5, <1>6, <1>7, <1>8, <1>9, <1>10, <1>11,
           <1>12 DEF Next, Selects, Captured, LoopReturns

---------------------------------------------------------------------------
(* The theorems *)

LEMMA InitInvariant == Init => IInv
<1> SUFFICES ASSUME Init PROVE IInv
  OBVIOUS
<1>1. Cardinality(Screens) \in Nat
  BY FS_CardinalityType
<1>2. TypeOK
  BY <1>1 DEF Init, TypeOK, Kind, Phase, Frame, Reply
<1>3. PendingIsExact /\ PictureIsComplete
  BY DEF Init, PendingIsExact, PictureIsComplete, Made
<1>4. FramesOfKind /\ CallsAreMade
  BY DEF Init, FramesOfKind, CallsAreMade, Sources
<1> QED BY <1>2, <1>3, <1>4 DEF IInv

\* The inductive invariant of the portal.
THEOREM Invariant == Spec => []IInv
<1>1. IInv /\ [Next]_vars => IInv'
  BY TypeStep, FramesStep, CountStep, PictureStep DEF IInv
<1> QED BY InitInvariant, <1>1, PTL DEF Spec

\* The handlers keep every variable in its range; in particular pendingCapture
\* is never negative.
THEOREM TypeCorrect == Spec => []TypeOK
BY Invariant, PTL DEF IInv

\* pendingCapture counts the captures that are outstanding, however the calls
\* nest, and the loop is told to quit at zero.
THEOREM CounterIsExact == Spec => []PendingIsExact
BY Invariant, PTL DEF IInv

\* Ranges and the exact counter, as one invariant.
THEOREM CaptureCountStaysSound == Spec => []CaptureCountIsSound
<1>1. IInv => CaptureCountIsSound
  BY DEF IInv, CaptureCountIsSound
<1> QED BY <1>1, Invariant, PTL

\* Nothing of a picture that was saved is outstanding.
THEOREM PicturesAreComplete == Spec => []PictureIsComplete
BY Invariant, PTL DEF IInv

---------------------------------------------------------------------------
(* Screenshot implements NestedCalls *)

Answered == {c \in Calls : answer[c] # "none"}

\* Every step of the portal is a call that arrives, an answer to the latest
\* call, or neither.
LEMMA NestedStep == IInv /\ [Next]_vars => [Nested!Next]_<<stack, Answered>>
<1> SUFFICES ASSUME IInv, [Next]_vars PROVE [Nested!Next]_<<stack, Answered>>
  OBVIOUS
<1> USE DEF Answered, callVars, captureVars, Made
<1>1. ASSUME NEW c \in Calls, FullScreenShot(c) PROVE Nested!Arrive(c)
  BY <1>1 DEF FullScreenShot, Arrives, Nested!Arrive, IInv, CallsAreMade
<1>2. ASSUME NEW c \in Calls, CaptureInteractively(c) PROVE Nested!Arrive(c)
  BY <1>2 DEF CaptureInteractively, Arrives, Nested!Arrive, IInv, CallsAreMade
<1>3. ASSUME SaveScreens \/ SaveSource, stack' = Front(stack) PROVE Nested!Answer
  <2>1. Top \in Calls /\ stack # <<>> /\ Top = stack[Len(stack)]
    BY <1>3, TopIsMade DEF SaveScreens, SaveSource, Top, Last
  <2>2. PICK r \in {"picture", "nothing"} : answer' = [answer EXCEPT ![Top] = r]
    BY <1>3, FrontType, <2>1 DEF SaveScreens, SaveSource
  <2>3. Answered' = Answered \cup {Top}
    BY <2>1, <2>2 DEF IInv, TypeOK
  <2> QED BY <1>3, <2>1, <2>3 DEF Nested!Answer, Front
<1>4. CASE SaveScreens /\ stack' # Front(stack)
  BY <1>4 DEF SaveScreens
<1>5. CASE SaveSource
  BY <1>3, <1>5 DEF SaveSource, Nested!Next
<1>6. ASSUME NEW c \in Calls, NEW s \in Sources,
             Selects(c) \/ Buffer(c, s) \/ Captured(c, s)
      PROVE  UNCHANGED <<stack, Answered>>
  BY <1>6 DEF Selects, SourceReady, SourceFailed, Buffer, Captured, Ready, Failed
<1>7. CASE CaptureSource
  BY <1>7 DEF CaptureSource
<1>8. ASSUME NEW s \in Screens, ScreenRemoved(s) PROVE UNCHANGED <<stack, Answered>>
  BY <1>8 DEF ScreenRemoved
<1>9. CASE UNCHANGED vars
  BY <1>9 DEF vars
<1>10. ASSUME NEW c \in Calls, Selects(c) PROVE UNCHANGED <<stack, Answered>>
  BY <1>10 DEF Selects, SourceReady, SourceFailed
<1> QED BY <1>1, <1>2, <1>3, <1>4, <1>5, <1>6, <1>7, <1>8, <1>9, <1>10
        DEF Next, LoopReturns, Nested!Next

\* Towards DBus the portal is a stack of calls: each is answered at most once,
\* and never before a call that arrived later.
THEOREM ImplementsNestedCalls == Spec => NestedSpec
<1>1. Init => Nested!Init
  BY DEF Init, Nested!Init
<1>2. IInv /\ [Next]_vars =>
          [Nested!Next]_<<stack, {c \in Calls : answer[c] # "none"}>>
  BY NestedStep DEF Answered
<1> QED BY <1>1, <1>2, Invariant, PTL DEF Spec, NestedSpec, Nested!Spec
===========================================================================
