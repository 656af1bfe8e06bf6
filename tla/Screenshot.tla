---------------------------- MODULE Screenshot ----------------------------
(***************************************************************************)
(* The Screenshot portal on Wayland.  A call captures every screen, or     *)
(* lets the user select a source and captures that, and waits for the      *)
(* compositor in an event loop of its own.  Calls that arrive meanwhile    *)
(* wait in loops nested in it.                                             *)
(*                                                                         *)
(* A screen that was unplugged does not come back as the same object.  The *)
(* picture is left out, but for what was captured for it.                  *)
(***************************************************************************)
EXTENDS Naturals, Sequences, FiniteSets, SequencesExt

CONSTANTS
    Screens,    \* QWaylandScreen objects
    Selection,  \* the source selected in an interactive call
    MaxCalls    \* bound: calls ever made

ASSUME ScreenshotAssumption ==
    /\ MaxCalls \in Nat
    /\ IsFiniteSet(Screens)
    /\ Selection \notin Screens

Calls == 1..MaxCalls
Sources == Screens \cup {Selection}

VARIABLES
    life,     \* "running", "dead_screen" after a use of a deleted screen
    screens,  \* the screens that are plugged in
    kind,     \* how each call was made
    stack,    \* the calls whose event loop is running
    quit,     \* the calls whose event loop was told to quit
    pending,  \* pendingCapture of each call
    phase,    \* how far the user's selection is, in interactive calls
    frame,    \* the capture of each source, for each call
    answer    \* the reply to each call

callVars == <<kind, stack, quit, answer>>
captureVars == <<pending, phase, frame>>
vars == <<life, screens, callVars, captureVars>>

Kind == {"none", "full", "interactive"}
Phase == {"none", "selecting", "dropped", "selected"}

\* The life of a ScreenCopyFrame or TreeLandCaptureFrame: asked for, offered
\* only buffers it ignores, copying into its buffer, ready, or failed before
\* ("failed") or after ("blank") it had a buffer.
Frame == {"none", "asked", "ignored", "copying", "ready", "failed", "blank"}
Outstanding == {"asked", "ignored", "copying"}

Reply == {"none", "picture", "nothing"}

Running == life = "running"
Made == {c \in Calls : kind[c] # "none"}
Top == Last(stack)
Dispatching == Running /\ (stack # <<>> => Top \notin quit)

\* Calls are numbered as they arrive.
Arrives(c) == c \notin Made /\ \A d \in Calls \ Made : c <= d

Init ==
    /\ life = "running"
    /\ screens \in SUBSET Screens
    /\ kind = [c \in Calls |-> "none"]
    /\ stack = <<>>
    /\ quit = {}
    /\ pending = [c \in Calls |-> 0]
    /\ phase = [c \in Calls |-> "none"]
    /\ frame = [c \in Calls |-> [s \in Sources |-> "none"]]
    /\ answer = [c \in Calls |-> "none"]

---------------------------------------------------------------------------
(* Calls *)

\* fullScreenShot() up to its event loop
FullScreenShot(c) ==
    /\ Dispatching /\ Arrives(c)
    /\ kind' = [kind EXCEPT ![c] = "full"]
    /\ stack' = Append(stack, c)
    /\ pending' = [pending EXCEPT ![c] = Cardinality(screens)]
    /\ frame' = [frame EXCEPT ![c] =
                    [s \in Sources |-> IF s \in screens THEN "asked" ELSE "none"]]
    /\ UNCHANGED <<life, screens, quit, phase, answer>>

\* captureInteractively() up to its first event loop
CaptureInteractively(c) ==
    /\ Dispatching /\ Arrives(c)
    /\ kind' = [kind EXCEPT ![c] = "interactive"]
    /\ stack' = Append(stack, c)
    /\ phase' = [phase EXCEPT ![c] = "selecting"]
    /\ UNCHANGED <<life, screens, quit, pending, frame, answer>>

\* The user has selected a source: the first event loop quits.
SourceReady(c) ==
    /\ Dispatching /\ phase[c] = "selecting"
    /\ phase' = [phase EXCEPT ![c] = "selected"]
    /\ quit' = quit \cup {c}
    /\ UNCHANGED <<life, screens, kind, stack, answer, pending, frame>>

\* The selection failed, or the user dropped it: sourceFailed() has no
\* receiver.
SourceFailed(c) ==
    /\ Dispatching /\ phase[c] = "selecting"
    /\ phase' = [phase EXCEPT ![c] = "dropped"]
    /\ UNCHANGED <<life, screens, callVars, pending, frame>>

---------------------------------------------------------------------------
(* Captures *)

\* A buffer is offered.  Of an unsuitable one nothing is copied; a second
\* suitable one is ignored.
Buffer(c, s) ==
    /\ Dispatching /\ frame[c][s] \in {"asked", "ignored"}
    /\ \E offered \in {"ignored", "copying"} :
          frame' = [frame EXCEPT ![c][s] = offered]
    /\ UNCHANGED <<life, screens, callVars, pending, phase>>

\* Mutant: the loop does not end with the last capture.
CountDownPastZero(c) ==
    /\ pending' = [pending EXCEPT ![c] = @ - 1]
    /\ UNCHANGED quit

\* The end of a capture: the last of a full screenshot, and the only one of an
\* interactive call, ends the loop.
CountDown(c) ==
    IF kind[c] = "full"
    THEN /\ pending' = [pending EXCEPT ![c] = @ - 1]
         /\ quit' = IF pending'[c] = 0 THEN quit \cup {c} ELSE quit
    ELSE /\ quit' = quit \cup {c}
         /\ UNCHANGED pending

Ready(c, s) ==
    /\ Dispatching /\ frame[c][s] = "copying"
    /\ frame' = [frame EXCEPT ![c][s] = "ready"]
    /\ CountDown(c)
    /\ UNCHANGED <<life, screens, kind, stack, answer, phase>>

\* Mutant: failed captures are not counted.
FailedUncounted(c, s) ==
    /\ Dispatching /\ frame[c][s] \in Outstanding
    /\ frame' = [frame EXCEPT ![c][s] = IF @ = "copying" THEN "blank" ELSE "failed"]
    /\ UNCHANGED <<life, screens, callVars, pending, phase>>

Failed(c, s) ==
    /\ Dispatching /\ frame[c][s] \in Outstanding
    /\ frame' = [frame EXCEPT ![c][s] = IF @ = "copying" THEN "blank" ELSE "failed"]
    /\ CountDown(c)
    /\ UNCHANGED <<life, screens, kind, stack, answer, phase>>

\* A screen is unplugged; its object is deleted.
ScreenRemoved(s) ==
    /\ Dispatching /\ s \in screens
    /\ screens' = screens \ {s}
    /\ UNCHANGED <<life, callVars, captureVars>>

---------------------------------------------------------------------------
(* The end of a call *)

\* The screens whose buffer is drawn into the picture
Drawn(c) == {s \in Screens : frame[c][s] \in {"ready", "blank"}}

\* The loop of a full screenshot returns: the screens are drawn at their
\* geometry, and the picture is saved if that is possible.  Its format is that
\* of the last screen that was ready and undefined if there was none, so that
\* saving may fail or not in that case too.
SaveScreens ==
    /\ Running /\ stack # <<>> /\ Top \in quit /\ kind[Top] = "full"
    /\ \/ /\ Drawn(Top) \subseteq screens
          /\ \E r \in {"picture", "nothing"} : answer' = [answer EXCEPT ![Top] = r]
          /\ stack' = Front(stack)
          /\ UNCHANGED life
       \/ /\ ~(Drawn(Top) \subseteq screens)
          /\ life' = "dead_screen"
          /\ UNCHANGED <<stack, answer>>
    /\ UNCHANGED <<screens, kind, quit, captureVars>>

\* The first loop of an interactive call returns: the source is captured.
CaptureSource ==
    /\ Running /\ stack # <<>> /\ Top \in quit /\ kind[Top] = "interactive"
    /\ frame[Top][Selection] = "none"
    /\ frame' = [frame EXCEPT ![Top][Selection] = "asked"]
    /\ quit' = quit \ {Top}
    /\ UNCHANGED <<life, screens, kind, stack, answer, pending, phase>>

\* Mutant: a failed capture is saved like any other.
SaveAnySource ==
    /\ Running /\ stack # <<>> /\ Top \in quit /\ kind[Top] = "interactive"
    /\ frame[Top][Selection] # "none"
    /\ \E r \in {"picture", "nothing"} : answer' = [answer EXCEPT ![Top] = r]
    /\ stack' = Front(stack)
    /\ UNCHANGED <<life, screens, kind, quit, captureVars>>

\* Mutant: loops return in any order.
SaveInAnyOrder ==
    /\ Running
    /\ \E i \in DOMAIN stack :
          /\ stack[i] \in quit /\ frame[stack[i]][Selection] = "ready"
          /\ answer' = [answer EXCEPT ![stack[i]] = "picture"]
          /\ stack' = RemoveAt(stack, i)
    /\ UNCHANGED <<life, screens, kind, quit, captureVars>>

\* The second loop of an interactive call returns.
SaveSource ==
    /\ Running /\ stack # <<>> /\ Top \in quit /\ kind[Top] = "interactive"
    /\ frame[Top][Selection] # "none"
    /\ \E r \in {"picture", "nothing"} :
          /\ r = "picture" => frame[Top][Selection] = "ready"
          /\ answer' = [answer EXCEPT ![Top] = r]
    /\ stack' = Front(stack)
    /\ UNCHANGED <<life, screens, kind, quit, captureVars>>

LoopReturns == SaveScreens \/ CaptureSource \/ SaveSource

---------------------------------------------------------------------------
Selects(c) == SourceReady(c) \/ SourceFailed(c)
Captured(c, s) == Ready(c, s) \/ Failed(c, s)

Next ==
    \/ \E c \in Calls :
          \/ FullScreenShot(c)
          \/ CaptureInteractively(c)
          \/ Selects(c)
          \/ \E s \in Sources : Buffer(c, s) \/ Captured(c, s)
    \/ \E s \in Screens : ScreenRemoved(s)
    \/ LoopReturns

Spec == Init /\ [][Next]_vars

\* A loop that was told to quit returns when it is the innermost; the user
\* makes a selection or drops it; the compositor offers a buffer for a capture
\* and answers what was copied.  It owes nothing to a capture that asked for
\* no copy.
FairSpec ==
    /\ Spec
    /\ WF_vars(LoopReturns)
    /\ \A c \in Calls :
          /\ WF_vars(Selects(c))
          /\ \A s \in Sources :
                /\ WF_vars(frame[c][s] = "asked" /\ (Buffer(c, s) \/ Failed(c, s)))
                /\ WF_vars(frame[c][s] = "copying" /\ Captured(c, s))

---------------------------------------------------------------------------
(* Properties *)

TypeOK ==
    /\ life \in {"running", "dead_screen"}
    /\ screens \in SUBSET Screens
    /\ kind \in [Calls -> Kind]
    /\ stack \in Seq(Calls)
    /\ quit \in SUBSET Calls
    /\ pending \in [Calls -> 0..Cardinality(Screens)]
    /\ phase \in [Calls -> Phase]
    /\ frame \in [Calls -> [Sources -> Frame]]
    /\ answer \in [Calls -> Reply]

\* pendingCapture, which lives on the stack of its call while others run on top
\* of it, counts the captures that are outstanding; the loop is told to quit
\* when it gets to zero, and not before.
PendingIsExact ==
    \A c \in Made :
        kind[c] = "full" =>
            /\ pending[c] = Cardinality({s \in Screens : frame[c][s] \in Outstanding})
            /\ c \in quit => pending[c] = 0

\* The bookkeeping of the captures, in one.
CaptureCountIsSound == TypeOK /\ PendingIsExact

\* A picture is saved only when nothing of it is outstanding, and for an
\* interactive call only one that was captured.
PictureIsComplete ==
    \A c \in Made :
        answer[c] = "picture" =>
            /\ \A s \in Sources : frame[c][s] \notin Outstanding
            /\ kind[c] = "interactive" => frame[c][Selection] = "ready"

\* Towards DBus the portal is a stack of calls.
Nested == INSTANCE NestedCalls
    WITH waiting <- stack, answered <- {c \in Calls : answer[c] # "none"}
NestedSpec == Nested!Spec

\* What nothing will ever end: no screen to wait for, a selection that was
\* dropped, or a capture whose buffers were all unsuitable.
Stuck(c) ==
    \/ kind[c] = "full" /\ \A s \in Screens : frame[c][s] = "none"
    \/ phase[c] = "dropped"
    \/ \E s \in Sources : frame[c][s] = "ignored"

AtOrAbove(c) == {stack[j] : j \in {i \in DOMAIN stack :
                    \E k \in 1..i : stack[k] = c}}

\* The innermost call drew a screen that was unplugged after its buffer was made.
LostScreen ==
    /\ life = "dead_screen"
    /\ \E s \in Screens \ screens : frame[Top][s] \in {"ready", "blank"}

\* Every call is answered, however deep its loop lies, unless it or one above
\* it is stuck, or a call drew a screen that went while it, or a call nested in
\* it, kept its loop from returning.
ScreenshotIsAnswered ==
    \A c \in Calls :
        kind[c] # "none" ~> \/ answer[c] # "none"
                            \/ LostScreen
                            \/ \E d \in AtOrAbove(c) : Stuck(d)
===========================================================================
