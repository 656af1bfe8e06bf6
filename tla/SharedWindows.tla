--------------------------- MODULE SharedWindows ---------------------------
(***************************************************************************)
(* Windows that are shared, and the lists of windows behind them.          *)
(*                                                                         *)
(* ScreenCastContext keeps m_toplevels for the whole life of the portal;   *)
(* a Start with restore data looks its window up there by identifier.  A   *)
(* Start without it opens a chooser, whose model asks the compositor for a *)
(* list of its own.  Each list has a handle of its own for a window.  The  *)
(* stream of a shared window listens to the handle it was started with,    *)
(* but a ToplevelInfo deletes its handle when it hears that the window was *)
(* closed or that the list is finished, and whoever connected later hears  *)
(* nothing.                                                                *)
(*                                                                         *)
(* The global of the list may be withdrawn and announced again.  Every     *)
(* change of its activity connects the slots of the context once more.     *)
(***************************************************************************)
EXTENDS Naturals, Sequences, FiniteSets, SequencesExt, Lists

CONSTANTS
    Windows,   \* the windows, each with an identifier of its own
    Starts,    \* calls of Start(), with one window each
    MaxBound,  \* how often the global may be announced
    None

ASSUME WindowsAssumption == /\ MaxBound \in Nat \ {0}
                            /\ None \notin Windows \cup (Windows \X (1..MaxBound))
                            /\ Starts \cap (1..MaxBound) = {}

Bounds == 1..MaxBound

\* A handle of the context: the window and the announcement of the global it
\* came with.
Handles == Windows \X Bounds

\* ToplevelInfo, as the context keeps it: its handle, and whether it has the
\* identifier of the window.
Info == [handle : Handles, named : BOOLEAN]

\* A call of Start(): how far it is, its window, the handle its stream was
\* started with (None: one of the chooser's), whether the ToplevelInfo it holds
\* still exists, and whether its stream is running.
Call == [phase : {"none", "choosing", "starting", "ready", "over"},
         window : Windows \cup {None},
         handle : Handles \cup {None},
         info : BOOLEAN,
         running : BOOLEAN]

NoCall == [phase |-> "none", window |-> None, handle |-> None,
           info |-> FALSE, running |-> FALSE]

VARIABLES
    life,       \* "running", or the memory error the portal made
    window,     \* the windows: "unborn", "open" or "closed"
    active,     \* m_foreignToplevelListActive
    bound,      \* announcements of the global so far
    connected,  \* connections of handleToplevelAdded() and handleFinished()
    toplevels,  \* m_toplevels of the context
    announced,  \* handles the compositor has announced to the context
    freed,      \* those that were deleted
    finished,   \* announcements, and choosers, whose list was finished
    saved,      \* windows whose identifiers are in restore data
    chooser,    \* the choosers: "none", "alive" or "gone"
    rows,       \* the windows in the models of choosers that are alive
    chooserHandles, \* the windows whose handle of a chooser's list exists
    call        \* the calls of Start()

contextVars == <<active, bound, connected, toplevels, announced, freed,
                 finished>>
sharesVars == <<life, window, contextVars, saved, chooser, rows,
               chooserHandles, call>>

Running == life = "running"

SharesInit ==
    /\ life = "running"
    /\ window = [w \in Windows |-> "unborn"]
    /\ active = FALSE
    /\ bound = 0
    /\ connected = 0
    /\ toplevels = <<>>
    /\ announced = {}
    /\ freed = {}
    /\ finished = {}
    /\ saved = {}
    /\ chooser = [s \in Starts |-> "none"]
    /\ rows = [s \in Starts |-> {}]
    /\ chooserHandles = [s \in Starts |-> {}]
    /\ call = [s \in Starts |-> NoCall]

---------------------------------------------------------------------------
(* The list of the context *)

\* The lambda of ScreenCastContext() on activeChanged.
ActiveChanged ==
    /\ Running
    /\ active' = ~active
    /\ IF active THEN UNCHANGED bound
                 ELSE bound < MaxBound /\ bound' = bound + 1
    /\ connected' = connected + 1
    /\ UNCHANGED <<life, window, toplevels, announced, freed, finished, saved,
                   chooser, rows, chooserHandles, call>>

\* handleToplevelAdded(), once for every connection
ToplevelAdded(h) ==
    /\ Running
    /\ h[2] \in (1..bound) \ finished
    /\ window[h[1]] = "open"
    /\ h \notin announced
    /\ announced' = announced \cup {h}
    /\ toplevels' = toplevels \o
                        [i \in 1..connected |-> [handle |-> h, named |-> FALSE]]
    /\ UNCHANGED <<life, window, active, bound, connected, freed, finished,
                   saved, chooser, rows, chooserHandles, call>>

Entries(h) == {i \in DOMAIN toplevels : toplevels[i].handle = h}
First(h) == CHOOSE i \in Entries(h) : \A j \in Entries(h) : i <= j

\* Mutant: every entry of the window gets the identifier.
IdentifyAll(h) ==
    /\ Running
    /\ h \in announced \ freed
    /\ Entries(h) # {}
    /\ ~toplevels[First(h)].named
    /\ toplevels' = [i \in DOMAIN toplevels |->
                        IF i \in Entries(h)
                        THEN [toplevels[i] EXCEPT !.named = TRUE]
                        ELSE toplevels[i]]
    /\ UNCHANGED <<life, window, active, bound, connected, announced, freed,
                   finished, saved, chooser, rows, chooserHandles, call>>

\* handleIdentifierChanged() of the context: the first entry with the handle
\* gets the identifier.
IdentifierChanged(h) ==
    /\ Running
    /\ h \in announced \ freed
    /\ Entries(h) # {}
    /\ ~toplevels[First(h)].named
    /\ toplevels' = [toplevels EXCEPT ![First(h)].named = TRUE]
    /\ UNCHANGED <<life, window, active, bound, connected, announced, freed,
                   finished, saved, chooser, rows, chooserHandles, call>>

\* handleFinished() of the context deletes every ToplevelInfo, and each deletes
\* its handle.
ListFinished(b) ==
    /\ Running
    /\ b \in (1..bound) \ finished
    /\ finished' = finished \cup {b}
    /\ toplevels' = <<>>
    /\ freed' = freed \cup {toplevels[i].handle : i \in DOMAIN toplevels}
    /\ life' = IF \E i \in DOMAIN toplevels :
                     \/ toplevels[i].handle \in freed
                     \/ Cardinality(Entries(toplevels[i].handle)) > 1
               THEN "double_free" ELSE life
    /\ call' = [s \in Starts |->
                   IF call[s].handle # None
                   THEN [call[s] EXCEPT !.info = FALSE] ELSE call[s]]
    /\ UNCHANGED <<window, active, bound, connected, announced, saved, chooser,
                   rows, chooserHandles>>

---------------------------------------------------------------------------
(* Windows *)

WindowOpens(w) ==
    /\ Running
    /\ window[w] = "unborn"
    /\ window' = [window EXCEPT ![w] = "open"]
    /\ UNCHANGED <<life, contextVars, saved, chooser, rows, chooserHandles, call>>

\* handleToplevelClosed() removes the first entry of each handle of the window
\* and deletes the handle.
Removed(w) == {i \in DOMAIN toplevels :
                  /\ toplevels[i].handle[1] = w
                  /\ toplevels[i].handle \notin freed
                  /\ i = First(toplevels[i].handle)}

\* The entries that remain
AfterClose(w) == Kept(toplevels, DOMAIN toplevels \ Removed(w))

\* The handle that call s was started with is one of the chooser's and exists,
\* and the chooser's model does not list it any more.
StreamHears(s, w) ==
    call[s].handle = None /\ w \in chooserHandles[s] \ rows[s]

\* Whoever owns the handle hears first that the window was closed, and deletes
\* the handle with its ToplevelInfo.  handleToplevelClosed() of the stream is
\* called, and ends the share, only for a handle that exists and has no owner.
CallAfterClose(s, w) ==
    IF call[s].window # w THEN call[s]
    ELSE IF StreamHears(s, w)
         THEN [call[s] EXCEPT !.running = @ /\ call[s].phase = "starting"]
         ELSE [call[s] EXCEPT !.info = /\ @ /\ call[s].handle = None
                                       /\ w \notin rows[s]]

\* A window is closed, and every handle of it reports closed().
WindowCloses(w) ==
    /\ Running
    /\ window[w] = "open"
    /\ window' = [window EXCEPT ![w] = "closed"]
    /\ toplevels' = AfterClose(w)
    /\ freed' = freed \cup {h \in announced : h[1] = w}
    /\ rows' = [s \in Starts |-> rows[s] \ {w}]
    /\ chooserHandles' = [s \in Starts |-> chooserHandles[s] \ (rows[s] \cap {w})]
    /\ call' = [s \in Starts |-> CallAfterClose(s, w)]
    /\ UNCHANGED <<life, active, bound, connected, announced, finished, saved,
                   chooser>>

---------------------------------------------------------------------------
(* Start *)

OpenChooser(s) ==
    /\ call' = [call EXCEPT ![s].phase = "choosing"]
    /\ chooser' = [chooser EXCEPT ![s] = "alive"]

\* Start() without restore data
StartChooser(s) ==
    /\ Running /\ call[s].phase = "none"
    /\ OpenChooser(s)
    /\ UNCHANGED <<life, window, contextVars, saved, rows, chooserHandles>>

\* Entries of the context with the identifier of w
Matches(w) == {i \in DOMAIN toplevels :
                  toplevels[i].named /\ toplevels[i].handle[1] = w}

\* Start() with the restore data of an earlier share: as many windows must be
\* found as there are identifiers, which is one.
StartRestored(s, w) ==
    /\ Running /\ call[s].phase = "none"
    /\ w \in saved
    /\ \/ /\ Cardinality(Matches(w)) = 1
          /\ \E i \in Matches(w) :
                call' = [call EXCEPT ![s] =
                            [phase |-> "starting", window |-> w,
                             handle |-> toplevels[i].handle,
                             info |-> TRUE, running |-> TRUE]]
          /\ UNCHANGED chooser
       \/ Cardinality(Matches(w)) # 1 /\ OpenChooser(s)
    /\ UNCHANGED <<life, window, contextVars, saved, rows, chooserHandles>>

\* ToplevelListModel::handleToplevelAdded()
RowAdded(s, w) ==
    /\ Running
    /\ chooser[s] = "alive" /\ s \notin finished
    /\ window[w] = "open" /\ w \notin rows[s]
    /\ rows' = [rows EXCEPT ![s] = @ \cup {w}]
    /\ chooserHandles' = [chooserHandles EXCEPT ![s] = @ \cup {w}]
    /\ UNCHANGED <<life, window, contextVars, saved, chooser, call>>

\* ToplevelListModel::handleFinished() deletes what the model listed, the handles
\* with it.
ModelFinished(s) ==
    /\ Running
    /\ chooser[s] = "alive" /\ s \notin finished
    /\ finished' = finished \cup {s}
    /\ rows' = [rows EXCEPT ![s] = {}]
    /\ chooserHandles' = [chooserHandles EXCEPT ![s] = @ \ rows[s]]
    /\ call' = [call EXCEPT ![s].info = @ /\ call[s].handle # None]
    /\ UNCHANGED <<life, window, active, bound, connected, toplevels, announced,
                   freed, saved, chooser>>

\* accept() of the chooser, up to the event loop of startStreaming()
Accept(s, w) ==
    /\ Running /\ call[s].phase = "choosing"
    /\ chooser[s] = "alive" /\ w \in rows[s]
    /\ call' = [call EXCEPT ![s] =
                   [phase |-> "starting", window |-> w, handle |-> None,
                    info |-> TRUE, running |-> TRUE]]
    /\ UNCHANGED <<life, window, contextVars, saved, chooser, rows, chooserHandles>>

\* reject() of the chooser
Reject(s) ==
    /\ Running /\ call[s].phase = "choosing"
    /\ call' = [call EXCEPT ![s].phase = "over"]
    /\ UNCHANGED <<life, window, contextVars, saved, chooser, rows, chooserHandles>>

\* Mutant: the model deletes what it lists.
DeleteChooserAndList(s) ==
    /\ Running
    /\ chooser[s] = "alive" /\ call[s].phase # "choosing"
    /\ chooser' = [chooser EXCEPT ![s] = "gone"]
    /\ rows' = [rows EXCEPT ![s] = {}]
    /\ chooserHandles' = [chooserHandles EXCEPT ![s] = @ \ rows[s]]
    /\ UNCHANGED <<life, window, contextVars, saved, call>>

\* deleteLater() of the chooser, after accept() or reject(), or of one that was
\* rejected inside accept().  The model has no destructor: what it listed stays
\* behind without an owner.
DeleteChooser(s) ==
    /\ Running
    /\ chooser[s] = "alive" /\ call[s].phase # "choosing"
    /\ chooser' = [chooser EXCEPT ![s] = "gone"]
    /\ rows' = [rows EXCEPT ![s] = {}]
    /\ UNCHANGED <<life, window, contextVars, saved, chooserHandles, call>>

\* The stream is ready, and closed() ends it from now on.
Ready(s) ==
    /\ Running /\ call[s].phase = "starting"
    /\ call' = [call EXCEPT ![s].phase = "ready"]
    /\ UNCHANGED <<life, window, contextVars, saved, chooser, rows, chooserHandles>>

\* The stream fails or takes too long, for instance because the compositor
\* stops the capture of a closed window: continueStartAfterDialog() logs the
\* application of the window.
StartFails(s) ==
    /\ Running /\ call[s].phase = "starting"
    /\ call' = [call EXCEPT ![s].phase = "over", ![s].running = FALSE]
    /\ life' = IF call[s].info THEN life ELSE "stale_info"
    /\ UNCHANGED <<window, contextVars, saved, chooser, rows, chooserHandles>>

\* continueStartAfterDialog() returns.  The identifier is read when the share
\* may be restored and the application wants that; it does if it restores.
Return(s, persist) ==
    /\ Running /\ call[s].phase = "ready"
    /\ call[s].handle # None => persist
    /\ call' = [call EXCEPT ![s].phase = "over"]
    /\ IF persist
       THEN /\ life' = IF call[s].info THEN life ELSE "stale_info"
            /\ saved' = IF call[s].info THEN saved \cup {call[s].window}
                                        ELSE saved
       ELSE UNCHANGED <<life, saved>>
    /\ UNCHANGED <<window, contextVars, chooser, rows, chooserHandles>>

\* The session is closed and stops its stream.
StopShare(s) ==
    /\ Running /\ call[s].phase = "over" /\ call[s].running
    /\ call' = [call EXCEPT ![s].running = FALSE]
    /\ UNCHANGED <<life, window, contextVars, saved, chooser, rows, chooserHandles>>

---------------------------------------------------------------------------
Context == \/ ActiveChanged
           \/ \E h \in Handles : ToplevelAdded(h) \/ IdentifierChanged(h)
           \/ \E b \in Bounds : ListFinished(b)

Desktop == \E w \in Windows : WindowOpens(w) \/ WindowCloses(w)

Portal == \E s \in Starts :
    \/ StartChooser(s) \/ ModelFinished(s) \/ Reject(s) \/ DeleteChooser(s)
    \/ \E w \in Windows : StartRestored(s, w) \/ RowAdded(s, w) \/ Accept(s, w)
    \/ Ready(s) \/ StartFails(s) \/ StopShare(s)
    \/ \E persist \in BOOLEAN : Return(s, persist)

SharesNext == Context \/ Desktop \/ Portal

SharesSpec == SharesInit /\ [][SharesNext]_sharesVars

---------------------------------------------------------------------------
(* Properties *)

SharesTypeOK ==
    /\ life \in {"running", "double_free", "stale_info"}
    /\ window \in [Windows -> {"unborn", "open", "closed"}]
    /\ active \in BOOLEAN
    /\ bound \in 0..MaxBound
    /\ connected \in Nat
    /\ toplevels \in Seq(Info)
    /\ announced \in SUBSET Handles
    /\ freed \in SUBSET announced
    /\ finished \in SUBSET (Bounds \cup Starts)
    /\ saved \in SUBSET Windows
    /\ chooser \in [Starts -> {"none", "alive", "gone"}]
    /\ rows \in [Starts -> SUBSET Windows]
    /\ chooserHandles \in [Starts -> SUBSET Windows]
    /\ call \in [Starts -> Call]

\* A Start with restore data never shares a window through an entry whose
\* handle was deleted: entries that outlive their window because the slots were
\* connected more than once never get an identifier.
RestoreFindsLiveInfo ==
    \A i \in DOMAIN toplevels :
        toplevels[i].named => toplevels[i].handle \notin freed

\* The context's list is right: every entry has a handle that exists, and a
\* handle has one entry, as long as the global was announced once and stayed.
ContextListIsRight ==
    connected <= 1 =>
        /\ IsInjective([i \in DOMAIN toplevels |-> toplevels[i].handle])
        /\ \A i \in DOMAIN toplevels : toplevels[i].handle \notin freed

\* The list that the ToplevelInfo of call s is from was finished.
ListEnded(s) == IF call[s].handle = None THEN s \in finished
                                         ELSE finished \cap Bounds # {}

\* Memory is misused only in two ways: the list ends after its slots were
\* connected more than once, or the shared window, or the list it is from, goes
\* while its stream is being started.
MisuseHasCause ==
    /\ life = "double_free" => connected > 1
    /\ life = "stale_info" =>
          \E s \in Starts : /\ call[s].phase = "over"
                            /\ call[s].window # None /\ ~call[s].info
                            /\ \/ window[call[s].window] = "closed"
                               \/ ListEnded(s)

\* The windows the portal knows are windows it can use, but for these mishaps.
WindowsAreTracked ==
    /\ SharesTypeOK
    /\ RestoreFindsLiveInfo
    /\ ContextListIsRight
    /\ MisuseHasCause

\* A window's share ends with the window if the window was chosen and the
\* chooser is gone, and in no other case.  A share that was restored, whose
\* chooser is still there, or whose chooser's list was finished before the chooser
\* was gone hears nothing: its stream is kept until the session is closed.
ClosedWindowEndsShare ==
    [][\A s \in Starts, w \in Windows :
          /\ window[w] = "open" /\ window'[w] = "closed"
          /\ call[s].window = w /\ call[s].running /\ call[s].phase # "starting"
          => (call'[s].running <=>
                 call[s].handle # None \/ chooser[s] = "alive" \/ s \in finished)
      ]_sharesVars
===========================================================================
