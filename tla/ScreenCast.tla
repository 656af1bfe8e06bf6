---------------------------- MODULE ScreenCast ----------------------------
(***************************************************************************)
(* The ScreenCast portal on Wayland: sessions, the tray menu, the chooser  *)
(* dialog, the Start calls and the streams they start.                     *)
(*                                                                         *)
(* Everything runs on one Qt event loop, but startStreaming() runs an      *)
(* event loop of its own until the stream is ready or three seconds have   *)
(* passed, and every other handler of the portal may run inside it.  The   *)
(* activations of startStreaming() form a stack, of which only the top one *)
(* can return.  A loop that was told to quit still handles what its last   *)
(* round of events holds.                                                  *)
(*                                                                         *)
(* deleteLater() of a session or a chooser takes effect when control is    *)
(* back in the loop that called it; until then the object is used like any *)
(* other.  Of a stream it is taken to act at once.                         *)
(*                                                                         *)
(* A session path is used once, and xdg-desktop-portal calls Start once    *)
(* per session.  A Start shares one output or window, as the chooser and   *)
(* the restore data it writes do; which one, and the options, are left out.*)
(***************************************************************************)
EXTENDS Naturals, Sequences, SequencesExt

CONSTANTS
    Sessions,    \* session paths
    MaxStreams,  \* bound: streams ever started
    MaxReplies,  \* bound: replies after which an answered dialog is left alone
    Impatient,   \* bound: sessions whose Request is closed, or whose dialog is
                 \* closed by its title bar
    None         \* no session

ASSUME BoundsAssumption ==
    /\ MaxStreams \in Nat
    /\ MaxReplies \in Nat
    /\ Impatient \subseteq Sessions
    /\ None \notin Sessions

Nodes == 1..MaxStreams

VARIABLES
    life,      \* "running", or the object that was used after its deletion
    sess,      \* Session objects: "none", "open", "closed", "deleted"
    closedAt,  \* the loop level each session was closed in
    watched,   \* sessions whose closed() is connected to the portal's handler
    action,    \* m_sessionActions: sessions with an entry in the tray menu
    tray,      \* m_tray is shown
    started,   \* sessions whose Start has been called
    chooser,   \* the ScreenCastChooser of each session
    doomedAt,  \* the loop level each chooser was first told to go in
    windows,   \* choosers that still have their window
    requests,  \* choosers whose Request object is registered
    replies,   \* the replies sent to each session's Start
    shared,    \* m_streams of each ScreenCastSession
    stack,     \* the running activations of startStreaming()
    node,      \* every stream ever started
    owner,     \* the session each stream was started for
    listed,    \* m_streams of TreelandIntergration
    slips      \* history: what has put a stream out of its session's reach

sessionVars == <<sess, closedAt, watched, action, tray>>
dialogVars == <<chooser, doomedAt, windows, requests>>
callVars == <<started, dialogVars, replies, shared>>
streamVars == <<node, owner, listed>>
vars == <<life, sessionVars, callVars, stack, streamVars, slips>>

Life == {"running", "dead_action", "dead_dialog",
         "dead_window", "dead_stream", "dead_session"}
Session == {"none", "open", "closed", "deleted"}
Chooser == {"none", "alive", "doomed", "deleted"}
Node == {"unused", "connecting", "live", "gone"}
Reply == {"success", "failure"}   \* a failure is cancelled or an error
Slip == {"closed_while_starting", "accepted_twice",
         "wrong_stream", "failed_early"}

\* One activation of startStreaming(), with the part of
\* continueStartAfterDialog() around it.
Frame == [session : Sessions,
          dialog : BOOLEAN,     \* called by the chooser's accept()
          node : Nodes,
          valid : BOOLEAN,      \* ret is set
          quit : BOOLEAN,       \* loop.quit() was called
          late : BOOLEAN]       \* the three seconds have passed

Running == life = "running"
Top == stack[Len(stack)]
Levels == Nat   \* a loop level: the number of activations around it

Unused == {n \in Nodes : node[n] = "unused"}
NextNode == CHOOSE n \in Unused : \A k \in Unused : n <= k

---------------------------------------------------------------------------
(* The list of streams *)

\* m_streams and the streams themselves
Registry == [list |-> listed, node |-> node]

Position(list, n) == SelectInSeq(list, LAMBDA m : m = n)

\* stopStreaming() of the stream n.  The iterator is used after the erase: for
\* the first and the last stream it still finds the one erased, for any other
\* it finds the next one.  The destructor of the stream that is closed then
\* emits closed() and stops itself in the same way, and so on to the end.
StopStreaming(reg, n) ==
    LET i == Position(reg.list, n)
        len == Len(reg.list)
        after == {reg.list[j] : j \in (i + 1)..len}
    IN  IF i = 0 THEN reg
        ELSE IF i \in {1, len}
        THEN [list |-> RemoveAt(reg.list, i),
              node |-> [reg.node EXCEPT ![n] = "gone"]]
        ELSE [list |-> SubSeq(reg.list, 1, i - 1),
              node |-> [m \in Nodes |->
                           IF m \in after THEN "gone" ELSE reg.node[m]]]

\* Mutant: the destructor does not emit closed().
DeletedSilently(reg, n) == [reg EXCEPT !.node[n] = "gone"]

\* The stream n is being deleted, which emits closed().
Deleted(reg, n) ==
    LET stopped == StopStreaming(reg, n)
    IN  [stopped EXCEPT !.node[n] = "gone"]

SetRegistry(reg) == listed' = reg.list /\ node' = reg.node

---------------------------------------------------------------------------
Init ==
    /\ life = "running"
    /\ sess = [s \in Sessions |-> "none"]
    /\ closedAt = [s \in Sessions |-> 0]
    /\ watched = {}
    /\ action = {}
    /\ tray = FALSE
    /\ started = {}
    /\ chooser = [s \in Sessions |-> "none"]
    /\ doomedAt = [s \in Sessions |-> 0]
    /\ windows = {}
    /\ requests = {}
    /\ replies = [s \in Sessions |-> <<>>]
    /\ shared = [s \in Sessions |-> <<>>]
    /\ stack = <<>>
    /\ node = [n \in Nodes |-> "unused"]
    /\ owner = [n \in Nodes |-> None]
    /\ listed = <<>>
    /\ slips = {}

Answer(s, r) == replies' = [replies EXCEPT ![s] = Append(@, r)]

---------------------------------------------------------------------------
(* Sessions and the tray *)

\* CreateSession(); the portal connects its handler only when the compositor
\* offers everything streaming needs.
CreateSession(s) ==
    /\ Running /\ sess[s] = "none"
    /\ sess' = [sess EXCEPT ![s] = "open"]
    /\ action' = action \cup {s}
    /\ tray' = TRUE
    /\ \E available \in BOOLEAN :
          watched' = IF available THEN watched \cup {s} ELSE watched
    /\ UNCHANGED <<life, closedAt, callVars, stack, streamVars, slips>>

\* Mutant: the icon goes with the first session that is closed.
HandleClosedHidesTray(s) ==
    IF s \in watched
    THEN /\ action' = action \ {s}
         /\ tray' = FALSE
         /\ SetRegistry(FoldLeft(StopStreaming, Registry, shared[s]))
    ELSE UNCHANGED <<action, tray, listed, node>>

\* Mutant: the streams of the session are left alone.
HandleClosedKeepsStreams(s) ==
    IF s \in watched
    THEN /\ action' = action \ {s}
         /\ tray' = (tray /\ action' # {})
         /\ UNCHANGED <<listed, node>>
    ELSE UNCHANGED <<action, tray, listed, node>>

\* The portal's handler of Session::closed()
HandleClosed(s) ==
    IF s \in watched
    THEN /\ action' = action \ {s}
         /\ tray' = (tray /\ action' # {})
         /\ SetRegistry(FoldLeft(StopStreaming, Registry, shared[s]))
    ELSE UNCHANGED <<action, tray, listed, node>>

\* The dialog and its Request are there, answered or not.
Present(s) == chooser[s] \in {"alive", "doomed"}

\* deleteLater() of a chooser, from the loop at this level.  A second one is
\* merged with the first.
Doom(s, level) ==
    /\ chooser' = [chooser EXCEPT ![s] = "doomed"]
    /\ doomedAt' = IF chooser[s] = "alive" THEN [doomedAt EXCEPT ![s] = level]
                   ELSE doomedAt

\* Mutant: the dialog answers and stays.
RejectKeepsChooser(s) ==
    IF Present(s)
    THEN Answer(s, "failure") /\ UNCHANGED <<chooser, doomedAt>>
    ELSE UNCHANGED <<chooser, doomedAt, replies>>

\* ScreenCastChooser::reject(), if the dialog is there: the call is answered,
\* whether it was before or not, and the dialog is to be deleted.
RejectChooser(s) ==
    IF Present(s)
    THEN Answer(s, "failure") /\ Doom(s, Len(stack))
    ELSE UNCHANGED <<chooser, doomedAt, replies>>

\* Session::close(), called over D-Bus or by the tray: the handlers of closed()
\* run in the order they were connected, the chooser's last.
Close(s) ==
    /\ sess' = [sess EXCEPT ![s] = "closed"]
    /\ closedAt' = IF sess[s] = "open" THEN [closedAt EXCEPT ![s] = Len(stack)]
                   ELSE closedAt
    /\ HandleClosed(s)
    /\ RejectChooser(s)
    /\ slips' = slips \cup
          {x \in {"wrong_stream"} :
              \E n \in Nodes : Contains(shared[s], n) /\ Contains(listed, n)
                              /\ node'[n] = "live" /\ ~Contains(listed', n)}
    /\ UNCHANGED <<watched, started, windows, requests, shared, stack, owner>>

SessionClose(s) ==
    /\ Running /\ sess[s] = "open"
    /\ Close(s)
    /\ UNCHANGED life

\* The deferred deletion of a session, m_streams with it, once control is back
\* in the loop it was closed in
DeleteSession(s) ==
    /\ Running /\ sess[s] = "closed" /\ Len(stack) <= closedAt[s]
    /\ sess' = [sess EXCEPT ![s] = "deleted"]
    /\ closedAt' = [closedAt EXCEPT ![s] = 0]
    /\ shared' = [shared EXCEPT ![s] = <<>>]
    /\ UNCHANGED <<life, watched, action, tray, started, dialogVars, replies,
                   stack, streamVars, slips>>

\* The user triggers an entry of the tray menu.  m_sessionActions still holds
\* the sessions the portal does not watch after they were deleted.
TriggerAction(s) ==
    /\ Running /\ s \in action
    /\ \/ /\ sess[s] # "deleted"
          /\ Close(s)
          /\ UNCHANGED life
       \/ /\ sess[s] = "deleted"
          /\ life' = "dead_action"
          /\ UNCHANGED <<sessionVars, callVars, stack, streamVars, slips>>

---------------------------------------------------------------------------
(* Start *)

\* startStreaming() up to its event loop, for a stream of the session s
Push(s, dialog) ==
    /\ Unused # {}
    /\ stack' = Append(stack, [session |-> s, dialog |-> dialog,
                               node |-> NextNode, valid |-> FALSE,
                               quit |-> FALSE, late |-> FALSE])
    /\ node' = [node EXCEPT ![NextNode] = "connecting"]
    /\ owner' = [owner EXCEPT ![NextNode] = s]
    /\ UNCHANGED listed

\* Start() of a session that is gone, or with no screen to select
StartRefused(s) ==
    /\ Running /\ s \in watched /\ s \notin started
    /\ started' = started \cup {s}
    /\ Answer(s, "failure")
    /\ UNCHANGED <<life, sessionVars, dialogVars, shared, stack, streamVars,
                   slips>>

\* Start() goes on only for sessions whose CreateSession() succeeded: those are
\* the ones xdg-desktop-portal starts.
Startable(s) == sess[s] = "open" /\ s \in watched /\ s \notin started

\* Start() with restore data whose output or window is present
StartRestored(s) ==
    /\ Running /\ Startable(s)
    /\ started' = started \cup {s}
    /\ Push(s, FALSE)
    /\ UNCHANGED <<life, sessionVars, dialogVars, replies, shared, slips>>

\* Start() that asks the user
StartChooser(s) ==
    /\ Running /\ Startable(s)
    /\ started' = started \cup {s}
    /\ chooser' = [chooser EXCEPT ![s] = "alive"]
    /\ windows' = windows \cup {s}
    /\ requests' = requests \cup {s}
    /\ UNCHANGED <<life, sessionVars, doomedAt, replies, shared, stack,
                   streamVars, slips>>

---------------------------------------------------------------------------
(* The chooser *)

\* A dialog that was answered works as before until it is deleted.
Patient(s) == chooser[s] = "doomed" => Len(replies[s]) < MaxReplies
Usable(s) == Running /\ Present(s) /\ s \in windows /\ Patient(s)

\* accept() with an output or a window selected.  The dialog stays up, and
\* usable, until the streams are started; its session may be gone by then.
Accept(s) ==
    /\ Usable(s)
    /\ \/ /\ sess[s] # "deleted"
          /\ Push(s, TRUE)
          /\ UNCHANGED life
       \/ /\ sess[s] = "deleted"
          /\ life' = "dead_session"
          /\ UNCHANGED <<stack, streamVars>>
    /\ UNCHANGED <<sessionVars, callVars, slips>>

\* accept() when the selection has gone
AcceptNothing(s) ==
    /\ Usable(s)
    /\ Answer(s, "failure")
    /\ Doom(s, Len(stack))
    /\ UNCHANGED <<life, sessionVars, started, windows, requests, shared, stack,
                   streamVars, slips>>

Reject(s) ==
    /\ Usable(s)
    /\ RejectChooser(s)
    /\ UNCHANGED <<life, sessionVars, started, windows, requests, shared, stack,
                   streamVars, slips>>

\* handleWindowClosed(): the window is deleted, the dialog is not told.
CloseWindow(s) ==
    /\ Usable(s) /\ s \in Impatient
    /\ windows' = windows \ {s}
    /\ UNCHANGED <<life, sessionVars, started, chooser, doomedAt, requests,
                   replies, shared, stack, streamVars, slips>>

\* Close of the Request object, which goes with its dialog if not before
RequestClose(s) ==
    /\ Running /\ s \in requests /\ s \in Impatient /\ Patient(s)
    /\ requests' = requests \ {s}
    /\ RejectChooser(s)
    /\ UNCHANGED <<life, sessionVars, started, windows, shared, stack,
                   streamVars, slips>>

\* ~ScreenCastChooser(), when control is back in the loop of the deleteLater():
\* it closes its window, which may have been deleted.
DeleteChooser(s) ==
    /\ Running /\ chooser[s] = "doomed" /\ Len(stack) <= doomedAt[s]
    /\ IF s \in windows
       THEN /\ chooser' = [chooser EXCEPT ![s] = "deleted"]
            /\ doomedAt' = [doomedAt EXCEPT ![s] = 0]
            /\ windows' = windows \ {s}
            /\ requests' = requests \ {s}
            /\ UNCHANGED life
       ELSE /\ life' = "dead_window"
            /\ UNCHANGED dialogVars
    /\ UNCHANGED <<sessionVars, started, replies, shared, stack,
                   streamVars, slips>>

---------------------------------------------------------------------------
(* The event loops of startStreaming() *)

\* The lambda connected to ready()
Ready(i) ==
    /\ Running /\ i \in DOMAIN stack
    /\ LET n == stack[i].node
       IN  /\ node[n] = "connecting"
           /\ SetRegistry([list |-> Append(listed, n),
                           node |-> [node EXCEPT ![n] = "live"]])
    /\ stack' = [stack EXCEPT ![i].valid = TRUE, ![i].quit = TRUE]
    /\ UNCHANGED <<life, sessionVars, callVars, owner, slips>>

\* The lambda connected to failed(): the stream is left alone.
Failed(i) ==
    /\ Running /\ i \in DOMAIN stack
    /\ node[stack[i].node] = "connecting"
    /\ stack' = [stack EXCEPT ![i].quit = TRUE]
    /\ UNCHANGED <<life, sessionVars, callVars, streamVars, slips>>

\* A stream that failed gets ready after its startStreaming() has returned.
ReadyUnheard(n) ==
    /\ Running /\ node[n] = "connecting"
    /\ \A i \in DOMAIN stack : stack[i].node # n
    /\ node' = [node EXCEPT ![n] = "live"]
    /\ slips' = slips \cup {"failed_early"}
    /\ UNCHANGED <<life, sessionVars, callVars, stack, owner, listed>>

\* Mutant: the limit does not end the loop.
TimeoutKeepsLoop(i) ==
    /\ Running /\ i \in DOMAIN stack /\ ~stack[i].late
    /\ LET n == stack[i].node
       IN  IF node[n] = "gone"
           THEN life' = "dead_stream" /\ UNCHANGED <<listed, node>>
           ELSE SetRegistry(Deleted(Registry, n)) /\ UNCHANGED life
    /\ stack' = [stack EXCEPT ![i].late = TRUE]
    /\ UNCHANGED <<sessionVars, callVars, owner, slips>>

\* The three second limit, which may run out in the iteration that ends the
\* loop, or while the loop waits for those above it.
Timeout(i) ==
    /\ Running /\ i \in DOMAIN stack /\ ~stack[i].late
    /\ LET n == stack[i].node
       IN  IF node[n] = "gone"
           THEN life' = "dead_stream" /\ UNCHANGED <<listed, node>>
           ELSE SetRegistry(Deleted(Registry, n)) /\ UNCHANGED life
    /\ stack' = [stack EXCEPT ![i].late = TRUE, ![i].quit = TRUE]
    /\ UNCHANGED <<sessionVars, callVars, owner, slips>>

\* The rest of a Start() or an accept(), once it has its response.
Return(f, response) ==
    /\ Answer(f.session, response)
    /\ stack' = Front(stack)
    /\ IF ~f.dialog THEN UNCHANGED <<life, chooser, doomedAt>>
       ELSE IF chooser[f.session] = "deleted"
       THEN life' = "dead_dialog" /\ UNCHANGED <<chooser, doomedAt>>
       ELSE Doom(f.session, Len(stack) - 1) /\ UNCHANGED life

\* Mutant: continueStartAfterDialog() does not check the session.
StartedUnchecked ==
    /\ Running /\ stack # <<>> /\ Top.quit /\ Top.valid
    /\ LET s == Top.session
       IN  /\ shared' = [shared EXCEPT ![s] = <<Top.node>>]
           /\ Return(Top, "success")
           /\ slips' = slips \cup {x \in {"accepted_twice"} : shared[s] # <<>>}
    /\ UNCHANGED <<sessionVars, started, windows, requests, streamVars>>

\* loop.exec() returns a stream: continueStartAfterDialog() hands it to the
\* session if that has not been deleted, closed or not.
Started ==
    /\ Running /\ stack # <<>> /\ Top.quit /\ Top.valid
    /\ LET s == Top.session
       IN  /\ \/ /\ sess[s] = "deleted"
                 /\ Return(Top, "failure")
                 /\ UNCHANGED shared
              \/ /\ sess[s] # "deleted"
                 /\ shared' = [shared EXCEPT ![s] = <<Top.node>>]
                 /\ Return(Top, "success")
           /\ slips' = slips
                 \cup {x \in {"closed_while_starting"} : sess[s] # "open"}
                 \cup {x \in {"accepted_twice"} : shared[s] # <<>>}
    /\ UNCHANGED <<sessionVars, started, windows, requests, streamVars>>

\* loop.exec() returns without a stream.
NotStarted ==
    /\ Running /\ stack # <<>> /\ Top.quit /\ ~Top.valid
    /\ Return(Top, "failure")
    /\ UNCHANGED <<sessionVars, started, windows, requests, shared, streamVars,
                   slips>>

LoopReturns == Started \/ NotStarted

\* A listed stream emits closed(): PipeWire disconnects it, its screen is
\* removed or its window closed.
StreamClosed(n) ==
    /\ Running /\ Contains(listed, n)
    /\ SetRegistry(StopStreaming(Registry, n))
    /\ slips' = IF node'[n] = "live" THEN slips \cup {"wrong_stream"} ELSE slips
    /\ UNCHANGED <<life, sessionVars, callVars, stack, owner>>

---------------------------------------------------------------------------
Portal == \E s \in Sessions :
    \/ CreateSession(s) \/ SessionClose(s) \/ DeleteSession(s) \/ TriggerAction(s)
    \/ StartRefused(s) \/ StartRestored(s) \/ StartChooser(s)

Dialogs == \E s \in Sessions :
    \/ Accept(s) \/ AcceptNothing(s) \/ Reject(s)
    \/ CloseWindow(s) \/ RequestClose(s) \/ DeleteChooser(s)

Streaming ==
    \/ \E i \in Nodes : Ready(i) \/ Failed(i) \/ Timeout(i)
    \/ \E n \in Nodes : ReadyUnheard(n) \/ StreamClosed(n)
    \/ LoopReturns

Next == Portal \/ Dialogs \/ Streaming

Spec == Init /\ [][Next]_vars

\* The user settles a dialog that has not been answered.
Settle(s) ==
    /\ chooser[s] = "alive"
    /\ Accept(s) \/ AcceptNothing(s) \/ Reject(s)

\* Qt runs its timers and deferred deletions and returns from loops that were
\* quit; the user answers a dialog.
Fairness ==
    /\ WF_vars(LoopReturns)
    /\ \A i \in Nodes : WF_vars(Timeout(i))
    /\ \A s \in Sessions :
          /\ WF_vars(DeleteChooser(s)) /\ WF_vars(DeleteSession(s))
          /\ WF_vars(Settle(s))

---------------------------------------------------------------------------
(* Properties *)

TypeOK ==
    /\ life \in Life
    /\ sess \in [Sessions -> Session]
    /\ closedAt \in [Sessions -> Levels]
    /\ watched \in SUBSET Sessions
    /\ action \in SUBSET Sessions
    /\ tray \in BOOLEAN
    /\ started \in SUBSET Sessions
    /\ chooser \in [Sessions -> Chooser]
    /\ doomedAt \in [Sessions -> Levels]
    /\ windows \in SUBSET Sessions
    /\ requests \in SUBSET Sessions
    /\ replies \in [Sessions -> Seq(Reply)]
    /\ shared \in [Sessions -> Seq(Nodes)]
    /\ stack \in Seq(Frame)
    /\ node \in [Nodes -> Node]
    /\ owner \in [Nodes -> Sessions \cup {None}]
    /\ listed \in Seq(Nodes)
    /\ slips \in SUBSET Slip

\* The tray offers to stop every open session, and its icon is there as long as
\* its menu has an entry, so that a user who is being recorded can see it.
TrayOffersStop ==
    /\ \A s \in Sessions : sess[s] = "open" => s \in action
    /\ tray <=> action # {}

\* An entry outlives its session only when the portal refused the session
\* because streaming was not available.
StaleActionIsRefused ==
    \A s \in action : sess[s] = "open" \/ s \notin watched

\* The tray tells the truth: besides the variables being in their ranges, it has
\* an entry for every open session and none for a closed one it watched.
TrayIsTruthful == TypeOK /\ TrayOffersStop /\ StaleActionIsRefused

\* m_streams holds streams that exist, each once: nothing is deleted behind the
\* back of the list, however stops, timeouts and destructors nest.
ListIsLive ==
    /\ \A i \in DOMAIN listed : node[listed[i]] = "live"
    /\ IsInjective(listed)

\* A stream is within reach when its Start call is still running, or its
\* session is open and will stop it.
Starting(n) == \E i \in DOMAIN stack : stack[i].node = n
InReach(n) == \/ Starting(n)
              \/ /\ Contains(listed, n)
                 /\ \E s \in Sessions : sess[s] = "open" /\ Contains(shared[s], n)

\* No screen or window is captured out of reach of the tray and the session,
\* but after one of four mishaps: the session was closed while it was starting,
\* the chooser was accepted twice, a middle stream of three was stopped, or a
\* capture failed before its stream was ready.
OutOfReachHasCause ==
    (\E n \in Nodes : node[n] = "live" /\ ~InReach(n)) => slips # {}

\* A Start call gets a second answer only from a dialog that is starting a
\* stream, or that was answered and is not yet deleted: once both are over, no
\* button, Close of the Request or Close of the session answers it again.
SecondAnswerNeedsDialog ==
    [][\A s \in Sessions :
          replies[s] # <<>> /\ replies'[s] # replies[s]
              => \/ chooser[s] = "doomed"
                 \/ \E i \in DOMAIN stack : stack[i].session = s /\ stack[i].dialog]_vars

\* A Start call is answered with success only for a session that is not yet
\* deleted and is told of the stream: one that was started for it and that its
\* end will find, unless stopStreaming() missed one.  The tray can end it, unless
\* it was closed already and waits for its deletion.
SuccessIsStoppable ==
    [][\A s \in Sessions :
          replies'[s] # replies[s] /\ Last(replies'[s]) = "success"
              => /\ sess[s] # "deleted"
                 /\ sess[s] = "open" => s \in action /\ tray
                 /\ shared'[s] # <<>>
                 /\ \A i \in DOMAIN shared'[s] :
                       LET n == shared'[s][i]
                       IN  /\ owner[n] = s
                           /\ \/ node'[n] = "gone" \/ Contains(listed', n)
                              \/ "wrong_stream" \in slips']_vars

\* A session that the portal watches, and that is not being started, takes its
\* streams with it unless stopStreaming() missed one.
CloseStopsStreams ==
    [][\A s \in watched :
          sess[s] = "open" /\ sess'[s] = "closed" /\ "wrong_stream" \notin slips'
              => \A i \in DOMAIN shared[s] : node'[shared[s][i]] # "live"]_vars

\* Every Start call is answered, even when its loop waits for others, unless
\* the user closes the chooser's window by its title bar.
StartIsAnswered ==
    \A s \in Sessions :
        s \in started ~> \/ replies[s] # <<>>
                         \/ ~Running
                         \/ (chooser[s] = "alive" /\ s \notin windows)

\* "Stop [%1] Sharing": once a session has been stopped, and no Start call is in
\* progress, nothing it shared is captured any more.
StopEndsSharing ==
    \A n \in Nodes :
        owner[n] # None /\ sess[owner[n]] \in {"closed", "deleted"} /\ stack = <<>>
            => node[n] # "live"

\* "Stop [%1] Sharing" stops the sharing of that application and of no other.
StopSparesOthers ==
    [][\A s \in Sessions :
          sess[s] = "open" /\ sess'[s] = "closed"
              => \A n \in Nodes : owner[n] # s => node'[n] = node[n]]_vars
===========================================================================
