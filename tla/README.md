# Verification of xdg-desktop-portal-dde

TLA+ models of the DDE backend of xdg-desktop-portal, their model-checking
configurations for TLC, and proofs checked by TLAPS. Paths below are relative
to the repository root, which is `src/`: the C++ sources are in `src/src/`.

## 1. The system

The program is one process with one Qt event loop. On Wayland (treeland) it
serves the portals ScreenCast, Screenshot, Wallpaper and FileChooser; on X11
it serves the portals behind `DDesktopPortal` (FileChooser, AppChooser, Access,
Inhibit, Notification, Settings, Account, Screenshot and stubs).
There are no threads of its own: PipeWire's loop is driven through a
`QSocketNotifier`, the Wayland queue through Qt, timers through `QTimer`. What
makes it hard is that

- a handler may run an event loop of its own (`QEventLoop::exec`,
  `QDialog::exec`), inside of which every other handler may run, and which can
  return only after those above it;
- three peers (PipeWire, the compositor, DBus) send events that cross;
- objects are deleted by several owners: Qt parents, `deleteLater`, destructors
  that emit signals.

| part | state it keeps | operations | peers |
|---|---|---|---|
| screencast stream (`wayland/abstractpipewirestream.cpp`, `outputpipewirestream.cpp`, `toplevelpipewirestream.cpp`) | pool buffers and source buffers, `m_currentFrame`, `m_frame`, `m_frameState`, `m_timer`, damage, pending and current constraints, `m_avoidDMAbufs` | PipeWire callbacks state/param/add/remove/process, frame and session events, timer, create/destroy | PipeWire, compositor, `TreelandIntergration` |
| frame-rate limiter (`wayland/fpslimit.c`) | the time of the last frame | measure start, measure end | the stream, its timer |
| `TreelandIntergration` (`wayland/treelandintegration.cpp`) | `m_streams` | `startStreaming`, `stopStreaming` | streams, portal |
| ScreenCast portal (`wayland/screencastportal.cpp`, `session.cpp`, `screencastsession.cpp`, `request2.cpp`, `screencastchooser.cpp`) | `m_sessionActions`, `m_tray`, each session's `m_streams`, `m_closed`, the chooser and its window | CreateSession, SelectSources, Start, Session.Close, Request.Close, tray entries, chooser buttons | DBus, user, integration |
| ScreenCast context (`wayland/screencastcontext.cpp`) | `m_toplevels`, compositor globals | toplevel events, activation of the list | compositor, Start with restore data |
| chooser models (`wayland/toplevelmodel.cpp`, `screenlistmodel.cpp`) | rows, the handles behind them | add, remove, reset, finish | compositor, QML views, chooser |
| PipeWire core (`wayland/pipewirecore.cpp`) | connection | connect, error, notifier | PipeWire |
| Wayland Screenshot (`wayland/screenshotportal.cpp`) | `pendingCapture`, images | Screenshot, frame ready/failed | compositor, DBus |
| X11 dialogs (`filechooser.cpp`, `appchooser.cpp`, `access.cpp`, `accessdialog.cpp`, `request.cpp`) | open dialogs, `m_appChooserDialogs`, countdown | one call per dialog, Request.Close, UpdateChoices | DBus, user |
| Inhibit (`inhibit.cpp`) | one Request per inhibition | Inhibit, reply, Close | session manager |
| Notification (`notification.cpp`) | `m_idInfoMap`, `m_idMaps` | Add, Remove, action | notification service |
| Wallpaper (`wallpaper.cpp`, `wayland/protocols/wallpapermanagerclient.cpp`) | none of its own: requests on their way, what the compositor shows | SetWallpaperURI | compositor |
| Settings, Account, Lockdown, Background, GlobalShortcuts, Secret | none, or values of others | read, stubs | DConfig, DBus |

What makes each part correct:

- **Stream, capture cycle.** It holds at most one buffer of PipeWire, knows
  which, returns it, labels it good only if it was just captured into, reports
  all damage, and never touches a source buffer that is gone.
- **Stream, formats.** It offers what the compositor's last constraints allow,
  agrees with PipeWire on one of the offers, and survives offers that cross
  with new constraints.
- **ScreenCast portal.** Whoever captures a screen can be seen and stopped in
  the tray; every Start gets one answer; stopping one application spares the
  others; nothing deleted is used.
- **Screenshot, dialogs.** Every call is answered although the loops nest; a
  Close reaches its dialog.
- **Windows and choosers.** The windows the portal knows exist, what Accept
  shares is what was clicked, and a share ends with its window.
- **Inhibit, Notification, Wallpaper, application chooser, filters.** What was
  acquired for a caller is released when the caller says so, actions reach
  their owner, a reply says what was done, and a choice is the user's.
- **Limiter.** No frame is captured sooner than the negotiated rate allows.

`PROJECT.json` lists all components with their status, and under `hazards` the
lines where each of these is hard to get right.

## 2. Modules

| module | models | source |
|---|---|---|
| `BufferLoan` | what a stream promises PipeWire: one buffer borrowed at a time and given back | abstract |
| `FrameCapture` | the capture cycle of one stream | `abstractpipewirestream.cpp` 246-600, 732-1058 |
| `FrameCaptureProofs` | theorems about `FrameCapture` | |
| `FormatNegotiation` | constraints, offers, modifier fixation and fallback of one stream | `abstractpipewirestream.cpp` 293-434, 632-935, 1004-1287, `pipewireutils.cpp` |
| `FormatNegotiationProofs` | theorems about `FormatNegotiation` | |
| `ScreenCast` | portal, sessions, tray, chooser, Start calls and the list of streams | `screencastportal.cpp`, `treelandintegration.cpp`, `session.cpp`, `request2.cpp`, `screencastchooser.cpp` |
| `ScreenCastProofs` | theorems about `ScreenCast` | |
| `NestedCalls` | what calls that wait inside of each other promise: each answered once, last in, first out | abstract |
| `PortalDialogs` | the dialogs of the X11 portals, their Requests and countdowns | `filechooser.cpp`, `appchooser.cpp`, `access.cpp`, `accessdialog.cpp`, `request.cpp` |
| `PortalDialogsProofs` | theorems about `PortalDialogs` | |
| `SharedWindows` | the context's list of windows, the handles of the choosers, and the Starts that share windows | `screencastcontext.cpp`, `toplevelmodel.cpp`, `toplevelpipewirestream.cpp`, `screencastportal.cpp` |
| `SourceChooser` | rows, views and Accept of the chooser | `toplevelmodel.cpp`, `screenlistmodel.cpp`, `screencastchooser.cpp`, the QML of the dialog |
| `WindowsProofs` | theorems about `SharedWindows` and `SourceChooser` | |
| `Lists` | lists some elements are left out of, in a form that can be proved about | helper |
| `FramePacing` | the limiter, its timer and the negotiated rate | `fpslimit.c`, `abstractpipewirestream.cpp` |
| `Inhibit` | inhibitions, Requests and the session manager | `inhibit.cpp`, `request.cpp` |
| `Notification` | the two maps against the daemon | `notification.cpp` |
| `FileFilters` | filters from the options to the reply | `filechooser.cpp` |
| `AppPicker` | the list behind an application chooser | `appchoosermodel.cpp`, `appchooserdialog.cpp` |
| `Wallpaper` | SetWallpaperURI and the compositor | `wallpaper.cpp`, `wallpapermanagerclient.cpp` |
| `ServicesProofs` | theorems about these six | |
| `SequenceFacts` | lemmas about numbers and lists that the other proofs use | |
| `Screenshot` | full and interactive screenshots on Wayland | `screenshotportal.cpp`, `protocols/treelandcapture.cpp`, `protocols/screencopy.cpp` |
| `ScreenshotProofs` | theorems about `Screenshot` | |
| `MC*` | constants and symmetry for TLC | |

The two stream modules split one class along its data: the capture cycle reads
neither constraints nor formats (a buffer either got its source buffer or
failed to, which `AddBufferFails` leaves open), and negotiation does not read
frames or buffers. `ScreenCast` sees a stream as connecting, live or gone;
`FrameCapture` is what happens while it is live, and `FramePacing` replaces
the free choice `FrameCapture` makes for the limiter by the limiter. Likewise
`SharedWindows` is what `ScreenCast` leaves out: which window a Start shares.

### FrameCapture

One atomic action per callback. `slot` says where each `pw_buffer` is (absent,
free in PipeWire's queue, held by the portal, or with the consumer and how it
was labelled); `src` is `m_buffers`; `cur`/`curSrc` are `m_currentFrame`;
`frame` is the buffer `m_frame` captures into; `timer`, `frameState`, `err`,
`seq` are `m_timer`, `m_frameState`, `m_err`, `m_seq`. `damaged` is the set of
source buffers with a non-empty damage region. `interrupted` and `unreported`
are history variables: the capture in progress lost its buffer to a pause or a
removal; there is damage no good buffer has reported.
`enqueueBuffer()`, `startframeCapture()`, `createImageCaptureFrame()` are
operators the handlers conjoin, with the handler's own arguments. The limiter's
result is a free choice in `Process`: capture now or start the timer.
`life` ends in a crash where `enqueueBuffer()` reads the source buffer of a
buffer that has none, which it does for the damage and for a debug message whose
arguments are evaluated only while the logging category is on (`DebugLogged`),
and in `"aborted"` at the assertions of `onStreamAddBuffer()` about the memory
(`AddBufferAborts`).
`Recycle`, and the manager coming and going, are external.

### FormatNegotiation

`pending`/`current` are the two constraint sets (modifier pairs, shared-memory
formats, gbm device); `devices` the gbm devices open; `offered` the parameters
of the last `pw_stream_update_params()`, `known` those PipeWire has received,
`picked` its choice on the way back, `negotiated` the format buffers are made
for. `life` ends in the way the code goes wrong: `abort`
(`pipewireutils.cpp:105`), `null_device` (gbm called with NULL), `assertion`
(line 315), `no_planes` (line 215: a format whose modifier the device knows no
planes for), `bad_close` (the clean-up of a half-made buffer closes descriptors
that are not its own). `PickFormat`, `ParamsArrive` are PipeWire, external.
Which modifiers a device has planes for differs from device to device
(`Renderable`), and the modifier a fixated format gets is the one the driver
reports of the buffer it allocated, which need not be one that was asked for.
Left out: sizes, frame rates, the layout of pods.

### ScreenCast

`startStreaming()` runs a `QEventLoop`; `stack` holds its activations, each
with its session, stream, and whether the loop was quit. Only the innermost
activation can return, but until it does every handler may run, even if the loop
was told to quit: Qt first finishes the round of events it is in. `Started` and
`NotStarted` are what follows `loop.exec()` up to the reply. `StopStreaming` is
an operator on the list because the erase, the close of the *next* element and
that element's destructor, which stops itself in the same way, happen in one
call: it is folded over the streams of a session.

`deleteLater()` acts when control is back in the loop that called it, and not
before. A session is `closed` and then `deleted`, a chooser `doomed` and then
`deleted`; `closedAt` and `doomedAt` are the loop levels `DeleteSession` and
`DeleteChooser` wait for. In between the object is used like any other: a stream
that is ready in time is given to a closed session and answered with success,
and a dialog that was answered answers again when its button, its Request or its
session's `closed()` asks it to. `requests` are the choosers whose Request is
still registered. A stream's deletion at the three-second limit is taken to act
at once: that the same round of events still brings its `ready()` is left out.

`life` ends where a deleted object is used: an action of the tray, the chooser
after `accept()`, its window, the session of an accepted dialog, or a stream in
the three-second handler. `slips` is a history variable naming what put a stream
out of reach.

Assumed of the peers: a session path is used once, xdg-desktop-portal calls
Start once per session and only if CreateSession succeeded, and a Start shares
one source (the chooser and restore data give one). SelectSources and options
are left out, as is which output or window is shared.

### PortalDialogs

Each call runs `QDialog::exec()`; `stack` holds the open dialogs, `result` what
`done()` set, `remaining` the countdown of an access dialog. `Return` is what
follows `exec()` up to the reply: `Responses` is the code each method makes of
the result, `EndDialog` what becomes of its dialog and Request. A Request is
registered at its handle (`registered`) unless the path is taken; `doomed`
holds the deferred deletions with the loop level that asked for them, because
Qt runs `deleteLater()` only when control is back in that loop. `by` is a
history variable: who finished the dialog. Of `handle` it is assumed that
xdg-desktop-portal uses it again only when the call it belonged to was
answered. The five methods differ in what is listed in `Responses` and
`EndDialog`: AccessDialog() has no Request and returns the index of a button,
SaveFiles() makes its Request a child of the portal, which outlives the call.
Left out: options, labels, filters and what is chosen.

### Screenshot

`stack` holds the calls whose `QEventLoop` runs, `quit` those whose loop was
told to quit; `pending` is `pendingCapture`, `frame` the life of each capture,
`phase` the user's selection in `captureInteractively()`, whose two loops are
one `QEventLoop` run twice. `SaveScreens`, `CaptureSource` and `SaveSource` are
what follows each `exec()`. `life` ends when a screen that was deleted is asked
for its geometry. The picture is what was captured for it; whether it can be
saved is left open. `getContext()` never returns null and PickColor() is a
stub.

In these two modules a loop that was told to quit is assumed to handle no further
event before it returns; `ScreenCast` does without that assumption. Both
implement `NestedCalls`.

### SharedWindows

There are several lists of windows: the one of `ScreenCastContext`, which lives
as long as the portal, and one for each open chooser. `toplevels` is
`m_toplevels` of the context, an entry being its handle and whether its
identifier has come; a handle is a window and the announcement of the global it
came with. `connected` counts the connections the lambda on `activeChanged`
has made; `ToplevelAdded` adds one entry for each. `rows` is what the models of
the choosers list, `chooserHandles` the handles that exist of those they ever
listed: a closed window, or a list that is finished, takes the handles of the
rows with it, and what a chooser still listed when it was deleted stays behind
without an owner. `freed` has the context's handles that were deleted. The order in which
one signal calls its receivers is what matters when a window closes: whoever
connected first deletes the handle, so a stream hears of the end only of a
handle that exists and that nobody owns any more (`StreamHears`). `life` ends where a handle is
deleted twice or a deleted `ToplevelInfo` is read. Restore data is `saved`.
Assumed: identifiers are unique, and a Start shares one window.

### SourceChooser

The two models of the dialog (`listed`, `outputs`), what their views know
(`count`, `index`, `outputIndex`), and `next`, the row a `ListView` will
take over when it is polished. `AcceptRow` is `selectedToplevels()` and
`selectedOutputs()`: the row of the model at the number of the view. `clicked`,
`tapped` and `replugged` are history. How a `ListView` moves its current index
when rows come and go is Qt's, and external.

### FramePacing

Time in ticks since the clock was last started (`since`, up to a second);
`left` is what is left of the timer. `Process` asks `MeasureEnd` for the delay
and rounds it down to milliseconds; `HandleTimeOut` may be early by `Early`.
Only a `HandleFrameReady` starts the clock again. `Pause` gives the buffer back
and counts it, `RemoveBuffer` only forgets it. Rates are integers.

### Inhibit, Notification, FileFilters, AppPicker, Wallpaper

- `Inhibit`: `stage` is what became of a call, `object` the Request that is
  registered at each path, `inhibited` the cookies the session manager holds.
  `front` is the application's side, with `"unheard"` for a Close() that met no
  object; `Inhibit`'s guard on paths is xdg-desktop-portal's.
- `Notification`: `idInfoMap` and `idMaps` are the two maps, with ages in
  place of time stamps; `shown` and `last` are the daemon's. It may leave the
  bus and return, counting from one again, and while it is there it may answer
  with an error, or show the notification and answer too late: the portal then
  goes on with the number 0. `told` is history: how long ago the portal was told
  each number.
- `FileFilters`: lists of patterns and MIME types become the entries of the
  dialog, and what is selected there becomes a list again. The text
  "name(patterns)" is the pair of its parts: two lists whose texts are equal
  only after white space is simplified are not told apart from equal ones.
- `AppPicker`: the dialog and the loading of its list are independent; `datas`
  holds the marks. `ClickById` marks a copy, as the code does.
- `Wallpaper`: `wire` is the queue of requests of each screen. The object that
  would hear of a failure is deleted before it can, so `Fail` changes nothing
  but the history of what was `disappointed`.

## 3. Runs

| run | question | bounds |
|---|---|---|
| `frame_capture` | the pool, what is captured where, stalls and their causes, damage; `BufferLoan` as the abstract specification; buffers keep flowing | 2 buffers, both metas |
| `format_negotiation` | offers follow constraints; devices; what a crossing pick can and cannot do; negotiation settles | 2 fourccs, one of them unknown to PipeWire and one with alpha, one explicit and the implicit modifier, 2 devices |
| `format_negotiation_stale` | violation of the assertion in line 315 | as `format_negotiation` |
| `screencast` | tray, list of streams, answers, reach | 2 sessions with 2 streams, or 1 with 3 that uses an answered dialog until 2 replies were sent |
| `screencast_liveness` | every Start is answered | 2 sessions with 2 streams, no closed Requests or windows, or 1 with 3 |
| `screencast_stop` | violation: stopping ends the sharing | 2 sessions, 1 stream |
| `screencast_spares` | violation: stopping one spares the others | 3 sessions, 3 streams |
| `portal_dialogs` | open dialogs are known under their handle, closes reach them, paths are freed, success is consent; implements `NestedCalls`; the countdown ends an access dialog | 3 calls, 2 handles, countdown of 1 |
| `portal_dialogs_timeout` | violation: the end of the countdown denies | 2 calls, countdown of 2 |
| `screenshot` | the counter is exact, pictures are complete, unplugged screens; implements `NestedCalls`; every call is answered, or stuck for a named reason | 2 calls, up to 2 screens |
| `wayland_parts` | the windows the portal knows, which shares end with their windows, what Accept takes; the limiter; wallpapers | 2 windows, 2 Starts, 2 announcements of the global; in the chooser 3 windows, one the portal's own, and 2 screens; rates 0, 1 and 5 with 12 ticks a second; 1 screen, 3 files, 2 requests |
| `x11_parts` | an inhibition held can be released, and what was closed is released; notifications; filters; the list of an application chooser | 3 inhibitions at 2 paths; 2 applications, 2 ids and 2 numbers; 2 lists of up to 2 filters; 2 applications to choose from |

`wayland_parts` and `x11_parts` each check modules that have no step in common.
Their behaviours pick one of them with the constant variable `part` and leave
the variables of the others alone, so that the run is the sum of the modules'
state spaces and not the product. In `wayland_parts` the global is announced
twice only where one window is ever open (`Few`). The two runs of
`MCScreenCastParts` tell one application from two in the same way (`Bounded`).
The symmetry of `x11_parts` exchanges applications and ids of the notifications;
no state of `Inhibit`, which its liveness property is about, has any of them.

Why these bounds are enough to meet the cases: two buffers are what the stream
asks PipeWire for, and let one be in hand while the other is captured into
although it left the hand, or is with the consumer. Two sets of constraints
exist in the code, so two devices can be open
at a time. With two sessions and two streams a chooser can be accepted twice, or once
while the other application's Start is nested inside; the third stream, and a
second reply of an answered dialog, are tried with one session. Three listed
streams are what it takes for one to be in the middle of the list. Three calls over two
handles let a handle be used again below, above and after a call that had it;
a countdown's length only delays its end.
Two screenshots let one end while the other waits below it. With two screens one capture can
end, or one screen go, before the other. Two Starts share the same window
through different handles, or one restores what the other saved; two
announcements connect the slots of the context a second time. Three rows let the
clicked one have a neighbour on either side. Three inhibitions at two paths let
a path be used again while the Request of the call before is late. Two numbers
let a notification be added after another one aged. Of the rates, 0 is a screen
without one, 1 the longest interval and 5 does not divide the second evenly.
Calls are capped by `MaxCalls`, the
countdown starts at `Seconds` (15 in the code), streams are numbered
and `MaxStreams` of them start; a dialog that was answered and is not deleted yet
is left alone after `MaxReplies` replies; only the sessions in `Impatient`, and
only in the parts in `Hasty`, have their Request or their window closed (where
that is left out the question is another, and the run is cheaper); `MaxBound`, `MaxNumber`, `MaxLists` and
`MaxWire` bound announcements, numbers, lists and queues; `defaultTimeout` is 5
in the code.

Deadlock is not checked: a destroyed stream, a process that crashed, a dialog
that was answered or a system whose sessions are all closed really stops.

### Fairness

- `FrameCapture`: the event loop runs a due timer (`HandleTimeOut`), the
  compositor answers a capture with ready or failed (the protocol demands it),
  the consumer recycles, and PipeWire calls process while a buffer is free.
  No fairness is assumed of anything that changes the stream's state.
- `FormatNegotiation`: PipeWire's messages arrive in both directions, and a
  pick is made when one is possible. The compositor is not fair.
- `ScreenCast`: Qt runs timers and the deferred deletions of choosers and
  sessions, a loop that was quit returns when it is the innermost, and the user
  answers a dialog that has not been answered (`Settle`).
  Nothing is assumed of ready() or failed(): the three-second limit is what
  ends a loop.
- `PortalDialogs`: Qt runs countdowns and returns from loops that were left.
  Users may never answer.
- `Inhibit`: the session manager answers and gets its messages, and Qt delivers
  replies and deletes what is to be deleted. Applications need not close
  anything. The rest of `x11_parts`, and `wayland_parts`, take no fairness.
- `Screenshot`: the user makes a selection or drops it, the compositor offers a
  buffer for a capture and answers one that was copied, as the protocols say;
  nothing is assumed about a capture whose buffers were unsuitable.

### What the violations show

- `FourccIsKnown`: PipeWire's pick crosses with a new batch (or with the
  fallback of the format before); `hasDrmFourcc()` is then false and the
  assertion in `onStreamParamChanged()` fails.
- `StopEndsSharing`: the session is closed while `startStreaming()` waits.
  `continueStartAfterDialog()` finds it gone and returns; the stream is in
  `m_streams` and captures on, and no tray entry stops it.
- `StopSparesOthers`: `stopStreaming()` uses its iterator after `erase()`. Of
  three shares, stopping the second closes the third one's stream.
- `TimeoutDenies`: the end of the countdown calls `reject()`, whose result 0
  AccessDialog() returns as the response, and 0 means success. The same holds
  of the Deny button; Grant returns 1, cancelled.

The passing runs of the same components are stated around these: what goes
wrong outside of the named causes would be reported.

- `OutOfReachHasCause`: a live stream nobody can stop needs one of four
  mishaps. Two of them are the findings above; the others are a second accept
  of the chooser during the first and a `failed()` before `ready()`.
- `StallHasCause`, `PoolIsSound`: a stalled stream has lost its source
  manager, had a capture fail, or had an error from `m_err`.
- `CurrentOffersAreSafe`: a pick that is still offered trips nothing.
- `OfferedFormatsHavePlanes`: buffers are made with a block for each plane of the
  device in use. A format for which the device has no plane was withdrawn while
  PipeWire's pick was on its way, or has a modifier the driver reported on its
  own.
- `SecondAnswerNeedsDialog`: a Start is answered twice only by a dialog that is
  starting a stream or is about to be deleted.
- `SuccessIsStoppable`: success is answered only for a session that exists and
  knows the stream, so that its end ends the stream; a session that was closed a
  moment before has no tray entry any more.
- `CloseReachesDialog`: only the Request of an earlier SaveFiles() or
  application chooser with the same handle can keep a dialog from being closed.
- `ScreenshotIsAnswered`: a call that hangs has no screen, a dropped selection
  (`sourceFailed()` has no receiver) or only unsuitable buffers, or lies below
  one that has. The process ends only with a screen that was unplugged after its
  buffer was made (`LostScreen`).
- `WindowsAreTracked`: memory is misused only if the list of windows ends after
  its slots were connected twice, or the shared window or its list goes while
  the stream is being started.
- `ClosedWindowEndsShare` is an equivalence: the share of a closed window runs
  on exactly if it was restored, its chooser still exists, or its chooser's list
  was finished before the chooser was deleted.
- `AcceptTakesClicked`: something else than what was clicked is shared only if
  that has left the list, the view was not polished since the list changed, or
  screens were plugged in or out.
- `InhibitionIsOwned`, `ClosedIsReleased`: an inhibition is left without a
  Request only at a path where a Close() came before the session manager's
  answer.
- `NotificationsKeepTheirOwner`: nothing is taken for another's while the daemon
  runs, a notification is known for five seconds after its number was told
  whatever the daemon answers afterwards, and nothing is closed for another, for
  the reason that RemoveNotification() closes nothing that was shown.
- `WallpaperIsAsWanted`: an application that was told Success may be wrong only
  where a request was never sent or has failed.

## 4. Proofs

`FrameCaptureProofs` proves, for every pool of buffers and every set of
metadata, the safety properties `frame_capture` checks, and that the stream
implements `BufferLoan`. Assumptions: `None` and `Orphan` are different and are
not buffers; the metas are among header and damage; debug messages are logged or
not (`LoggingAssumption`).

The invariant is `IInv`: the state invariants of the run, part by part, and two more
facts that make them inductive. `SourceOrError`: the pool and `m_buffers`
differ only after `m_err` was set, and only a streaming stream holds a buffer;
without it, `CrashNeedsFailedAdd` is not preserved by `Process`, which takes a
buffer from the pool and its source buffer from `m_buffers`.
`DamageIsRecorded`: unreported damage is recorded by some source buffer and by
the one being captured, which `DamageReported` needs when the capture is
queued. Every theorem has one step per action.

`FormatNegotiationProofs` proves, for every set of fourccs, modifiers and
devices, the safety properties `format_negotiation` checks. Assumption: which
fourccs PipeWire knows and which modifier is the implicit one are given
(`FormatsAssumption`). Besides type correctness and the state invariants
of the run, `IInv` says that only formats with a known pixel size are recorded
for shared memory (`ShmHasBpp`), which is why a buffer of an offered format is
never half made, and that PipeWire agrees only with a stream that is connected
(`PickedFromStream`), which `CurrentOffersAreSafe` needs when a pick
arrives. The two action properties follow from `IInv` and one step.

`PortalDialogsProofs` proves, for every set of handles, number of calls and
length of the countdown, the safety properties `portal_dialogs` checks and that
the portals implement `NestedCalls`. Assumption: `None` is none of the values it
stands beside. None of the properties is inductive. A Close reaches its dialog
because of the calls with one handle only the latest can be open
(`OpenIsLatest`, from the numbering of calls, `MadeInOrder`), because what is
registered at a path is a Request of that handle (`RegisteredIsRequest`), and
because a Request is doomed only if its dialog was closed, is over, or found its
path taken by one that outlived its call (`DoomedHasCause`).

`ScreenshotProofs` proves the same of `screenshot`, for every finite set of
screens. The counter is exact because full calls capture screens only and
interactive calls the selection only (`FramesOfKind`), and pictures are complete
because the counter is; `CallsAreMade` is what the refinement needs.

`ScreenCastProofs` proves, for every set of sessions and every number of
streams, the safety properties `screencast` checks. Assumption: `MaxStreams` is a
number, so is `MaxReplies`, `Impatient` has sessions only, and `None` is no
session (`BoundsAssumption`). None of the
properties is inductive, and the four action properties need to know what a
state says about the stack:

- `SessionsAreBooked`: only sessions that exist are watched or in the tray, and
  only watched ones are started.
- `CallsAreOrdered`: a Start that was not made has left no trace, one that waits
  for its chooser has no answer, and a session knows at most one stream, which
  was started for it. It is why `StopStreaming`, folded over the streams of a
  session, is one application of it: the fold needs to be unfolded only for the
  empty list and for a list of one.
- `FramesAreTrue`: what an activation of `startStreaming()` knows of its session
  and its stream holds however deep it lies, and activations have streams of
  their own. Without it nothing is known of the stream when the loop returns.
- `LiveIsListed`: a running stream whose Start or session knows it is in
  `m_streams` until a stop took the wrong one; `CloseStopsStreams` rests on it.
- `LiveIsInReach`: until the first mishap every running stream is in reach;
  `OutOfReachHasCause` is what remains of it afterwards.

`WindowsProofs` proves, for any number of windows, screens, calls of Start() and
announcements of the global, what `wayland_parts` checks of them. Assumptions: the sets
of windows and screens in the chooser are finite (`ChooserAssumption`), a Start
is not a number and `None` is neither a window nor a handle
(`WindowsAssumption`).

- Shared windows (`SharesInv`). That restore data finds handles that exist rests
  on entries being those of announced handles (`EntriesAreAnnounced`) and on only
  the first entry of a handle having the identifier (`FirstIsNamed`), which is
  the one that goes when the window does. That memory is misused for the named
  reasons only rests on `CallsAreHeld`: what a call holds is gone only after its
  window was closed or its list was finished. Who hears of the end rests on
  `HandlesAreOwned`: the handle of a chooser's window exists until the window is
  closed or the list, finished, deletes it.
- The chooser (`ChooserInv`). Rows are of different windows, all of them
  announced, and gone with the list (`RowsAreKnown`); the row clicked last is the
  one the view will take over as long as it is there (`ClickedIsNext`), whatever
  comes and goes before and after it; the same for screens until they are
  plugged (`TappedIsCurrent`).

`ServicesProofs` proves the safety properties of the small parts that
`wayland_parts` and `x11_parts` check. For the
limiter, `PacingIsKept` for all rates, resolutions of the clock
and timer errors. Assumption: a second and a millisecond have at least one tick
(`PacingAssumption`). The capture that starts when the timer fires need not be
the one the timer was started for: a buffer may have been taken away and another
handed out meanwhile. `TimerCovers` is what makes it late enough all the same:
whenever a timer runs while a buffer is in hand, its end covers the interval of
that buffer but for less than a millisecond. `ClockIsSet` keeps the assertion of
the limiter: only a screen without a rate leaves the clock unset, and it offers
no rate but zero.

For Inhibit, `InhibitionIsOwned` for any number of calls and paths.
A Close() finds a Request by its path, so the property rests on what is at a
path: one call its application may still close (`OneLive`), none while a
registered Request waits for its deletion (`DoomedIsQuiet`), and, until a
Close() there was unheard, every Request in its place (`CallsAreClean`).

For the others, `WallpaperIsAsWanted` for any number of screens, files
and requests on their way, `ChoiceIsMarkedByHand` for any applications,
`NotificationsKeepTheirOwner` for any applications, ids, numbers and age limit,
and `FiltersComeBack` for any labels, patterns, MIME types and lengths of lists.
The first is inductive, by what appending to a queue and taking its head off do
to the last request for a role; the second needs that the marks are those of the
user while the dialog can be used (`MarksAreHis`); the third that a daemon that
keeps running has given out every number the portal knows (`NumbersAreGiven`), and
that an entry is no older than the last time its number was told
(`EntriesAreYoung`);
the fourth that every entry of the dialog comes from a list that is stored under
it. Assumption: `NoFilter` is no filter and no list, and no pattern is a MIME type
(`FilterAssumption`).

The provers know nothing of `SelectSeq` and `FlattenSeq`. Where the code leaves
elements out of a list, or puts lists one after another, the models therefore
say at which places the elements stand (`Lists`, `MimePlaces`), and
`SequenceFacts` proves that every place is met: by the least-number principle, or
because an injection between finite sets of one size is onto.

Every safety property that a passing run checks is thus also proved. Only
model-checked are the six liveness properties, because they need fairness, which
is out of the reach of the provers: `BuffersKeepFlowing`, `Settles`,
`StartIsAnswered`, `AccessEnds`, `ScreenshotIsAnswered` and `ClosedIsReleased`.
The theorems are about each module's own specification: the runs
`wayland_parts` and `x11_parts` check the same actions and the same properties,
one module at a time.

## 5. Not modelled, and the plan

Not modelled:

- pixels, rectangles, sizes and pod layout; names, icons and labels; choices of
  the file chooser; QML layout;
- parts that keep no state: Settings (it answers with the palette as it is),
  Account, Lockdown, the stubs, start-up, Screenshot on X11;
- the PipeWire core: it connects once, and nobody listens to `pipewireFailed()`
  or asks `isValid()`, so that only what an error does to a stream matters
  (`StreamLost` in `FrameCapture`);
- the RemoteDesktop session, whose objects are never made;
- the Wayland protocol wrappers, which forward requests and events, but for the
  few lines named in the map.

Left for later:

1. a composition of `ScreenCast` with an abstract stream that `FrameCapture` is
   shown to implement.
