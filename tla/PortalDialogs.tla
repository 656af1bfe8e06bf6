-------------------------- MODULE PortalDialogs --------------------------
(***************************************************************************)
(* The portals that ask the user: access, application and file choosers.   *)
(*                                                                         *)
(* Each call opens a dialog with QDialog::exec(), which runs an event loop *)
(* until the dialog is finished; calls that arrive meanwhile open theirs   *)
(* on top, and a dialog that was finished below them returns when they     *)
(* have.  A dialog is modal, so the user reaches the topmost only; its     *)
(* Request object and its countdown reach any.                             *)
(*                                                                         *)
(* xdg-desktop-portal uses the handle of a call again only when the call   *)
(* was answered, and closes only requests that were not.  What is chosen   *)
(* in a dialog is left out.                                                *)
(***************************************************************************)
EXTENDS Integers, Sequences, SequencesExt

CONSTANTS
    Handles,    \* paths of Request objects
    MaxCalls,   \* bound: calls ever made
    Seconds,    \* m_remainingSeconds at the start, 15 in the code
    None        \* no call, no result

Kind == {"access", "app", "open", "save", "savefiles"}

ASSUME DialogsAssumption ==
    /\ MaxCalls \in Nat
    /\ Seconds \in Nat \ {0}
    /\ None \notin Int /\ None \notin Handles /\ None \notin Kind

Calls == 1..MaxCalls

VARIABLES
    kind,        \* the method of each call
    handle,      \* its handle
    stack,       \* the dialogs in exec(), the topmost last
    result,      \* what done() has set, None while the dialog is open
    by,          \* history: who finished the dialog
    remaining,   \* m_remainingSeconds of access dialogs
    requests,    \* the Request objects that exist, by their call
    registered,  \* the call whose Request is registered at each path
    appDialogs,  \* m_appChooserDialogs
    doomed,      \* deleteLater() that has not run, with its loop level
    answer       \* the response of each call

dialogVars == <<stack, result, by, remaining>>
requestVars == <<requests, registered, doomed>>
vars == <<kind, handle, dialogVars, requestVars, appDialogs, answer>>

Result == {-1, 0, 1}
By == {"nobody", "accept", "reject", "close", "timeout"}

Success == 0
Cancelled == 1
OtherError == 2

Made == {c \in Calls : kind[c] # None}
Open(c) == Contains(stack, c)

\* The innermost event loop is running and dispatches events.
Dispatching == stack # <<>> => result[Last(stack)] = None

\* AccessDialog() makes no Request.
HasRequest(k) == k # "access"

Init ==
    /\ kind = [c \in Calls |-> None]
    /\ handle = [c \in Calls |-> None]
    /\ stack = <<>>
    /\ result = [c \in Calls |-> None]
    /\ by = [c \in Calls |-> "nobody"]
    /\ remaining = [c \in Calls |-> 0]
    /\ requests = {}
    /\ registered = [h \in Handles |-> None]
    /\ appDialogs = [h \in Handles |-> None]
    /\ doomed = {}
    /\ answer = [c \in Calls |-> None]

---------------------------------------------------------------------------
(* Request objects *)

\* deleteLater() from the loop at this level
DeleteLater(c, level) == doomed \cup {[call |-> c, level |-> level]}

\* Request::Request(): when the path is taken the object deletes itself later.
CreateRequest(c, k, h) ==
    IF ~HasRequest(k) THEN UNCHANGED requestVars
    ELSE /\ requests' = requests \cup {c}
         /\ IF registered[h] = None
            THEN registered' = [registered EXCEPT ![h] = c] /\ UNCHANGED doomed
            ELSE doomed' = DeleteLater(c, Len(stack)) /\ UNCHANGED registered

\* Mutant: ~Request() does not unregister.
DestroyKeepsPath(c) ==
    /\ requests' = requests \ {c}
    /\ UNCHANGED registered

\* ~Request(), if the object is still there: the path is freed, whoever is
\* registered at it.
Destroy(c) ==
    /\ requests' = requests \ {c}
    /\ registered' = IF c \in requests
                     THEN [registered EXCEPT ![handle[c]] = None] ELSE registered

\* A deferred deletion, of a Request or of the dialog it is a child of, runs
\* when control is back in the loop that asked for it.
DeleteRequest ==
    /\ Dispatching
    /\ \E d \in doomed :
          /\ Len(stack) <= d.level
          /\ Destroy(d.call)
          /\ doomed' = doomed \ {d}
    /\ UNCHANGED <<kind, handle, dialogVars, appDialogs, answer>>

\* done(), from a button, a shortcut or reject()
Done(c, r, who) ==
    /\ result' = [result EXCEPT ![c] = r]
    /\ by' = [by EXCEPT ![c] = who]

\* Request::Close(): closeRequested() reaches the dialog, if it still exists.
RequestClose(h) ==
    /\ Dispatching
    /\ \E c \in Made : Open(c) /\ handle[c] = h
    /\ registered[h] # None
    /\ LET c == registered[h]
       IN  /\ IF Open(c) THEN Done(c, 0, "close") ELSE UNCHANGED <<result, by>>
           /\ doomed' = DeleteLater(c, Len(stack))
    /\ UNCHANGED <<kind, handle, stack, remaining, requests, registered,
                   appDialogs, answer>>

---------------------------------------------------------------------------
(* Calls *)

\* A call arrives and opens its dialog.  Calls are numbered as they arrive.
Call(c, k, h) ==
    /\ Dispatching
    /\ c \notin Made /\ \A d \in Calls \ Made : c <= d
    /\ \A d \in Made : Open(d) => handle[d] # h
    /\ kind' = [kind EXCEPT ![c] = k]
    /\ handle' = [handle EXCEPT ![c] = h]
    /\ stack' = Append(stack, c)
    /\ remaining' = IF k = "access" THEN [remaining EXCEPT ![c] = Seconds] ELSE remaining
    /\ appDialogs' = IF k = "app" THEN [appDialogs EXCEPT ![h] = c] ELSE appDialogs
    /\ CreateRequest(c, k, h)
    /\ UNCHANGED <<result, by, answer>>

\* The user finishes the topmost dialog.  An access dialog counts its buttons,
\* Deny first; closed by its title bar it says -1, any other dialog rejects.
UserAnswers ==
    /\ stack # <<>> /\ Dispatching
    /\ LET c == Last(stack)
       IN  \/ Done(c, 1, "accept")
           \/ Done(c, 0, "reject")
           \/ kind[c] = "access" /\ Done(c, -1, "reject")
    /\ UNCHANGED <<kind, handle, stack, remaining, requestVars, appDialogs, answer>>

\* Mutant: the end of the countdown stops the timer and does nothing else.
TickOnly(c) ==
    /\ Dispatching /\ Open(c) /\ remaining[c] > 0
    /\ remaining' = [remaining EXCEPT ![c] = @ - 1]
    /\ UNCHANGED <<kind, handle, stack, result, by, requestVars, appDialogs, answer>>

\* updateDenyButtonText() and onTimeout()
Tick(c) ==
    /\ Dispatching /\ Open(c) /\ remaining[c] > 0
    /\ remaining' = [remaining EXCEPT ![c] = @ - 1]
    /\ IF remaining[c] = 1 THEN Done(c, 0, "timeout")
                           ELSE UNCHANGED <<result, by>>
    /\ UNCHANGED <<kind, handle, stack, requestVars, appDialogs, answer>>

\* Mutant: ChooseApplication() returns the dialog's result as it is.
ResponsesAsIs(k, r) ==
    IF k \in {"access", "app"} THEN {r}
    ELSE IF r = 1 THEN {Success} ELSE {Cancelled}

\* What the methods make of the result of exec(); OpenFile() may find no file
\* selected.
Responses(k, r) ==
    CASE k = "access" -> {r}
      [] k = "app"    -> {IF r = 0 THEN 1 ELSE 0}
      [] k = "open"   -> IF r = 1 THEN {Success, OtherError} ELSE {Cancelled}
      [] OTHER        -> IF r = 1 THEN {Success} ELSE {Cancelled}

\* Mutant: the dialog stays in m_appChooserDialogs.
EndDialogKeepsEntry(c) ==
    /\ doomed' = DeleteLater(c, Len(stack) - 1)
    /\ UNCHANGED <<requests, registered, appDialogs>>

\* What the methods do with their dialogs: the application chooser is deleted
\* later, the file dialogs end with the call, taking along the Request that
\* is their child.
EndDialog(c) ==
    \/ /\ kind[c] = "app"
       /\ appDialogs' = [appDialogs EXCEPT ![handle[c]] = None]
       /\ doomed' = DeleteLater(c, Len(stack) - 1)
       /\ UNCHANGED <<requests, registered>>
    \/ /\ kind[c] \in {"open", "save"}
       /\ Destroy(c)
       /\ doomed' = {d \in doomed : d.call # c}
       /\ UNCHANGED appDialogs
    \/ /\ kind[c] \in {"savefiles", "access"}
       /\ UNCHANGED <<requestVars, appDialogs>>

\* Mutant: finished dialogs return in any order.
ReturnAny ==
    /\ \E i \in DOMAIN stack :
          /\ result[stack[i]] # None
          /\ \E r \in Responses(kind[stack[i]], result[stack[i]]) :
                answer' = [answer EXCEPT ![stack[i]] = r]
          /\ EndDialog(stack[i])
          /\ stack' = RemoveAt(stack, i)
    /\ UNCHANGED <<kind, handle, result, by, remaining>>

\* exec() of the topmost dialog returns.
Return ==
    /\ stack # <<>> /\ ~Dispatching
    /\ LET c == Last(stack)
       IN  /\ \E r \in Responses(kind[c], result[c]) :
                 answer' = [answer EXCEPT ![c] = r]
           /\ EndDialog(c)
    /\ stack' = Front(stack)
    /\ UNCHANGED <<kind, handle, result, by, remaining>>

---------------------------------------------------------------------------
Next ==
    \/ \E c \in Calls, k \in Kind, h \in Handles : Call(c, k, h)
    \/ \E h \in Handles : RequestClose(h)
    \/ UserAnswers
    \/ \E c \in Calls : Tick(c)
    \/ Return
    \/ DeleteRequest

Spec == Init /\ [][Next]_vars

\* Qt runs the countdowns and returns from loops that were left.  Users may
\* never answer.
FairSpec == /\ Spec
            /\ \A c \in Calls : WF_vars(Tick(c))
            /\ WF_vars(Return)

---------------------------------------------------------------------------
(* Properties *)

TypeOK ==
    /\ kind \in [Calls -> Kind \cup {None}]
    /\ handle \in [Calls -> Handles \cup {None}]
    /\ stack \in Seq(Calls)
    /\ result \in [Calls -> Result \cup {None}]
    /\ by \in [Calls -> By]
    /\ remaining \in [Calls -> 0..Seconds]
    /\ requests \in SUBSET Calls
    /\ registered \in [Handles -> Calls \cup {None}]
    /\ appDialogs \in [Handles -> Calls \cup {None}]
    /\ doomed \in SUBSET [call : Calls, level : Nat]
    /\ answer \in [Calls -> -1..2 \cup {None}]

\* UpdateChoices() looks a dialog up in m_appChooserDialogs and calls it: the
\* map has every open application chooser under its handle, and no other.
AppDialogsAreOpen ==
    \A h \in Handles : \A c \in Calls :
        appDialogs[h] = c <=> Open(c) /\ kind[c] = "app" /\ handle[c] = h

\* A Close reaches the dialog it is meant for, however deep it lies, unless an
\* earlier SaveFiles() or application chooser had the same handle and its
\* Request was still there.
CloseReachesDialog ==
    \A c \in Made :
        Open(c) /\ result[c] = None /\ HasRequest(kind[c])
            => \/ registered[handle[c]] = c
               \/ \E d \in Made : /\ d < c /\ handle[d] = handle[c]
                                  /\ kind[d] \in {"app", "savefiles"}

\* Paths are given up when their calls are over; only SaveFiles() leaves a
\* Request behind.
PathsAreFreed ==
    \A h \in Handles : registered[h] # None =>
        LET c == registered[h]
        IN  Open(c) \/ kind[c] = "savefiles" \/ \E d \in doomed : d.call = c

\* The dialogs and what is registered for them, in one: the variables are in
\* their ranges, the map has the open application choosers, and only
\* SaveFiles() leaves a path taken.
DialogsAreConsistent == TypeOK /\ AppDialogsAreOpen /\ PathsAreFreed

\* A chooser reports success only if the user accepted it: no Close, and no
\* dialog that was opened or finished in between, counts as consent.
SuccessIsConsent ==
    \A c \in Made :
        kind[c] # "access" /\ answer[c] = Success => by[c] = "accept"

\* Towards DBus the portals are a stack of calls.
Nested == INSTANCE NestedCalls
    WITH waiting <- stack, answered <- {c \in Calls : answer[c] # None}
NestedSpec == Nested!Spec

\* An access dialog ends without the user, even below other dialogs, unless
\* one of those is waiting for the user.
Above(c) == {stack[j] : j \in {i \in DOMAIN stack :
                \E k \in 1..(i - 1) : stack[k] = c}}

AccessEnds ==
    \A c \in Calls :
        kind[c] = "access"
            ~> \/ answer[c] # None
               \/ \E d \in Above(c) : kind[d] # "access" /\ result[d] = None

\* "The countdown is over: deny automatically": the end of the countdown never
\* grants access.
TimeoutDenies ==
    \A c \in Made : by[c] = "timeout" => answer[c] # Success
===========================================================================
