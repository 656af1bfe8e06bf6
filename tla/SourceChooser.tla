--------------------------- MODULE SourceChooser ---------------------------
(***************************************************************************)
(* The window in which the user chooses what a ScreenCast shares: a list   *)
(* of screens and a list of windows, one of them on top, each a ListView   *)
(* over a model that changes while the dialog is open.                     *)
(*                                                                         *)
(* A view works with numbers of rows.  When rows of the model come and go, *)
(* the view computes the number its current row will have, and takes it    *)
(* over when it is polished, before the next frame.  The code of accept()  *)
(* reads the current number of the view and the rows of the model, each as *)
(* it is then.                                                             *)
(***************************************************************************)
EXTENDS Integers, Sequences, FiniteSets, SequencesExt

CONSTANTS
    Shown,      \* windows the compositor may list
    OwnWindows, \* those that belong to the portal itself
    Screens,    \* screens that may be plugged in
    NoSource

ASSUME ChooserAssumption == /\ IsFiniteSet(Shown) /\ IsFiniteSet(Screens)
                            /\ OwnWindows \subseteq Shown
                            /\ NoSource \notin Shown \cup Screens

\* Numbers of rows, and -1 for none
Index(S) == -1..(Cardinality(S) - 1)

VARIABLES
    dialog,      \* "open", "accepted", "rejected" or "out_of_range"
    layout,      \* viewLayoutIndex: 0 for the screens, 1 for the windows
    chosen,      \* what accept() shares
    outputs,     \* ScreenListModel::m_screens
    outputIndex, \* currentIndex of the list of screens
    tapped,      \* the screen that was clicked last
    replugged,   \* screens came or went since
    known,       \* windows the compositor has announced
    listed,      \* ToplevelListModel::m_toplevels
    ended,       \* the list of windows was finished
    count,       \* rows the list of windows has, as far as the view knows
    index,       \* its currentIndex
    next,        \* the currentIndex it takes over when it is polished
    cleared,     \* the view's currentIndex was last set to -1
    clicked      \* the window that was clicked last

screenVars == <<outputs, outputIndex, tapped, replugged>>
rowVars == <<known, listed, ended, count, next>>
windowVars == <<rowVars, index, cleared, clicked>>
chooserVars == <<dialog, layout, chosen, screenVars, windowVars>>

Open == dialog = "open"

ChooserInit ==
    /\ dialog = "open"
    /\ layout = 0
    /\ chosen = NoSource
    /\ outputs \in {<<s>> : s \in Screens}
    /\ outputIndex = -1
    /\ tapped = NoSource
    /\ replugged = FALSE
    /\ known = {}
    /\ listed = <<>>
    /\ ended = FALSE
    /\ count = 0
    /\ index = -1
    /\ next = -1
    /\ cleared = TRUE
    /\ clicked = NoSource

---------------------------------------------------------------------------
(* The list of windows *)

\* ToplevelListModel::handleToplevelAdded(): a row at the end
AddRow(w) ==
    /\ Open /\ ~ended /\ w \notin known
    /\ known' = known \cup {w}
    /\ listed' = Append(listed, w)
    /\ count' = count + 1
    /\ next' = IF next < 0 THEN 0 ELSE next
    /\ UNCHANGED <<dialog, layout, chosen, screenVars, ended, index, cleared,
                   clicked>>

\* Mutant: the row is dropped without beginRemoveRows() and endRemoveRows().
DropRow(w) ==
    /\ listed' = Remove(listed, w)
    /\ UNCHANGED <<count, next>>

\* A row goes; when it is the current one, the row that takes its place, or the
\* last one, becomes current.
RemoveRow(w) ==
    \E r \in DOMAIN listed :
        /\ listed[r] = w
        /\ listed' = RemoveAt(listed, r)
        /\ count' = count - 1
        /\ next' = IF next >= r THEN next - 1
                   ELSE IF next = r - 1
                   THEN IF r = count THEN count - 2 ELSE next
                   ELSE next

\* handleToplevelClosed()
WindowClosed(w) ==
    /\ Open
    /\ RemoveRow(w)
    /\ UNCHANGED <<dialog, layout, chosen, screenVars, known, ended, index,
                   cleared, clicked>>

\* handleToplevelDone() of a window of the portal, for instance of this dialog
OwnWindowDone(w) ==
    /\ Open
    /\ w \in OwnWindows
    /\ RemoveRow(w)
    /\ UNCHANGED <<dialog, layout, chosen, screenVars, known, ended, index,
                   cleared, clicked>>

\* handleFinished() clears the model and tells the view nothing.
FinishList ==
    /\ Open /\ ~ended
    /\ ended' = TRUE
    /\ listed' = <<>>
    /\ UNCHANGED <<dialog, layout, chosen, screenVars, known, count, index,
                   next, cleared, clicked>>

\* The view takes over what the changes of the model amount to, except that it
\* keeps an index that the dialog has cleared.
Polish ==
    /\ Open
    /\ next # index
    /\ IF cleared THEN next' = index /\ UNCHANGED index
                  ELSE index' = next /\ UNCHANGED next
    /\ UNCHANGED <<dialog, layout, chosen, screenVars, known, listed, ended,
                   count, cleared, clicked>>

\* The user clicks row i of the view: pending changes are applied first.
ClickWindow(i) ==
    /\ Open /\ layout = 1
    /\ i < count
    /\ index' = i /\ next' = i
    /\ cleared' = FALSE
    /\ clicked' = IF i < Len(listed) THEN listed[i + 1] ELSE NoSource
    /\ UNCHANGED <<dialog, layout, chosen, screenVars, known, listed, ended,
                   count>>

---------------------------------------------------------------------------
(* The list of screens *)

\* refreshScreens() resets the model with the screens there are; a view keeps
\* the number of its current row when its model is reset.
RefreshScreens(screens) ==
    /\ outputs' = screens
    /\ replugged' = TRUE
    /\ UNCHANGED <<dialog, layout, chosen, outputIndex, tapped, windowVars>>

\* onScreenAdded(): a new screen comes last, or first if it is the primary one.
ScreenAdded(s) ==
    /\ Open
    /\ s \notin ToSet(outputs)
    /\ \/ RefreshScreens(Append(outputs, s))
       \/ RefreshScreens(<<s>> \o outputs)

\* onScreenRemoved()
ScreenRemoved(s) ==
    /\ Open
    /\ \E r \in DOMAIN outputs :
          outputs[r] = s /\ RefreshScreens(RemoveAt(outputs, r))

ClickScreen(i) ==
    /\ Open /\ layout = 0
    /\ i < Len(outputs)
    /\ outputIndex' = i
    /\ tapped' = outputs[i + 1]
    /\ replugged' = FALSE
    /\ UNCHANGED <<dialog, layout, chosen, outputs, windowVars>>

---------------------------------------------------------------------------
(* The dialog *)

\* The buttons "Screen" and "Window"
SwitchLayout ==
    /\ Open
    /\ layout' = 1 - layout
    /\ UNCHANGED <<dialog, chosen, screenVars, windowVars>>

\* Mutant: whatever is listed first is taken when nothing was clicked.
AcceptFirst(list, i) ==
    /\ list # <<>>
    /\ dialog' = "accepted"
    /\ chosen' = list[(IF i \in 0..(Len(list) - 1) THEN i ELSE 0) + 1]
    /\ UNCHANGED <<layout, screenVars, windowVars>>

\* accept() takes row i of the model, and the program is undefined from there
\* on when the model has no such row.
AcceptRow(list, i) ==
    /\ i >= 0
    /\ IF i < Len(list)
       THEN dialog' = "accepted" /\ chosen' = list[i + 1]
       ELSE dialog' = "out_of_range" /\ UNCHANGED chosen
    /\ UNCHANGED <<layout, screenVars, windowVars>>

\* The button "Accept", enabled when the list on top has a current row:
\* selectedOutputs() or selectedToplevels()
AcceptSource ==
    /\ Open
    /\ \/ layout = 0 /\ AcceptRow(outputs, outputIndex)
       \/ layout = 1 /\ AcceptRow(listed, index)

RejectSource ==
    /\ Open
    /\ dialog' = "rejected"
    /\ UNCHANGED <<layout, chosen, screenVars, windowVars>>

---------------------------------------------------------------------------
ChooserNext ==
    \/ \E w \in Shown : AddRow(w) \/ WindowClosed(w) \/ OwnWindowDone(w)
    \/ FinishList \/ Polish
    \/ \E i \in Index(Shown) \ {-1} : ClickWindow(i)
    \/ \E s \in Screens : ScreenAdded(s) \/ ScreenRemoved(s)
    \/ \E i \in Index(Screens) \ {-1} : ClickScreen(i)
    \/ SwitchLayout \/ AcceptSource \/ RejectSource

ChooserSpec == ChooserInit /\ [][ChooserNext]_chooserVars

---------------------------------------------------------------------------
(* Properties *)

ChooserTypeOK ==
    /\ dialog \in {"open", "accepted", "rejected", "out_of_range"}
    /\ layout \in {0, 1}
    /\ chosen \in Shown \cup Screens \cup {NoSource}
    /\ outputs \in Seq(Screens)
    /\ outputIndex \in Index(Screens)
    /\ tapped \in Screens \cup {NoSource}
    /\ replugged \in BOOLEAN
    /\ known \in SUBSET Shown
    /\ listed \in Seq(known)
    /\ ended \in BOOLEAN
    /\ count \in 0..Cardinality(Shown)
    /\ index \in Index(Shown)
    /\ next \in Index(Shown)
    /\ cleared \in BOOLEAN
    /\ clicked \in Shown \cup {NoSource}

\* Until the list of windows is finished the view knows the rows of the model,
\* will stand on one of them after the next polish, and has stood on none before
\* the first click.
ViewFollowsModel ==
    /\ ChooserTypeOK
    /\ cleared => index = -1
    /\ ~ended => /\ count = Len(listed)
                 /\ next < count
                 /\ ~cleared => (next = -1 <=> count = 0)

\* Accept shares what was clicked last, unless that has left the list, or the
\* list has changed since the view was polished, or screens were plugged in or
\* out: then the neighbour that got its number is shared without a click.
AcceptedIsClicked ==
    dialog = "accepted" =>
        IF layout = 0 THEN chosen = tapped \/ (replugged /\ tapped # NoSource)
        ELSE /\ ~cleared
             /\ \/ chosen = clicked
                \/ clicked \notin ToSet(listed)
                \/ next # index

\* Accept reads past the end of a model only when the list of windows was
\* finished or is still to be polished, or a screen went after it was clicked.
OutOfRangeHasCause ==
    dialog = "out_of_range" =>
        IF layout = 0 THEN replugged /\ outputIndex >= Len(outputs)
                      ELSE ended \/ next # index

\* What Accept takes is what the user clicked last, or one of these mishaps.
AcceptTakesClicked == AcceptedIsClicked /\ OutOfRangeHasCause
===========================================================================
