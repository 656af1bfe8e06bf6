----------------------------- MODULE AppPicker -----------------------------
(***************************************************************************)
(* What the user picks in the dialog of ChooseApplication().  The dialog   *)
(* opens empty; its model asks the application manager from the event loop *)
(* and the rows come with the reply, whether or not the dialog is open     *)
(* still.  Each click on a row turns its mark over.                        *)
(*                                                                         *)
(* The last choice of the caller is to be marked when the dialog opens:    *)
(* there is no row yet, and click() would mark a copy of the row.  The     *)
(* choices of UpdateChoices() are stored and not used.                     *)
(***************************************************************************)
EXTENDS FiniteSets

CONSTANTS Applications, NoApplication

ASSUME PickerAssumption == NoApplication \notin Applications

VARIABLES
    picker,   \* the dialog: "none", "open", "accepted" or "rejected"
    loading,  \* its model: "queued", "asked", "loaded" or "failed"
    datas,    \* m_datas: the mark of each application listed
    choices,  \* m_choices
    choice,   \* results["choice"]
    pressed   \* history: applications clicked an odd number of times

pickerVars == <<picker, loading, datas, choices, choice, pressed>>

PickerInit ==
    /\ picker = "none"
    /\ loading = "queued"
    /\ datas = [a \in {} |-> FALSE]
    /\ choices = {}
    /\ choice = {}
    /\ pressed = {}

---------------------------------------------------------------------------
\* click(const QString &): the loop variable is a copy of the row.
ClickById(rows, a) == rows

\* setCurrentChoice() and exec()
OpenPicker(last) ==
    /\ picker = "none"
    /\ picker' = "open"
    /\ datas' = ClickById(datas, last)
    /\ UNCHANGED <<loading, choices, choice, pressed>>

\* loadApplications() is queued by the model and called by the event loop.
LoadApplications ==
    /\ picker # "none" /\ loading = "queued"
    /\ loading' = "asked"
    /\ UNCHANGED <<picker, datas, choices, choice, pressed>>

\* The reply replaces the rows; an error leaves them alone.
ApplicationsLoaded(S) ==
    /\ loading = "asked"
    /\ loading' = "loaded"
    /\ datas' = [a \in S |-> FALSE]
    /\ UNCHANGED <<picker, choices, choice, pressed>>

LoadFailed ==
    /\ loading = "asked"
    /\ loading' = "failed"
    /\ UNCHANGED <<picker, datas, choices, choice, pressed>>

\* Mutant: the row that is marked is a copy, as in the other click().
ClickCopy(a) ==
    /\ picker = "open" /\ a \in DOMAIN datas
    /\ pressed' = (pressed \ {a}) \cup ({a} \ pressed)
    /\ UNCHANGED <<picker, loading, datas, choices, choice>>

\* click(const QModelIndex &)
ClickApplication(a) ==
    /\ picker = "open" /\ a \in DOMAIN datas
    /\ datas' = [datas EXCEPT ![a] = ~@]
    /\ pressed' = (pressed \ {a}) \cup ({a} \ pressed)
    /\ UNCHANGED <<picker, loading, choices, choice>>

\* UpdateChoices() of a dialog that is open
UpdateChoices(S) ==
    /\ picker = "open"
    /\ choices' = S
    /\ UNCHANGED <<picker, loading, datas, choice, pressed>>

\* choices() of the model
Marked == {a \in DOMAIN datas : datas[a]}

\* selectChoices() of a dialog that was accepted
Confirm ==
    /\ picker = "open"
    /\ picker' = "accepted"
    /\ choice' = Marked
    /\ UNCHANGED <<loading, datas, choices, pressed>>

Cancel ==
    /\ picker = "open"
    /\ picker' = "rejected"
    /\ UNCHANGED <<loading, datas, choices, choice, pressed>>

---------------------------------------------------------------------------
PickerNext ==
    \/ \E a \in Applications \cup {NoApplication} : OpenPicker(a)
    \/ \E S \in SUBSET Applications : ApplicationsLoaded(S) \/ UpdateChoices(S)
    \/ \E a \in Applications : ClickApplication(a)
    \/ LoadApplications \/ LoadFailed \/ Confirm \/ Cancel

PickerSpec == PickerInit /\ [][PickerNext]_pickerVars

---------------------------------------------------------------------------
(* Properties *)

PickerTypeOK ==
    /\ picker \in {"none", "open", "accepted", "rejected"}
    /\ loading \in {"queued", "asked", "loaded", "failed"}
    /\ DOMAIN datas \subseteq Applications
    /\ \A a \in DOMAIN datas : datas[a] \in BOOLEAN
    /\ choices \subseteq Applications
    /\ choice \subseteq Applications

\* Whenever the list comes, what is chosen is exactly what the user marked
\* himself: nothing before the list is there, nothing from a dialog that was
\* cancelled, and neither the last choice nor what UpdateChoices() names.
ChoiceIsMarkedByHand ==
    /\ PickerTypeOK
    /\ loading # "loaded" => datas = [a \in {} |-> FALSE]
    /\ choice = IF picker = "accepted" THEN pressed ELSE {}
===========================================================================
