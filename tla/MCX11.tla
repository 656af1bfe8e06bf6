------------------------------- MODULE MCX11 -------------------------------
(* Portals on X11 that have no step in common: Inhibit, Notification, the   *)
(* filters of the file chooser and the list of the application chooser.  A  *)
(* behaviour belongs to one of them and leaves the variables of the others  *)
(* alone.                                                                   *)
(*                                                                          *)
(* The symmetry is that of the notifications.  It is sound for the liveness *)
(* property, which is about Inhibit: no application and no id occurs there. *)
EXTENDS Inhibit, Notification, FileFilters, AppPicker, TLC

CONSTANTS a1, a2, i1, i2

MCApps == {a1, a2}
MCIds == {i1, i2}
Symmetry == Permutations(MCApps) \cup Permutations(MCIds)

VARIABLE part

allVars == <<part, inhibitVars, notificationVars, filterVars, pickerVars>>

X11Init ==
    /\ part \in {"inhibit", "notification", "filters", "picker"}
    /\ InhibitInit /\ NotificationInit /\ FilterInit /\ PickerInit
    /\ part # "filters" => filters = <<>> /\ current = NoFilter

X11Next ==
    /\ UNCHANGED part
    /\ \/ part = "inhibit" /\ InhibitNext
       \/ part # "inhibit" /\ UNCHANGED inhibitVars
    /\ \/ part = "notification" /\ NotificationNext
       \/ part # "notification" /\ UNCHANGED notificationVars
    /\ \/ part = "filters" /\ FilterNext
       \/ part # "filters" /\ UNCHANGED filterVars
    /\ \/ part = "picker" /\ PickerNext
       \/ part # "picker" /\ UNCHANGED pickerVars

\* Without a call of Inhibit() its fairness asks for nothing.
X11Spec == X11Init /\ [][X11Next]_allVars /\ InhibitFairness
===========================================================================
