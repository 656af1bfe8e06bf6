---------------------------- MODULE Notification ----------------------------
(***************************************************************************)
(* The Notification portal stands between applications, who name a         *)
(* notification by an id of their own, and the notification daemon, who    *)
(* numbers them.  m_idInfoMap finds the application of a number and        *)
(* m_idMaps the number of an id.                                           *)
(*                                                                         *)
(* The daemon may refuse a notification, or show it and answer too late:   *)
(* the portal then files it under number 0.                                *)
(*                                                                         *)
(* A number is forgotten when a notification is added more than five       *)
(* seconds later; an id is never forgotten.  RemoveNotification() is meant *)
(* to close what it finds and does so for what it does not find.           *)
(***************************************************************************)
EXTENDS Naturals, FiniteSets, Functions

CONSTANTS
    Apps,           \* applications
    Ids,            \* ids they use, of their own choice
    MaxNumber,      \* numbers the daemon gives out, from 1 on
    defaultTimeout  \* seconds

ASSUME NotificationAssumption == MaxNumber \in Nat /\ defaultTimeout \in Nat

Numbers == 0..MaxNumber

\* NotificationInfo, with its age in place of its timestamp: ages above the
\* limit are all alike.
Ages == 0..(defaultTimeout + 1)
NotificationInfo == [appId : Apps, id : Ids, age : Ages]

VARIABLES
    valid,     \* m_service->isValid()
    last,      \* the number the daemon gave out last
    shown,     \* notifications on the screen: who posted each number
    idInfoMap, \* m_idInfoMap
    idMaps,    \* m_idMaps
    told,      \* history: seconds since the portal was told a number, as ages
    closed,    \* history: numbers the daemon was asked to close
    restarted, \* the daemon was started again
    signal     \* history: the action just invoked, [number, to], or none

notificationVars == <<valid, last, shown, idInfoMap, idMaps, told, closed,
                      restarted, signal>>

NoMap == [n \in {} |-> 0]
NoSignal == [number |-> 0, to |-> {}]

NotificationInit ==
    /\ valid = TRUE
    /\ last = 0
    /\ shown = NoMap
    /\ idInfoMap = NoMap
    /\ idMaps = NoMap
    /\ told = NoMap
    /\ closed = {}
    /\ restarted = FALSE
    /\ signal = NoSignal

\* QMap::insert() and QMap::remove()
Insert(map, k, v) == [x \in DOMAIN map \cup {k} |->
                         IF x = k THEN v ELSE map[x]]
Without(map, S) == Restrict(map, DOMAIN map \ S)

\* clearTimeoutData()
TimedOut(map) == {n \in DOMAIN map : map[n].age > defaultTimeout}

---------------------------------------------------------------------------
\* Notify() of the daemon: the number of the new notification, or 0 when it comes
\* too late, or when the daemon refuses or cannot be reached and shows nothing.
\* It is never asked to replace an earlier notification.
Notify(app, id, number) ==
    \/ /\ valid /\ last < MaxNumber
       /\ last' = last + 1
       /\ shown' = Insert(shown, last + 1, [appId |-> app, id |-> id])
       /\ number \in {last + 1, 0}
    \/ UNCHANGED <<last, shown>> /\ number = 0

\* AddNotification(), whatever the daemon answers
AddNotification(app, id) == \E number \in Numbers :
    /\ Notify(app, id, number)
    /\ idInfoMap' =
          LET all == Insert(idInfoMap, number,
                            [appId |-> app, id |-> id, age |-> 0])
          IN Without(all, TimedOut(all))
    /\ idMaps' = Insert(idMaps, id, number)
    /\ told' = IF number = 0 THEN told ELSE Insert(told, number, 0)
    /\ signal' = NoSignal
    /\ UNCHANGED <<valid, closed, restarted>>

\* RemoveNotification(): an id that is known is left alone; for another one,
\* operator[] of the map inserts 0, and notification 0 is closed.
RemoveNotification(app, id) ==
    /\ IF ~valid \/ id \in DOMAIN idMaps
       THEN UNCHANGED <<shown, idMaps, closed>>
       ELSE LET map == Insert(idMaps, id, 0) IN
            /\ idMaps' = map
            /\ closed' = closed \cup {map[id]}
            /\ shown' = Without(shown, {map[id]})
    /\ signal' = NoSignal
    /\ UNCHANGED <<valid, last, idInfoMap, told, restarted>>

\* Mutant: an action goes to whoever used the id of the notification last.
InvokeByLastId(n) ==
    /\ valid /\ n \in DOMAIN shown
    /\ LET id == shown[n].id IN
       signal' = [number |-> n,
                  to |-> {[appId |-> idInfoMap[k].appId, id |-> id]
                             : k \in DOMAIN idInfoMap \cap {idMaps[id]}}]
    /\ UNCHANGED <<valid, last, shown, idInfoMap, idMaps, told, closed, restarted>>

\* The user presses a button of a notification: actionInvoked()
ActionInvoked(n) ==
    /\ valid /\ n \in DOMAIN shown
    /\ signal' = [number |-> n,
                  to |-> {[appId |-> idInfoMap[k].appId, id |-> idInfoMap[k].id]
                             : k \in DOMAIN idInfoMap \cap {n}}]
    /\ UNCHANGED <<valid, last, shown, idInfoMap, idMaps, told, closed, restarted>>

\* The daemon takes a notification off the screen, by itself or for its user.
Dismissed(n) ==
    /\ valid /\ n \in DOMAIN shown
    /\ shown' = Without(shown, {n})
    /\ signal' = NoSignal
    /\ UNCHANGED <<valid, last, idInfoMap, idMaps, told, closed, restarted>>

\* The daemon leaves the bus, or returns and counts from the start.
DaemonChanges ==
    /\ valid' = ~valid
    /\ last' = 0
    /\ shown' = NoMap
    /\ told' = NoMap
    /\ restarted' = TRUE
    /\ signal' = NoSignal
    /\ UNCHANGED <<idInfoMap, idMaps, closed>>

\* An age one second later
Older(age) == IF age > defaultTimeout THEN age ELSE age + 1

\* A second passes.
Tick ==
    /\ \E n \in DOMAIN idInfoMap : idInfoMap[n].age <= defaultTimeout
    /\ idInfoMap' = [n \in DOMAIN idInfoMap |->
                        [idInfoMap[n] EXCEPT !.age = Older(@)]]
    /\ told' = [n \in DOMAIN told |-> Older(told[n])]
    /\ signal' = NoSignal
    /\ UNCHANGED <<valid, last, shown, idMaps, closed, restarted>>

---------------------------------------------------------------------------
NotificationNext ==
    \/ \E app \in Apps, id \in Ids :
          AddNotification(app, id) \/ RemoveNotification(app, id)
    \/ \E n \in 1..MaxNumber : ActionInvoked(n) \/ Dismissed(n)
    \/ DaemonChanges \/ Tick

NotificationSpec == NotificationInit /\ [][NotificationNext]_notificationVars

---------------------------------------------------------------------------
(* Properties *)

NotificationTypeOK ==
    /\ valid \in BOOLEAN
    /\ last \in Numbers
    /\ DOMAIN shown \subseteq 1..last
    /\ \A n \in DOMAIN shown : shown[n] \in [appId : Apps, id : Ids]
    /\ DOMAIN idInfoMap \subseteq Numbers
    /\ \A n \in DOMAIN idInfoMap : idInfoMap[n] \in NotificationInfo
    /\ DOMAIN idMaps \subseteq Ids
    /\ \A id \in DOMAIN idMaps : idMaps[id] \in Numbers
    /\ DOMAIN told \subseteq 1..last
    /\ \A n \in DOMAIN told : told[n] \in Ages
    /\ closed \in SUBSET Numbers
    /\ restarted \in BOOLEAN
    /\ signal \in [number : Numbers, to : SUBSET [appId : Apps, id : Ids]]

\* As long as the daemon keeps running, an action goes to the application that
\* posted the notification, under the id it was posted with, or to nobody.
ActionsReachTheirOwner ==
    ~restarted =>
       \A n \in DOMAIN shown :
          /\ n \in DOMAIN idInfoMap =>
                shown[n] = [appId |-> idInfoMap[n].appId,
                            id |-> idInfoMap[n].id]
          /\ signal.number = n => signal.to \subseteq {shown[n]}

\* Whatever is added after it, and whatever the daemon answers to that, the
\* portal knows a notification for five seconds after it was told its number.
YoungIsKnown ==
    \A n \in DOMAIN told : told[n] <= defaultTimeout => n \in DOMAIN idInfoMap

\* RemoveNotification() never asks the daemon to close a notification that was
\* shown: what an application withdraws stays, whoever posted it.
WithdrawnStays == closed \subseteq {0}

\* The portal never takes one notification for another: actions reach their
\* owner or nobody, and no notification is taken off the screen for a wrong one,
\* as none is taken off at all.
NotificationsKeepTheirOwner ==
    /\ NotificationTypeOK
    /\ ActionsReachTheirOwner /\ YoungIsKnown /\ WithdrawnStays
=============================================================================
