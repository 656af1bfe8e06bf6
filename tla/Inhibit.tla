------------------------------ MODULE Inhibit ------------------------------
(***************************************************************************)
(* The Inhibit portal: an application keeps the session from logging out,  *)
(* suspending or going idle.                                               *)
(*                                                                         *)
(* Inhibit() asks the session manager and answers at once.  The Request    *)
(* object on which the application is to call Close() is made only when    *)
(* the session manager has answered; a Close() before that meets no object *)
(* and nobody remembers it.  The desktop portal then forgets the request,  *)
(* and its path is free for another one.  A Request whose path is taken    *)
(* deletes itself, and its destructor takes the other Request's path away. *)
(***************************************************************************)
EXTENDS Naturals, FiniteSets

CONSTANTS
    Calls,  \* calls of Inhibit(), each with a cookie of its own
    Paths,  \* object paths of requests
    None

ASSUME InhibitAssumption == None \notin Calls \cup Paths

\* A call is sent to the session manager, granted or refused by it, and then
\* its Request object is alive, is to be deleted, or is gone.
Stage == {"none", "sent", "granted", "refused", "failed", "alive", "doomed",
          "gone"}

\* The application's side: Close() reached an object, or met none.
FrontState == {"none", "live", "closed", "unheard"}

VARIABLES
    path,      \* the path of each call
    front,     \* the application's view of it
    stage,     \* the portal's view of it
    object,    \* the Request whose object is registered at each path
    inhibited, \* calls whose cookies the session manager holds
    releasing  \* Uninhibit messages on their way, by call

inhibitVars == <<path, front, stage, object, inhibited, releasing>>

InhibitInit ==
    /\ path = [c \in Calls |-> None]
    /\ front = [c \in Calls |-> "none"]
    /\ stage = [c \in Calls |-> "none"]
    /\ object = [p \in Paths |-> None]
    /\ inhibited = {}
    /\ releasing = {}

---------------------------------------------------------------------------
\* Inhibit().  The desktop portal never has two requests at one path, and a
\* Close() is answered right before its Request is deleted: a closed Request is
\* gone before its path is used again.
Inhibit(c, p) ==
    /\ front[c] = "none"
    /\ \A d \in Calls :
          path[d] = p => /\ front[d] # "live"
                         /\ ~(object[p] = d /\ stage[d] = "doomed")
    /\ path' = [path EXCEPT ![c] = p]
    /\ front' = [front EXCEPT ![c] = "live"]
    /\ stage' = [stage EXCEPT ![c] = "sent"]
    /\ UNCHANGED <<object, inhibited, releasing>>

\* The session manager grants or refuses the inhibition and replies.
Grant(c) ==
    /\ stage[c] = "sent"
    /\ stage' = [stage EXCEPT ![c] = "granted"]
    /\ inhibited' = inhibited \cup {c}
    /\ UNCHANGED <<path, front, object, releasing>>

Refuse(c) ==
    /\ stage[c] = "sent"
    /\ stage' = [stage EXCEPT ![c] = "refused"]
    /\ UNCHANGED <<path, front, object, inhibited, releasing>>

\* The reply is a cookie: Request(handle, cookie, this) registers itself at its
\* path, or is to be deleted when the path is taken.
MakeRequest(c) ==
    /\ stage[c] = "granted"
    /\ IF object[path[c]] = None
       THEN /\ object' = [object EXCEPT ![path[c]] = c]
            /\ stage' = [stage EXCEPT ![c] = "alive"]
       ELSE /\ stage' = [stage EXCEPT ![c] = "doomed"]
            /\ UNCHANGED object
    /\ UNCHANGED <<path, front, inhibited, releasing>>

\* The reply is an error, and is logged.
LogRefusal(c) ==
    /\ stage[c] = "refused"
    /\ stage' = [stage EXCEPT ![c] = "failed"]
    /\ UNCHANGED <<path, front, object, inhibited, releasing>>

\* Mutant: the Request goes and the session manager is not told.
CloseSilently(c) ==
    /\ front[c] = "live"
    /\ LET r == object[path[c]] IN
       IF r = None
       THEN /\ front' = [front EXCEPT ![c] = "unheard"]
            /\ UNCHANGED <<stage, releasing>>
       ELSE /\ front' = [front EXCEPT ![c] = "closed"]
            /\ stage' = [stage EXCEPT ![r] = "doomed"]
            /\ UNCHANGED releasing
    /\ UNCHANGED <<path, object, inhibited>>

\* The application closes its request: Close() of the object at the path, if
\* there is one, emits closeRequested() with the cookie of that object.
Close(c) ==
    /\ front[c] = "live"
    /\ LET r == object[path[c]] IN
       IF r = None
       THEN /\ front' = [front EXCEPT ![c] = "unheard"]
            /\ UNCHANGED <<stage, releasing>>
       ELSE /\ front' = [front EXCEPT ![c] = "closed"]
            /\ stage' = [stage EXCEPT ![r] = "doomed"]
            /\ releasing' = releasing \cup {r}
    /\ UNCHANGED <<path, object, inhibited>>

\* Mutant: the destructor leaves the path alone.
DeleteKeepsPath(c) ==
    /\ stage[c] = "doomed"
    /\ stage' = [stage EXCEPT ![c] = "gone"]
    /\ UNCHANGED <<path, front, object, inhibited, releasing>>

\* ~Request(), out of the event loop, frees its path whoever has it.
DeleteRequest(c) ==
    /\ stage[c] = "doomed"
    /\ stage' = [stage EXCEPT ![c] = "gone"]
    /\ object' = [object EXCEPT ![path[c]] = None]
    /\ UNCHANGED <<path, front, inhibited, releasing>>

\* Uninhibit reaches the session manager.
Release(c) ==
    /\ c \in releasing
    /\ releasing' = releasing \ {c}
    /\ inhibited' = inhibited \ {c}
    /\ UNCHANGED <<path, front, stage, object>>

---------------------------------------------------------------------------
Answer(c) == Grant(c) \/ Refuse(c)
Handle(c) == MakeRequest(c) \/ LogRefusal(c)

InhibitNext == \E c \in Calls :
    \/ \E p \in Paths : Inhibit(c, p)
    \/ Answer(c) \/ Handle(c) \/ Close(c) \/ DeleteRequest(c) \/ Release(c)

InhibitSpec == InhibitInit /\ [][InhibitNext]_inhibitVars

\* The session manager answers and gets its messages, and the event loop runs.
InhibitFairness ==
    \A c \in Calls : /\ WF_inhibitVars(Answer(c))
                      /\ WF_inhibitVars(Handle(c))
                      /\ WF_inhibitVars(DeleteRequest(c))
                      /\ WF_inhibitVars(Release(c))

FairInhibitSpec == InhibitSpec /\ InhibitFairness

---------------------------------------------------------------------------
(* Properties *)

InhibitTypeOK ==
    /\ path \in [Calls -> Paths \cup {None}]
    /\ front \in [Calls -> FrontState]
    /\ stage \in [Calls -> Stage]
    /\ object \in [Paths -> Calls \cup {None}]
    /\ inhibited \in SUBSET Calls
    /\ releasing \in SUBSET inhibited

\* Some Close() at path p met no object.
Unheard(p) == \E c \in Calls : path[c] = p /\ front[c] = "unheard"

\* What the portal makes of a call agrees with what the application may do: a
\* path has at most the one Request that is registered there, and an inhibition
\* the session manager holds has a Request its application can close, is about
\* to get one or to be released, unless a Close() at its path was too early.
InhibitionIsOwned ==
    /\ InhibitTypeOK
    /\ \A c \in Calls :
          /\ stage[c] # "none" <=> path[c] # None
          /\ stage[c] # "none" <=> front[c] # "none"
    /\ \A p \in Paths :
          object[p] # None => /\ path[object[p]] = p
                              /\ stage[object[p]] \in {"alive", "doomed"}
    /\ \A c \in inhibited :
          \/ stage[c] = "granted"
          \/ stage[c] = "alive" /\ object[path[c]] = c /\ front[c] = "live"
          \/ c \in releasing
          \/ Unheard(path[c])

\* An inhibition whose request was closed is released, unless a Close() at its
\* path was too early: then the Close() may have reached another's Request.
ClosedIsReleased ==
    \A c \in Calls :
        front[c] = "closed" /\ ~Unheard(path[c]) ~> c \notin inhibited
===========================================================================
