--------------------------- MODULE NestedCalls ---------------------------
(***************************************************************************)
(* What portals that wait inside of a DBus call promise their callers.     *)
(* Such a call runs an event loop, in which further calls may arrive and   *)
(* wait in the same way.  Every call is answered at most once, and never   *)
(* before a call that arrived later.  Screenshot and PortalDialogs         *)
(* implement this specification.                                           *)
(***************************************************************************)
EXTENDS Naturals, Sequences

CONSTANT Calls

VARIABLES
    waiting,    \* the calls being served, the latest last
    answered    \* the calls that were answered

Init == waiting = <<>> /\ answered = {}

Arrive(c) ==
    /\ c \notin answered
    /\ \A i \in 1..Len(waiting) : waiting[i] # c
    /\ waiting' = Append(waiting, c)
    /\ UNCHANGED answered

Answer ==
    /\ waiting # <<>>
    /\ waiting' = SubSeq(waiting, 1, Len(waiting) - 1)
    /\ answered' = answered \cup {waiting[Len(waiting)]}

Next == (\E c \in Calls : Arrive(c)) \/ Answer

Spec == Init /\ [][Next]_<<waiting, answered>>
===========================================================================
