------------------------ MODULE MCScreenCastParts ------------------------
(* ScreenCast with one application or with two.  The one may start three   *)
(* streams and go on using a dialog that was answered; the two leave such  *)
(* dialogs alone and start two streams.                                    *)
EXTENDS MCScreenCast, FiniteSets

CONSTANT Hasty   \* parts in which Requests and windows may be closed

VARIABLE part

Made == {s \in Sessions : sess[s] # "none"}
Bounded == \/ part = "one" /\ Cardinality(Made') <= 1
           \/ part = "two" /\ \A n \in Nodes : n > 2 => node'[n] = "unused"

Use(s) == \/ Accept(s) \/ AcceptNothing(s) \/ Reject(s)
          \/ part \in Hasty /\ (CloseWindow(s) \/ RequestClose(s))

PartsInit == Init /\ part \in {"one", "two"}

PartsNext ==
    /\ \/ Portal \/ Streaming
       \/ \E s \in Sessions :
             \/ (part = "one" \/ chooser[s] = "alive") /\ Use(s)
             \/ DeleteChooser(s)
    /\ Bounded
    /\ UNCHANGED part

PartsSpec == PartsInit /\ [][PartsNext]_<<part, vars>>
FairPartsSpec == PartsSpec /\ Fairness
===========================================================================
