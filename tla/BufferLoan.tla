---------------------------- MODULE BufferLoan ----------------------------
(***************************************************************************)
(* What the screencast stream promises to PipeWire about its buffers.      *)
(* PipeWire lends the buffers of the stream's pool to the portal, one at a *)
(* time; the portal gives back what it was lent, and nothing else, and     *)
(* loses what PipeWire takes out of the pool.  FrameCapture implements     *)
(* this specification.                                                     *)
(***************************************************************************)
CONSTANT Buffers

VARIABLE owner      \* who may touch each buffer of the pool

Owner == {"none", "stream", "portal", "consumer"}

Init == owner = [b \in Buffers |-> "none"]

Move(b, from, to) == /\ owner[b] \in from
                     /\ owner' = [owner EXCEPT ![b] = to]

Add(b) == Move(b, {"none"}, "stream")

Borrow(b) == /\ \A c \in Buffers : owner[c] # "portal"
             /\ Move(b, {"stream"}, "portal")

GiveBack(b) == Move(b, {"portal"}, "consumer")

Recycle(b) == Move(b, {"consumer"}, "stream")

Remove(b) == Move(b, Owner \ {"none"}, "none")

Teardown == owner' = [b \in Buffers |-> "none"]

Next == \/ \E b \in Buffers : \/ Add(b) \/ Borrow(b) \/ GiveBack(b)
                              \/ Recycle(b) \/ Remove(b)
        \/ Teardown

Spec == Init /\ [][Next]_owner
===========================================================================
