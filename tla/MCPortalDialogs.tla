------------------------- MODULE MCPortalDialogs -------------------------
(* PortalDialogs with two handles, so that one can be used again while the *)
(* other's dialog is open.                                                 *)
EXTENDS PortalDialogs

CONSTANTS h1, h2

MCHandles == {h1, h2}
===========================================================================
