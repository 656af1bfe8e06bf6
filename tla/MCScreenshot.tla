--------------------------- MODULE MCScreenshot ---------------------------
(* Screenshot with up to two screens: the smallest number for which one     *)
(* capture can end, or one screen go, before the other.                     *)
EXTENDS Screenshot

CONSTANTS left, right

MCScreens == {left, right}
===========================================================================
