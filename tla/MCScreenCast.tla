--------------------------- MODULE MCScreenCast ---------------------------
(* ScreenCast with two or three applications and up to three streams.       *)
EXTENDS ScreenCast, TLC

CONSTANTS s1, s2, s3

MCSessions == {s1, s2}
ThreeSessions == {s1, s2, s3}
Symmetry == Permutations(MCSessions)
ThreeSymmetry == Permutations(ThreeSessions)
===========================================================================
