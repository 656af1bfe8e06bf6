----------------------------- MODULE MCWayland -----------------------------
(* Parts of the portal on Wayland that have no step in common:              *)
(* SharedWindows, SourceChooser, FramePacing and Wallpaper.  A behaviour    *)
(* belongs to one of them and leaves the variables of the others alone.     *)
(* The global of the list of windows is announced twice only where one      *)
(* window is ever open.                                                     *)
EXTENDS SharedWindows, SourceChooser, FramePacing, Wallpaper, TLC

CONSTANTS w1, w2, o1, s1, s2, c1, c2, m1, v1, v2, x1

MCWindows == {w1, w2}
MCShown == {w1, w2, o1}
MCOwnWindows == {o1}
MCStarts == {s1, s2}
MCScreens == {c1, c2}
MCRates == {0, 1, 5}
Symmetry == Permutations({w1, w2}) \cup Permutations(MCStarts)
               \cup Permutations(MCScreens)

VARIABLE part

allVars == <<part, sharesVars, chooserVars, pacingVars, wallpaperVars>>

Few == \/ bound' <= 1
       \/ Cardinality({w \in Windows : window'[w] # "unborn"}) <= 1

WaylandInit ==
    /\ part \in {"shares", "chooser", "pacing", "wallpaper"}
    /\ SharesInit /\ ChooserInit /\ PacingInit /\ WallpaperInit
    /\ part # "pacing" => screenRate = 0

WaylandNext ==
    /\ UNCHANGED part
    /\ \/ part = "shares" /\ SharesNext /\ Few
       \/ part # "shares" /\ UNCHANGED sharesVars
    /\ \/ part = "chooser" /\ ChooserNext
       \/ part # "chooser" /\ UNCHANGED chooserVars
    /\ \/ part = "pacing" /\ PacingNext
       \/ part # "pacing" /\ UNCHANGED pacingVars
    /\ \/ part = "wallpaper" /\ WallpaperNext
       \/ part # "wallpaper" /\ UNCHANGED wallpaperVars

WaylandSpec == WaylandInit /\ [][WaylandNext]_allVars
===========================================================================
