----------------------------- MODULE Wallpaper -----------------------------
(***************************************************************************)
(* The Wallpaper portal: SetWallpaperURI() checks what it is asked for and *)
(* sends one request for every screen to the compositor.  It answers       *)
(* Success when the arguments are right, whatever happens then: the global *)
(* may be missing, a screen may have no output, the file may be neither an *)
(* image nor a video, and the object that would hear of a failure is       *)
(* deleted as soon as the request is sent.                                 *)
(***************************************************************************)
EXTENDS Naturals, Sequences

CONSTANTS
    Monitors,   \* screens
    Pictures,   \* files that are images or videos
    OtherFiles, \* files that are neither
    MaxWire,    \* requests on their way to the compositor, for one screen
    NoFile

ASSUME WallpaperAssumption == /\ MaxWire \in Nat
                              /\ Pictures \cap OtherFiles = {}
                              /\ NoFile \notin Pictures \cup OtherFiles

\* WallpaperRole
Roles == {"Desktop", "Lockscreen"}

\* Locations, the values of the option "set-on"
Locations == {"background", "lockscreen", "both"}

VARIABLES
    extension,   \* m_wallpaperManager->isActive()
    monitors,    \* QGuiApplication::screens()
    wire,        \* requests on their way, by screen
    wallpaper,   \* what the compositor shows, by screen and role
    answer,      \* the last reply
    wanted,      \* history: the file an application was last told is set
    disappointed \* history: where that request was never sent or has failed

screenState == <<extension, monitors>>
wallpaperVars == <<screenState, wire, wallpaper, answer, wanted, disappointed>>

WallpaperInit ==
    /\ extension = TRUE
    /\ monitors = Monitors
    /\ wire = [m \in Monitors |-> <<>>]
    /\ wallpaper = [m \in Monitors |-> [r \in Roles |-> NoFile]]
    /\ answer = "none"
    /\ wanted = wallpaper
    /\ disappointed = {}

---------------------------------------------------------------------------
\* Mutant: only the desktop's wallpaper is ever set.
RolesOfDesktop(location) ==
    IF location = "both" THEN Roles ELSE {"Desktop"}

\* The roles of a location
RolesOf(location) ==
    CASE location = "background" -> {"Desktop"}
      [] location = "lockscreen" -> {"Lockscreen"}
      [] location = "both"       -> Roles

\* setSource(): only images and videos are sent.
Sent(source, location) ==
    IF source \in Pictures
    THEN <<[source |-> source, roles |-> RolesOf(location)]>> ELSE <<>>

\* What an application means by a location.
Meant(location) == {r \in Roles : \/ location = "both"
                                  \/ location = "background" /\ r = "Desktop"
                                  \/ location = "lockscreen" /\ r = "Lockscreen"}

\* The screens that createWallpaper() makes an object for: those it finds an
\* output for, if the global is there.
Reached(outputs) == IF extension THEN outputs \cap monitors ELSE {}

\* SetWallpaperURI() with arguments that are right: one request for each screen.
SetWallpaperURI(source, location, outputs) ==
    LET reached == Reached(outputs)
        places  == monitors \X Meant(location)
    IN  /\ \A m \in reached : Len(wire[m]) < MaxWire
        /\ wire' = [m \in Monitors |->
                       IF m \in reached THEN wire[m] \o Sent(source, location)
                                        ELSE wire[m]]
        /\ answer' = "Success"
        /\ wanted' = [m \in Monitors |-> [r \in Roles |->
                         IF <<m, r>> \in places THEN source ELSE wanted[m][r]]]
        /\ disappointed' =
              (disappointed \ places)
                 \cup {p \in places : p[1] \notin reached
                                      \/ source \in OtherFiles}
        /\ UNCHANGED <<screenState, wallpaper>>

\* An unknown location, or a URI that is not a local file's, is refused.
RefuseArguments ==
    /\ answer' = "OtherError"
    /\ UNCHANGED <<screenState, wire, wallpaper, wanted, disappointed>>

\* The compositor sets the wallpaper it is asked for, or fails to.
Apply(m) ==
    /\ wire[m] # <<>>
    /\ wire' = [wire EXCEPT ![m] = Tail(@)]
    /\ wallpaper' = [wallpaper EXCEPT ![m] =
                        [r \in Roles |-> IF r \in Head(wire[m]).roles
                                         THEN Head(wire[m]).source ELSE @[r]]]
    /\ UNCHANGED <<screenState, answer, wanted, disappointed>>

\* Its event meets no object any more: treeland_wallpaper_v1_failed().
Fail(m) ==
    /\ wire[m] # <<>>
    /\ wire' = [wire EXCEPT ![m] = Tail(@)]
    /\ disappointed' = disappointed \cup ({m} \X Head(wire[m]).roles)
    /\ UNCHANGED <<screenState, wallpaper, answer, wanted>>

\* Screens and the global come and go.
ScreensChange ==
    /\ \/ extension' = ~extension /\ UNCHANGED monitors
       \/ monitors' \in SUBSET Monitors /\ UNCHANGED extension
    /\ UNCHANGED <<wire, wallpaper, answer, wanted, disappointed>>

WallpaperNext ==
    \/ \E source \in Pictures \cup OtherFiles, location \in Locations,
          outputs \in SUBSET Monitors :
          SetWallpaperURI(source, location, outputs)
    \/ RefuseArguments
    \/ \E m \in Monitors : Apply(m) \/ Fail(m)
    \/ ScreensChange

WallpaperSpec == WallpaperInit /\ [][WallpaperNext]_wallpaperVars

---------------------------------------------------------------------------
(* Properties *)

WallpaperTypeOK ==
    /\ extension \in BOOLEAN
    /\ monitors \subseteq Monitors
    /\ wire \in [Monitors -> Seq([source : Pictures, roles : SUBSET Roles])]
    /\ wallpaper \in [Monitors -> [Roles -> Pictures \cup {NoFile}]]
    /\ answer \in {"none", "Success", "OtherError"}
    /\ wanted \in [Monitors -> [Roles -> Pictures \cup OtherFiles \cup {NoFile}]]
    /\ disappointed \subseteq Monitors \X Roles

\* Requests for a role that are on their way
Pending(m, r) == {i \in DOMAIN wire[m] : r \in wire[m][i].roles}

\* Every screen shows, for each role, the file an application was last told is
\* set there, or its request is the last one on its way, unless a request for
\* that role was never sent or has failed: a refused call changes nothing, no
\* role is set that was not asked for, and calls are not taken in another order.
WallpaperIsAsWanted ==
    /\ WallpaperTypeOK
    /\ \A m \in Monitors, r \in Roles :
          \/ <<m, r>> \in disappointed
          \/ Pending(m, r) = {} /\ wallpaper[m][r] = wanted[m][r]
          \/ \E i \in Pending(m, r) :
                /\ \A j \in Pending(m, r) : j <= i
                /\ wire[m][i].source = wanted[m][r]
===========================================================================
