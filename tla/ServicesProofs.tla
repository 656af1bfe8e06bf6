-------------------------- MODULE ServicesProofs ---------------------------
(* Theorems about the small parts: four portals that stand between an        *)
(* application and one service, Wallpaper, the application chooser,          *)
(* Notification and Inhibit, the frame-rate limiter and the file filters.    *)
(*                                                                           *)
(* The first three properties are inductive, or nearly so: what has to be    *)
(* proved is that the bookkeeping survives every order of calls and answers. *)
(* That of Inhibit is not inductive alone: that a Close() reaches the        *)
(* closer's own Request rests on a path having one open call at a time, and  *)
(* none while a Request there is still to be deleted.                        *)
(*                                                                           *)
(* The limiter keeps the rate, whatever the rates of the screens, the        *)
(* resolution of the clock and the accuracy of the timer.  A capture may     *)
(* start because the delay has passed or because a timer fires, perhaps one  *)
(* that was started for an earlier buffer.  TimerCovers says that whenever a *)
(* timer runs while a buffer is held, its end is late enough for that one.   *)
(*                                                                           *)
(* Of the filters almost everything is about lists: what the entries of the  *)
(* dialog are made of, and that each is found again under its key.           *)
EXTENDS Wallpaper, AppPicker, Notification, Inhibit, FramePacing, FileFilters,
        SequenceFacts

---------------------------------------------------------------------------
(* Wallpaper: the last request for a role *)

Request == [source : Pictures, roles : SUBSET Roles]

\* No request of queue q is about role r.
NoneFor(q, r) == \A i \in DOMAIN q : r \notin q[i].roles

\* The last request of queue q about role r is for file f.
LastFor(q, r, f) ==
    \E i \in DOMAIN q :
        /\ r \in q[i].roles /\ q[i].source = f
        /\ \A j \in DOMAIN q : r \in q[j].roles => j <= i

\* What holds of a screen and a role: the wallpaper is there or on its way.
OnItsWay(q, r, now, want) ==
    \/ NoneFor(q, r) /\ now = want
    \/ LastFor(q, r, want)

\* A location means the same to setWallpaper() as to the application.
LEMMA RolesAreMeant ==
    ASSUME NEW location \in Locations
    PROVE  /\ RolesOf(location) = Meant(location)
           /\ RolesOf(location) \in SUBSET Roles
BY DEF Locations, Roles, RolesOf, Meant

\* A new request is the last one for its roles.
LEMMA AppendedIsLast ==
    ASSUME NEW q \in Seq(Request), NEW e \in Request, NEW r \in e.roles
    PROVE  LastFor(Append(q, e), r, e.source)
<1>1. Len(q) \in Nat /\ DOMAIN q = 1..Len(q)
  BY LenProperties
<1>2. DOMAIN Append(q, e) = 1..(Len(q) + 1)
  BY <1>1
<1>3. Append(q, e)[Len(q) + 1] = e
  BY <1>1
<1> QED
  BY <1>1, <1>2, <1>3 DEF LastFor

\* It says nothing about other roles.
LEMMA AppendedIsNothing ==
    ASSUME NEW q \in Seq(Request), NEW e \in Request, NEW r \in Roles,
           r \notin e.roles, NEW now, NEW want, OnItsWay(q, r, now, want)
    PROVE  OnItsWay(Append(q, e), r, now, want)
<1>1. Len(q) \in Nat /\ DOMAIN q = 1..Len(q)
  BY LenProperties
<1>2. DOMAIN Append(q, e) = 1..(Len(q) + 1)
  BY <1>1
<1>3. /\ Append(q, e)[Len(q) + 1] = e
      /\ \A i \in 1..Len(q) : Append(q, e)[i] = q[i]
  BY <1>1
<1>4. NoneFor(q, r) => NoneFor(Append(q, e), r)
  BY <1>1, <1>2, <1>3 DEF NoneFor
<1>5. LastFor(q, r, want) => LastFor(Append(q, e), r, want)
  BY <1>1, <1>2, <1>3 DEF LastFor
<1> QED
  BY <1>4, <1>5 DEF OnItsWay

\* The head of a queue is taken off.  If it was about the role, the wallpaper
\* is what it asked for.
LEMMA TakenOff ==
    ASSUME NEW q \in Seq(Request), q # <<>>, NEW r \in Roles,
           NEW now, NEW want, OnItsWay(q, r, now, want)
    PROVE  OnItsWay(Tail(q), r,
                    IF r \in Head(q).roles THEN Head(q).source ELSE now, want)
<1>1. /\ Len(q) \in Nat \ {0} /\ DOMAIN q = 1..Len(q)
      /\ Head(q) = q[1]
  BY LenProperties
<1>2. Tail(q) \in Seq(Request) /\ Len(Tail(q)) = Len(q) - 1
  BY HeadTailProperties
<1>3. DOMAIN Tail(q) = 1..(Len(q) - 1)
  BY <1>2, LenProperties
<1>4. \A i \in 1..(Len(q) - 1) : Tail(q)[i] = q[i + 1]
  BY <1>1
<1>5. CASE NoneFor(q, r) /\ now = want
  <2>1. NoneFor(Tail(q), r)
    BY <1>1, <1>3, <1>4, <1>5 DEF NoneFor
  <2>2. r \notin Head(q).roles
    BY <1>1, <1>5 DEF NoneFor
  <2> QED
    BY <1>5, <2>1, <2>2 DEF OnItsWay
<1>6. CASE LastFor(q, r, want)
  <2>1. PICK i \in 1..Len(q) : /\ r \in q[i].roles /\ q[i].source = want
                               /\ \A j \in 1..Len(q) : r \in q[j].roles => j <= i
    BY <1>1, <1>6 DEF LastFor
  <2>2. CASE i = 1
    <3>1. \A j \in 1..(Len(q) - 1) : r \notin q[j + 1].roles
      BY <1>1, <2>1, <2>2
    <3>2. NoneFor(Tail(q), r)
      BY <1>3, <1>4, <3>1 DEF NoneFor
    <3> QED
      BY <1>1, <2>1, <2>2, <3>2 DEF OnItsWay
  <2>3. CASE i # 1
    <3>1. i - 1 \in 1..(Len(q) - 1)
      BY <1>1, <2>1, <2>3
    <3>2. Tail(q)[i - 1] = q[i]
      BY <1>4, <3>1
    <3>3. \A j \in 1..(Len(q) - 1) : r \in Tail(q)[j].roles => j <= i - 1
      BY <1>1, <1>4, <2>1
    <3>4. LastFor(Tail(q), r, want)
      BY <1>3, <2>1, <3>1, <3>2, <3>3 DEF LastFor
    <3> QED
      BY <3>4 DEF OnItsWay
  <2> QED
    BY <2>2, <2>3
<1> QED
  BY <1>5, <1>6 DEF OnItsWay

\* The property of the module in these words.
AllOnTheirWay ==
    \A m \in Monitors, r \in Roles :
        \/ <<m, r>> \in disappointed
        \/ OnItsWay(wire[m], r, wallpaper[m][r], wanted[m][r])

LEMMA WantedIsOnItsWay ==
    WallpaperIsAsWanted <=> WallpaperTypeOK /\ AllOnTheirWay
<1> SUFFICES ASSUME NEW m \in Monitors, NEW r \in Roles
             PROVE  /\ Pending(m, r) = {} <=> NoneFor(wire[m], r)
                    /\ (\E i \in Pending(m, r) :
                          /\ \A j \in Pending(m, r) : j <= i
                          /\ wire[m][i].source = wanted[m][r])
                       <=> LastFor(wire[m], r, wanted[m][r])
  BY DEF WallpaperIsAsWanted, AllOnTheirWay, OnItsWay
<1> QED
  BY DEF Pending, NoneFor, LastFor

---------------------------------------------------------------------------
(* Wallpaper: the steps *)

\* SetWallpaperURI() puts its request at the end of each queue it reaches, and
\* disappoints where it reaches none.
LEMMA SetWallpaperKeepsProperty ==
    ASSUME WallpaperIsAsWanted,
           NEW source \in Pictures \cup OtherFiles, NEW location \in Locations,
           NEW outputs \in SUBSET Monitors,
           SetWallpaperURI(source, location, outputs)
    PROVE  WallpaperIsAsWanted'
<1> DEFINE reached == Reached(outputs)
           meant   == Meant(location)
           places  == monitors \X meant
           e       == [source |-> source, roles |-> meant]
<1>1. WallpaperTypeOK
  BY DEF WallpaperIsAsWanted
<1>2. reached \subseteq monitors /\ monitors \subseteq Monitors
  BY <1>1 DEF WallpaperTypeOK, Reached
<1>3. RolesOf(location) = meant /\ meant \in SUBSET Roles
  BY RolesAreMeant
<1>4. /\ wire' = [m \in Monitors |->
                     IF m \in reached THEN wire[m] \o Sent(source, location)
                                      ELSE wire[m]]
      /\ wanted' = [m \in Monitors |-> [r \in Roles |->
                       IF <<m, r>> \in places THEN source ELSE wanted[m][r]]]
      /\ disappointed' =
            (disappointed \ places)
               \cup {p \in places : p[1] \notin reached \/ source \in OtherFiles}
      /\ answer' = "Success"
      /\ UNCHANGED <<extension, monitors, wallpaper>>
  BY DEF SetWallpaperURI, screenState
<1>5. source \in Pictures => e \in Request
  BY <1>3 DEF Request
<1>6. \A m \in Monitors : /\ wire[m] \in Seq(Request)
                          /\ Append(wire[m], e) = wire[m] \o <<e>>
                          /\ wire[m] \o <<>> = wire[m]
  <2> TAKE m \in Monitors
  <2>1. wire[m] \in Seq(Request)
    BY <1>1 DEF WallpaperTypeOK, Request
  <2>2. Append(wire[m], e) = wire[m] \o <<e>>
    BY <2>1
  <2>3. wire[m] \o <<>> = wire[m]
    BY <2>1
  <2> QED
    BY <2>1, <2>2, <2>3
<1>7. \A m \in Monitors :
         wire'[m] = IF m \in reached /\ source \in Pictures
                    THEN Append(wire[m], e) ELSE wire[m]
  BY <1>3, <1>4, <1>6 DEF Sent
<1> HIDE DEF reached, meant, e
<1>8. WallpaperTypeOK'
  <2>1. \A m \in Monitors : wire'[m] \in Seq(Request)
    <3> TAKE m \in Monitors
    <3>1. e \in Request => Append(wire[m], e) \in Seq(Request)
      BY <1>6, AppendProperties
    <3> QED
      BY <1>5, <1>6, <1>7, <3>1
  <2>2. wire' \in [Monitors -> Seq(Request)]
    BY <1>4, <2>1
  <2>3. wanted' \in [Monitors -> [Roles -> Pictures \cup OtherFiles \cup {NoFile}]]
    BY <1>1, <1>4 DEF WallpaperTypeOK
  <2>4. disappointed' \subseteq Monitors \X Roles
    BY <1>1, <1>2, <1>3, <1>4 DEF WallpaperTypeOK
  <2> QED
    BY <1>1, <1>4, <2>2, <2>3, <2>4 DEF WallpaperTypeOK, Request
<1>9. ASSUME NEW m \in Monitors, NEW r \in Roles
      PROVE  \/ <<m, r>> \in disappointed'
             \/ OnItsWay(wire'[m], r, wallpaper'[m][r], wanted'[m][r])
  <2>1. wanted'[m][r] = IF <<m, r>> \in places THEN source ELSE wanted[m][r]
    BY <1>4
  <2>2. wallpaper'[m][r] = wallpaper[m][r]
    BY <1>4
  <2>3. CASE <<m, r>> \in places /\ (m \notin reached \/ source \in OtherFiles)
    BY <1>4, <2>3
  <2>4. CASE <<m, r>> \in places /\ m \in reached /\ source \notin OtherFiles
    <3>1. source \in Pictures /\ r \in e.roles /\ e.source = source
      BY <2>4 DEF e
    <3>2. wire'[m] = Append(wire[m], e)
      BY <1>7, <2>4, <3>1
    <3>3. LastFor(wire'[m], r, source)
      BY <1>5, <1>6, <3>1, <3>2, AppendedIsLast
    <3> QED
      BY <2>1, <2>4, <3>3 DEF OnItsWay
  <2>5. CASE <<m, r>> \notin places
    <3>1. <<m, r>> \in disappointed => <<m, r>> \in disappointed'
      BY <1>4, <2>5
    <3>2. \/ <<m, r>> \in disappointed
          \/ OnItsWay(wire[m], r, wallpaper[m][r], wanted[m][r])
      BY WantedIsOnItsWay DEF AllOnTheirWay
    <3>3. m \in reached => r \notin e.roles
      BY <1>2, <2>5 DEF e
    <3>4. ASSUME OnItsWay(wire[m], r, wallpaper[m][r], wanted[m][r])
          PROVE  OnItsWay(wire'[m], r, wallpaper[m][r], wanted[m][r])
      <4>1. CASE m \in reached /\ source \in Pictures
        <5>1. wire'[m] = Append(wire[m], e)
          BY <1>7, <4>1
        <5>2. OnItsWay(Append(wire[m], e), r, wallpaper[m][r], wanted[m][r])
          BY <1>5, <1>6, <3>3, <3>4, <4>1, AppendedIsNothing
        <5> QED
          BY <5>1, <5>2
      <4>2. CASE ~(m \in reached /\ source \in Pictures)
        BY <1>7, <3>4, <4>2
      <4> QED
        BY <4>1, <4>2
    <3> QED
      BY <2>1, <2>2, <2>5, <3>1, <3>2, <3>4
  <2> QED
    BY <2>3, <2>4, <2>5
<1>10. WallpaperIsAsWanted' <=> WallpaperTypeOK' /\ AllOnTheirWay'
  BY WantedIsOnItsWay, PTL
<1> QED
  BY <1>8, <1>9, <1>10 DEF AllOnTheirWay

\* The compositor takes the first request of a queue, and applies it or
\* disappoints.
LEMMA AnswerKeepsProperty ==
    ASSUME WallpaperIsAsWanted, NEW m \in Monitors, Apply(m) \/ Fail(m)
    PROVE  WallpaperIsAsWanted'
<1> DEFINE h == Head(wire[m])
<1>1. WallpaperTypeOK
  BY DEF WallpaperIsAsWanted
<1>2. /\ wire[m] \in Seq(Request) /\ wire[m] # <<>>
      /\ h \in Request /\ Tail(wire[m]) \in Seq(Request)
  BY <1>1, HeadTailProperties DEF WallpaperTypeOK, Request, Apply, Fail
<1>3. /\ wire' = [wire EXCEPT ![m] = Tail(@)]
      /\ UNCHANGED <<extension, monitors, answer, wanted>>
  BY DEF Apply, Fail, screenState
<1>4. /\ wire'[m] = Tail(wire[m])
      /\ \A n \in Monitors \ {m} : wire'[n] = wire[n]
  BY <1>1, <1>3 DEF WallpaperTypeOK
<1>5. /\ disappointed \subseteq disappointed'
      /\ disappointed' \subseteq Monitors \X Roles
  BY <1>1, <1>2, Zenon DEF Apply, Fail, WallpaperTypeOK, Request
<1>6. \A r \in Roles :
         \/ <<m, r>> \in disappointed'
         \/ wallpaper'[m][r] = IF r \in h.roles THEN h.source ELSE wallpaper[m][r]
  <2>1. CASE Apply(m)
    BY <1>1, <2>1 DEF Apply, WallpaperTypeOK
  <2>2. CASE Fail(m)
    BY <1>1, <2>2 DEF Fail, WallpaperTypeOK
  <2> QED
    BY <2>1, <2>2
<1>7. \A n \in Monitors \ {m} : wallpaper'[n] = wallpaper[n]
  BY <1>1 DEF Apply, Fail, WallpaperTypeOK
<1>8. wallpaper' \in [Monitors -> [Roles -> Pictures \cup {NoFile}]]
  <2>1. CASE Apply(m)
    <3>1. h.source \in Pictures
      BY <1>2 DEF Request
    <3> QED
      BY <1>1, <2>1, <3>1 DEF Apply, WallpaperTypeOK
  <2>2. CASE Fail(m)
    BY <1>1, <2>2 DEF Fail, WallpaperTypeOK
  <2> QED
    BY <2>1, <2>2
<1>9. WallpaperTypeOK'
  <2>1. wire' \in [Monitors -> Seq(Request)]
    BY <1>1, <1>2, <1>3 DEF WallpaperTypeOK, Request
  <2> QED
    BY <1>1, <1>3, <1>5, <1>8, <2>1 DEF WallpaperTypeOK, Request
<1>10. ASSUME NEW n \in Monitors, NEW r \in Roles
       PROVE  \/ <<n, r>> \in disappointed'
              \/ OnItsWay(wire'[n], r, wallpaper'[n][r], wanted'[n][r])
  <2>1. \/ <<n, r>> \in disappointed
        \/ OnItsWay(wire[n], r, wallpaper[n][r], wanted[n][r])
    BY WantedIsOnItsWay DEF AllOnTheirWay
  <2>2. CASE n # m
    BY <1>3, <1>4, <1>5, <1>7, <2>1, <2>2
  <2>3. CASE n = m
    <3>1. OnItsWay(wire[m], r, wallpaper[m][r], wanted[m][r]) =>
             OnItsWay(Tail(wire[m]), r,
                      IF r \in h.roles THEN h.source ELSE wallpaper[m][r],
                      wanted[m][r])
      BY <1>2, TakenOff
    <3> QED
      BY <1>3, <1>4, <1>5, <1>6, <2>1, <2>3, <3>1
  <2> QED
    BY <2>2, <2>3
<1>11. WallpaperIsAsWanted' <=> WallpaperTypeOK' /\ AllOnTheirWay'
  BY WantedIsOnItsWay, PTL
<1> QED
  BY <1>9, <1>10, <1>11 DEF AllOnTheirWay

\* For any number of screens, files and requests on their way: every screen
\* shows for each role the file an application was last told is set, or its
\* request is the last one on its way, unless it was never sent or has failed.
THEOREM WallpaperStaysAsWanted == WallpaperSpec => []WallpaperIsAsWanted
<1>1. WallpaperInit => WallpaperIsAsWanted
  <2> SUFFICES ASSUME WallpaperInit PROVE WallpaperIsAsWanted
    OBVIOUS
  <2>1. WallpaperTypeOK
    <3>1. wire \in [Monitors -> Seq(Request)]
      BY EmptySeq DEF WallpaperInit
    <3> QED
      BY <3>1 DEF WallpaperInit, WallpaperTypeOK, Request
  <2>2. \A m \in Monitors, r \in Roles :
           Pending(m, r) = {} /\ wallpaper[m][r] = wanted[m][r]
    BY DEF WallpaperInit, Pending
  <2> QED
    BY <2>1, <2>2 DEF WallpaperIsAsWanted
<1>2. WallpaperIsAsWanted /\ [WallpaperNext]_wallpaperVars => WallpaperIsAsWanted'
  <2> SUFFICES ASSUME WallpaperIsAsWanted, [WallpaperNext]_wallpaperVars
               PROVE  WallpaperIsAsWanted'
    OBVIOUS
  <2>1. ASSUME NEW source \in Pictures \cup OtherFiles,
               NEW location \in Locations, NEW outputs \in SUBSET Monitors,
               SetWallpaperURI(source, location, outputs)
        PROVE  WallpaperIsAsWanted'
    BY <2>1, SetWallpaperKeepsProperty
  <2>2. ASSUME NEW m \in Monitors, Apply(m) \/ Fail(m) PROVE WallpaperIsAsWanted'
    BY <2>2, AnswerKeepsProperty
  <2>3. ASSUME RefuseArguments \/ ScreensChange \/ UNCHANGED wallpaperVars
        PROVE  WallpaperIsAsWanted'
    <3>1. UNCHANGED <<wire, wallpaper, wanted, disappointed>>
      BY <2>3 DEF RefuseArguments, ScreensChange, wallpaperVars
    <3>2. /\ extension' \in BOOLEAN /\ monitors' \subseteq Monitors
          /\ answer' \in {"none", "Success", "OtherError"}
      BY <2>3 DEF RefuseArguments, ScreensChange, wallpaperVars, screenState,
                  WallpaperIsAsWanted, WallpaperTypeOK
    <3>3. WallpaperTypeOK'
      BY <3>1, <3>2 DEF WallpaperIsAsWanted, WallpaperTypeOK
    <3> QED
      BY <3>1, <3>3 DEF WallpaperIsAsWanted, Pending
  <2> QED
    BY <2>1, <2>2, <2>3 DEF WallpaperNext
<1> QED
  BY <1>1, <1>2, PTL DEF WallpaperSpec

---------------------------------------------------------------------------
(* The application chooser *)

\* The marks of the list are the user's, as long as the dialog can be used.
MarksAreHis == picker \in {"none", "open"} => Marked = pressed

PickerInv == ChoiceIsMarkedByHand /\ MarksAreHis

\* Nothing is marked until the list is there, and every click on it turns the
\* mark and the record of it over together.
THEOREM PickerInvariant == PickerSpec => []PickerInv
<1>1. PickerInit => PickerInv
  BY DEF PickerInit, PickerInv, ChoiceIsMarkedByHand, PickerTypeOK, MarksAreHis,
         Marked
<1>2. PickerInv /\ [PickerNext]_pickerVars => PickerInv'
  <2> SUFFICES ASSUME PickerInv, [PickerNext]_pickerVars PROVE PickerInv'
    OBVIOUS
  <2> USE DEF PickerInv
  <2>1. ASSUME NEW a \in Applications \cup {NoApplication}, OpenPicker(a)
        PROVE  PickerInv'
    BY <2>1 DEF OpenPicker, ClickById, ChoiceIsMarkedByHand, PickerTypeOK,
                MarksAreHis, Marked
  <2>2. ASSUME NEW S \in SUBSET Applications, ApplicationsLoaded(S)
        PROVE  PickerInv'
    <3>1. picker \in {"none", "open"} => pressed = {}
      BY <2>2 DEF ApplicationsLoaded, ChoiceIsMarkedByHand, MarksAreHis, Marked
    <3>2. Marked' = {}
      BY <2>2 DEF ApplicationsLoaded, Marked
    <3>3. PickerTypeOK'
      BY <2>2 DEF ApplicationsLoaded, ChoiceIsMarkedByHand, PickerTypeOK
    <3> QED
      BY <2>2, <3>1, <3>2, <3>3
      DEF ApplicationsLoaded, ChoiceIsMarkedByHand, MarksAreHis
  <2>3. ASSUME NEW S \in SUBSET Applications, UpdateChoices(S)
        PROVE  PickerInv'
    BY <2>3 DEF UpdateChoices, ChoiceIsMarkedByHand, PickerTypeOK, MarksAreHis,
                Marked
  <2>4. ASSUME NEW a \in Applications, ClickApplication(a)
        PROVE  PickerInv'
    <3>1. /\ a \in DOMAIN datas
          /\ datas' = [datas EXCEPT ![a] = ~@]
          /\ pressed' = (pressed \ {a}) \cup ({a} \ pressed)
          /\ UNCHANGED <<picker, loading, choices, choice>>
          /\ picker = "open"
      BY <2>4 DEF ClickApplication
    <3>2. DOMAIN datas' = DOMAIN datas
      BY <3>1
    <3>3. \A b \in DOMAIN datas : datas'[b] = IF b = a THEN ~datas[b] ELSE datas[b]
      BY <3>1
    <3>4. datas[a] \in BOOLEAN
      BY <3>1 DEF ChoiceIsMarkedByHand, PickerTypeOK
    <3>5. PickerTypeOK'
      BY <3>1, <3>2, <3>3, <3>4 DEF ChoiceIsMarkedByHand, PickerTypeOK
    <3>6. loading = "loaded"
      BY <3>1 DEF ChoiceIsMarkedByHand
    <3>7. Marked = pressed
      BY <3>1 DEF MarksAreHis
    <3>8. Marked' = (Marked \ {a}) \cup ({a} \ Marked)
      BY <3>1, <3>2, <3>3, <3>4 DEF Marked
    <3> QED
      BY <3>1, <3>5, <3>6, <3>7, <3>8 DEF ChoiceIsMarkedByHand, MarksAreHis
  <2>5. CASE LoadApplications \/ LoadFailed
    BY <2>5 DEF LoadApplications, LoadFailed, ChoiceIsMarkedByHand,
                PickerTypeOK, MarksAreHis, Marked
  <2>6. CASE Confirm
    <3>1. Marked \subseteq Applications /\ Marked = pressed
      BY <2>6 DEF Confirm, ChoiceIsMarkedByHand, PickerTypeOK, MarksAreHis,
                  Marked
    <3> QED
      BY <2>6, <3>1 DEF Confirm, ChoiceIsMarkedByHand, PickerTypeOK, MarksAreHis
  <2>7. CASE Cancel
    BY <2>7 DEF Cancel, ChoiceIsMarkedByHand, PickerTypeOK, MarksAreHis
  <2>8. CASE UNCHANGED pickerVars
    BY <2>8 DEF pickerVars, ChoiceIsMarkedByHand, PickerTypeOK, MarksAreHis,
                Marked
  <2> QED
    BY <2>1, <2>2, <2>3, <2>4, <2>5, <2>6, <2>7, <2>8 DEF PickerNext
<1> QED
  BY <1>1, <1>2, PTL DEF PickerSpec

\* For any set of applications, whenever the list arrives and whatever the
\* caller suggests: what is chosen is what the user marked.
THEOREM ChoiceStaysMarkedByHand == PickerSpec => []ChoiceIsMarkedByHand
<1>1. PickerInv => ChoiceIsMarkedByHand
  BY DEF PickerInv
<1> QED
  BY <1>1, PickerInvariant, PTL

---------------------------------------------------------------------------
(* Notification *)

\* As long as the daemon keeps running the portal can reach it, and knows only
\* numbers the daemon has given out, and 0.
NumbersAreGiven ==
    ~restarted => /\ valid
                  /\ DOMAIN idInfoMap \subseteq 0..last
                  /\ signal.number <= last

\* An entry is no older than what the portal was told.
EntriesAreYoung ==
    \A n \in DOMAIN told :
        told[n] <= defaultTimeout =>
            n \in DOMAIN idInfoMap /\ idInfoMap[n].age <= told[n]

NotificationInv ==
    NotificationsKeepTheirOwner /\ NumbersAreGiven /\ EntriesAreYoung

\* When no action was just invoked, nobody is told of one.
LEMMA NoSignalFacts ==
    /\ NoSignal \in [number : Numbers, to : SUBSET [appId : Apps, id : Ids]]
    /\ NoSignal.number = 0 /\ NoSignal.to = {}
BY NotificationAssumption DEF NoSignal, Numbers

\* Whatever the daemon answers, the maps keep their types, an entry is found for
\* the number that was told, and no other entry goes but for its age.
LEMMA AddKeepsInv ==
    ASSUME NotificationInv, NEW app \in Apps, NEW id \in Ids,
           AddNotification(app, id)
    PROVE  NotificationInv'
<1> USE NotificationAssumption
<1>0. PICK number \in Numbers :
         /\ Notify(app, id, number)
         /\ idInfoMap' =
               LET all == Insert(idInfoMap, number,
                                 [appId |-> app, id |-> id, age |-> 0])
               IN Without(all, TimedOut(all))
         /\ idMaps' = Insert(idMaps, id, number)
         /\ told' = IF number = 0 THEN told ELSE Insert(told, number, 0)
         /\ signal' = NoSignal /\ UNCHANGED <<valid, closed, restarted>>
  BY DEF AddNotification
<1> DEFINE info == [appId |-> app, id |-> id, age |-> 0]
           all  == Insert(idInfoMap, number, info)
           post == [appId |-> app, id |-> id]
<1>1. NotificationTypeOK
  BY DEF NotificationInv, NotificationsKeepTheirOwner
<1>2. /\ idInfoMap' = Without(all, TimedOut(all))
      /\ idMaps' = Insert(idMaps, id, number)
      /\ signal' = NoSignal /\ UNCHANGED <<valid, closed, restarted>>
  BY <1>0
<1>3. /\ last \in Nat /\ last <= MaxNumber /\ MaxNumber \in Nat
      /\ valid \in BOOLEAN /\ DOMAIN shown \subseteq 1..last
      /\ DOMAIN told \subseteq 1..last
  BY <1>1 DEF NotificationTypeOK, Numbers
<1>4. \/ /\ last < MaxNumber /\ last' = last + 1
         /\ shown' = Insert(shown, last + 1, post)
         /\ number \in {last + 1, 0}
      \/ UNCHANGED <<last, shown>> /\ number = 0
  BY <1>0 DEF Notify
<1>5. /\ DOMAIN all = DOMAIN idInfoMap \cup {number}
      /\ all[number] = info
      /\ \A n \in DOMAIN idInfoMap : n # number => all[n] = idInfoMap[n]
  BY DEF Insert
<1>6. /\ DOMAIN idInfoMap' \subseteq DOMAIN all
      /\ \A n \in DOMAIN idInfoMap' : idInfoMap'[n] = all[n]
      /\ \A n \in DOMAIN all : all[n].age <= defaultTimeout => n \in DOMAIN idInfoMap'
  <2>1. \A n \in DOMAIN all : all[n].age <= defaultTimeout => n \notin TimedOut(all)
    <3>1. \A n \in DOMAIN all : all[n].age \in Nat
      BY <1>1, <1>5 DEF NotificationTypeOK, NotificationInfo, Ages
    <3> QED
      BY <3>1 DEF TimedOut
  <2> HIDE DEF all
  <2> QED
    BY <1>2, <2>1 DEF Without, Restrict
<1>7. info \in NotificationInfo
  BY DEF NotificationInfo, Ages
<1>8. DOMAIN idInfoMap' \subseteq Numbers
      /\ \A n \in DOMAIN idInfoMap' : idInfoMap'[n] \in NotificationInfo
  BY <1>1, <1>5, <1>6, <1>7 DEF NotificationTypeOK
<1>9. DOMAIN idMaps' \subseteq Ids /\ \A i \in DOMAIN idMaps' : idMaps'[i] \in Numbers
  BY <1>1, <1>2 DEF NotificationTypeOK, Insert
<1>10. /\ last' \in Numbers /\ last' \in {last, last + 1}
       /\ DOMAIN shown' \subseteq 1..last'
       /\ \A n \in DOMAIN shown' :
             \/ n = last + 1 /\ last' = last + 1 /\ shown'[n] = post
             \/ n \in DOMAIN shown /\ n <= last /\ shown'[n] = shown[n]
  <2>1. CASE UNCHANGED <<last, shown>>
    BY <1>1, <1>3, <2>1 DEF NotificationTypeOK
  <2>2. CASE /\ last < MaxNumber /\ last' = last + 1
             /\ shown' = Insert(shown, last + 1, post)
    <3>1. /\ DOMAIN shown' = DOMAIN shown \cup {last + 1}
          /\ shown'[last + 1] = post
          /\ \A n \in DOMAIN shown : n # last + 1 => shown'[n] = shown[n]
      BY <2>2 DEF Insert
    <3> QED
      BY <1>3, <2>2, <3>1 DEF Numbers
  <2> QED
    BY <1>4, <2>1, <2>2
<1>11. \A n \in DOMAIN shown' : shown'[n] \in [appId : Apps, id : Ids]
  BY <1>1, <1>10 DEF NotificationTypeOK
<1>12. /\ DOMAIN told' \subseteq 1..last'
       /\ \A n \in DOMAIN told' : /\ told'[n] \in Ages
                                  /\ \/ n = number /\ told'[n] = 0
                                     \/ /\ n \in DOMAIN told /\ n # number
                                        /\ told'[n] = told[n]
  <2>1. CASE number = 0
    BY <1>0, <1>1, <1>3, <1>10, <2>1 DEF NotificationTypeOK
  <2>2. CASE number # 0
    <3>1. number = last + 1 /\ last' = last + 1
      BY <1>4, <2>2
    <3>2. /\ DOMAIN told' = DOMAIN told \cup {number} /\ told'[number] = 0
          /\ \A n \in DOMAIN told : n # number => told'[n] = told[n]
      BY <1>0, <2>2 DEF Insert
    <3>3. 0 \in Ages /\ \A n \in DOMAIN told : told[n] \in Ages
      BY <1>1 DEF NotificationTypeOK, Ages
    <3> QED
      BY <1>3, <3>1, <3>2, <3>3
  <2> QED
    BY <2>1, <2>2
<1>13. NotificationTypeOK'
  BY <1>1, <1>2, <1>8, <1>9, <1>10, <1>11, <1>12, NoSignalFacts
     DEF NotificationTypeOK
<1>14. EntriesAreYoung'
  <2> SUFFICES ASSUME NEW n \in DOMAIN told', told'[n] <= defaultTimeout
               PROVE  n \in DOMAIN idInfoMap' /\ idInfoMap'[n].age <= told'[n]
    BY DEF EntriesAreYoung
  <2>1. n \in DOMAIN all /\ all[n].age <= told'[n]
    <3>1. CASE n = number
      BY <1>5, <1>12, <3>1 DEF Ages
    <3>2. CASE n # number
      <4>1. n \in DOMAIN told /\ told'[n] = told[n]
        BY <1>12, <3>2
      <4>2. n \in DOMAIN idInfoMap /\ idInfoMap[n].age <= told[n]
        BY <4>1 DEF NotificationInv, EntriesAreYoung
      <4> QED
        BY <1>5, <3>2, <4>1, <4>2
    <3> QED
      BY <3>1, <3>2
  <2>2. all[n].age \in Nat /\ told'[n] \in Nat
    BY <1>1, <1>5, <1>12, <2>1 DEF NotificationTypeOK, NotificationInfo, Ages
  <2>3. all[n].age <= defaultTimeout
    BY <2>1, <2>2
  <2> HIDE DEF all
  <2> QED
    BY <1>6, <2>1, <2>3
<1>15. ActionsReachTheirOwner' /\ NumbersAreGiven'
  <2> SUFFICES ASSUME ~restarted
               PROVE  ActionsReachTheirOwner' /\ NumbersAreGiven'
    BY <1>2 DEF ActionsReachTheirOwner, NumbersAreGiven
  <2>1. valid /\ DOMAIN idInfoMap \subseteq 0..last
    BY DEF NotificationInv, NumbersAreGiven
  <2>2. signal'.number = 0 /\ signal'.to = {}
    BY <1>2, NoSignalFacts
  <2>3. number \in {0, last + 1} /\ (number = last + 1 => last' = last + 1)
    BY <1>3, <1>4
  <2>4. NumbersAreGiven'
    BY <1>2, <1>3, <1>5, <1>6, <1>10, <2>1, <2>2, <2>3 DEF NumbersAreGiven
  <2>5. ASSUME NEW n \in DOMAIN shown'
        PROVE  /\ n \in DOMAIN idInfoMap' =>
                     shown'[n] = [appId |-> idInfoMap'[n].appId,
                                  id |-> idInfoMap'[n].id]
               /\ signal'.number = n => signal'.to \subseteq {shown'[n]}
    <3>1. CASE n = last + 1 /\ shown'[n] = post
      <4>1. n \in DOMAIN idInfoMap' => n = number /\ idInfoMap'[n] = info
        BY <1>3, <1>5, <1>6, <2>1, <3>1
      <4> QED
        BY <2>2, <3>1, <4>1
    <3>2. CASE n \in DOMAIN shown /\ n <= last /\ shown'[n] = shown[n]
      <4>1. n # number
        BY <1>3, <2>3, <3>2
      <4>2. n \in DOMAIN idInfoMap' =>
               n \in DOMAIN idInfoMap /\ idInfoMap'[n] = idInfoMap[n]
        BY <1>5, <1>6, <4>1
      <4>3. n \in DOMAIN idInfoMap =>
               shown[n] = [appId |-> idInfoMap[n].appId, id |-> idInfoMap[n].id]
        BY <3>2 DEF NotificationInv, NotificationsKeepTheirOwner,
                    ActionsReachTheirOwner
      <4> QED
        BY <2>2, <3>2, <4>2, <4>3
    <3> QED
      BY <1>10, <3>1, <3>2
  <2> QED
    BY <2>4, <2>5 DEF ActionsReachTheirOwner
<1>16. WithdrawnStays'
  BY <1>2 DEF NotificationInv, NotificationsKeepTheirOwner, WithdrawnStays
<1>17. YoungIsKnown'
  BY <1>14 DEF EntriesAreYoung, YoungIsKnown
<1> QED
  BY <1>13, <1>14, <1>15, <1>16, <1>17
     DEF NotificationInv, NotificationsKeepTheirOwner

\* RemoveNotification() closes number 0 at most, which the daemon never gives.
LEMMA RemoveKeepsInv ==
    ASSUME NotificationInv, NEW app \in Apps, NEW id \in Ids,
           RemoveNotification(app, id)
    PROVE  NotificationInv'
<1> USE NotificationAssumption
<1>1. NotificationTypeOK
  BY DEF NotificationInv, NotificationsKeepTheirOwner
<1>2. /\ signal' = NoSignal /\ UNCHANGED <<valid, last, idInfoMap, told, restarted>>
      /\ signal' \in [number : Numbers, to : SUBSET [appId : Apps, id : Ids]]
      /\ signal'.number = 0 /\ signal'.to = {}
  BY NoSignalFacts DEF RemoveNotification
<1>3. CASE ~valid \/ id \in DOMAIN idMaps
  <2>1. UNCHANGED <<shown, idMaps, closed>>
    BY <1>3 DEF RemoveNotification
  <2>2. NotificationTypeOK'
    BY <1>1, <1>2, <2>1 DEF NotificationTypeOK
  <2>3. last \in Nat
    BY <1>1 DEF NotificationTypeOK, Numbers
  <2> QED
    BY <1>2, <2>1, <2>2, <2>3 DEF NotificationInv, NotificationsKeepTheirOwner,
       ActionsReachTheirOwner, YoungIsKnown, WithdrawnStays, NumbersAreGiven,
       EntriesAreYoung
<1>4. CASE ~(~valid \/ id \in DOMAIN idMaps)
  <2>1. /\ idMaps' = Insert(idMaps, id, 0)
        /\ closed' = closed \cup {Insert(idMaps, id, 0)[id]}
        /\ shown' = Without(shown, {Insert(idMaps, id, 0)[id]})
    BY <1>4 DEF RemoveNotification
  <2>2. Insert(idMaps, id, 0)[id] = 0
    BY DEF Insert
  <2>3. DOMAIN shown \subseteq 1..last /\ last \in Nat
    BY <1>1 DEF NotificationTypeOK, Numbers
  <2>4. /\ DOMAIN shown' = DOMAIN shown
        /\ \A n \in DOMAIN shown' : shown'[n] = shown[n]
    BY <2>1, <2>2, <2>3 DEF Without, Restrict
  <2>5. closed' = closed \cup {0}
    BY <2>1, <2>2
  <2>6. 0 \in Numbers
    BY DEF Numbers
  <2>7. DOMAIN idMaps' \subseteq Ids /\ \A i \in DOMAIN idMaps' : idMaps'[i] \in Numbers
    BY <1>1, <2>1, <2>6 DEF NotificationTypeOK, Insert
  <2>8. NotificationTypeOK'
    BY <1>1, <1>2, <2>4, <2>5, <2>6, <2>7 DEF NotificationTypeOK
  <2>9. ActionsReachTheirOwner'
    BY <1>2, <2>4
    DEF NotificationInv, NotificationsKeepTheirOwner, ActionsReachTheirOwner
  <2>10. WithdrawnStays' /\ NumbersAreGiven' /\ EntriesAreYoung' /\ YoungIsKnown'
    BY <1>2, <2>3, <2>5 DEF NotificationInv, NotificationsKeepTheirOwner,
       WithdrawnStays, NumbersAreGiven, EntriesAreYoung, YoungIsKnown
  <2> QED
    BY <2>8, <2>9, <2>10 DEF NotificationInv, NotificationsKeepTheirOwner
<1> QED
  BY <1>3, <1>4

\* An action is reported to the application the portal has for its number.
LEMMA InvokeKeepsInv ==
    ASSUME NotificationInv, NEW n \in 1..MaxNumber, ActionInvoked(n)
    PROVE  NotificationInv'
<1> USE NotificationAssumption
<1> DEFINE known == DOMAIN idInfoMap \cap {n}
           owner(k) == [appId |-> idInfoMap[k].appId, id |-> idInfoMap[k].id]
<1>1. NotificationTypeOK
  BY DEF NotificationInv, NotificationsKeepTheirOwner
<1>2. /\ n \in DOMAIN shown
      /\ signal' = [number |-> n, to |-> {owner(k) : k \in known}]
      /\ UNCHANGED <<valid, last, shown, idInfoMap, idMaps, told, closed, restarted>>
  BY DEF ActionInvoked
<1>3. \A k \in known : owner(k) \in [appId : Apps, id : Ids]
  BY <1>1 DEF NotificationTypeOK, NotificationInfo
<1>4. signal' \in [number : Numbers, to : SUBSET [appId : Apps, id : Ids]]
  BY <1>2, <1>3 DEF Numbers
<1>5. NotificationTypeOK'
  BY <1>1, <1>2, <1>4 DEF NotificationTypeOK
<1>6. ~restarted => signal'.to \subseteq {shown[n]}
  BY <1>2
  DEF NotificationInv, NotificationsKeepTheirOwner, ActionsReachTheirOwner
<1>7. signal'.number = n
  BY <1>2
<1>8. ActionsReachTheirOwner'
  BY <1>2, <1>6, <1>7
  DEF NotificationInv, NotificationsKeepTheirOwner, ActionsReachTheirOwner
<1>9. NumbersAreGiven'
  BY <1>1, <1>2, <1>7 DEF NotificationInv, NumbersAreGiven, NotificationTypeOK,
     Numbers
<1>10. WithdrawnStays' /\ EntriesAreYoung' /\ YoungIsKnown'
  BY <1>2 DEF NotificationInv, NotificationsKeepTheirOwner, WithdrawnStays,
              EntriesAreYoung, YoungIsKnown
<1> QED
  BY <1>5, <1>8, <1>9, <1>10 DEF NotificationInv, NotificationsKeepTheirOwner

\* The daemon takes a notification away, or restarts.
LEMMA DaemonKeepsInv ==
    ASSUME NotificationInv,
           (\E n \in 1..MaxNumber : Dismissed(n)) \/ DaemonChanges
    PROVE  NotificationInv'
<1> USE NotificationAssumption
<1>1. NotificationTypeOK
  BY DEF NotificationInv, NotificationsKeepTheirOwner
<1>2. ASSUME NEW n \in 1..MaxNumber, Dismissed(n) PROVE NotificationInv'
  <2>1. /\ shown' = Without(shown, {n})
        /\ signal' = NoSignal
        /\ UNCHANGED <<valid, last, idInfoMap, idMaps, told, closed, restarted>>
    BY <1>2 DEF Dismissed
  <2>2. /\ DOMAIN shown' \subseteq DOMAIN shown
        /\ \A k \in DOMAIN shown' : shown'[k] = shown[k]
    BY <2>1 DEF Without, Restrict
  <2>3. NotificationTypeOK'
    BY <1>1, <2>1, <2>2, NoSignalFacts DEF NotificationTypeOK
  <2>4. ActionsReachTheirOwner'
    BY <2>1, <2>2, NoSignalFacts
    DEF NotificationInv, NotificationsKeepTheirOwner, ActionsReachTheirOwner
  <2>5. last \in Nat
    BY <1>1 DEF NotificationTypeOK, Numbers
  <2> QED
    BY <2>1, <2>3, <2>4, <2>5, NoSignalFacts
    DEF NotificationInv, NotificationsKeepTheirOwner, WithdrawnStays, NumbersAreGiven, EntriesAreYoung,
                            YoungIsKnown
<1>3. CASE DaemonChanges
  <2>1. /\ valid' = ~valid /\ last' = 0 /\ shown' = NoMap /\ told' = NoMap
        /\ restarted' = TRUE
        /\ signal' = NoSignal /\ UNCHANGED <<idInfoMap, idMaps, closed>>
    BY <1>3 DEF DaemonChanges
  <2>2. 0 \in Numbers
    BY DEF Numbers
  <2>3. valid' \in BOOLEAN
    BY <2>1
  <2>4. DOMAIN shown' = {} /\ DOMAIN told' = {}
    BY <2>1 DEF NoMap
  <2>5. signal' \in [number : Numbers, to : SUBSET [appId : Apps, id : Ids]]
    BY <2>1, <2>2 DEF NoSignal
  <2>6. last' \in Numbers /\ restarted' \in BOOLEAN
    BY <2>1, <2>2
  <2>7. NotificationTypeOK'
    BY <1>1, <2>1, <2>3, <2>4, <2>5, <2>6 DEF NotificationTypeOK
  <2> QED
    BY <2>1, <2>4, <2>7 DEF NotificationInv, NotificationsKeepTheirOwner,
       WithdrawnStays, NumbersAreGiven, ActionsReachTheirOwner, EntriesAreYoung,
       YoungIsKnown
<1> QED
  BY <1>2, <1>3

\* Time only makes entries older.
LEMMA TickKeepsInv ==
    ASSUME NotificationInv, Tick
    PROVE  NotificationInv'
<1> USE NotificationAssumption
<1>1. NotificationTypeOK
  BY DEF NotificationInv, NotificationsKeepTheirOwner
<1>2. /\ idInfoMap' = [n \in DOMAIN idInfoMap |->
                          [idInfoMap[n] EXCEPT !.age = Older(@)]]
      /\ told' = [n \in DOMAIN told |-> Older(told[n])]
      /\ signal' = NoSignal
      /\ UNCHANGED <<valid, last, shown, idMaps, closed, restarted>>
  BY DEF Tick
<1>3. \A age \in Ages : Older(age) \in Ages /\ Older(age) \in {age, age + 1}
  BY DEF Older, Ages
<1>4. ASSUME NEW n \in DOMAIN idInfoMap
      PROVE  /\ idInfoMap'[n] \in NotificationInfo
             /\ idInfoMap'[n].appId = idInfoMap[n].appId
             /\ idInfoMap'[n].id = idInfoMap[n].id
             /\ idInfoMap'[n].age = Older(idInfoMap[n].age)
             /\ idInfoMap[n].age \in Ages
  <2>1. idInfoMap[n] \in NotificationInfo
    BY <1>1 DEF NotificationTypeOK
  <2>2. idInfoMap'[n] = [idInfoMap[n] EXCEPT !.age = Older(@)]
    BY <1>2
  <2> QED
    BY <1>3, <2>1, <2>2 DEF NotificationInfo
<1>5. DOMAIN idInfoMap' = DOMAIN idInfoMap /\ DOMAIN told' = DOMAIN told
  BY <1>2
<1>6. \A n \in DOMAIN told : told[n] \in Ages /\ told'[n] = Older(told[n])
  BY <1>1, <1>2 DEF NotificationTypeOK
<1>7. NotificationTypeOK'
  BY <1>1, <1>2, <1>3, <1>4, <1>5, <1>6, NoSignalFacts DEF NotificationTypeOK
<1>8. EntriesAreYoung'
  <2> SUFFICES ASSUME NEW n \in DOMAIN told, Older(told[n]) <= defaultTimeout
               PROVE  /\ n \in DOMAIN idInfoMap
                      /\ Older(idInfoMap[n].age) <= Older(told[n])
    BY <1>4, <1>5, <1>6 DEF EntriesAreYoung
  <2>1. told[n] \in Ages
    BY <1>6
  <2>2. told[n] <= defaultTimeout /\ Older(told[n]) = told[n] + 1
    BY <2>1 DEF Older, Ages
  <2>3. n \in DOMAIN idInfoMap /\ idInfoMap[n].age <= told[n]
    BY <2>2 DEF NotificationInv, EntriesAreYoung
  <2>4. idInfoMap[n].age \in Ages
    BY <1>4, <2>3
  <2> QED
    BY <1>3, <2>1, <2>2, <2>3, <2>4 DEF Ages
<1>9. ActionsReachTheirOwner'
  BY <1>2, <1>4, <1>5, NoSignalFacts
  DEF NotificationInv, NotificationsKeepTheirOwner, ActionsReachTheirOwner
<1>10. WithdrawnStays' /\ NumbersAreGiven'
  <2>1. last \in Nat
    BY <1>1 DEF NotificationTypeOK, Numbers
  <2> QED
    BY <1>2, <1>5, <2>1, NoSignalFacts DEF NotificationInv, NotificationsKeepTheirOwner,
                    WithdrawnStays, NumbersAreGiven
<1>11. YoungIsKnown'
  BY <1>8 DEF EntriesAreYoung, YoungIsKnown
<1> QED
  BY <1>7, <1>8, <1>9, <1>10, <1>11 DEF NotificationInv, NotificationsKeepTheirOwner

\* For any number of applications and notifications and any limit of their age,
\* actions reach the application that posted the notification or nobody, as long
\* as the daemon keeps running; a notification whose number was told is known for
\* that long whatever the daemon answers; and none is closed for another.
THEOREM NotificationsStayOwned ==
    NotificationSpec => []NotificationsKeepTheirOwner
<1>1. NotificationInit => NotificationInv
  <2> SUFFICES ASSUME NotificationInit PROVE NotificationInv
    OBVIOUS
  <2>1. 0 \in Numbers /\ DOMAIN NoMap = {}
    BY NotificationAssumption DEF Numbers, NoMap
  <2>2. signal \in [number : Numbers, to : SUBSET [appId : Apps, id : Ids]]
    BY <2>1 DEF NotificationInit, NoSignal
  <2>3. NotificationTypeOK
    BY <2>1, <2>2 DEF NotificationInit, NotificationTypeOK
  <2>4. /\ ActionsReachTheirOwner /\ WithdrawnStays
        /\ EntriesAreYoung /\ YoungIsKnown
    BY <2>1 DEF NotificationInit, ActionsReachTheirOwner, WithdrawnStays,
                EntriesAreYoung, YoungIsKnown
  <2>5. NumbersAreGiven
    BY <2>1 DEF NotificationInit, NumbersAreGiven, NoSignal
  <2> QED
    BY <2>3, <2>4, <2>5 DEF NotificationInv, NotificationsKeepTheirOwner
<1>2. NotificationInv /\ [NotificationNext]_notificationVars => NotificationInv'
  <2> SUFFICES ASSUME NotificationInv, [NotificationNext]_notificationVars
               PROVE  NotificationInv'
    OBVIOUS
  <2>1. ASSUME NEW app \in Apps, NEW id \in Ids,
               AddNotification(app, id) \/ RemoveNotification(app, id)
        PROVE  NotificationInv'
    BY <2>1, AddKeepsInv, RemoveKeepsInv
  <2>2. ASSUME NEW n \in 1..MaxNumber, ActionInvoked(n) \/ Dismissed(n)
        PROVE  NotificationInv'
    BY <2>2, InvokeKeepsInv, DaemonKeepsInv
  <2>3. CASE DaemonChanges
    BY <2>3, DaemonKeepsInv
  <2>4. CASE Tick
    BY <2>4, TickKeepsInv
  <2>5. CASE UNCHANGED notificationVars
    BY <2>5 DEF notificationVars, NotificationInv, NotificationsKeepTheirOwner,
       NotificationTypeOK, ActionsReachTheirOwner, YoungIsKnown, WithdrawnStays,
       NumbersAreGiven, EntriesAreYoung
  <2> QED
    BY <2>1, <2>2, <2>3, <2>4, <2>5 DEF NotificationNext
<1>3. NotificationInv => NotificationsKeepTheirOwner
  BY DEF NotificationInv
<1> QED
  BY <1>1, <1>2, <1>3, PTL DEF NotificationSpec

---------------------------------------------------------------------------
(* Inhibit: the Request at a path *)

\* A call has a path and a front from when it is made.
CallsAgree ==
    \A c \in Calls : /\ stage[c] # "none" <=> path[c] # None
                     /\ stage[c] # "none" <=> front[c] # "none"

\* What is registered at a path belongs there.
Registered ==
    \A p \in Paths :
        object[p] # None => /\ path[object[p]] = p
                            /\ stage[object[p]] \in {"alive", "doomed"}

\* A path has one call that its application may still close.
OneLive ==
    \A c, d \in Calls :
        front[c] = "live" /\ front[d] = "live" /\ path[c] = path[d] => c = d

\* It has none while the Request that is registered there is to be deleted.
DoomedIsQuiet ==
    \A c, d \in Calls :
        /\ path[c] = path[d] /\ path[d] \in Paths
        /\ object[path[d]] = d /\ stage[d] = "doomed"
        => front[c] # "live"

\* The cookies of Requests are held by the session manager until they are
\* released, which only a closed Request asks for.
Cookies ==
    \A c \in Calls :
        /\ stage[c] \in {"granted", "alive"} => c \in inhibited
        /\ c \in inhibited => stage[c] \in {"granted", "alive", "doomed", "gone"}
        /\ c \in releasing => stage[c] \in {"doomed", "gone"}

\* A call whose every Close() can be heard: its Request is where it should be,
\* and goes only when it was closed and its cookie is released.
CallIsClean(c) ==
    /\ front[c] = "live" =>
          stage[c] \in {"sent", "granted", "refused", "failed", "alive"}
    /\ front[c] = "closed" => stage[c] \in {"doomed", "gone"}
    /\ stage[c] \in {"alive", "doomed"} => object[path[c]] = c
    /\ c \in inhibited /\ stage[c] \in {"doomed", "gone"} => c \in releasing

CallsAreClean ==
    \A c \in Calls : path[c] # None => Unheard(path[c]) \/ CallIsClean(c)

InhibitInv ==
    /\ InhibitTypeOK
    /\ CallsAgree
    /\ Registered
    /\ OneLive
    /\ DoomedIsQuiet
    /\ Cookies
    /\ CallsAreClean

---------------------------------------------------------------------------
(* The steps *)

\* A step that leaves paths and the application's view alone leaves what was
\* unheard as it is.
LEMMA UnheardStays ==
    ASSUME UNCHANGED <<path, front>>, NEW p
    PROVE  Unheard(p)' <=> Unheard(p)
BY DEF Unheard

\* A new call: its path has no open call and no Request to be deleted.
LEMMA InhibitKeepsInv ==
    ASSUME InhibitInv, NEW c \in Calls, NEW p \in Paths, Inhibit(c, p)
    PROVE  InhibitInv'
<1> USE InhibitAssumption
<1>1. /\ front[c] = "none" /\ stage[c] = "none" /\ path[c] = None
      /\ p # None
  BY DEF Inhibit, InhibitInv, CallsAgree
<1>2. /\ path' = [path EXCEPT ![c] = p]
      /\ front' = [front EXCEPT ![c] = "live"]
      /\ stage' = [stage EXCEPT ![c] = "sent"]
      /\ UNCHANGED <<object, inhibited, releasing>>
  BY DEF Inhibit
<1>3. InhibitTypeOK
  BY DEF InhibitInv
<1>4. \A d \in Calls :
         path[d] = p => front[d] # "live" /\ ~(object[p] = d /\ stage[d] = "doomed")
  BY DEF Inhibit
<1>5. /\ path'[c] = p /\ front'[c] = "live" /\ stage'[c] = "sent"
      /\ \A d \in Calls \ {c} : /\ path'[d] = path[d] /\ front'[d] = front[d]
                                /\ stage'[d] = stage[d]
  BY <1>2, <1>3 DEF InhibitTypeOK
<1>6. InhibitTypeOK'
  BY <1>2, <1>3 DEF InhibitTypeOK, FrontState, Stage
<1>7. CallsAgree'
  BY <1>1, <1>5 DEF InhibitInv, CallsAgree
<1>8. Registered'
  <2>1. \A q \in Paths : object[q] # c
    BY <1>1 DEF InhibitInv, Registered
  <2> QED
    BY <1>2, <1>3, <1>5, <2>1 DEF InhibitInv, Registered, InhibitTypeOK
<1>9. OneLive'
  BY <1>4, <1>5 DEF InhibitInv, OneLive
<1>10. DoomedIsQuiet'
  BY <1>2, <1>4, <1>5 DEF InhibitInv, DoomedIsQuiet
<1>11. Cookies'
  BY <1>1, <1>2, <1>5 DEF InhibitInv, Cookies
<1>12. CallsAreClean'
  <2> SUFFICES ASSUME NEW d \in Calls, path[d]' # None
               PROVE  Unheard(path[d])' \/ CallIsClean(d)'
    BY DEF CallsAreClean
  <2>1. CASE d = c
    BY <1>1, <1>2, <1>5, <2>1 DEF InhibitInv, Cookies, CallIsClean
  <2>2. CASE d # c
    <3>1. Unheard(path[d]) \/ CallIsClean(d)
      BY <1>5, <2>2 DEF InhibitInv, CallsAreClean
    <3>2. Unheard(path[d]) => Unheard(path[d])'
      BY <1>1, <1>5, <2>2 DEF Unheard
    <3>3. CallIsClean(d) => CallIsClean(d)'
      BY <1>2, <1>5, <2>2 DEF CallIsClean
    <3> QED
      BY <3>1, <3>2, <3>3
  <2> QED
    BY <2>1, <2>2
<1> QED
  BY <1>6, <1>7, <1>8, <1>9, <1>10, <1>11, <1>12 DEF InhibitInv

\* The session manager's answer and the logging of a refusal concern one call
\* that has no Request and no cookie yet.
LEMMA AnswerKeepsInv ==
    ASSUME InhibitInv, NEW c \in Calls, Grant(c) \/ Refuse(c) \/ LogRefusal(c)
    PROVE  InhibitInv'
<1>1. PICK s \in {"granted", "refused", "failed"} :
         /\ stage' = [stage EXCEPT ![c] = s]
         /\ stage[c] \in {"sent", "refused"}
         /\ inhibited' = IF s = "granted" THEN inhibited \cup {c} ELSE inhibited
         /\ UNCHANGED <<path, front, object, releasing>>
  BY DEF Grant, Refuse, LogRefusal
<1>2. InhibitTypeOK
  BY DEF InhibitInv
<1>3. /\ stage'[c] = s
      /\ \A d \in Calls \ {c} : /\ stage'[d] = stage[d]
                                /\ d \in inhibited' <=> d \in inhibited
  BY <1>1, <1>2 DEF InhibitTypeOK
<1>4. InhibitTypeOK'
  BY <1>1, <1>2 DEF InhibitTypeOK, Stage
<1>5. CallsAgree'
  BY <1>1, <1>3 DEF InhibitInv, CallsAgree
<1>6. \A q \in Paths : object[q] # c
  BY <1>1, InhibitAssumption DEF InhibitInv, Registered
<1>7. Registered'
  BY <1>1, <1>2, <1>3, <1>6 DEF InhibitInv, Registered, InhibitTypeOK
<1>8. OneLive'
  BY <1>1 DEF InhibitInv, OneLive
<1>9. DoomedIsQuiet'
  BY <1>1, <1>3, <1>6 DEF InhibitInv, DoomedIsQuiet
<1>10. c \notin inhibited /\ c \notin releasing
  BY <1>1 DEF InhibitInv, Cookies
<1>11. Cookies'
  BY <1>1, <1>3, <1>10 DEF InhibitInv, Cookies
<1>12. CallsAreClean'
  <2> SUFFICES ASSUME NEW d \in Calls, path[d] # None
               PROVE  Unheard(path[d])' \/ CallIsClean(d)'
    BY <1>1 DEF CallsAreClean
  <2>1. Unheard(path[d]) \/ CallIsClean(d)
    BY DEF InhibitInv, CallsAreClean
  <2>2. CallIsClean(d) => CallIsClean(d)'
    BY <1>1, <1>3 DEF CallIsClean
  <2> QED
    BY <1>1, <2>1, <2>2, UnheardStays
<1> QED
  BY <1>4, <1>5, <1>7, <1>8, <1>9, <1>11, <1>12 DEF InhibitInv

\* A Request is made.  If all is clean at its path, nothing is registered there:
\* the call is the open one, and whoever was there before was closed and freed
\* the path.
LEMMA MakeRequestKeepsInv ==
    ASSUME InhibitInv, NEW c \in Calls, MakeRequest(c)
    PROVE  InhibitInv'
<1> USE InhibitAssumption
<1> DEFINE p == path[c]
<1>1. InhibitTypeOK
  BY DEF InhibitInv
<1>2. stage[c] = "granted" /\ c \in inhibited /\ p \in Paths /\ p # None
  BY DEF InhibitInv, InhibitTypeOK, MakeRequest, Cookies, CallsAgree
<1>3. UNCHANGED <<path, front, inhibited, releasing>>
  BY DEF MakeRequest
<1>4. PICK s \in {"alive", "doomed"} :
         /\ stage' = [stage EXCEPT ![c] = s]
         /\ s = "alive" => object[p] = None /\ object' = [object EXCEPT ![p] = c]
         /\ s = "doomed" => object[p] # None /\ object' = object
  BY DEF MakeRequest
<1>5. /\ stage'[c] = s
      /\ \A d \in Calls \ {c} : stage'[d] = stage[d]
      /\ \A q \in Paths : object'[q] = IF q = p /\ s = "alive" THEN c
                                       ELSE object[q]
  BY <1>1, <1>2, <1>4 DEF InhibitTypeOK
<1>6. InhibitTypeOK'
  BY <1>1, <1>2, <1>3, <1>4 DEF InhibitTypeOK, Stage
<1>7. CallsAgree'
  BY <1>2, <1>3, <1>5 DEF InhibitInv, CallsAgree
<1>8. \A q \in Paths : object[q] # c
  BY <1>2 DEF InhibitInv, Registered
<1>9. Registered'
  BY <1>1, <1>2, <1>3, <1>5, <1>8 DEF InhibitInv, Registered, InhibitTypeOK
<1>10. OneLive'
  BY <1>3 DEF InhibitInv, OneLive
<1>11. DoomedIsQuiet'
  BY <1>3, <1>5, <1>8 DEF InhibitInv, DoomedIsQuiet
<1>12. c \notin releasing
  BY <1>2 DEF InhibitInv, Cookies
<1>13. Cookies'
  BY <1>2, <1>3, <1>5, <1>12 DEF InhibitInv, Cookies
<1>14. CASE Unheard(p)
  <2> SUFFICES ASSUME NEW d \in Calls, path[d] # None
               PROVE  Unheard(path[d])' \/ CallIsClean(d)'
    BY <1>3, <1>6, <1>7, <1>9, <1>10, <1>11, <1>13
    DEF InhibitInv, CallsAreClean
  <2>1. CASE path[d] = p
    BY <1>3, <1>14, <2>1, UnheardStays
  <2>2. CASE path[d] # p
    <3>1. d # c /\ path[d] \in Paths
      BY <1>1, <2>2 DEF InhibitTypeOK
    <3>2. object'[path[d]] = object[path[d]]
      BY <1>5, <2>2, <3>1
    <3>3. CallIsClean(d) => CallIsClean(d)'
      BY <1>3, <1>5, <3>1, <3>2 DEF CallIsClean
    <3> QED
      BY <1>3, <3>3, UnheardStays DEF InhibitInv, CallsAreClean
  <2> QED
    BY <2>1, <2>2
<1>15. CASE ~Unheard(p)
  <2>1. \A d \in Calls : path[d] = p => CallIsClean(d)
    BY <1>2, <1>15 DEF InhibitInv, CallsAreClean
  <2>2. \A d \in Calls : path[d] = p => front[d] \in {"live", "closed"}
    BY <1>1, <1>2, <1>15
    DEF InhibitInv, InhibitTypeOK, FrontState, Unheard, CallsAgree
  <2>3. front[c] = "live"
    BY <1>2, <2>1, <2>2 DEF CallIsClean
  <2>4. object[p] = None
    <3> SUFFICES ASSUME object[p] # None PROVE FALSE
      OBVIOUS
    <3> DEFINE r == object[p]
    <3>1. r \in Calls /\ path[r] = p /\ stage[r] \in {"alive", "doomed"}
      BY <1>1, <1>2 DEF InhibitInv, InhibitTypeOK, Registered
    <3>2. stage[r] # "doomed"
      BY <1>2, <2>3, <3>1 DEF InhibitInv, DoomedIsQuiet
    <3>3. front[r] = "live"
      BY <2>1, <2>2, <3>1, <3>2 DEF CallIsClean
    <3>4. r = c
      BY <2>3, <3>1, <3>3 DEF InhibitInv, OneLive
    <3> QED
      BY <1>2, <3>1, <3>4
  <2>5. s = "alive"
    BY <1>4, <2>4
  <2> SUFFICES ASSUME NEW d \in Calls, path[d] # None
               PROVE  Unheard(path[d])' \/ CallIsClean(d)'
    BY <1>3, <1>6, <1>7, <1>9, <1>10, <1>11, <1>13
    DEF InhibitInv, CallsAreClean
  <2>6. CASE d = c
    <3>1. object'[path'[c]] = c /\ stage'[c] = "alive" /\ front'[c] = "live"
      BY <1>2, <1>3, <1>5, <2>3, <2>5
    <3> QED
      BY <2>6, <3>1 DEF CallIsClean
  <2>7. CASE d # c
    <3>1. path[d] \in Paths
      BY <1>1 DEF InhibitTypeOK
    <3>2. CallIsClean(d) => CallIsClean(d)'
      <4>1. CallIsClean(d) /\ stage[d] \in {"alive", "doomed"} => path[d] # p
        BY <1>2, <2>4, <2>7 DEF CallIsClean
      <4>2. path[d] # p => object'[path[d]] = object[path[d]]
        BY <1>5, <3>1
      <4> QED
        BY <1>3, <1>5, <2>7, <4>1, <4>2 DEF CallIsClean
    <3> QED
      BY <1>3, <3>2, UnheardStays DEF InhibitInv, CallsAreClean
  <2> QED
    BY <2>6, <2>7
<1> QED
  BY <1>14, <1>15

\* A Close() that meets no object spoils its path for good; one that meets an
\* object meets, at a clean path, the closer's own.
LEMMA CloseKeepsInv ==
    ASSUME InhibitInv, NEW c \in Calls, Close(c)
    PROVE  InhibitInv'
<1> USE InhibitAssumption
<1> DEFINE p == path[c]
           r == object[p]
<1>1. InhibitTypeOK
  BY DEF InhibitInv
<1>2. front[c] = "live" /\ p \in Paths /\ p # None
  BY DEF InhibitInv, InhibitTypeOK, Close, CallsAgree
<1>3. UNCHANGED <<path, object, inhibited>>
  BY DEF Close
<1>4. CASE r = None
  <2>1. front' = [front EXCEPT ![c] = "unheard"] /\ UNCHANGED <<stage, releasing>>
    BY <1>4 DEF Close
  <2>2. /\ front'[c] = "unheard"
        /\ \A d \in Calls \ {c} : front'[d] = front[d]
    BY <1>1, <2>1 DEF InhibitTypeOK
  <2>3. InhibitTypeOK'
    BY <1>1, <1>3, <2>1 DEF InhibitTypeOK, FrontState
  <2>4. CallsAgree'
    BY <1>2, <1>3, <2>1, <2>2 DEF InhibitInv, CallsAgree
  <2>5. Registered'
    BY <1>3, <2>1 DEF InhibitInv, Registered
  <2>6. OneLive'
    BY <1>3, <2>2 DEF InhibitInv, OneLive
  <2>7. DoomedIsQuiet'
    BY <1>3, <2>1, <2>2 DEF InhibitInv, DoomedIsQuiet
  <2>8. Cookies'
    BY <1>3, <2>1 DEF InhibitInv, Cookies
  <2>9. CallsAreClean'
    <3> SUFFICES ASSUME NEW d \in Calls, path[d] # None
                 PROVE  Unheard(path[d])' \/ CallIsClean(d)'
      BY <1>3 DEF CallsAreClean
    <3>1. CASE path[d] = p
      BY <1>3, <2>2, <3>1 DEF Unheard
    <3>2. CASE path[d] # p
      <4>1. d # c
        BY <3>2
      <4>2. Unheard(path[d]) => Unheard(path[d])'
        BY <1>3, <2>2, <3>2 DEF Unheard
      <4>3. CallIsClean(d) => CallIsClean(d)'
        BY <1>3, <2>1, <2>2, <4>1 DEF CallIsClean
      <4> QED
        BY <4>2, <4>3 DEF InhibitInv, CallsAreClean
    <3> QED
      BY <3>1, <3>2
  <2> QED
    BY <2>3, <2>4, <2>5, <2>6, <2>7, <2>8, <2>9 DEF InhibitInv
<1>5. CASE r # None
  <2>1. /\ front' = [front EXCEPT ![c] = "closed"]
        /\ stage' = [stage EXCEPT ![r] = "doomed"]
        /\ releasing' = releasing \cup {r}
    BY <1>5 DEF Close
  <2>2. r \in Calls /\ path[r] = p /\ stage[r] \in {"alive", "doomed"}
    BY <1>1, <1>2, <1>5 DEF InhibitInv, InhibitTypeOK, Registered
  <2>3. stage[r] = "alive"
    BY <1>2, <2>2 DEF InhibitInv, DoomedIsQuiet
  <2>4. r \in inhibited
    BY <2>2, <2>3 DEF InhibitInv, Cookies
  <2>5. /\ front'[c] = "closed"
        /\ \A d \in Calls \ {c} : front'[d] = front[d]
        /\ stage'[r] = "doomed"
        /\ \A d \in Calls \ {r} : /\ stage'[d] = stage[d]
                                  /\ d \in releasing' <=> d \in releasing
    BY <1>1, <2>1, <2>2 DEF InhibitTypeOK
  <2>6. InhibitTypeOK'
    BY <1>1, <1>3, <2>1, <2>2, <2>4 DEF InhibitTypeOK, FrontState, Stage
  <2>7. CallsAgree'
    BY <1>2, <1>3, <2>2, <2>5 DEF InhibitInv, CallsAgree
  <2>8. Registered'
    BY <1>1, <1>3, <2>2, <2>5 DEF InhibitInv, Registered, InhibitTypeOK
  <2>9. OneLive'
    BY <1>3, <2>5 DEF InhibitInv, OneLive
  <2>10. DoomedIsQuiet'
    <3> SUFFICES ASSUME NEW d \in Calls, NEW e \in Calls,
                        path[d] = path[e], path[e] \in Paths,
                        object[path[e]] = e, stage'[e] = "doomed"
                 PROVE  front'[d] # "live"
      BY <1>3 DEF DoomedIsQuiet
    <3>1. CASE e = r
      <4>1. path[d] = path[c]
        BY <2>2, <3>1
      <4>2. front[d] = "live" => d = c
        BY <1>2, <4>1 DEF InhibitInv, OneLive
      <4> QED
        BY <2>5, <4>2
    <3>2. CASE e # r
      <4>1. front[d] # "live"
        BY <2>5, <3>2 DEF InhibitInv, DoomedIsQuiet
      <4> QED
        BY <2>5, <4>1
    <3> QED
      BY <3>1, <3>2
  <2>11. Cookies'
    BY <1>3, <2>4, <2>5 DEF InhibitInv, Cookies
  <2>12. CallsAreClean'
    <3> SUFFICES ASSUME NEW d \in Calls, path[d] # None
                 PROVE  Unheard(path[d])' \/ CallIsClean(d)'
      BY <1>3 DEF CallsAreClean
    <3>1. CASE Unheard(path[d])
      BY <1>2, <1>3, <2>5, <3>1 DEF Unheard
    <3>2. CASE ~Unheard(path[d])
      <4>1. CallIsClean(d)
        BY <3>2 DEF InhibitInv, CallsAreClean
      <4>2. CASE path[d] = p
        <5>1. CallIsClean(r)
          BY <1>2, <2>2, <3>2, <4>2 DEF InhibitInv, CallsAreClean
        <5>2. front[r] \notin {"none", "unheard", "closed"}
          BY <2>2, <2>3, <3>2, <4>2, <5>1
          DEF InhibitInv, CallsAgree, CallIsClean, Unheard
        <5>3. r = c
          BY <1>1, <1>2, <2>2, <5>2
          DEF InhibitInv, InhibitTypeOK, FrontState, OneLive
        <5> QED
          <6>1. CASE d = c
            BY <1>3, <2>1, <2>5, <5>3, <6>1 DEF CallIsClean
          <6>2. CASE d # c
            BY <1>3, <2>5, <4>1, <5>3, <6>2 DEF CallIsClean
          <6> QED
            BY <6>1, <6>2
      <4>3. CASE path[d] # p
        <5>1. d # c /\ d # r
          BY <2>2, <4>3
        <5> QED
          BY <1>3, <2>5, <4>1, <5>1 DEF CallIsClean
      <4> QED
        BY <4>2, <4>3
    <3> QED
      BY <3>1, <3>2
  <2> QED
    BY <2>6, <2>7, <2>8, <2>9, <2>10, <2>11, <2>12 DEF InhibitInv
<1> QED
  BY <1>4, <1>5

\* A Request is deleted and frees its path: at a clean path it was the one that
\* was registered.
LEMMA DeleteRequestKeepsInv ==
    ASSUME InhibitInv, NEW c \in Calls, DeleteRequest(c)
    PROVE  InhibitInv'
<1> USE InhibitAssumption
<1> DEFINE p == path[c]
<1>1. InhibitTypeOK
  BY DEF InhibitInv
<1>2. stage[c] = "doomed" /\ p \in Paths /\ p # None
  BY DEF InhibitInv, InhibitTypeOK, DeleteRequest, CallsAgree
<1>3. /\ stage' = [stage EXCEPT ![c] = "gone"]
      /\ object' = [object EXCEPT ![p] = None]
      /\ UNCHANGED <<path, front, inhibited, releasing>>
  BY DEF DeleteRequest
<1>4. /\ stage'[c] = "gone"
      /\ \A d \in Calls \ {c} : stage'[d] = stage[d]
      /\ \A q \in Paths : object'[q] = IF q = p THEN None ELSE object[q]
  BY <1>1, <1>2, <1>3 DEF InhibitTypeOK
<1>5. InhibitTypeOK'
  BY <1>1, <1>3 DEF InhibitTypeOK, Stage
<1>6. CallsAgree'
  BY <1>2, <1>3, <1>4 DEF InhibitInv, CallsAgree
<1>7. Registered'
  BY <1>1, <1>3, <1>4 DEF InhibitInv, Registered, InhibitTypeOK
<1>8. OneLive'
  BY <1>3 DEF InhibitInv, OneLive
<1>9. DoomedIsQuiet'
  BY <1>3, <1>4 DEF InhibitInv, DoomedIsQuiet
<1>10. Cookies'
  BY <1>2, <1>3, <1>4 DEF InhibitInv, Cookies
<1>11. CallsAreClean'
  <2> SUFFICES ASSUME NEW d \in Calls, path[d] # None
               PROVE  Unheard(path[d])' \/ CallIsClean(d)'
    BY <1>3 DEF CallsAreClean
  <2>1. CASE Unheard(path[d])
    BY <1>3, <2>1, UnheardStays
  <2>2. CASE ~Unheard(path[d])
    <3>1. CallIsClean(d)
      BY <2>2 DEF InhibitInv, CallsAreClean
    <3>2. CASE d = c
      BY <1>2, <1>3, <1>4, <3>1, <3>2 DEF CallIsClean
    <3>3. CASE d # c
      <4>1. path[d] \in Paths
        BY <1>1 DEF InhibitTypeOK
      <4>2. CASE path[d] = p
        <5>1. CallIsClean(c)
          BY <1>2, <2>2, <4>2 DEF InhibitInv, CallsAreClean
        <5>2. stage[d] \notin {"alive", "doomed"}
          BY <1>2, <3>1, <3>3, <4>2, <5>1 DEF CallIsClean
        <5> QED
          BY <1>3, <1>4, <3>1, <3>3, <5>2 DEF CallIsClean
      <4>3. CASE path[d] # p
        BY <1>3, <1>4, <3>1, <3>3, <4>1, <4>3 DEF CallIsClean
      <4> QED
        BY <4>2, <4>3
    <3> QED
      BY <3>2, <3>3
  <2> QED
    BY <2>1, <2>2
<1> QED
  BY <1>5, <1>6, <1>7, <1>8, <1>9, <1>10, <1>11 DEF InhibitInv

\* The session manager forgets a cookie.
LEMMA ReleaseKeepsInv ==
    ASSUME InhibitInv, NEW c \in Calls, Release(c)
    PROVE  InhibitInv'
<1>1. /\ releasing' = releasing \ {c} /\ inhibited' = inhibited \ {c}
      /\ UNCHANGED <<path, front, stage, object>>
  BY DEF Release
<1>2. stage[c] \in {"doomed", "gone"}
  BY DEF InhibitInv, Cookies, Release
<1>3. InhibitTypeOK'
  BY <1>1 DEF InhibitInv, InhibitTypeOK
<1>4. CallsAgree' /\ Registered' /\ OneLive' /\ DoomedIsQuiet'
  BY <1>1 DEF InhibitInv, CallsAgree, Registered, OneLive, DoomedIsQuiet
<1>5. Cookies'
  BY <1>1, <1>2 DEF InhibitInv, Cookies
<1>6. CallsAreClean'
  <2> SUFFICES ASSUME NEW d \in Calls, path[d] # None
               PROVE  Unheard(path[d])' \/ CallIsClean(d)'
    BY <1>1 DEF CallsAreClean
  <2>1. CallIsClean(d) => CallIsClean(d)'
    BY <1>1 DEF CallIsClean
  <2> QED
    BY <1>1, <2>1, UnheardStays DEF InhibitInv, CallsAreClean
<1> QED
  BY <1>3, <1>4, <1>5, <1>6 DEF InhibitInv

---------------------------------------------------------------------------
(* The theorems *)

\* The inductive invariant of the Inhibit portal: calls, Requests and cookies
\* belong together, and away from unheard Close()s each Request is in its place.
THEOREM InhibitInvariant == InhibitSpec => []InhibitInv
<1>1. InhibitInit => InhibitInv
  <2> SUFFICES ASSUME InhibitInit PROVE InhibitInv
    OBVIOUS
  <2>1. InhibitTypeOK
    BY DEF InhibitInit, InhibitTypeOK, FrontState, Stage
  <2>2. CallsAgree /\ Registered /\ OneLive /\ DoomedIsQuiet
    BY DEF InhibitInit, CallsAgree, Registered, OneLive, DoomedIsQuiet
  <2>3. Cookies /\ CallsAreClean
    BY DEF InhibitInit, Cookies, CallsAreClean
  <2> QED
    BY <2>1, <2>2, <2>3 DEF InhibitInv
<1>2. InhibitInv /\ [InhibitNext]_inhibitVars => InhibitInv'
  <2> SUFFICES ASSUME InhibitInv, [InhibitNext]_inhibitVars PROVE InhibitInv'
    OBVIOUS
  <2>1. ASSUME NEW c \in Calls, NEW p \in Paths, Inhibit(c, p) PROVE InhibitInv'
    BY <2>1, InhibitKeepsInv
  <2>2. ASSUME NEW c \in Calls, Answer(c) \/ LogRefusal(c) PROVE InhibitInv'
    BY <2>2, AnswerKeepsInv DEF Answer
  <2>3. ASSUME NEW c \in Calls, MakeRequest(c) PROVE InhibitInv'
    BY <2>3, MakeRequestKeepsInv
  <2>4. ASSUME NEW c \in Calls, Close(c) PROVE InhibitInv'
    BY <2>4, CloseKeepsInv
  <2>5. ASSUME NEW c \in Calls, DeleteRequest(c) PROVE InhibitInv'
    BY <2>5, DeleteRequestKeepsInv
  <2>6. ASSUME NEW c \in Calls, Release(c) PROVE InhibitInv'
    BY <2>6, ReleaseKeepsInv
  <2>7. CASE UNCHANGED inhibitVars
    BY <2>7 DEF inhibitVars, InhibitInv, InhibitTypeOK, CallsAgree, Registered,
                OneLive, DoomedIsQuiet, Cookies, CallsAreClean, CallIsClean,
                Unheard
  <2> QED
    BY <2>1, <2>2, <2>3, <2>4, <2>5, <2>6, <2>7 DEF InhibitNext, Handle
<1> QED
  BY <1>1, <1>2, PTL DEF InhibitSpec

\* For every number of calls and paths, an inhibition the session manager holds
\* has a Request its application can close, is about to get one or to be
\* released, unless a Close() at its path met no object.
THEOREM InhibitionStaysOwned == InhibitSpec => []InhibitionIsOwned
<1>1. InhibitInv => InhibitionIsOwned
  <2> SUFFICES ASSUME InhibitInv PROVE InhibitionIsOwned
    OBVIOUS
  <2>1. ASSUME NEW c \in inhibited
        PROVE  \/ stage[c] = "granted"
               \/ stage[c] = "alive" /\ object[path[c]] = c /\ front[c] = "live"
               \/ c \in releasing
               \/ Unheard(path[c])
    <3>1. c \in Calls /\ front[c] \in FrontState
      BY <2>1 DEF InhibitInv, InhibitTypeOK
    <3>2. /\ stage[c] \in {"granted", "alive", "doomed", "gone"}
          /\ path[c] # None /\ front[c] # "none"
      BY <2>1, <3>1 DEF InhibitInv, Cookies, CallsAgree
    <3>3. Unheard(path[c]) \/ CallIsClean(c)
      BY <3>1, <3>2 DEF InhibitInv, CallsAreClean
    <3>4. front[c] = "unheard" => Unheard(path[c])
      BY <3>1 DEF Unheard
    <3> QED
      BY <2>1, <3>1, <3>2, <3>3, <3>4 DEF CallIsClean, FrontState
  <2> QED
    BY <2>1 DEF InhibitInv, CallsAgree, Registered, InhibitionIsOwned
<1> QED
  BY <1>1, InhibitInvariant, PTL

---------------------------------------------------------------------------
(* The frame-rate limiter *)

\* When the timer that runs has run out, less than a millisecond is missing of
\* the interval of the buffer in hand.
TimerCovers == held /\ left >= 0 => left + since + Millisecond > asked

\* Only a screen without a rate leaves the clock unset.
ClockIsSet == screenRate > 0 => measured

CaptureIsLate == capturing => since + Millisecond + Early > interval

PacingInv == PacingTypeOK /\ TimerCovers /\ ClockIsSet /\ CaptureIsLate

---------------------------------------------------------------------------
(* Rounding down *)

\* A quotient of natural numbers is one, and no larger than the dividend.
LEMMA QuotientInRange ==
    ASSUME NEW a \in Nat, NEW b \in Nat \ {0}
    PROVE  a \div b \in 0..a
OBVIOUS

\* Rounding down to a multiple of b takes off less than b.
LEMMA RoundedDown ==
    ASSUME NEW a \in Nat, NEW b \in Nat \ {0}
    PROVE  /\ (a \div b) * b \in 0..a
           /\ (a \div b) * b + b > a
OBVIOUS

\* An interval is no longer than a second.
LEMMA TargetInRange ==
    ASSUME NEW fps \in Nat \ {0}
    PROVE  Target(fps) \in 0..Second
BY PacingAssumption, QuotientInRange DEF Target

---------------------------------------------------------------------------
(* The steps.  Each lemma is about one handler. *)

\* A new rate is one of the range that was offered.
LEMMA ParamChangedKeepsInv ==
    ASSUME PacingInv, NEW fps \in Nat, ParamChanged(fps)
    PROVE  PacingInv'
<1> USE DEF PacingInv, ParamChanged
<1>1. screenRate \in Nat
  BY PacingAssumption DEF PacingTypeOK
<1>2. fps \in 0..screenRate
  BY <1>1
<1>3. PacingTypeOK'
  BY <1>2 DEF PacingTypeOK
<1>4. TimerCovers' /\ ClockIsSet' /\ CaptureIsLate'
  BY DEF TimerCovers, ClockIsSet, CaptureIsLate
<1> QED
  BY <1>3, <1>4

\* A delay, rounded down, ends less than a millisecond too early.
LEMMA DelayCovers ==
    ASSUME PacingInv, NEW fps \in Nat \ {0}, MeasureEnd(fps) > 0
    PROVE  LET rounded == (MeasureEnd(fps) \div Millisecond) * Millisecond
           IN  /\ rounded \in 0..Second
               /\ rounded + since + Millisecond > Target(fps)
<1> DEFINE delay == Target(fps) - since
<1>1. since \in 0..Second /\ Target(fps) \in 0..Second
  BY TargetInRange DEF PacingInv, PacingTypeOK
<1>2. delay \in Nat /\ delay > 0 /\ MeasureEnd(fps) = delay
  BY <1>1, PacingAssumption DEF MeasureEnd
<1>3. /\ (delay \div Millisecond) * Millisecond \in 0..delay
      /\ (delay \div Millisecond) * Millisecond + Millisecond > delay
  BY <1>2, PacingAssumption, RoundedDown
<1> HIDE DEF delay
<1>4. delay = Target(fps) - since
  BY DEF delay
<1> QED
  BY <1>1, <1>2, <1>3, <1>4, PacingAssumption

\* Without a delay the interval has passed.
LEMMA NoDelayIsLate ==
    ASSUME PacingInv, NEW fps \in Nat \ {0}, ~(MeasureEnd(fps) > 0)
    PROVE  since >= Target(fps)
<1>1. since \in 0..Second /\ Target(fps) \in 0..Second
  BY TargetInRange DEF PacingInv, PacingTypeOK
<1> QED
  BY <1>1, PacingAssumption DEF MeasureEnd

\* PipeWire hands out a buffer: it is captured into when its interval has
\* passed, or a timer is started that covers the rest.
LEMMA ProcessKeepsInv ==
    ASSUME PacingInv, Process
    PROVE  PacingInv'
<1> DEFINE delay == IF frames THEN MeasureEnd(framerate) ELSE 0
<1>1. /\ framerate \in Nat
      /\ since \in 0..Second
      /\ left \in -1..Second
      /\ Millisecond \in Nat \ {0}
      /\ Second \in Nat \ {0} /\ Early \in Nat
  BY PacingAssumption DEF PacingInv, PacingTypeOK
<1>2. UNCHANGED <<screenRate, framerate, measured, since, frames>>
  BY DEF Process
<1>3. ~held /\ held' = TRUE
  BY DEF Process
<1>4. asked' = IF frames /\ framerate > 0 THEN Target(framerate) ELSE 0
  BY DEF Process
<1>5. asked' \in 0..Second
  BY <1>1, <1>4, TargetInRange
<1>6. CASE delay > 0
  <2>1. frames /\ framerate > 0 /\ delay = MeasureEnd(framerate)
    BY <1>1, <1>6 DEF MeasureEnd
  <2>2. asked' = Target(framerate)
    BY <1>4, <2>1
  <2>3. left' = (MeasureEnd(framerate) \div Millisecond) * Millisecond
    BY <1>6, <2>1 DEF Process
  <2>4. UNCHANGED <<capturing, interval>>
    BY <1>6 DEF Process
  <2>5. left' \in 0..Second /\ left' + since + Millisecond > asked'
    BY <1>1, <1>6, <2>1, <2>2, <2>3, DelayCovers
  <2>6. left' \in -1..Second
    BY <2>5, <1>1
  <2>7. PacingTypeOK'
    BY <1>2, <1>3, <1>5, <2>4, <2>6 DEF PacingInv, PacingTypeOK
  <2>8. TimerCovers'
    BY <1>2, <2>5 DEF TimerCovers
  <2>9. ClockIsSet' /\ CaptureIsLate'
    BY <1>2, <2>4 DEF PacingInv, ClockIsSet, CaptureIsLate
  <2> QED
    BY <2>7, <2>8, <2>9 DEF PacingInv
<1>7. CASE ~(delay > 0)
  <2>1. since >= asked'
    <3>1. CASE frames /\ framerate > 0
      BY <1>1, <1>4, <1>7, <3>1, NoDelayIsLate
    <3>2. CASE ~(frames /\ framerate > 0)
      BY <1>1, <1>4, <3>2
    <3> QED
      BY <3>1, <3>2
  <2>2. StartFrameCapture(TRUE, asked') /\ UNCHANGED left
    BY <1>7 DEF Process
  <2>3. TimerCovers'
    BY <1>1, <1>2, <1>5, <2>1, <2>2 DEF TimerCovers
  <2>4. CaptureIsLate'
    <3>1. CASE ~capturing
      <4>1. interval' = asked'
        BY <2>2, <3>1 DEF StartFrameCapture
      <4> QED
        BY <1>1, <1>2, <1>5, <2>1, <4>1 DEF CaptureIsLate
    <3>2. CASE capturing
      BY <1>2, <2>2, <3>2 DEF PacingInv, CaptureIsLate, StartFrameCapture
    <3> QED
      BY <3>1, <3>2
  <2>5. capturing' \in BOOLEAN /\ interval' \in 0..Second
    BY <1>5, <2>2 DEF PacingInv, PacingTypeOK, StartFrameCapture
  <2>6. PacingTypeOK'
    BY <1>2, <1>3, <1>5, <2>2, <2>5 DEF PacingInv, PacingTypeOK
  <2>7. ClockIsSet'
    BY <1>2 DEF PacingInv, ClockIsSet
  <2> QED
    BY <2>3, <2>4, <2>6, <2>7 DEF PacingInv
<1> QED
  BY <1>6, <1>7

\* The timer fires: if a buffer is held its interval has nearly passed.
LEMMA HandleTimeOutKeepsInv ==
    ASSUME PacingInv, HandleTimeOut
    PROVE  PacingInv'
<1>1. /\ since \in 0..Second /\ asked \in 0..Second /\ left \in 0..Early
      /\ Millisecond \in Nat \ {0}
      /\ Second \in Nat \ {0} /\ Early \in Nat
  BY PacingAssumption DEF PacingInv, PacingTypeOK, HandleTimeOut
<1>2. UNCHANGED <<screenRate, framerate, measured, since, frames, held, asked>>
  BY DEF HandleTimeOut
<1>3. left' = -1 /\ StartFrameCapture(held, asked)
  BY DEF HandleTimeOut
<1>4. TimerCovers'
  BY <1>3 DEF TimerCovers
<1>5. CaptureIsLate'
  <2>1. CASE held /\ ~capturing
    <3>1. left + since + Millisecond > asked
      BY <1>1, <2>1 DEF PacingInv, TimerCovers
    <3>2. interval' = asked
      BY <1>3, <2>1 DEF StartFrameCapture
    <3> QED
      BY <1>1, <1>2, <3>1, <3>2 DEF CaptureIsLate
  <2>2. CASE ~(held /\ ~capturing)
    BY <1>2, <1>3, <2>2 DEF PacingInv, CaptureIsLate, StartFrameCapture
  <2> QED
    BY <2>1, <2>2
<1>6. capturing' \in BOOLEAN /\ interval' \in 0..Second
  BY <1>1, <1>3 DEF PacingInv, PacingTypeOK, StartFrameCapture
<1>7. left' \in -1..Second
  BY <1>1, <1>3
<1>8. PacingTypeOK'
  BY <1>2, <1>6, <1>7 DEF PacingInv, PacingTypeOK
<1>9. ClockIsSet'
  BY <1>2 DEF PacingInv, ClockIsSet
<1> QED
  BY <1>4, <1>5, <1>8, <1>9 DEF PacingInv

\* A capture ends: the clock may start again, but then no buffer is in hand.
LEMMA CaptureEndKeepsInv ==
    ASSUME PacingInv, HandleFrameReady \/ HandleFrameFailed
    PROVE  PacingInv'
<1>1. Second \in Nat
  BY PacingAssumption
<1>2. capturing' = FALSE
  BY DEF HandleFrameReady, HandleFrameFailed
<1>3. UNCHANGED <<screenRate, framerate, left, asked, interval>>
  BY DEF HandleFrameReady, HandleFrameFailed
<1>4. since' \in {0, since} /\ measured' \in {TRUE, measured}
  BY DEF HandleFrameReady, HandleFrameFailed, MeasureStart
<1>5. held' \in BOOLEAN /\ frames' \in BOOLEAN
  BY DEF HandleFrameReady, HandleFrameFailed, EnqueueBuffer, PacingInv,
         PacingTypeOK
<1>6. PacingTypeOK'
  <2>1. since' \in 0..Second
    BY <1>1, <1>4 DEF PacingInv, PacingTypeOK
  <2>2. measured' \in BOOLEAN
    BY <1>4 DEF PacingInv, PacingTypeOK
  <2> QED
    BY <1>2, <1>3, <1>5, <2>1, <2>2 DEF PacingInv, PacingTypeOK
<1>7. TimerCovers'
  <2>1. CASE held'
    <3>1. HandleFrameFailed /\ held' = held /\ since' = since
      BY <2>1 DEF HandleFrameReady, HandleFrameFailed, EnqueueBuffer
    <3> QED
      BY <1>3, <3>1 DEF PacingInv, TimerCovers
  <2>2. CASE ~held'
    BY <2>2 DEF TimerCovers
  <2> QED
    BY <2>1, <2>2
<1>8. ClockIsSet'
  <2>1. measured => measured'
    BY DEF HandleFrameReady, HandleFrameFailed, MeasureStart
  <2>2. screenRate' = screenRate
    BY <1>3
  <2> QED
    BY <2>1, <2>2 DEF PacingInv, ClockIsSet
<1>9. CaptureIsLate'
  BY <1>2 DEF CaptureIsLate
<1> QED
  BY <1>6, <1>7, <1>8, <1>9 DEF PacingInv

\* A buffer that is taken away asks for nothing any more.
LEMMA RemoveBufferKeepsInv ==
    ASSUME PacingInv, RemoveBuffer
    PROVE  PacingInv'
<1>1. PacingTypeOK'
  BY DEF PacingInv, PacingTypeOK, RemoveBuffer
<1>2. TimerCovers' /\ ClockIsSet' /\ CaptureIsLate'
  BY DEF PacingInv, TimerCovers, ClockIsSet, CaptureIsLate, RemoveBuffer
<1> QED
  BY <1>1, <1>2 DEF PacingInv

\* Nor does a buffer that is given back because the stream is paused.
LEMMA PauseKeepsInv ==
    ASSUME PacingInv, Pause
    PROVE  PacingInv'
<1>1. /\ UNCHANGED <<screenRate, framerate, measured, since, left, capturing, asked,
                     interval>>
      /\ ~held'
  BY DEF Pause, EnqueueBuffer
<1>2. held' \in BOOLEAN /\ frames' \in BOOLEAN
  BY DEF Pause, EnqueueBuffer, PacingInv, PacingTypeOK
<1>3. PacingTypeOK'
  BY <1>1, <1>2 DEF PacingInv, PacingTypeOK
<1>4. TimerCovers' /\ ClockIsSet' /\ CaptureIsLate'
  BY <1>1 DEF PacingInv, TimerCovers, ClockIsSet, CaptureIsLate
<1> QED
  BY <1>3, <1>4 DEF PacingInv

\* What the timer loses the clock gains, up to a second, and no interval is
\* longer than that.
LEMMA ElapseKeepsInv ==
    ASSUME PacingInv, Elapse
    PROVE  PacingInv'
<1>1. /\ since \in 0..Second /\ asked \in 0..Second /\ interval \in 0..Second
      /\ left \in -1..Second
      /\ Millisecond \in Nat \ {0}
      /\ Second \in Nat \ {0} /\ Early \in Nat
  BY PacingAssumption DEF PacingInv, PacingTypeOK
<1>2. UNCHANGED <<screenRate, framerate, measured, frames, held, capturing,
                  asked, interval>>
  BY DEF Elapse
<1>3. /\ since' = IF since < Second THEN since + 1 ELSE since
      /\ left' = IF left > 0 THEN left - 1 ELSE left
      /\ left # 0
  BY DEF Elapse
<1>4. since' \in 0..Second /\ left' \in -1..Second
  BY <1>1, <1>3
<1>5. PacingTypeOK'
  BY <1>2, <1>4 DEF PacingInv, PacingTypeOK
<1>6. TimerCovers'
  <2>1. CASE held' /\ left' >= 0
    <3>1. left > 0 /\ held
      BY <1>1, <1>2, <1>3, <2>1
    <3>2. left + since + Millisecond > asked
      BY <1>1, <3>1 DEF PacingInv, TimerCovers
    <3>3. left' + since' + Millisecond > asked'
      BY <1>1, <1>2, <1>3, <3>1, <3>2
    <3> QED
      BY <3>3 DEF TimerCovers
  <2>2. CASE ~(held' /\ left' >= 0)
    BY <2>2 DEF TimerCovers
  <2> QED
    BY <2>1, <2>2
<1>7. ClockIsSet'
  BY <1>2 DEF PacingInv, ClockIsSet
<1>8. CaptureIsLate'
  <2>1. CASE capturing
    <3>1. since + Millisecond + Early > interval
      BY <2>1 DEF PacingInv, CaptureIsLate
    <3>2. since' + Millisecond + Early > interval'
      BY <1>1, <1>2, <1>3, <3>1
    <3> QED
      BY <3>2 DEF CaptureIsLate
  <2>2. CASE ~capturing
    BY <1>2, <2>2 DEF CaptureIsLate
  <2> QED
    BY <2>1, <2>2
<1> QED
  BY <1>5, <1>6, <1>7, <1>8 DEF PacingInv

---------------------------------------------------------------------------
(* The theorems *)

\* The inductive invariant of the limiter: types, the clock that is set, the
\* timer that covers the buffer in hand and the capture that is not too early.
THEOREM PacingInvariant == PacingSpec => []PacingInv
<1>1. PacingInit => PacingInv
  <2> SUFFICES ASSUME PacingInit PROVE PacingInv
    OBVIOUS
  <2>1. Second \in Nat \ {0} /\ screenRate \in Nat
    BY PacingAssumption DEF PacingInit
  <2>2. PacingTypeOK
    <3>1. measured \in BOOLEAN
      BY DEF PacingInit
    <3>2. frames \in BOOLEAN /\ held \in BOOLEAN /\ capturing \in BOOLEAN
      BY DEF PacingInit
    <3>3. screenRate \in Rates /\ framerate = screenRate
      BY DEF PacingInit
    <3>4. since = 0 /\ left = -1 /\ asked = 0 /\ interval = 0
      BY DEF PacingInit
    <3>5. framerate \in 0..screenRate
      BY <2>1, <3>3
    <3>6. /\ since \in 0..Second /\ left \in -1..Second
          /\ asked \in 0..Second /\ interval \in 0..Second
      BY <2>1, <3>4
    <3> QED
      BY <3>1, <3>2, <3>3, <3>5, <3>6 DEF PacingTypeOK
  <2>3. TimerCovers /\ ClockIsSet /\ CaptureIsLate
    BY DEF PacingInit, TimerCovers, ClockIsSet, CaptureIsLate
  <2> QED
    BY <2>2, <2>3 DEF PacingInv
<1>2. PacingInv /\ [PacingNext]_pacingVars => PacingInv'
  <2> SUFFICES ASSUME PacingInv, [PacingNext]_pacingVars PROVE PacingInv'
    OBVIOUS
  <2>1. ASSUME NEW fps \in 0..MaxRate, ParamChanged(fps) PROVE PacingInv'
    <3>1. screenRate \in Nat
      BY PacingAssumption DEF PacingInv, PacingTypeOK
    <3>2. fps \in Nat
      BY <2>1, <3>1 DEF ParamChanged
    <3> QED
      BY <2>1, <3>2, ParamChangedKeepsInv
  <2>2. CASE Process
    BY <2>2, ProcessKeepsInv
  <2>3. CASE HandleTimeOut
    BY <2>3, HandleTimeOutKeepsInv
  <2>4. CASE HandleFrameReady \/ HandleFrameFailed
    BY <2>4, CaptureEndKeepsInv
  <2>5. CASE RemoveBuffer \/ Pause
    BY <2>5, RemoveBufferKeepsInv, PauseKeepsInv
  <2>6. CASE Elapse
    BY <2>6, ElapseKeepsInv
  <2>7. CASE UNCHANGED pacingVars
    BY <2>7 DEF pacingVars, PacingInv, PacingTypeOK, TimerCovers, ClockIsSet,
                CaptureIsLate
  <2> QED
    BY <2>1, <2>2, <2>3, <2>4, <2>5, <2>6, <2>7 DEF PacingNext
<1> QED
  BY <1>1, <1>2, PTL DEF PacingSpec

\* The limiter keeps the frame rate and never finds its clock not started,
\* whatever screens, clock and timer are like.
THEOREM PacingStaysKept == PacingSpec => []PacingIsKept
<1>1. PacingInv => PacingIsKept
  <2> SUFFICES ASSUME PacingInv PROVE PacingIsKept
    OBVIOUS
  <2>1. screenRate \in Nat
    BY PacingAssumption DEF PacingInv, PacingTypeOK
  <2>2. framerate > 0 => screenRate > 0
    BY <2>1 DEF PacingInv, PacingTypeOK
  <2>3. framerate > 0 => measured
    BY <2>2 DEF PacingInv, ClockIsSet
  <2> QED
    BY <2>3 DEF PacingInv, PacingIsKept, CaptureIsLate
<1> QED
  BY <1>1, PacingInvariant, PTL

---------------------------------------------------------------------------
(* FileFilters *)

\* The application's options, and the dialog: what is selected is an entry, and
\* there is no reply yet.
OptionsAreTyped ==
    /\ filters \in SeqOf(FilterList, MaxLists)
    /\ current \in FilterList \cup {NoFilter}

SelectionIsListed ==
    IF call = "asked" THEN selected = NoFilter
    ELSE IF Entries = <<>> THEN selected = NoFilter
    ELSE selected \in ToSet(Entries)

FiltersInv ==
    /\ FiltersComeBack /\ OptionsAreTyped /\ SelectionIsListed
    /\ call \in {"asked", "shown"} => reply = NoFilter

\* The types of a list, and the strings it gives for a type.
LEMMA StringsFacts ==
    ASSUME NEW list \in FilterList, NEW type
    PROVE  /\ OfType(list, type) \subseteq DOMAIN list.filters
           /\ \A k \in DOMAIN list.filters : k \in 1..MaxFilters /\ list.filters[k] \in Filter
           /\ list.filters = <<>> <=> DOMAIN list.filters = {}
           /\ \A j \in DOMAIN Strings(list, type) :
                 \E k \in OfType(list, type) :
                    Strings(list, type)[j] = list.filters[k].filterString
           /\ \A k \in OfType(list, type) :
                 \E j \in DOMAIN Strings(list, type) :
                    Strings(list, type)[j] = list.filters[k].filterString
           /\ Strings(list, type) = <<>> <=> OfType(list, type) = {}
<1> DEFINE K == OfType(list, type)
           kept == Kept(list.filters, K)
<1>1. PICK n \in Nat : n <= MaxFilters /\ list.filters \in [1..n -> Filter]
  <2>1. list.filters \in SeqOf(Filter, MaxFilters)
    BY DEF FilterList
  <2> QED BY <2>1, FilterAssumption DEF SeqOf
<1>2. K \in SUBSET (1..n) /\ DOMAIN list.filters = 1..n /\ n \in Nat
  BY <1>1 DEF OfType
<1>3. list.filters = <<>> <=> DOMAIN list.filters = {}
  <2>1. list.filters \in Seq(Filter) /\ Len(list.filters) = n
    BY <1>1
  <2> QED BY <1>2, <2>1, EmptySeq
<1>4. /\ \A j \in DOMAIN kept : \E i \in K : kept[j] = list.filters[i]
      /\ \A i \in K : \E j \in DOMAIN kept : kept[j] = list.filters[i]
      /\ DOMAIN kept = {} <=> K = {}
      /\ DOMAIN kept = 1..Cardinality(K) /\ Cardinality(K) \in Nat
  <2> DEFINE src == list.filters
  <2>1. DOMAIN src = 1..n /\ K \in SUBSET (1..n)
    BY <1>2
  <2> HIDE DEF K, src
  <2>2. ASSUME NEW j \in DOMAIN Kept(src, K)
        PROVE  \E i \in K : Kept(src, K)[j] = src[i]
    BY <2>1, EachIsKept
  <2>3. ASSUME NEW i \in K
        PROVE  \E j \in DOMAIN Kept(src, K) : Kept(src, K)[j] = src[i]
    BY <2>1, EveryKept
  <2>4. /\ DOMAIN Kept(src, K) = {} <=> K = {}
        /\ DOMAIN Kept(src, K) = 1..Cardinality(K) /\ Cardinality(K) \in Nat
    BY <2>1, KeptFacts
  <2> QED BY <2>2, <2>3, <2>4, Zenon DEF src
<1>5. Strings(list, type) = [i \in DOMAIN kept |-> kept[i].filterString]
  BY DEF Strings
<1> HIDE DEF kept
<1>6. DOMAIN Strings(list, type) = DOMAIN kept
  BY <1>5
<1>7. Strings(list, type) = <<>> <=> DOMAIN Strings(list, type) = {}
  BY <1>4, <1>5
<1>8. \A j \in DOMAIN kept : Strings(list, type)[j] = kept[j].filterString
  BY <1>5
<1>9. \A k \in DOMAIN list.filters : k \in 1..MaxFilters /\ list.filters[k] \in Filter
  BY <1>1, FilterAssumption
<1>10. K \subseteq DOMAIN list.filters
  BY <1>2
<1> HIDE DEF K
<1>11. \A j \in DOMAIN Strings(list, type) :
          \E k \in K : Strings(list, type)[j] = list.filters[k].filterString
  <2>1. \A j \in DOMAIN kept : \E i \in K : kept[j] = list.filters[i]
    BY <1>4
  <2> QED BY <1>6, <1>8, <2>1, Zenon
<1>12. \A k \in K : \E j \in DOMAIN Strings(list, type) :
          Strings(list, type)[j] = list.filters[k].filterString
  <2>1. \A i \in K : \E j \in DOMAIN kept : kept[j] = list.filters[i]
    BY <1>4
  <2> QED BY <1>6, <1>8, <2>1, Zenon
<1>13. Strings(list, type) = <<>> <=> K = {}
  BY <1>4, <1>6, <1>7
<1> QED BY <1>3, <1>9, <1>10, <1>11, <1>12, <1>13 DEF K

\* The places of MIME types, counted list after list
LEMMA PlacesFacts ==
    ASSUME OptionsAreTyped
    PROVE  /\ \A p \in MimePlaces : p[1] \in DOMAIN filters
                                    /\ p[2] \in OfType(filters[p[1]], 1)
           /\ Cardinality(MimePlaces) \in Nat
           /\ Cardinality(MimePlaces) = 0 <=> MimePlaces = {}
           /\ \A j \in 1..Cardinality(MimePlaces) :
                 \E p \in MimePlaces : Cardinality(UpTo(p)) = j
           /\ \A p \in MimePlaces :
                 /\ Cardinality(UpTo(p)) \in 1..Cardinality(MimePlaces)
                 /\ \A q \in MimePlaces :
                       Cardinality(UpTo(q)) = Cardinality(UpTo(p)) => q = p
<1> DEFINE P == MimePlaces
           c == Cardinality(P)
           r == [p \in P |-> Cardinality(UpTo(p))]
<1>1. PICK n \in Nat : filters \in [1..n -> FilterList]
  BY FilterAssumption DEF OptionsAreTyped, SeqOf
<1>2. P \subseteq (1..n) \X (1..MaxFilters)
  BY <1>1, StringsFacts DEF MimePlaces
<1>3. IsFiniteSet(P) /\ c \in Nat /\ \A S \in SUBSET P : /\ IsFiniteSet(S)
                                                        /\ Cardinality(S) \in Nat
                                                        /\ Cardinality(S) <= c
  <2>1. \A k \in Nat : IsFiniteSet(1..k)
    BY FS_Interval
  <2>2. IsFiniteSet((1..n) \X (1..MaxFilters))
    BY <2>1, FS_Product, FilterAssumption, Zenon
  <2>3. IsFiniteSet(P)
    BY <1>2, <2>2, FS_Subset
  <2> HIDE DEF P
  <2> QED BY <2>3, FS_Subset, FS_CardinalityType
<1>4. \A p \in P : p[1] \in DOMAIN filters /\ p[2] \in OfType(filters[p[1]], 1)
  BY DEF MimePlaces
<1>5. \A p \in P : p[1] \in Nat /\ p[2] \in Nat /\ p = <<p[1], p[2]>>
  BY <1>2
<1>6. ASSUME NEW p \in P PROVE UpTo(p) \in SUBSET P /\ p \in UpTo(p)
  BY <1>5 DEF UpTo
<1>7. ASSUME NEW p \in P, NEW q \in P, p # q PROVE Cardinality(UpTo(p)) # Cardinality(UpTo(q))
  <2> DEFINE Before(a, b) == a[1] < b[1] \/ (a[1] = b[1] /\ a[2] < b[2])
  <2>1. ASSUME NEW a \in P, NEW b \in P, Before(a, b)
        PROVE  Cardinality(UpTo(a)) # Cardinality(UpTo(b))
    <3>1. UpTo(a) \subseteq UpTo(b) /\ b \notin UpTo(a)
      BY <1>5, <2>1 DEF UpTo
    <3>2. UpTo(a) # UpTo(b) /\ IsFiniteSet(UpTo(b))
      BY <1>3, <1>6, <3>1
    <3> QED BY <3>1, <3>2, FS_Subset
  <2>2. Before(p, q) \/ Before(q, p)
    BY <1>5, <1>7
  <2> QED BY <2>1, <2>2
<1>8. ASSUME NEW p \in P PROVE Cardinality(UpTo(p)) \in 1..c
  <2>1. UpTo(p) # {} /\ IsFiniteSet(UpTo(p)) /\ Cardinality(UpTo(p)) \in Nat
        /\ Cardinality(UpTo(p)) <= c
    BY <1>3, <1>6
  <2>2. Cardinality(UpTo(p)) # 0
    BY <2>1, FS_EmptySet
  <2> QED BY <1>3, <2>1, <2>2
<1> HIDE DEF P
<1>9. r \in Injection(P, 1..c)
  BY <1>7, <1>8 DEF Injection, IsInjective
<1>10. r \in Surjection(P, 1..c)
  <2>1. IsFiniteSet(1..c) /\ Cardinality(1..c) = c
    BY <1>3, FS_Interval
  <2> HIDE DEF r, c
  <2> QED BY <1>9, <2>1, FS_Injection DEF c
<1>11. \A j \in 1..c : \E p \in P : Cardinality(UpTo(p)) = j
  BY <1>10 DEF Surjection
<1>12. c = 0 <=> P = {}
  BY <1>3, FS_EmptySet
<1> QED BY <1>3, <1>4, <1>7, <1>8, <1>11, <1>12, Zenon DEF P

\* The dialog's MIME types are those of the lists.
LEMMA MimeFacts ==
    ASSUME OptionsAreTyped
    PROVE  /\ DOMAIN mimeTypeFilters = 1..Cardinality(MimePlaces)
           /\ Cardinality(MimePlaces) \in Nat
           /\ mimeTypeFilters = <<>> <=> MimePlaces = {}
           /\ \A j \in DOMAIN mimeTypeFilters :
                 \E i \in DOMAIN filters : \E k \in OfType(filters[i], 1) :
                    mimeTypeFilters[j] = filters[i].filters[k].filterString
<1> DEFINE c == Cardinality(MimePlaces)
           at(j) == CHOOSE p \in MimePlaces : Cardinality(UpTo(p)) = j
<1>1. /\ \A j \in 1..c : at(j) \in MimePlaces
      /\ c \in Nat /\ (c = 0 <=> MimePlaces = {})
      /\ \A p \in MimePlaces : p[1] \in DOMAIN filters /\ p[2] \in OfType(filters[p[1]], 1)
  BY PlacesFacts
<1>2. mimeTypeFilters = [j \in 1..c |-> filters[at(j)[1]].filters[at(j)[2]].filterString]
  BY DEF mimeTypeFilters
<1> HIDE DEF at, c
<1>3. mimeTypeFilters = <<>> <=> c = 0
  BY <1>1, <1>2
<1> QED BY <1>1, <1>2, <1>3 DEF c

\* The dialog's names are those of the lists that have a pattern, and of a current
\* filter that counts, which comes first.
LEMMA NameFacts ==
    ASSUME OptionsAreTyped
    PROVE  /\ nameFilters = <<>> => ~CurrentCounts(0)
                                    /\ \A i \in DOMAIN filters : OfType(filters[i], 0) = {}
           /\ CurrentCounts(0) => nameFilters[1] = NameFilter(current)
           /\ \A j \in DOMAIN nameFilters :
                 \/ CurrentCounts(0) /\ nameFilters[j] = NameFilter(current)
                 \/ \E i \in DOMAIN filters : /\ OfType(filters[i], 0) # {}
                                              /\ nameFilters[j] = NameFilter(filters[i])
           /\ \A i \in DOMAIN filters : OfType(filters[i], 0) # {} =>
                 \E j \in DOMAIN nameFilters : nameFilters[j] = NameFilter(filters[i])
           /\ nameFilters # <<>> => 1 \in DOMAIN nameFilters
<1> DEFINE K == {i \in DOMAIN filters : OfType(filters[i], 0) # {}}
           lists == Kept(filters, K)
           name == NameFilter(current)
           others == {i \in DOMAIN ListedNames : ListedNames[i] # name}
           rest == Kept(ListedNames, others)
<1>1. PICK n \in Nat : filters \in [1..n -> FilterList]
  BY FilterAssumption DEF OptionsAreTyped, SeqOf
<1>2. /\ DOMAIN lists = 1..Cardinality(K) /\ Cardinality(K) \in Nat
      /\ \A j \in DOMAIN lists : \E i \in K : lists[j] = filters[i]
      /\ \A i \in K : \E j \in DOMAIN lists : lists[j] = filters[i]
      /\ DOMAIN lists = {} <=> K = {}
  <2>1. K \in SUBSET (1..n) /\ DOMAIN filters = 1..n
    BY <1>1
  <2> HIDE DEF K
  <2> QED BY <2>1, KeptFacts
<1>3. ListedNames = [i \in DOMAIN lists |-> NameFilter(lists[i])]
  BY DEF ListedNames
<1> HIDE DEF K, lists
<1>4. /\ DOMAIN ListedNames = 1..Cardinality(K)
      /\ \A j \in DOMAIN ListedNames : \E i \in K : ListedNames[j] = NameFilter(filters[i])
      /\ \A i \in K : \E j \in DOMAIN ListedNames : ListedNames[j] = NameFilter(filters[i])
      /\ ListedNames = <<>> => K = {}
      /\ ListedNames # <<>> => 1 \in DOMAIN ListedNames
  <2>1. /\ DOMAIN ListedNames = DOMAIN lists
        /\ \A j \in DOMAIN lists : ListedNames[j] = NameFilter(lists[j])
        /\ ListedNames = <<>> <=> DOMAIN lists = {}
    BY <1>2, <1>3
  <2>2. \A j \in DOMAIN lists : \E i \in K : ListedNames[j] = NameFilter(filters[i])
    BY <1>2, <2>1, Zenon
  <2>3. \A i \in K : \E j \in DOMAIN lists : ListedNames[j] = NameFilter(filters[i])
    BY <1>2, <2>1, Zenon
  <2>4. DOMAIN lists # {} => 1 \in DOMAIN lists
    BY <1>2
  <2> QED BY <1>2, <2>1, <2>2, <2>3, <2>4, Zenon
<1>5. /\ DOMAIN rest = 1..Cardinality(others) /\ Cardinality(others) \in Nat
      /\ \A j \in DOMAIN rest : \E i \in others : rest[j] = ListedNames[i]
      /\ \A i \in others : \E j \in DOMAIN rest : rest[j] = ListedNames[i]
  <2> DEFINE c == Cardinality(K)
             names == ListedNames
  <2>1. c \in Nat /\ others \in SUBSET (1..c) /\ DOMAIN names = 1..c
    BY <1>2, <1>4
  <2> HIDE DEF others, c, names
  <2>2. /\ DOMAIN Kept(names, others) = 1..Cardinality(others)
        /\ Cardinality(others) \in Nat
    BY <2>1, KeptFacts
  <2>3. \A j \in DOMAIN Kept(names, others) :
           \E i \in others : Kept(names, others)[j] = names[i]
    BY <2>1, KeptFacts
  <2>4. \A i \in others :
           \E j \in DOMAIN Kept(names, others) : Kept(names, others)[j] = names[i]
    BY <2>1, KeptFacts
  <2> QED BY <2>2, <2>3, <2>4, Zenon DEF names
<1>6. CASE ~CurrentCounts(0)
  <2>1. nameFilters = ListedNames
    BY <1>6 DEF nameFilters
  <2> HIDE DEF CurrentCounts, NameFilter, OfType
  <2> QED BY <1>4, <1>6, <2>1 DEF K
<1>7. CASE CurrentCounts(0)
  <2>1. nameFilters = <<name>> \o rest
    BY <1>7 DEF nameFilters
  <2> HIDE DEF name, rest
  <2>2. rest = [j \in 1..Cardinality(others) |-> rest[j]]
    BY <1>5 DEF rest, Kept
  <2> DEFINE D == {rest[j] : j \in DOMAIN rest} \cup {name}
             c == Cardinality(others)
  <2>3. rest \in Seq(D) /\ Len(rest) = c /\ c \in Nat /\ <<name>> \in Seq(D)
    <3>1. \A j \in 1..c : rest[j] \in D
      BY <1>5
    <3>2. name \in D /\ c \in Nat
      BY <1>5
    <3>3. rest = [j \in 1..c |-> rest[j]]
      BY <2>2
    <3> HIDE DEF D, c
    <3>4. rest \in [1..c -> D]
      BY <3>1, <3>3
    <3> QED BY <3>2, <3>4
  <2> HIDE DEF D
  <2>4. /\ DOMAIN nameFilters = 1..(1 + Cardinality(others))
        /\ nameFilters[1] = name
        /\ \A j \in 1..Cardinality(others) : nameFilters[1 + j] = rest[j]
    <3>1. /\ Len(<<name>> \o rest) = 1 + c /\ <<name>> \o rest \in Seq(D)
          /\ \A j \in 1..(1 + c) :
                (<<name>> \o rest)[j] = IF j <= 1 THEN name ELSE rest[j - 1]
      <4>1. Len(<<name>>) = 1 /\ <<name>>[1] = name
        OBVIOUS
      <4> HIDE DEF c
      <4> QED BY <2>3, <4>1, ConcatProperties
    <3>2. DOMAIN nameFilters = 1..(1 + c) /\ \A j \in 1..(1 + c) :
             nameFilters[j] = IF j <= 1 THEN name ELSE rest[j - 1]
      BY <2>1, <3>1, LenProperties
    <3> HIDE DEF c
    <3>3. 1 \in 1..(1 + c) /\ \A j \in 1..c : 1 + j \in 1..(1 + c) /\ ~(1 + j <= 1)
                                             /\ (1 + j) - 1 = j
      BY <2>3
    <3> QED BY <3>2, <3>3 DEF c
  <2>5. \A j \in DOMAIN nameFilters :
           nameFilters[j] = name \/ \E l \in DOMAIN rest : nameFilters[j] = rest[l]
    <3>1. ASSUME NEW j \in DOMAIN nameFilters, j # 1
          PROVE  j - 1 \in DOMAIN rest /\ nameFilters[j] = rest[j - 1]
      BY <1>5, <2>4, <3>1
    <3> QED BY <2>4, <3>1
  <2>6. \A i \in K : \E j \in DOMAIN nameFilters : nameFilters[j] = NameFilter(filters[i])
    <3>1. SUFFICES ASSUME NEW i \in K
                   PROVE  \E j \in DOMAIN nameFilters : nameFilters[j] = NameFilter(filters[i])
      OBVIOUS
    <3>2. PICK l \in DOMAIN ListedNames : ListedNames[l] = NameFilter(filters[i])
      BY <1>4
    <3>3. CASE ListedNames[l] = name
      <4>1. 1 \in DOMAIN nameFilters /\ nameFilters[1] = NameFilter(filters[i])
        BY <1>5, <2>4, <3>2, <3>3
      <4> QED BY <4>1
    <3>4. CASE ListedNames[l] # name
      <4>1. PICK j \in DOMAIN rest : rest[j] = ListedNames[l]
        BY <1>5, <3>4
      <4>2. 1 + j \in DOMAIN nameFilters /\ nameFilters[1 + j] = rest[j]
        BY <1>5, <2>4, <4>1
      <4> QED BY <3>2, <4>1, <4>2
    <3> QED BY <3>3, <3>4
  <2>7. \A j \in DOMAIN nameFilters :
           \/ nameFilters[j] = name
           \/ \E i \in K : nameFilters[j] = NameFilter(filters[i])
    <3>1. \A l \in DOMAIN rest : \E i \in K : rest[l] = NameFilter(filters[i])
      BY <1>4, <1>5
    <3> QED BY <2>5, <3>1
  <2>8. 1 \in DOMAIN nameFilters /\ nameFilters # <<>>
    BY <1>5, <2>4
  <2> QED BY <1>7, <2>4, <2>6, <2>7, <2>8, Zenon DEF K, name
<1> QED BY <1>6, <1>7

\* What is stored under a key are lists that offer it, and the last of them is
\* one of them.
LEMMA StoredOffers ==
    ASSUME OptionsAreTyped, NEW key
    PROVE  /\ \A i \in Stored(key) : i \in DOMAIN filters /\ Offers(filters[i], key)
           /\ Stored(key) # {} => Max(Stored(key)) \in Stored(key)
           /\ \A i \in DOMAIN filters : filters[i] \in FilterList
<1>1. PICK n \in Nat : filters \in [1..n -> FilterList]
  BY FilterAssumption DEF OptionsAreTyped, SeqOf
<1>2. ASSUME NEW i \in Stored(key) PROVE i \in DOMAIN filters /\ Offers(filters[i], key)
  <2> DEFINE list == filters[i]
  <2>1. i \in DOMAIN filters /\ key \in Keys(list) /\ list \in FilterList
    BY <1>1 DEF Stored
  <2> HIDE DEF list
  <2>2. CASE key \in ToSet(Strings(list, 1))
    <3>1. PICK j \in DOMAIN Strings(list, 1) : key = Strings(list, 1)[j]
      BY <2>2 DEF ToSet
    <3>2. PICK k \in OfType(list, 1) : key = list.filters[k].filterString
      BY <2>1, <3>1, StringsFacts
    <3>3. k \in DOMAIN list.filters /\ list.filters[k].type = 1
      BY <3>2 DEF OfType
    <3> QED BY <2>1, <3>2, <3>3 DEF Offers, ToSet, list
  <2>3. CASE Strings(list, 0) # <<>> /\ key = NameFilter(list)
    <3>1. PICK k \in OfType(list, 0) : TRUE
      BY <2>1, <2>3, StringsFacts
    <3>2. k \in DOMAIN list.filters /\ list.filters[k].type = 0
      BY <3>1 DEF OfType
    <3> QED BY <2>1, <2>3, <3>2 DEF Offers, ToSet, list
  <2> QED BY <2>1, <2>2, <2>3 DEF Keys
<1>3. ASSUME Stored(key) # {} PROVE Max(Stored(key)) \in Stored(key)
  <2> DEFINE S == {n - i : i \in Stored(key)}
  <2>1. \A i \in Stored(key) : i \in 1..n
    BY <1>1 DEF Stored
  <2>2. S \in SUBSET Nat /\ S # {}
    BY <1>3, <2>1
  <2>3. PICK x \in S : \A y \in S : x <= y
    <3> HIDE DEF S
    <3> QED BY <2>2, Least
  <2>4. PICK i \in Stored(key) : x = n - i
    BY <2>3
  <2>5. \A j \in Stored(key) : i >= j
    BY <2>1, <2>3, <2>4
  <2> QED BY <2>4, <2>5, Zenon DEF Max
<1> QED BY <1>1, <1>2, <1>3

\* The keys of a list find it again.
LEMMA StoredIsFound ==
    ASSUME OptionsAreTyped, NEW i \in DOMAIN filters
    PROVE  /\ \A k \in OfType(filters[i], 1) :
                 Stored(filters[i].filters[k].filterString) # {}
           /\ OfType(filters[i], 0) # {} => Stored(NameFilter(filters[i])) # {}
<1> DEFINE list == filters[i]
<1>1. list \in FilterList
  BY StoredOffers
<1>2. \A key : key \in Keys(list) => Stored(key) # {}
  BY DEF Stored
<1> HIDE DEF list
<1>3. ASSUME NEW k \in OfType(list, 1) PROVE list.filters[k].filterString \in Keys(list)
  <2>1. PICK j \in DOMAIN Strings(list, 1) : Strings(list, 1)[j] = list.filters[k].filterString
    BY <1>1, StringsFacts
  <2> QED BY <2>1 DEF Keys, ToSet
<1>4. ASSUME OfType(list, 0) # {} PROVE NameFilter(list) \in Keys(list)
  BY <1>1, <1>4, StringsFacts DEF Keys
<1> QED BY <1>2, <1>3, <1>4 DEF list

\* A filter of a list is a pattern or a MIME type.
LEMMA ListHasFilters ==
    ASSUME OptionsAreTyped, NEW i \in DOMAIN filters, filters[i].filters # <<>>
    PROVE  OfType(filters[i], 0) # {} \/ OfType(filters[i], 1) # {}
<1>1. filters[i] \in FilterList
  BY StoredOffers
<1>2. PICK k \in DOMAIN filters[i].filters : filters[i].filters[k] \in Filter
  BY <1>1, StringsFacts
<1> QED BY <1>2 DEF OfType, Filter

\* With a MIME type in some list, the dialog has MIME types.
LEMMA MimeFiltersFacts ==
    ASSUME OptionsAreTyped
    PROVE  MimeFilters <=> \E i \in DOMAIN filters : OfType(filters[i], 1) # {}
<1>1. MimePlaces # {} <=> \E i \in DOMAIN filters : OfType(filters[i], 1) # {}
  <2>1. ASSUME NEW i \in DOMAIN filters, NEW k \in OfType(filters[i], 1)
        PROVE  <<i, k>> \in MimePlaces
    BY DEF MimePlaces
  <2>2. \A p \in MimePlaces : \E i \in DOMAIN filters : OfType(filters[i], 1) # {}
    BY DEF MimePlaces
  <2> QED BY <2>1, <2>2
<1> QED BY <1>1, MimeFacts DEF MimeFilters

\* The reply to what is selected.
LEMMA ReplyFacts ==
    ASSUME OptionsAreTyped,
           IF Entries = <<>> THEN selected = NoFilter ELSE selected \in ToSet(Entries)
    PROVE  LET r == CurrentFilterResult(selected)
           IN  IF r # NoFilter THEN r \in ToSet(filters) /\ Offers(r, selected)
               ELSE \/ \A i \in DOMAIN filters : filters[i].filters = <<>>
                    \/ CurrentCounts(0) /\ selected = NameFilter(current)
<1>1. CASE Stored(selected) # {}
  <2> DEFINE x == Max(Stored(selected))
  <2>1. x \in Stored(selected) /\ CurrentFilterResult(selected) = filters[x]
    BY <1>1, StoredOffers DEF CurrentFilterResult
  <2>2. x \in DOMAIN filters /\ Offers(filters[x], selected) /\ filters[x] \in FilterList
    BY <2>1, StoredOffers
  <2>3. filters[x] # NoFilter
    BY <2>2, FilterAssumption
  <2> HIDE DEF x
  <2> QED BY <2>1, <2>2, <2>3 DEF ToSet
<1>2. CASE Stored(selected) = {}
  <2>1. CurrentFilterResult(selected) = NoFilter
    BY <1>2 DEF CurrentFilterResult
  <2>2. CASE MimeFilters
    <3>1. mimeTypeFilters # <<>> /\ Entries = mimeTypeFilters
      BY <2>2 DEF MimeFilters, Entries
    <3>2. PICK j \in DOMAIN mimeTypeFilters : selected = mimeTypeFilters[j]
      BY <3>1 DEF ToSet
    <3>3. PICK i \in DOMAIN filters :
             \E k \in OfType(filters[i], 1) : selected = filters[i].filters[k].filterString
      BY <3>2, MimeFacts
    <3> QED BY <1>2, <3>3, StoredIsFound
  <2>3. CASE ~MimeFilters
    <3>1. Entries = nameFilters
      BY <2>3 DEF Entries
    <3>2. CASE nameFilters = <<>>
      <4>1. \A i \in DOMAIN filters : OfType(filters[i], 0) = {} /\ OfType(filters[i], 1) = {}
        BY <2>3, <3>2, NameFacts, MimeFiltersFacts
      <4>2. \A i \in DOMAIN filters : filters[i].filters = <<>>
        BY <4>1, ListHasFilters
      <4> QED BY <2>1, <4>2
    <3>3. CASE nameFilters # <<>>
      <4>1. PICK j \in DOMAIN nameFilters : selected = nameFilters[j]
        BY <3>1, <3>3 DEF ToSet
      <4>2. ~\E i \in DOMAIN filters : /\ OfType(filters[i], 0) # {}
                                       /\ selected = NameFilter(filters[i])
        BY <1>2, StoredIsFound
      <4>3. CurrentCounts(0) /\ selected = NameFilter(current)
        BY <4>1, <4>2, NameFacts
      <4> QED BY <2>1, <4>3
    <3> QED BY <3>2, <3>3
  <2> QED BY <2>2, <2>3
<1> QED BY <1>1, <1>2

\* What the user can select, with no MIME type in any list.
LEMMA EntriesOffer ==
    ASSUME OptionsAreTyped, ~MimeFilters
    PROVE  /\ \A i \in DOMAIN filters : filters[i].filters # <<>> =>
                 \E j \in DOMAIN Entries : Offers(filters[i], Entries[j])
           /\ CurrentCounts(0) => Entries[1] = NameFilter(current)
<1>1. Entries = nameFilters
  BY DEF Entries
<1>2. ASSUME NEW i \in DOMAIN filters, filters[i].filters # <<>>
      PROVE  \E j \in DOMAIN nameFilters : Offers(filters[i], nameFilters[j])
  <2>1. OfType(filters[i], 0) # {}
    BY <1>2, ListHasFilters, MimeFiltersFacts
  <2>2. PICK j \in DOMAIN nameFilters : nameFilters[j] = NameFilter(filters[i])
    BY <2>1, NameFacts
  <2>3. \E f \in ToSet(filters[i].filters) : f.type = 0
    BY <2>1 DEF OfType, ToSet
  <2> QED BY <2>2, <2>3 DEF Offers
<1> QED BY <1>1, <1>2, NameFacts

\* The first of the entries is one.
LEMMA HeadIsListed ==
    ASSUME OptionsAreTyped, Entries # <<>>
    PROVE  Head(Entries) \in ToSet(Entries)
<1>1. Head(Entries) = Entries[1]
  BY DEF Head
<1>2. 1 \in DOMAIN Entries
  <2>1. CASE MimeFilters
    BY <2>1, MimeFacts DEF Entries, MimeFilters
  <2>2. CASE ~MimeFilters
    BY <2>2, NameFacts DEF Entries
  <2> QED BY <2>1, <2>2
<1> QED BY <1>1, <1>2 DEF ToSet

\* For any labels, patterns, MIME types and number of lists, the reply names a list
\* that offers what was selected, or there is none for the reasons stated.
THEOREM FiltersAlwaysComeBack == FilterSpec => []FiltersComeBack
<1>1. FilterInit => FiltersInv
  BY FilterAssumption DEF FilterInit, FiltersInv, FiltersComeBack, FilterTypeOK,
     OptionsAreTyped, SelectionIsListed
<1>2. FiltersInv /\ [FilterNext]_filterVars => FiltersInv'
  <2> SUFFICES ASSUME FiltersInv, [FilterNext]_filterVars PROVE FiltersInv'
    OBVIOUS
  <2>1. /\ OptionsAreTyped /\ FiltersComeBack /\ SelectionIsListed
        /\ call \in {"asked", "shown"} => reply = NoFilter
        /\ call \in {"asked", "shown", "accepted", "rejected"}
        /\ reply \in {NoFilter} \cup ToSet(filters)
    BY DEF FiltersInv, FiltersComeBack, FilterTypeOK
  <2>2. UNCHANGED <<filters, current>>
    BY DEF FilterNext, Show, Select, Accept, Reject, filterVars
  <2>3. /\ OptionsAreTyped' /\ Entries' = Entries /\ MimeFilters' = MimeFilters
        /\ \A t \in {0, 1} : CurrentCounts(t)' = CurrentCounts(t)
    BY <2>1, <2>2 DEF OptionsAreTyped, Entries, MimeFilters, mimeTypeFilters, MimePlaces,
                      UpTo, nameFilters, ListedNames, CurrentCounts
  <2>4. CASE Show
    <3>1. call' = "shown" /\ reply' = NoFilter
      BY <2>1, <2>4 DEF Show
    <3>2. IF Entries = <<>> THEN selected' = NoFilter ELSE selected' \in ToSet(Entries)
      BY <2>1, <2>4, HeadIsListed DEF Show
    <3> QED BY <2>1, <2>2, <2>3, <3>1, <3>2, EntriesOffer
            DEF FiltersInv, FiltersComeBack, FilterTypeOK, SelectionIsListed
  <2>5. CASE \E i \in DOMAIN Entries : Select(i)
    <3>1. call' = "shown" /\ call = "shown" /\ reply' = reply
      BY <2>5 DEF Select
    <3>2. Entries # <<>> /\ selected' \in ToSet(Entries)
      BY <2>5 DEF Select, ToSet
    <3> QED BY <2>1, <2>2, <2>3, <3>1, <3>2, EntriesOffer
            DEF FiltersInv, FiltersComeBack, FilterTypeOK, SelectionIsListed
  <2>6. CASE Accept
    <3>1. /\ call' = "accepted" /\ call = "shown" /\ selected' = selected
          /\ reply' = CurrentFilterResult(selected)
      BY <2>6 DEF Accept
    <3>2. IF Entries = <<>> THEN selected = NoFilter ELSE selected \in ToSet(Entries)
      BY <2>1, <3>1 DEF SelectionIsListed
    <3> QED BY <2>1, <2>2, <2>3, <3>1, <3>2, ReplyFacts
            DEF FiltersInv, FiltersComeBack, FilterTypeOK, SelectionIsListed
  <2>7. CASE Reject
    <3>1. call' = "rejected" /\ call = "shown" /\ UNCHANGED <<selected, reply>>
      BY <2>7 DEF Reject
    <3> QED BY <2>1, <2>2, <2>3, <3>1
            DEF FiltersInv, FiltersComeBack, FilterTypeOK, SelectionIsListed
  <2>8. CASE UNCHANGED filterVars
    <3>1. UNCHANGED <<call, selected, reply>>
      BY <2>8 DEF filterVars
    <3> QED BY <2>1, <2>2, <2>3, <3>1
            DEF FiltersInv, FiltersComeBack, FilterTypeOK, SelectionIsListed
  <2> QED BY <2>4, <2>5, <2>6, <2>7, <2>8 DEF FilterNext
<1>3. FiltersInv => FiltersComeBack
  BY DEF FiltersInv
<1> QED BY <1>1, <1>2, <1>3, PTL DEF FilterSpec
============================================================================
