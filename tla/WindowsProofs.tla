--------------------------- MODULE WindowsProofs ---------------------------
(***************************************************************************)
(* Theorems about the windows that are shared and the window in which they *)
(* are chosen, for any number of windows, screens and calls of Start().    *)
(***************************************************************************)
EXTENDS SharedWindows, SourceChooser, SequenceFacts, TLAPS

\* Entries have handles the compositor has announced.
EntriesAreAnnounced ==
    \A i \in DOMAIN toplevels : toplevels[i].handle \in announced

\* Of the entries with one handle, only the first has the identifier.
FirstIsNamed ==
    \A i, j \in DOMAIN toplevels :
        i < j /\ toplevels[i].handle = toplevels[j].handle => ~toplevels[j].named

\* A call that starts a stream has a window, and the ToplevelInfo it holds is
\* gone only when its window was closed or its list was finished.
CallsAreHeld ==
    \A s \in Starts :
        /\ call[s].phase \in {"starting", "ready"} => call[s].window # None
        /\ call[s].window # None /\ ~call[s].info =>
              window[call[s].window] = "closed" \/ ListEnded(s)

\* The handles of a chooser's list are those that its model lists, as long as
\* there is a model, and are gone once the list is finished; the window that was
\* chosen from it has one until then.
HandlesOf(s) ==
    /\ chooser[s] = "alive" => chooserHandles[s] = rows[s]
    /\ chooser[s] # "alive" => rows[s] = {}
    /\ chooser[s] = "none" => chooserHandles[s] = {}
    /\ s \in finished => chooserHandles[s] = {}
    /\ call[s].phase = "none" => chooser[s] = "none"
    /\ call[s].window # None /\ call[s].handle = None /\ s \notin finished
       /\ window[call[s].window] # "closed"
          => call[s].window \in chooserHandles[s]

HandlesAreOwned == \A s \in Starts : HandlesOf(s)

SharesInv ==
    /\ WindowsAreTracked
    /\ EntriesAreAnnounced /\ FirstIsNamed /\ CallsAreHeld /\ HandlesAreOwned

\* Rows are of different windows, those the compositor has announced, and there
\* are none once the list is finished.
RowsAreKnown ==
    /\ IsInjective(listed)
    /\ count <= Cardinality(known)
    /\ clicked \in known \cup {NoSource}
    /\ ended => listed = <<>>

\* The window clicked last is the row that the view will stand on.
ClickedIsNext ==
    ~cleared /\ clicked \in ToSet(listed) =>
        next + 1 \in DOMAIN listed /\ listed[next + 1] = clicked

\* The screen clicked last is the current row until screens come or go.
TappedIsCurrent ==
    outputIndex >= 0 =>
        /\ tapped # NoSource
        /\ ~replugged => /\ outputIndex + 1 \in DOMAIN outputs
                         /\ tapped = outputs[outputIndex + 1]

ChooserInv ==
    /\ ViewFollowsModel /\ AcceptTakesClicked
    /\ RowsAreKnown /\ ClickedIsNext /\ TappedIsCurrent

---------------------------------------------------------------------------
(* The chooser: its three parts *)

\* The list of windows and its view
WindowsAreInOrder ==
    /\ known \in SUBSET Shown
    /\ listed \in Seq(known)
    /\ ended \in BOOLEAN
    /\ count \in 0..Cardinality(Shown)
    /\ index \in Index(Shown)
    /\ next \in Index(Shown)
    /\ cleared \in BOOLEAN
    /\ clicked \in Shown \cup {NoSource}
    /\ cleared => index = -1
    /\ ~ended => /\ count = Len(listed)
                 /\ next < count
                 /\ ~cleared => (next = -1 <=> count = 0)
    /\ RowsAreKnown /\ ClickedIsNext

\* The list of screens and its view
ScreensAreInOrder ==
    /\ outputs \in Seq(Screens)
    /\ outputIndex \in Index(Screens)
    /\ tapped \in Screens \cup {NoSource}
    /\ replugged \in BOOLEAN
    /\ TappedIsCurrent

\* The dialog
DialogIsInOrder ==
    /\ dialog \in {"open", "accepted", "rejected", "out_of_range"}
    /\ layout \in {0, 1}
    /\ chosen \in Shown \cup Screens \cup {NoSource}
    /\ AcceptTakesClicked

\* The invariant is about the three parts, before a step and after it.
LEMMA ChooserParts ==
    /\ ChooserInv <=> WindowsAreInOrder /\ ScreensAreInOrder /\ DialogIsInOrder
    /\ ChooserInv' <=> WindowsAreInOrder' /\ ScreensAreInOrder' /\ DialogIsInOrder'
BY DEF ChooserInv, ViewFollowsModel, ChooserTypeOK, WindowsAreInOrder,
       ScreensAreInOrder, DialogIsInOrder

\* Numbers of rows are numbers, and no more windows are known than there are.
LEMMA RowNumbers ==
    /\ Cardinality(Shown) \in Nat /\ Cardinality(Screens) \in Nat
    /\ Index(Shown) = -1..(Cardinality(Shown) - 1)
    /\ Index(Screens) = -1..(Cardinality(Screens) - 1)
    /\ \A S \in SUBSET Shown : /\ IsFiniteSet(S) /\ Cardinality(S) \in Nat
                               /\ Cardinality(S) <= Cardinality(Shown)
<1>1. ASSUME NEW S \in SUBSET Shown
      PROVE  /\ IsFiniteSet(S) /\ Cardinality(S) \in Nat
             /\ Cardinality(S) <= Cardinality(Shown)
  BY ChooserAssumption, FS_Subset, FS_CardinalityType
<1> QED BY <1>1, ChooserAssumption, FS_CardinalityType DEF Index

\* A new window becomes the last row.
LEMMA AddRowStep ==
    ASSUME WindowsAreInOrder, NEW w \in Shown, AddRow(w)
    PROVE  WindowsAreInOrder'
<1>1. /\ w \notin known /\ known' = known \cup {w} /\ listed' = Append(listed, w)
      /\ count' = count + 1 /\ next' = IF next < 0 THEN 0 ELSE next
      /\ ~ended /\ UNCHANGED <<ended, index, cleared, clicked>>
  BY DEF AddRow
<1>2. /\ listed \in Seq(known) /\ known \in SUBSET Shown /\ count = Len(listed)
      /\ next < count /\ count \in Nat /\ next \in Int /\ next >= -1
      /\ ~cleared => (next = -1 <=> count = 0)
      /\ clicked \in known \cup {NoSource} /\ IsInjective(listed)
      /\ count <= Cardinality(known)
  BY <1>1, RowNumbers DEF WindowsAreInOrder, RowsAreKnown
<1>3. /\ Cardinality(known') = Cardinality(known) + 1
      /\ Cardinality(known') <= Cardinality(Shown)
      /\ Cardinality(known') \in Nat /\ Cardinality(known) \in Nat
      /\ known' \in SUBSET Shown
  BY <1>1, <1>2, RowNumbers, FS_AddElement
<1>4. listed \in Seq(known') /\ DOMAIN listed = 1..Len(listed)
  BY <1>1, <1>2
<1>5. /\ listed' \in Seq(known')
      /\ DOMAIN listed' = DOMAIN listed \cup {Len(listed) + 1}
      /\ \A i \in DOMAIN listed : listed'[i] = listed[i] /\ i # Len(listed) + 1
      /\ listed'[Len(listed) + 1] = w
  <2>1. w \in known'
    BY <1>1
  <2> QED BY <1>1, <1>4, <2>1, PushFacts
<1>6. Len(listed') = Len(listed) + 1
  BY <1>1, <1>2, AppendProperties
<1>7. \A i \in DOMAIN listed : listed[i] \in known /\ listed[i] # w
  BY <1>1, <1>2
<1>8. RowsAreKnown'
  <2>1. IsInjective(listed')
    BY <1>2, <1>5, <1>7 DEF IsInjective
  <2> QED BY <1>1, <1>2, <1>3, <2>1 DEF RowsAreKnown
<1>9. ClickedIsNext'
  <2>1. SUFFICES ASSUME ~cleared, clicked \in ToSet(listed')
                 PROVE  next' + 1 \in DOMAIN listed' /\ listed'[next' + 1] = clicked
    BY <1>1 DEF ClickedIsNext
  <2>2. clicked # w /\ w # NoSource
    BY <1>1, <1>2, ChooserAssumption
  <2>3. clicked \in ToSet(listed) /\ DOMAIN listed # {}
    BY <1>5, <2>1, <2>2 DEF ToSet
  <2>4. next + 1 \in DOMAIN listed /\ listed[next + 1] = clicked
    BY <2>1, <2>3 DEF WindowsAreInOrder, ClickedIsNext
  <2>5. count # 0 /\ next >= 0
    BY <1>2, <1>4, <2>1, <2>3
  <2>6. next' = next /\ next + 1 \in DOMAIN listed'
    BY <1>1, <1>2, <1>5, <2>4, <2>5
  <2>7. listed'[next + 1] = listed[next + 1]
    BY <1>5, <2>4
  <2> QED BY <2>4, <2>6, <2>7
<1>10. /\ count' \in 0..Cardinality(Shown) /\ next' \in Index(Shown)
       /\ count' = Len(listed') /\ next' < count'
       /\ ~cleared' => (next' = -1 <=> count' = 0)
  BY <1>1, <1>2, <1>3, <1>6, RowNumbers
<1> QED BY <1>1, <1>3, <1>5, <1>8, <1>9, <1>10 DEF WindowsAreInOrder

\* A row goes, the current one or another.
LEMMA RemoveRowStep ==
    ASSUME WindowsAreInOrder, NEW w \in Shown, RemoveRow(w),
           UNCHANGED <<known, ended, index, cleared, clicked>>
    PROVE  WindowsAreInOrder'
<1>1. PICK r \in DOMAIN listed :
          /\ listed[r] = w /\ listed' = RemoveAt(listed, r) /\ count' = count - 1
          /\ next' = IF next >= r THEN next - 1
                     ELSE IF next = r - 1
                     THEN IF r = count THEN count - 2 ELSE next
                     ELSE next
  BY DEF RemoveRow
<1>2. ~ended
  BY <1>1 DEF WindowsAreInOrder, RowsAreKnown
<1>3. /\ listed \in Seq(known) /\ count = Len(listed) /\ DOMAIN listed = 1..count
      /\ next < count /\ count \in Nat /\ next \in Int /\ next >= -1
      /\ count <= Cardinality(Shown)
      /\ ~cleared => (next = -1 <=> count = 0)
      /\ clicked \in known \cup {NoSource} /\ IsInjective(listed)
      /\ count <= Cardinality(known)
      /\ r \in 1..count
  BY <1>1, <1>2, RowNumbers DEF WindowsAreInOrder, RowsAreKnown
<1>4. /\ listed' \in Seq(known) /\ Len(listed') = count - 1
      /\ \A j \in 1..(count - 1) :
            listed'[j] = IF j < r THEN listed[j] ELSE listed[j + 1]
      /\ IsInjective(listed')
      /\ \A m : Contains(listed', m) <=> Contains(listed, m) /\ m # listed[r]
  BY <1>1, <1>3, RemovedFacts
<1>5. /\ count' \in 0..Cardinality(Shown) /\ next' \in Index(Shown)
      /\ count' = Len(listed') /\ next' < count'
      /\ ~cleared' => (next' = -1 <=> count' = 0)
  <2>1. next < Cardinality(Shown) /\ Cardinality(Shown) \in Nat
    BY <1>3, RowNumbers
  <2>2. count' = count - 1 /\ next' \in Int /\ -1 <= next' /\ next' < count - 1
    BY <1>1, <1>3
  <2>3. ~cleared => (next' = -1 <=> count - 1 = 0)
    BY <1>1, <1>3
  <2> QED BY <1>1, <1>3, <1>4, <2>1, <2>2, <2>3, RowNumbers
<1>6. RowsAreKnown'
  <2>1. Cardinality(known) \in Nat
    BY RowNumbers DEF WindowsAreInOrder
  <2> QED BY <1>1, <1>2, <1>3, <1>4, <2>1 DEF RowsAreKnown
<1>7. ClickedIsNext'
  <2>1. SUFFICES ASSUME ~cleared, clicked \in ToSet(listed')
                 PROVE  next' + 1 \in DOMAIN listed' /\ listed'[next' + 1] = clicked
    BY DEF ClickedIsNext
  <2>2. DOMAIN listed' = 1..(count - 1)
    BY <1>4, LenProperties
  <2>3. Contains(listed', clicked)
    BY <1>4, <2>1, <2>2 DEF ToSet, Contains
  <2>4. Contains(listed, clicked) /\ clicked # listed[r]
    BY <1>4, <2>3
  <2>5. next + 1 \in 1..count /\ listed[next + 1] = clicked
    BY <1>3, <2>1, <2>4 DEF WindowsAreInOrder, ClickedIsNext, ToSet, Contains
  <2>6. next + 1 # r
    BY <2>4, <2>5
  <2>7. CASE next >= r
    <3>1. next' = next - 1 /\ next \in 1..(count - 1) /\ ~(next < r)
      BY <1>1, <1>3, <2>5, <2>7
    <3> QED BY <1>3, <1>4, <2>2, <2>5, <3>1
  <2>8. CASE next < r
    <3>1. next' = next /\ next + 1 \in 1..(count - 1) /\ next + 1 < r
      BY <1>1, <1>3, <2>5, <2>6, <2>8
    <3> QED BY <1>4, <2>2, <2>5, <3>1
  <2> QED BY <1>1, <1>3, <2>7, <2>8
<1> QED BY <1>4, <1>5, <1>6, <1>7 DEF WindowsAreInOrder

\* The rows are dropped, the view takes over, or the user clicks a row.
LEMMA WindowViewStep ==
    ASSUME WindowsAreInOrder,
           \/ FinishList \/ Polish
           \/ \E i \in Index(Shown) \ {-1} : ClickWindow(i)
    PROVE  WindowsAreInOrder'
<1>1. /\ known \in SUBSET Shown /\ count \in Nat /\ next \in Int /\ index \in Int
      /\ Cardinality(Shown) \in Nat
  BY RowNumbers DEF WindowsAreInOrder
<1>2. CASE FinishList
  <2>1. /\ ended' /\ ended' \in BOOLEAN /\ listed' = <<>>
        /\ UNCHANGED <<known, count, index, next, cleared, clicked>>
    BY <1>2 DEF FinishList
  <2>2. listed' \in Seq(known') /\ DOMAIN listed' = {}
    BY <2>1
  <2>3. RowsAreKnown' /\ ClickedIsNext'
    BY <2>1, <2>2 DEF RowsAreKnown, ClickedIsNext, ToSet, IsInjective,
                      WindowsAreInOrder
  <2> QED BY <2>1, <2>2, <2>3 DEF WindowsAreInOrder
<1>3. CASE Polish
  <2>1. /\ UNCHANGED <<known, listed, ended, count, cleared, clicked>>
        /\ IF cleared THEN next' = index /\ UNCHANGED index
                      ELSE index' = next /\ UNCHANGED next
    BY <1>3 DEF Polish
  <2>2. RowsAreKnown'
    BY <2>1 DEF RowsAreKnown, WindowsAreInOrder
  <2>3. ClickedIsNext'
    BY <2>1 DEF ClickedIsNext, WindowsAreInOrder
  <2>4. cleared => index = -1
    BY DEF WindowsAreInOrder
  <2>5. /\ index' \in Index(Shown) /\ next' \in Index(Shown)
        /\ cleared' => index' = -1
        /\ ~ended => next' < count
    BY <1>1, <2>1, <2>4 DEF WindowsAreInOrder
  <2> QED BY <2>1, <2>2, <2>3, <2>5 DEF WindowsAreInOrder
<1>4. ASSUME NEW i \in Index(Shown) \ {-1}, ClickWindow(i) PROVE WindowsAreInOrder'
  <2>1. /\ i < count /\ index' = i /\ next' = i /\ ~cleared' /\ cleared' \in BOOLEAN
        /\ clicked' = IF i < Len(listed) THEN listed[i + 1] ELSE NoSource
        /\ UNCHANGED <<known, listed, ended, count>>
    BY <1>4 DEF ClickWindow
  <2>2. i \in Nat /\ i \in Index(Shown)
    BY <1>1, <1>4, RowNumbers
  <2>3. listed \in Seq(known) /\ DOMAIN listed = 1..Len(listed) /\ Len(listed) \in Nat
    BY DEF WindowsAreInOrder
  <2>4. CASE i < Len(listed)
    <3>1. i + 1 \in DOMAIN listed /\ clicked' = listed[i + 1] /\ listed[i + 1] \in known
      BY <2>1, <2>2, <2>3, <2>4
    <3>2. RowsAreKnown' /\ ClickedIsNext'
      BY <2>1, <3>1 DEF RowsAreKnown, ClickedIsNext, WindowsAreInOrder
    <3> QED BY <1>1, <2>1, <2>2, <3>1, <3>2 DEF WindowsAreInOrder
  <2>5. CASE ~(i < Len(listed))
    <3>1. clicked' = NoSource
      BY <2>1, <2>5
    <3>2. \A m \in ToSet(listed) : m # NoSource
      BY <1>1, <2>3, ChooserAssumption DEF ToSet
    <3>3. RowsAreKnown' /\ ClickedIsNext'
      BY <2>1, <3>1, <3>2 DEF RowsAreKnown, ClickedIsNext, WindowsAreInOrder
    <3> QED BY <1>1, <2>1, <2>2, <3>1, <3>3 DEF WindowsAreInOrder
  <2> QED BY <2>4, <2>5
<1> QED BY <1>2, <1>3, <1>4

\* Screens come, go and are clicked.
LEMMA ScreensStep ==
    ASSUME ScreensAreInOrder,
           \/ \E s \in Screens : ScreenAdded(s) \/ ScreenRemoved(s)
           \/ \E i \in Index(Screens) \ {-1} : ClickScreen(i)
    PROVE  ScreensAreInOrder'
<1>0. outputs \in Seq(Screens) /\ DOMAIN outputs = 1..Len(outputs)
  BY DEF ScreensAreInOrder
<1>1. ASSUME NEW q \in Seq(Screens), RefreshScreens(q) PROVE ScreensAreInOrder'
  <2>1. /\ outputs' = q /\ replugged' = TRUE /\ UNCHANGED <<outputIndex, tapped>>
    BY <1>1 DEF RefreshScreens
  <2> QED BY <2>1 DEF ScreensAreInOrder, TappedIsCurrent
<1>2. ASSUME NEW s \in Screens, ScreenAdded(s) PROVE ScreensAreInOrder'
  <2>1. Append(outputs, s) \in Seq(Screens) /\ <<s>> \o outputs \in Seq(Screens)
    <3>1. <<s>> \in Seq(Screens)
      OBVIOUS
    <3> QED BY <1>0, <3>1, AppendProperties, ConcatProperties
  <2> QED BY <1>1, <1>2, <2>1 DEF ScreenAdded
<1>3. ASSUME NEW s \in Screens, ScreenRemoved(s) PROVE ScreensAreInOrder'
  <2>1. PICK r \in DOMAIN outputs : RefreshScreens(RemoveAt(outputs, r))
    BY <1>3 DEF ScreenRemoved
  <2>2. RemoveAt(outputs, r) \in Seq(Screens)
    BY <1>0, RemovedFacts
  <2> QED BY <1>1, <2>1, <2>2
<1>4. ASSUME NEW i \in Index(Screens) \ {-1}, ClickScreen(i) PROVE ScreensAreInOrder'
  <2>1. /\ i < Len(outputs) /\ outputIndex' = i /\ tapped' = outputs[i + 1]
        /\ replugged' = FALSE /\ UNCHANGED outputs
    BY <1>4 DEF ClickScreen
  <2>2. i \in Nat /\ i \in Index(Screens)
    BY <1>4, RowNumbers
  <2>3. i + 1 \in DOMAIN outputs /\ outputs[i + 1] \in Screens
    BY <1>0, <2>1, <2>2
  <2>4. outputs[i + 1] # NoSource
    BY <2>3, ChooserAssumption
  <2> QED BY <1>0, <2>1, <2>2, <2>3, <2>4 DEF ScreensAreInOrder, TappedIsCurrent
<1> QED BY <1>2, <1>3, <1>4

\* What is accepted is what was clicked, or a mishap has happened.
LEMMA AcceptStep ==
    ASSUME ChooserInv, AcceptSource
    PROVE  DialogIsInOrder' /\ UNCHANGED <<layout, screenVars, windowVars>>
<1>1. /\ outputs \in Seq(Screens) /\ outputIndex \in Int
      /\ listed \in Seq(known) /\ known \in SUBSET Shown /\ index \in Int /\ next \in Int
      /\ Len(outputs) \in Nat /\ DOMAIN outputs = 1..Len(outputs)
      /\ Len(listed) \in Nat /\ DOMAIN listed = 1..Len(listed)
      /\ chosen \in Shown \cup Screens \cup {NoSource} /\ count \in Nat
      /\ WindowsAreInOrder /\ ScreensAreInOrder
  BY ChooserParts, RowNumbers
  DEF WindowsAreInOrder, ScreensAreInOrder, DialogIsInOrder
<1>2. UNCHANGED <<layout, screenVars, windowVars>>
  BY DEF AcceptSource, AcceptRow
<1>3. /\ UNCHANGED <<outputs, outputIndex, tapped, replugged>>
      /\ UNCHANGED <<listed, ended, count, next, index, cleared, clicked, layout>>
  BY <1>2 DEF screenVars, windowVars, rowVars
<1>4. CASE layout = 0 /\ AcceptRow(outputs, outputIndex)
  <2>1. CASE outputIndex < Len(outputs)
    <3>1. /\ dialog' = "accepted" /\ chosen' = outputs[outputIndex + 1]
          /\ outputIndex >= 0
      BY <1>4, <2>1 DEF AcceptRow
    <3>2. outputs[outputIndex + 1] \in Screens
      BY <1>1, <2>1, <3>1
    <3>3. chosen' = tapped \/ (replugged /\ tapped # NoSource)
      BY <1>1, <3>1 DEF ScreensAreInOrder, TappedIsCurrent
    <3> QED BY <1>2, <1>3, <1>4, <3>1, <3>2, <3>3
            DEF DialogIsInOrder, AcceptTakesClicked, AcceptedIsClicked, OutOfRangeHasCause
  <2>2. CASE ~(outputIndex < Len(outputs))
    <3>1. dialog' = "out_of_range" /\ chosen' = chosen /\ outputIndex >= 0
      BY <1>4, <2>2 DEF AcceptRow
    <3>2. replugged /\ outputIndex >= Len(outputs)
      BY <1>1, <2>2, <3>1 DEF ScreensAreInOrder, TappedIsCurrent
    <3> QED BY <1>1, <1>2, <1>3, <1>4, <3>1, <3>2
            DEF DialogIsInOrder, AcceptTakesClicked, AcceptedIsClicked, OutOfRangeHasCause
  <2> QED BY <2>1, <2>2
<1>5. CASE layout = 1 /\ AcceptRow(listed, index)
  <2>0. index >= 0 /\ ~cleared
    <3>1. index >= 0
      BY <1>5 DEF AcceptRow
    <3>2. cleared => index = -1
      BY <1>1 DEF WindowsAreInOrder
    <3> QED BY <1>1, <3>1, <3>2
  <2>1. CASE index < Len(listed)
    <3>1. dialog' = "accepted" /\ chosen' = listed[index + 1]
      BY <1>5, <2>1 DEF AcceptRow
    <3>2. listed[index + 1] \in Shown
      BY <1>1, <2>0, <2>1
    <3>3. \/ chosen' = clicked \/ clicked \notin ToSet(listed) \/ next # index
      BY <1>1, <2>0, <3>1 DEF WindowsAreInOrder, ClickedIsNext
    <3> QED BY <1>2, <1>3, <1>5, <2>0, <3>1, <3>2, <3>3
            DEF DialogIsInOrder, AcceptTakesClicked, AcceptedIsClicked, OutOfRangeHasCause
  <2>2. CASE ~(index < Len(listed))
    <3>1. dialog' = "out_of_range" /\ chosen' = chosen
      BY <1>5, <2>2 DEF AcceptRow
    <3>2. ended \/ next # index
      BY <1>1, <2>2 DEF WindowsAreInOrder
    <3> QED BY <1>1, <1>2, <1>3, <1>5, <3>1, <3>2
            DEF DialogIsInOrder, AcceptTakesClicked, AcceptedIsClicked, OutOfRangeHasCause
  <2> QED BY <2>1, <2>2
<1> QED BY <1>2, <1>4, <1>5 DEF AcceptSource

\* For any number of windows and screens, the parts of the chooser stay in order.
THEOREM ChooserInvariant == ChooserSpec => []ChooserInv
<1>1. ChooserInit => ChooserInv
  <2> SUFFICES ASSUME ChooserInit PROVE ChooserInv
    OBVIOUS
  <2>1. listed = <<>> /\ known = {} /\ DOMAIN listed = {} /\ Cardinality(known) = 0
    BY FS_EmptySet DEF ChooserInit
  <2>2. WindowsAreInOrder
    <3>1. -1 \in Index(Shown) /\ 0 \in 0..Cardinality(Shown)
      BY RowNumbers
    <3>2. listed \in Seq(known) /\ Len(listed) = 0
      BY <2>1
    <3>3. RowsAreKnown /\ ClickedIsNext
      BY <2>1 DEF ChooserInit, RowsAreKnown, ClickedIsNext, IsInjective
    <3>4. /\ known = {} /\ ended = FALSE /\ count = 0 /\ index = -1 /\ next = -1
          /\ cleared = TRUE /\ clicked = NoSource
      BY DEF ChooserInit
    <3>5. ended \in BOOLEAN /\ cleared \in BOOLEAN
      BY <3>4
    <3>6. ~ended => /\ count = Len(listed) /\ next < count
                    /\ ~cleared => (next = -1 <=> count = 0)
      BY <3>2, <3>4
    <3> QED BY <3>1, <3>2, <3>3, <3>4, <3>5, <3>6, Zenon DEF WindowsAreInOrder
  <2>3. ScreensAreInOrder
    <3>1. -1 \in Index(Screens)
      BY RowNumbers
    <3>2. \A s \in Screens : <<s>> \in Seq(Screens)
      OBVIOUS
    <3>3. /\ outputs \in Seq(Screens) /\ outputIndex = -1 /\ tapped = NoSource
          /\ replugged = FALSE
      BY <3>2 DEF ChooserInit
    <3>4. replugged \in BOOLEAN /\ outputIndex \in Index(Screens)
      BY <3>1, <3>3
    <3>5. ~(outputIndex >= 0)
      BY <3>3
    <3> QED BY <3>3, <3>4, <3>5, Zenon DEF ScreensAreInOrder, TappedIsCurrent
  <2>4. DialogIsInOrder
    BY DEF ChooserInit, DialogIsInOrder, AcceptTakesClicked, AcceptedIsClicked,
           OutOfRangeHasCause
  <2> QED BY <2>2, <2>3, <2>4, ChooserParts
<1>2. ChooserInv /\ [ChooserNext]_chooserVars => ChooserInv'
  <2> SUFFICES ASSUME ChooserInv, [ChooserNext]_chooserVars PROVE ChooserInv'
    OBVIOUS
  <2>0. WindowsAreInOrder /\ ScreensAreInOrder /\ DialogIsInOrder
    BY ChooserParts
  <2>1. ASSUME UNCHANGED windowVars PROVE WindowsAreInOrder'
    <3>1. UNCHANGED <<known, listed, ended, count, next, index, cleared, clicked>>
      BY <2>1 DEF windowVars, rowVars
    <3> QED BY <2>0, <3>1 DEF WindowsAreInOrder, RowsAreKnown, ClickedIsNext
  <2>2. ASSUME UNCHANGED screenVars PROVE ScreensAreInOrder'
    BY <2>0, <2>2 DEF screenVars, ScreensAreInOrder, TappedIsCurrent
  <2>3. ASSUME Open, UNCHANGED <<dialog, chosen>>, layout' \in {0, 1}
        PROVE  DialogIsInOrder'
    BY <2>0, <2>3 DEF Open, DialogIsInOrder, AcceptTakesClicked, AcceptedIsClicked,
                      OutOfRangeHasCause
  <2>4. layout \in {0, 1} /\ 1 - layout \in {0, 1}
    BY <2>0 DEF DialogIsInOrder
  <2>5. ASSUME NEW w \in Shown, AddRow(w) \/ WindowClosed(w) \/ OwnWindowDone(w)
        PROVE  ChooserInv'
    <3>1. Open /\ UNCHANGED <<dialog, layout, chosen, screenVars>>
      BY <2>5 DEF AddRow, WindowClosed, OwnWindowDone
    <3>2. WindowsAreInOrder'
      BY <2>0, <2>5, AddRowStep, RemoveRowStep DEF WindowClosed, OwnWindowDone
    <3> QED BY <2>2, <2>3, <2>4, <3>1, <3>2, ChooserParts
  <2>6. ASSUME \/ FinishList \/ Polish
               \/ \E i \in Index(Shown) \ {-1} : ClickWindow(i)
        PROVE  ChooserInv'
    <3>1. Open /\ UNCHANGED <<dialog, layout, chosen, screenVars>>
      BY <2>6 DEF FinishList, Polish, ClickWindow
    <3>2. WindowsAreInOrder'
      BY <2>0, <2>6, WindowViewStep
    <3> QED BY <2>2, <2>3, <2>4, <3>1, <3>2, ChooserParts
  <2>7. ASSUME \/ \E s \in Screens : ScreenAdded(s) \/ ScreenRemoved(s)
               \/ \E i \in Index(Screens) \ {-1} : ClickScreen(i)
        PROVE  ChooserInv'
    <3>1. Open /\ UNCHANGED <<dialog, layout, chosen, windowVars>>
      BY <2>7 DEF ScreenAdded, ScreenRemoved, ClickScreen, RefreshScreens
    <3>2. ScreensAreInOrder'
      BY <2>0, <2>7, ScreensStep
    <3> QED BY <2>1, <2>3, <2>4, <3>1, <3>2, ChooserParts
  <2>8. CASE SwitchLayout
    <3>1. Open /\ layout' = 1 - layout
          /\ UNCHANGED <<dialog, chosen, screenVars, windowVars>>
      BY <2>8 DEF SwitchLayout
    <3> QED BY <2>1, <2>2, <2>3, <2>4, <3>1, ChooserParts
  <2>9. CASE AcceptSource
    BY <2>1, <2>2, <2>9, AcceptStep, ChooserParts
  <2>10. CASE RejectSource
    <3>1. dialog' = "rejected" /\ UNCHANGED <<layout, chosen, screenVars, windowVars>>
      BY <2>10 DEF RejectSource
    <3>2. DialogIsInOrder'
      BY <2>0, <3>1 DEF DialogIsInOrder, AcceptTakesClicked, AcceptedIsClicked,
                        OutOfRangeHasCause
    <3> QED BY <2>1, <2>2, <3>1, <3>2, ChooserParts
  <2>11. CASE UNCHANGED chooserVars
    <3>1. /\ UNCHANGED <<dialog, layout, chosen, screenVars, windowVars>>
          /\ UNCHANGED <<listed, index, next, cleared, clicked, ended>>
          /\ UNCHANGED <<outputs, outputIndex, tapped, replugged>>
      BY <2>11 DEF chooserVars, screenVars, windowVars, rowVars
    <3>2. DialogIsInOrder'
      BY <2>0, <3>1 DEF DialogIsInOrder, AcceptTakesClicked, AcceptedIsClicked,
                        OutOfRangeHasCause
    <3> QED BY <2>1, <2>2, <3>1, <3>2, ChooserParts
  <2> QED BY <2>5, <2>6, <2>7, <2>8, <2>9, <2>10, <2>11 DEF ChooserNext
<1> QED BY <1>1, <1>2, PTL DEF ChooserSpec

\* Until its list is finished the view has the rows of the model, and stands on
\* one of them after the next polish.
THEOREM ViewStaysWithModel == ChooserSpec => []ViewFollowsModel
<1>1. ChooserInv => ViewFollowsModel
  BY DEF ChooserInv
<1> QED BY <1>1, ChooserInvariant, PTL

\* Accept shares what the user clicked last, but for the mishaps that the
\* property names.
THEOREM ClickedIsAccepted == ChooserSpec => []AcceptTakesClicked
<1>1. ChooserInv => AcceptTakesClicked
  BY DEF ChooserInv
<1> QED BY <1>1, ChooserInvariant, PTL

---------------------------------------------------------------------------
(* The list of the context *)

\* The list of the context and its handles
ListIsInOrder ==
    /\ connected \in Nat
    /\ toplevels \in Seq(Info)
    /\ announced \in SUBSET Handles
    /\ freed \in SUBSET announced
    /\ RestoreFindsLiveInfo /\ ContextListIsRight
    /\ EntriesAreAnnounced /\ FirstIsNamed

\* The first entry with a handle
LEMMA FirstFacts ==
    ASSUME toplevels \in Seq(Info), NEW h, Entries(h) # {}
    PROVE  First(h) \in Entries(h) /\ \A j \in Entries(h) : First(h) <= j
<1>1. Entries(h) \in SUBSET Nat
  BY DEF Entries
<1>2. \E i \in Entries(h) : \A j \in Entries(h) : i <= j
  BY <1>1, Least
<1> QED BY <1>2, Zenon DEF First

\* The types of an entry, and what the invariant says of entries.
LEMMA EntryFacts ==
    ASSUME ListIsInOrder
    PROVE  /\ DOMAIN toplevels = 1..Len(toplevels) /\ Len(toplevels) \in Nat
           /\ \A i \in DOMAIN toplevels :
                 /\ toplevels[i] \in Info /\ toplevels[i].handle \in Handles
                 /\ toplevels[i].named \in BOOLEAN
                 /\ i \in Entries(toplevels[i].handle)
           /\ connected <= 1 =>
                 \A i, j \in DOMAIN toplevels :
                    toplevels[i].handle = toplevels[j].handle => i = j
<1>1. toplevels \in Seq(Info)
  BY DEF ListIsInOrder
<1>2. ASSUME NEW i \in DOMAIN toplevels
      PROVE  /\ toplevels[i] \in Info /\ toplevels[i].handle \in Handles
             /\ toplevels[i].named \in BOOLEAN
  <2>1. toplevels[i] \in Info
    BY <1>1
  <2> QED BY <2>1 DEF Info
<1>3. ASSUME connected <= 1, NEW i \in DOMAIN toplevels, NEW j \in DOMAIN toplevels,
             toplevels[i].handle = toplevels[j].handle
      PROVE  i = j
  <2>1. IsInjective([k \in DOMAIN toplevels |-> toplevels[k].handle])
    BY <1>3 DEF ListIsInOrder, ContextListIsRight
  <2> QED BY <1>3, <2>1 DEF IsInjective
<1> QED BY <1>1, <1>2, <1>3 DEF Entries

\* A window is closed: of each handle the first entry goes, and that is the only
\* one that may have had the identifier.
LEMMA WindowClosesList ==
    ASSUME ListIsInOrder, NEW w \in Windows, WindowCloses(w)
    PROVE  ListIsInOrder'
<1> DEFINE K == DOMAIN toplevels \ Removed(w)
           c == Cardinality(K)
           at(j) == Nth(K, j)
<1>0. /\ toplevels' = AfterClose(w) /\ freed' = freed \cup {h \in announced : h[1] = w}
      /\ UNCHANGED <<announced, connected>>
  BY DEF WindowCloses
<1>1. /\ toplevels \in Seq(Info) /\ freed \in SUBSET announced /\ connected \in Nat
      /\ announced \in SUBSET Handles
      /\ RestoreFindsLiveInfo /\ EntriesAreAnnounced /\ FirstIsNamed
      /\ connected <= 1 =>
            \A i \in DOMAIN toplevels : toplevels[i].handle \notin freed
  BY DEF ListIsInOrder, ContextListIsRight
<1>2. /\ c \in Nat
      /\ \A j \in 1..c : at(j) \in K
      /\ \A j, l \in 1..c : j < l => at(j) < at(l)
  <2>1. Len(toplevels) \in Nat /\ K \in SUBSET (1..Len(toplevels))
    BY EntryFacts
  <2> HIDE DEF K
  <2> QED BY <2>1, NthFacts
<1>3. toplevels' = [j \in 1..c |-> toplevels[at(j)]]
  BY <1>0 DEF AfterClose, Kept
<1> HIDE DEF at, c
<1>4. DOMAIN toplevels' = 1..c /\ \A j \in 1..c : toplevels'[j] = toplevels[at(j)]
  BY <1>3
<1>5. \A j \in 1..c : at(j) \in DOMAIN toplevels /\ at(j) \notin Removed(w)
  BY <1>2
<1> HIDE DEF K
<1>6. toplevels' \in Seq(Info)
  BY <1>2, <1>3, <1>5, EntryFacts
<1>7. ASSUME NEW j \in 1..c,
             toplevels[at(j)].named \/ connected <= 1
      PROVE  toplevels[at(j)].handle \notin freed'
  <2> DEFINE i == at(j)
             h == toplevels[i].handle
  <2>1. i \in DOMAIN toplevels /\ i \notin Removed(w) /\ i \in Entries(h)
    BY <1>5, EntryFacts
  <2>2. h \notin freed
    BY <1>1, <1>7, <2>1 DEF RestoreFindsLiveInfo
  <2>3. First(h) \in Entries(h) /\ First(h) <= i
    BY <1>1, <2>1, FirstFacts
  <2>4. /\ First(h) \in DOMAIN toplevels /\ toplevels[First(h)].handle = h
        /\ First(h) \in Nat /\ i \in Nat
    BY <2>1, <2>3, EntryFacts DEF Entries
  <2>5. First(h) = i
    <3>1. CASE connected <= 1
      BY <2>1, <2>4, <3>1, EntryFacts
    <3>2. CASE toplevels[i].named
      <4>1. ~(First(h) < i)
        BY <1>1, <2>1, <2>4, <3>2 DEF FirstIsNamed
      <4> QED BY <2>3, <2>4, <4>1
    <3> QED BY <1>7, <3>1, <3>2
  <2>6. h[1] # w
    BY <2>1, <2>2, <2>5 DEF Removed
  <2> QED BY <1>0, <2>2, <2>6
<1>8. RestoreFindsLiveInfo'
  BY <1>4, <1>7 DEF RestoreFindsLiveInfo
<1>9. ContextListIsRight'
  <2> SUFFICES ASSUME connected <= 1
               PROVE  /\ IsInjective([j \in DOMAIN toplevels' |-> toplevels'[j].handle])
                      /\ \A j \in DOMAIN toplevels' : toplevels'[j].handle \notin freed'
    BY <1>0 DEF ContextListIsRight
  <2>1. ASSUME NEW j \in 1..c, NEW l \in 1..c,
               toplevels'[j].handle = toplevels'[l].handle
        PROVE  j = l
    <3>1. at(j) = at(l)
      BY <1>4, <1>5, <2>1, EntryFacts
    <3>2. at(j) \in Nat /\ at(l) \in Nat
      BY <1>5, EntryFacts
    <3>3. ~(j < l) /\ ~(l < j)
      BY <1>2, <3>1, <3>2
    <3> QED BY <3>3
  <2>2. IsInjective([j \in DOMAIN toplevels' |-> toplevels'[j].handle])
    BY <1>4, <2>1 DEF IsInjective
  <2> QED BY <1>4, <1>7, <2>2
<1>10. EntriesAreAnnounced'
  BY <1>0, <1>1, <1>4, <1>5 DEF EntriesAreAnnounced
<1>11. FirstIsNamed'
  <2>1. ASSUME NEW j \in 1..c, NEW l \in 1..c, j < l,
               toplevels[at(j)].handle = toplevels[at(l)].handle
        PROVE  ~toplevels[at(l)].named
    BY <1>1, <1>2, <1>5, <2>1 DEF FirstIsNamed
  <2> QED BY <1>4, <2>1 DEF FirstIsNamed
<1>12. freed' \in SUBSET announced'
  BY <1>0, <1>1
<1> QED BY <1>0, <1>1, <1>6, <1>8, <1>9, <1>10, <1>11, <1>12 DEF ListIsInOrder

\* A window is announced to every connection.
LEMMA ToplevelAddedList ==
    ASSUME ListIsInOrder, NEW h \in Handles, ToplevelAdded(h)
    PROVE  ListIsInOrder'
<1> DEFINE e == [handle |-> h, named |-> FALSE]
           new == [i \in 1..connected |-> e]
           n == Len(toplevels)
<1>1. /\ h \notin announced /\ announced' = announced \cup {h}
      /\ toplevels' = toplevels \o new
      /\ UNCHANGED <<connected, freed>>
  BY DEF ToplevelAdded
<1>2. /\ toplevels \in Seq(Info) /\ freed \in SUBSET announced /\ connected \in Nat
      /\ announced \in SUBSET Handles
      /\ RestoreFindsLiveInfo /\ EntriesAreAnnounced /\ FirstIsNamed
      /\ connected <= 1 =>
            \A i \in DOMAIN toplevels : toplevels[i].handle \notin freed
      /\ n \in Nat /\ DOMAIN toplevels = 1..n
  BY EntryFacts DEF ListIsInOrder, ContextListIsRight
<1>3. e \in Info /\ e.handle = h /\ ~e.named
  BY DEF Info
<1> HIDE DEF e
<1>4. new \in Seq(Info) /\ Len(new) = connected /\ \A i \in 1..connected : new[i] = e
  BY <1>2, <1>3
<1> HIDE DEF new
<1>5. /\ toplevels' \in Seq(Info) /\ Len(toplevels') = n + connected
      /\ \A i \in 1..(n + connected) :
            toplevels'[i] = IF i <= n THEN toplevels[i] ELSE new[i - n]
  BY <1>1, <1>2, <1>4, ConcatProperties
<1>6. DOMAIN toplevels' = 1..(n + connected)
  BY <1>5, LenProperties
<1> HIDE DEF n
<1>7. ASSUME NEW i \in DOMAIN toplevels'
      PROVE  \/ i \in DOMAIN toplevels /\ toplevels'[i] = toplevels[i]
             \/ i > n /\ toplevels'[i] = e
  <2>1. CASE i <= n
    BY <1>2, <1>5, <1>6, <2>1
  <2>2. CASE i > n
    <3>1. i - n \in 1..connected /\ ~(i <= n)
      BY <1>2, <1>6, <2>2
    <3> QED BY <1>4, <1>5, <1>6, <2>2, <3>1
  <2> QED BY <1>2, <1>6, <2>1, <2>2
<1>8. \A i \in DOMAIN toplevels : toplevels[i].handle # h /\ i <= n
  BY <1>1, <1>2 DEF EntriesAreAnnounced
<1>9. RestoreFindsLiveInfo' /\ EntriesAreAnnounced'
  BY <1>1, <1>2, <1>3, <1>7 DEF RestoreFindsLiveInfo, EntriesAreAnnounced
<1>10. FirstIsNamed'
  BY <1>2, <1>3, <1>6, <1>7, <1>8 DEF FirstIsNamed
<1>11. ContextListIsRight'
  <2> SUFFICES ASSUME connected <= 1
               PROVE  /\ IsInjective([i \in DOMAIN toplevels' |-> toplevels'[i].handle])
                      /\ \A i \in DOMAIN toplevels' : toplevels'[i].handle \notin freed'
    BY <1>1 DEF ContextListIsRight
  <2>1. ASSUME NEW i \in DOMAIN toplevels', NEW j \in DOMAIN toplevels',
               toplevels'[i].handle = toplevels'[j].handle
        PROVE  i = j
    <3>1. \/ i \in DOMAIN toplevels /\ j \in DOMAIN toplevels
          \/ i > n /\ j > n
      BY <1>3, <1>7, <1>8, <2>1
    <3>2. CASE i > n /\ j > n
      BY <1>2, <1>6, <3>2
    <3>3. CASE i \in DOMAIN toplevels /\ j \in DOMAIN toplevels
      BY <1>2, <1>7, <1>8, <2>1, <3>3, EntryFacts
    <3> QED BY <3>1, <3>2, <3>3
  <2>2. IsInjective([i \in DOMAIN toplevels' |-> toplevels'[i].handle])
    BY <2>1 DEF IsInjective
  <2>3. h \notin freed
    BY <1>1, <1>2
  <2> QED BY <1>1, <1>2, <1>3, <1>7, <2>2, <2>3
<1> QED BY <1>1, <1>2, <1>5, <1>9, <1>10, <1>11 DEF ListIsInOrder

\* The first entry of a handle that exists gets the identifier.
LEMMA IdentifierChangedList ==
    ASSUME ListIsInOrder, NEW h \in Handles, IdentifierChanged(h)
    PROVE  ListIsInOrder'
<1> DEFINE i == First(h)
<1>1. /\ h \notin freed /\ Entries(h) # {}
      /\ toplevels' = [toplevels EXCEPT ![i].named = TRUE]
      /\ UNCHANGED <<connected, announced, freed>>
  BY DEF IdentifierChanged
<1>2. /\ toplevels \in Seq(Info) /\ freed \in SUBSET announced /\ connected \in Nat
      /\ announced \in SUBSET Handles
      /\ RestoreFindsLiveInfo /\ EntriesAreAnnounced /\ FirstIsNamed
      /\ ContextListIsRight
  BY DEF ListIsInOrder
<1>3. /\ i \in DOMAIN toplevels /\ toplevels[i].handle = h
      /\ \A j \in DOMAIN toplevels : toplevels[j].handle = h => i <= j
  BY <1>1, <1>2, FirstFacts DEF Entries
<1> HIDE DEF i
<1>4. /\ toplevels' \in Seq(Info) /\ DOMAIN toplevels' = DOMAIN toplevels
      /\ \A j \in DOMAIN toplevels :
            /\ toplevels'[j].handle = toplevels[j].handle
            /\ j # i => toplevels'[j].named = toplevels[j].named
  <2> DEFINE f == [toplevels[i] EXCEPT !.named = TRUE]
  <2>1. toplevels' = [toplevels EXCEPT ![i] = f]
    BY <1>1, <1>2, <1>3
  <2>2. f \in Info /\ f.handle = toplevels[i].handle
    <3>1. toplevels[i] \in Info
      BY <1>2, <1>3
    <3> QED BY <3>1 DEF Info
  <2> HIDE DEF f
  <2>3. toplevels' \in Seq(Info)
    BY <1>2, <1>3, <2>1, <2>2, ExceptSeq
  <2> QED BY <1>2, <1>3, <2>1, <2>2, <2>3
<1>5. RestoreFindsLiveInfo' /\ EntriesAreAnnounced'
  BY <1>1, <1>2, <1>3, <1>4 DEF RestoreFindsLiveInfo, EntriesAreAnnounced
<1>6. FirstIsNamed'
  <2>1. ASSUME NEW j \in DOMAIN toplevels, NEW l \in DOMAIN toplevels, j < l,
               toplevels[j].handle = toplevels[l].handle
        PROVE  ~toplevels'[l].named
    <3>1. l # i
      BY <1>2, <1>3, <2>1, EntryFacts
    <3> QED BY <1>2, <1>4, <2>1, <3>1 DEF FirstIsNamed
  <2> QED BY <1>4, <2>1 DEF FirstIsNamed
<1>7. ContextListIsRight'
  <2>1. [j \in DOMAIN toplevels' |-> toplevels'[j].handle]
           = [j \in DOMAIN toplevels |-> toplevels[j].handle]
    BY <1>4
  <2> QED BY <1>1, <1>2, <1>4, <2>1 DEF ContextListIsRight
<1> QED BY <1>1, <1>2, <1>4, <1>5, <1>6, <1>7 DEF ListIsInOrder

\* Every entry goes with its handle.
LEMMA ListFinishedList ==
    ASSUME ListIsInOrder, NEW b \in Bounds, ListFinished(b)
    PROVE  ListIsInOrder'
<1>1. /\ toplevels' = <<>>
      /\ freed' = freed \cup {toplevels[i].handle : i \in DOMAIN toplevels}
      /\ UNCHANGED <<connected, announced>>
  BY DEF ListFinished
<1>2. toplevels' \in Seq(Info) /\ DOMAIN toplevels' = {}
  BY <1>1
<1>3. freed' \in SUBSET announced'
  BY <1>1 DEF ListIsInOrder, EntriesAreAnnounced
<1>4. /\ RestoreFindsLiveInfo' /\ ContextListIsRight'
      /\ EntriesAreAnnounced' /\ FirstIsNamed'
  BY <1>2 DEF RestoreFindsLiveInfo, ContextListIsRight, EntriesAreAnnounced,
              FirstIsNamed, IsInjective
<1> QED BY <1>1, <1>2, <1>3, <1>4 DEF ListIsInOrder

\* Nothing else touches the list; another connection only weakens what is said
\* of it.
LEMMA ListStays ==
    ASSUME ListIsInOrder, UNCHANGED <<toplevels, announced, freed>>,
           connected' \in {connected, connected + 1}
    PROVE  ListIsInOrder'
<1>1. connected' \in Nat /\ (connected' <= 1 => connected <= 1)
  BY DEF ListIsInOrder
<1> QED BY <1>1 DEF ListIsInOrder, RestoreFindsLiveInfo, ContextListIsRight,
                    EntriesAreAnnounced, FirstIsNamed

\* The list stays in order in every step.
LEMMA ListStep ==
    ASSUME ListIsInOrder, SharesNext
    PROVE  ListIsInOrder'
<1>1. CASE Context
  <2>1. CASE ActiveChanged
    BY <2>1, ListStays DEF ActiveChanged
  <2> QED BY <1>1, <2>1, ToplevelAddedList, IdentifierChangedList, ListFinishedList
          DEF Context
<1>2. CASE Desktop
  <2>1. ASSUME NEW w \in Windows, WindowOpens(w) PROVE ListIsInOrder'
    BY <2>1, ListStays DEF WindowOpens, contextVars
  <2> QED BY <1>2, <2>1, WindowClosesList DEF Desktop
<1>3. CASE Portal
  <2>1. UNCHANGED <<toplevels, announced, freed, connected>>
    BY <1>3 DEF Portal, StartChooser, ModelFinished, Reject, DeleteChooser,
                StartRestored, RowAdded, Accept, Ready, StartFails, StopShare,
                Return, contextVars
  <2> QED BY <2>1, ListStays
<1> QED BY <1>1, <1>2, <1>3 DEF SharesNext

---------------------------------------------------------------------------
(* The calls of Start() *)

\* The list that call c of s has its ToplevelInfo from is finished.
Ended(s, c, fin) == IF c.handle = None THEN s \in fin ELSE fin \cap Bounds # {}

\* A call of s, what it holds, and what became of windows and lists.
Held(s, c, win, fin) ==
    /\ c \in Call
    /\ c.phase \in {"starting", "ready"} => c.window # None
    /\ c.window # None /\ ~c.info => win[c.window] = "closed" \/ Ended(s, c, fin)

CallsAreInOrder ==
    /\ window \in [Windows -> {"unborn", "open", "closed"}]
    /\ finished \in SUBSET (Bounds \cup Starts)
    /\ DOMAIN call = Starts
    /\ call = [s \in Starts |-> call[s]]
    /\ \A s \in Starts : Held(s, call[s], window, finished)

\* What is gone stays gone.
NothingReturns ==
    /\ window' \in [Windows -> {"unborn", "open", "closed"}]
    /\ finished' \in SUBSET (Bounds \cup Starts)
    /\ \A w \in Windows : window[w] = "closed" => window'[w] = "closed"
    /\ finished \subseteq finished'

\* A call that a step leaves alone stays in order.
LEMMA HeldStays ==
    ASSUME CallsAreInOrder, NothingReturns, NEW s \in Starts
    PROVE  Held(s, call[s], window', finished')
<1>1. Held(s, call[s], window, finished)
  BY DEF CallsAreInOrder
<1>2. call[s].window \in Windows \cup {None}
  BY <1>1 DEF Held, Call
<1> QED BY <1>1, <1>2 DEF Held, Ended, NothingReturns

\* A step that changes one call, or none
LEMMA OneCall ==
    ASSUME CallsAreInOrder, NothingReturns, NEW s \in Starts, NEW c,
           Held(s, c, window', finished'), call' = [call EXCEPT ![s] = c]
    PROVE  CallsAreInOrder'
<1>1. DOMAIN call' = Starts /\ call' = [t \in Starts |-> call'[t]]
  BY DEF CallsAreInOrder
<1>2. \A t \in Starts : call'[t] = IF t = s THEN c ELSE call[t]
  BY DEF CallsAreInOrder
<1> QED BY <1>1, <1>2, HeldStays DEF CallsAreInOrder, NothingReturns

\* The types of a call.
LEMMA CallFacts ==
    ASSUME CallsAreInOrder, NEW s \in Starts
    PROVE  /\ call[s] \in Call /\ Held(s, call[s], window, finished)
           /\ call[s].window \in Windows \cup {None}
           /\ call[s].phase \in {"starting", "ready"} => call[s].window \in Windows
<1>1. call[s] \in Call /\ Held(s, call[s], window, finished)
  BY DEF CallsAreInOrder, Held
<1> QED BY <1>1 DEF Held, Call

\* A window is closed or a list is finished: calls lose what they hold.
LEMMA CallsLose ==
    ASSUME CallsAreInOrder,
           \/ \E w \in Windows : WindowCloses(w)
           \/ \E b \in Bounds : ListFinished(b)
    PROVE  CallsAreInOrder'
<1>1. ASSUME NEW w \in Windows, WindowCloses(w) PROVE CallsAreInOrder'
  <2>1. /\ window' = [window EXCEPT ![w] = "closed"] /\ finished' = finished
        /\ call' = [s \in Starts |-> CallAfterClose(s, w)]
    BY <1>1 DEF WindowCloses
  <2>2. NothingReturns /\ window'[w] = "closed"
    BY <2>1 DEF NothingReturns, CallsAreInOrder
  <2>3. ASSUME NEW s \in Starts
        PROVE  Held(s, CallAfterClose(s, w), window', finished')
    <3>1. CASE call[s].window # w
      BY <2>2, <3>1, HeldStays DEF CallAfterClose
    <3>2. CASE call[s].window = w
      <4>1. call[s] \in Call /\ w # None
        BY CallFacts, WindowsAssumption
      <4>2. \/ CallAfterClose(s, w) =
                  [call[s] EXCEPT !.info = /\ @ /\ call[s].handle = None
                                           /\ w \notin rows[s]]
            \/ CallAfterClose(s, w) =
                  [call[s] EXCEPT !.running = @ /\ call[s].phase = "starting"]
        BY <3>2 DEF CallAfterClose
      <4>3. CallAfterClose(s, w) \in Call /\ CallAfterClose(s, w).window = w
        BY <3>2, <4>1, <4>2 DEF Call
      <4> QED BY <2>2, <4>1, <4>3 DEF Held
    <3> QED BY <3>1, <3>2
  <2> HIDE DEF CallAfterClose
  <2> QED BY <2>1, <2>2, <2>3 DEF CallsAreInOrder, NothingReturns
<1>2. ASSUME NEW b \in Bounds, ListFinished(b) PROVE CallsAreInOrder'
  <2> DEFINE c(s) == IF call[s].handle # None
                     THEN [call[s] EXCEPT !.info = FALSE] ELSE call[s]
  <2>1. /\ finished' = finished \cup {b} /\ window' = window
        /\ call' = [s \in Starts |-> c(s)]
    BY <1>2 DEF ListFinished
  <2>2. NothingReturns /\ finished' \cap Bounds # {}
    BY <2>1 DEF NothingReturns, CallsAreInOrder
  <2>3. ASSUME NEW s \in Starts PROVE Held(s, c(s), window', finished')
    <3>1. call[s] \in Call /\ Held(s, call[s], window', finished')
      BY <2>2, CallFacts, HeldStays
    <3> QED BY <2>2, <3>1 DEF Held, Ended, Call
  <2> HIDE DEF c
  <2> QED BY <2>1, <2>2, <2>3 DEF CallsAreInOrder, NothingReturns
<1> QED BY <1>1, <1>2

\* A step of one call
LEMMA CallStep ==
    ASSUME CallsAreInOrder, ListIsInOrder, NEW s \in Starts,
           \/ StartChooser(s) \/ ModelFinished(s) \/ Reject(s) \/ Ready(s)
           \/ StartFails(s) \/ StopShare(s)
           \/ \E w \in Windows : StartRestored(s, w) \/ Accept(s, w)
           \/ \E persist \in BOOLEAN : Return(s, persist)
    PROVE  CallsAreInOrder'
<1>0. /\ call[s] \in Call /\ Held(s, call[s], window, finished)
      /\ call[s].phase \in {"starting", "ready"} => call[s].window # None
      /\ call = [t \in Starts |-> call[t]]
      /\ finished \in SUBSET (Bounds \cup Starts)
  BY CallFacts DEF Held, CallsAreInOrder
<1>1. CASE ModelFinished(s)
  <2> DEFINE c == [call[s] EXCEPT !.info = @ /\ call[s].handle # None]
  <2>1. /\ finished' = finished \cup {s} /\ window' = window
        /\ call' = [call EXCEPT ![s] = c]
    BY <1>0, <1>1 DEF ModelFinished
  <2>2. NothingReturns /\ s \in finished'
    BY <2>1 DEF NothingReturns, CallsAreInOrder
  <2>3. Held(s, c, window', finished')
    <3>1. c \in Call /\ c.window = call[s].window /\ c.handle = call[s].handle
          /\ c.phase = call[s].phase
      BY <1>0 DEF Call
    <3>2. CASE call[s].handle = None
      BY <1>0, <2>2, <3>1, <3>2 DEF Held, Ended
    <3>3. CASE call[s].handle # None
      <4>1. c.info = call[s].info
        BY <1>0, <3>3 DEF Call
      <4>2. Held(s, call[s], window', finished')
        BY <2>2, HeldStays
      <4> QED BY <3>1, <4>1, <4>2 DEF Held, Ended
    <3> QED BY <3>2, <3>3
  <2> HIDE DEF c
  <2> QED BY <2>1, <2>2, <2>3, OneCall
<1>2. ASSUME UNCHANGED <<window, finished>> PROVE NothingReturns
  BY <1>2 DEF NothingReturns, CallsAreInOrder
<1>3. CASE \/ StartChooser(s)
           \/ \E w \in Windows : StartRestored(s, w) /\ OpenChooser(s)
  <2> DEFINE c == [call[s] EXCEPT !.phase = "choosing"]
  <2>1. UNCHANGED <<window, finished>> /\ call' = [call EXCEPT ![s] = c]
    BY <1>0, <1>3 DEF StartChooser, StartRestored, OpenChooser, contextVars
  <2>2. Held(s, c, window', finished')
    BY <1>0, <2>1 DEF Held, Ended, Call
  <2> HIDE DEF c
  <2> QED BY <1>2, <2>1, <2>2, OneCall
<1>4. ASSUME NEW w \in Windows, StartRestored(s, w), ~OpenChooser(s)
      PROVE  CallsAreInOrder'
  <2>1. PICK i \in Matches(w) :
           call' = [call EXCEPT ![s] =
                       [phase |-> "starting", window |-> w,
                        handle |-> toplevels[i].handle,
                        info |-> TRUE, running |-> TRUE]]
    BY <1>4 DEF StartRestored
  <2>2. UNCHANGED <<window, finished>>
    BY <1>4 DEF StartRestored, contextVars
  <2>3. toplevels[i].handle \in Handles /\ w # None
    BY EntryFacts, WindowsAssumption DEF Matches
  <2>4. Held(s, [phase |-> "starting", window |-> w, handle |-> toplevels[i].handle,
              info |-> TRUE, running |-> TRUE], window', finished')
    BY <2>3 DEF Held, Call
  <2> QED BY <1>2, <2>1, <2>2, <2>4, OneCall
<1>5. ASSUME NEW w \in Windows, Accept(s, w) PROVE CallsAreInOrder'
  <2> DEFINE c == [phase |-> "starting", window |-> w, handle |-> None,
                   info |-> TRUE, running |-> TRUE]
  <2>1. UNCHANGED <<window, finished>> /\ call' = [call EXCEPT ![s] = c]
    BY <1>5 DEF Accept, contextVars
  <2>2. Held(s, c, window', finished')
    BY WindowsAssumption DEF Held, Call
  <2> HIDE DEF c
  <2> QED BY <1>2, <2>1, <2>2, OneCall
<1>6. CASE Reject(s) \/ \E persist \in BOOLEAN : Return(s, persist)
  <2> DEFINE c == [call[s] EXCEPT !.phase = "over"]
  <2>1. UNCHANGED <<window, finished>> /\ call' = [call EXCEPT ![s] = c]
    BY <1>0, <1>6 DEF Reject, Return, contextVars
  <2>2. Held(s, c, window', finished')
    BY <1>0, <2>1 DEF Held, Ended, Call
  <2> HIDE DEF c
  <2> QED BY <1>2, <2>1, <2>2, OneCall
<1>7. CASE Ready(s)
  <2> DEFINE c == [call[s] EXCEPT !.phase = "ready"]
  <2>1. /\ UNCHANGED <<window, finished>> /\ call' = [call EXCEPT ![s] = c]
        /\ call[s].window # None
    BY <1>0, <1>7 DEF Ready, contextVars
  <2>2. Held(s, c, window', finished')
    BY <1>0, <2>1 DEF Held, Ended, Call
  <2> HIDE DEF c
  <2> QED BY <1>2, <2>1, <2>2, OneCall
<1>8. CASE StartFails(s)
  <2> DEFINE c == [call[s] EXCEPT !.phase = "over", !.running = FALSE]
  <2>1. UNCHANGED <<window, finished>> /\ call' = [call EXCEPT ![s] = c]
    BY <1>0, <1>8 DEF StartFails, contextVars
  <2>2. Held(s, c, window', finished')
    BY <1>0, <2>1 DEF Held, Ended, Call
  <2> HIDE DEF c
  <2> QED BY <1>2, <2>1, <2>2, OneCall
<1>9. CASE StopShare(s)
  <2> DEFINE c == [call[s] EXCEPT !.running = FALSE]
  <2>1. UNCHANGED <<window, finished>> /\ call' = [call EXCEPT ![s] = c]
    BY <1>0, <1>9 DEF StopShare, contextVars
  <2>2. Held(s, c, window', finished')
    BY <1>0, <2>1 DEF Held, Ended, Call
  <2> HIDE DEF c
  <2> QED BY <1>2, <2>1, <2>2, OneCall
<1> QED BY <1>1, <1>3, <1>4, <1>5, <1>6, <1>7, <1>8, <1>9

\* The calls stay in order in every step.
LEMMA CallsStep ==
    ASSUME CallsAreInOrder, ListIsInOrder, SharesNext
    PROVE  CallsAreInOrder'
<1>1. ASSUME UNCHANGED <<finished, call>>, NothingReturns PROVE CallsAreInOrder'
  BY <1>1, HeldStays DEF CallsAreInOrder, NothingReturns
<1>2. ASSUME UNCHANGED <<window, finished, call>> PROVE CallsAreInOrder'
  BY <1>2 DEF CallsAreInOrder
<1>3. CASE Context
  <2>1. ASSUME \/ ActiveChanged
               \/ \E h \in Handles : ToplevelAdded(h) \/ IdentifierChanged(h)
        PROVE  CallsAreInOrder'
    BY <1>2, <2>1 DEF ActiveChanged, ToplevelAdded, IdentifierChanged
  <2> QED BY <1>3, <2>1, CallsLose DEF Context
<1>4. CASE Desktop
  <2>1. ASSUME NEW w \in Windows, WindowOpens(w) PROVE CallsAreInOrder'
    <3>1. /\ window[w] = "unborn" /\ window' = [window EXCEPT ![w] = "open"]
          /\ UNCHANGED <<finished, call>>
      BY <2>1 DEF WindowOpens, contextVars
    <3>2. NothingReturns
      BY <3>1 DEF NothingReturns, CallsAreInOrder
    <3> QED BY <1>1, <3>1, <3>2
  <2> QED BY <1>4, <2>1, CallsLose DEF Desktop
<1>5. CASE Portal
  <2>1. ASSUME NEW s \in Starts,
               DeleteChooser(s) \/ \E w \in Windows : RowAdded(s, w)
        PROVE  CallsAreInOrder'
    BY <1>2, <2>1 DEF DeleteChooser, RowAdded, contextVars
  <2> QED BY <1>5, <2>1, CallStep DEF Portal
<1> QED BY <1>3, <1>4, <1>5 DEF SharesNext

---------------------------------------------------------------------------
(* The handles of the choosers' lists *)

\* The other variables
PortalIsInOrder ==
    /\ life \in {"running", "double_free", "stale_info"}
    /\ active \in BOOLEAN
    /\ bound \in 0..MaxBound
    /\ saved \in SUBSET Windows
    /\ chooser \in [Starts -> {"none", "alive", "gone"}]
    /\ rows \in [Starts -> SUBSET Windows]
    /\ chooserHandles \in [Starts -> SUBSET Windows]

\* A start whose chooser a step leaves alone keeps its handles.
LEMMA HandlesStay ==
    ASSUME CallsAreInOrder, NothingReturns, NEW t \in Starts, HandlesOf(t),
           chooser'[t] = chooser[t], rows'[t] = rows[t],
           chooserHandles'[t] = chooserHandles[t],
           call'[t].phase = "none" => call[t].phase = "none",
           \/ call'[t].window = None
           \/ call'[t].handle # None
           \/ call'[t].window = call[t].window /\ call'[t].handle = call[t].handle,
           t \in finished' <=> t \in finished
    PROVE  HandlesOf(t)'
<1>1. call[t].window \in Windows \cup {None}
  BY CallFacts
<1> QED BY <1>1 DEF HandlesOf, NothingReturns

\* A window is closed: a model that lists it deletes its handle.
LEMMA HandlesAfterClose ==
    ASSUME CallsAreInOrder, PortalIsInOrder, NEW w \in Windows, WindowCloses(w),
           NEW t \in Starts, HandlesOf(t)
    PROVE  HandlesOf(t)'
<1>1. /\ window' = [window EXCEPT ![w] = "closed"]
      /\ UNCHANGED <<finished, chooser>>
      /\ rows'[t] = rows[t] \ {w}
      /\ chooserHandles'[t] = chooserHandles[t] \ (rows[t] \cap {w})
      /\ call'[t] = CallAfterClose(t, w)
  BY DEF WindowCloses
<1>2. call[t] \in Call /\ call[t].window \in Windows \cup {None}
  BY CallFacts
<1>3. /\ call'[t].phase = call[t].phase /\ call'[t].window = call[t].window
      /\ call'[t].handle = call[t].handle
  BY <1>1, <1>2 DEF CallAfterClose, Call
<1>4. window \in [Windows -> {"unborn", "open", "closed"}]
  BY DEF CallsAreInOrder
<1> QED BY <1>1, <1>2, <1>3, <1>4 DEF HandlesOf

\* A step of a call that is started, or of its chooser
LEMMA HandlesOfStep ==
    ASSUME CallsAreInOrder, ListIsInOrder, PortalIsInOrder,
           NEW s \in Starts, HandlesOf(s),
           \/ StartChooser(s) \/ ModelFinished(s) \/ Reject(s) \/ DeleteChooser(s)
           \/ \E w \in Windows :
                 StartRestored(s, w) \/ RowAdded(s, w) \/ Accept(s, w)
           \/ Ready(s) \/ StartFails(s) \/ StopShare(s)
           \/ \E persist \in BOOLEAN : Return(s, persist)
    PROVE  HandlesOf(s)'
<1>0. /\ call[s] \in Call /\ DOMAIN call = Starts
      /\ window \in [Windows -> {"unborn", "open", "closed"}]
      /\ finished \in SUBSET (Bounds \cup Starts)
  BY CallFacts DEF CallsAreInOrder
<1>1. /\ chooser \in [Starts -> {"none", "alive", "gone"}]
      /\ rows \in [Starts -> SUBSET Windows]
      /\ chooserHandles \in [Starts -> SUBSET Windows]
  BY DEF PortalIsInOrder
<1>2. CASE StartChooser(s) \/ \E w \in Windows : StartRestored(s, w) /\ OpenChooser(s)
  <2>1. /\ call[s].phase = "none"
        /\ call' = [call EXCEPT ![s].phase = "choosing"]
        /\ chooser' = [chooser EXCEPT ![s] = "alive"]
        /\ UNCHANGED <<window, finished, rows, chooserHandles>>
    BY <1>2 DEF StartChooser, StartRestored, OpenChooser, contextVars
  <2>2. /\ call'[s].phase = "choosing" /\ chooser'[s] = "alive"
        /\ call'[s].window = call[s].window /\ call'[s].handle = call[s].handle
    BY <1>0, <1>1, <2>1 DEF Call
  <2> QED BY <2>1, <2>2 DEF HandlesOf
<1>3. ASSUME NEW w \in Windows, StartRestored(s, w), ~OpenChooser(s)
      PROVE  HandlesOf(s)'
  <2>1. PICK i \in Matches(w) :
           call' = [call EXCEPT ![s] =
                       [phase |-> "starting", window |-> w,
                        handle |-> toplevels[i].handle,
                        info |-> TRUE, running |-> TRUE]]
    BY <1>3 DEF StartRestored
  <2>2. toplevels[i].handle # None
    BY EntryFacts, WindowsAssumption DEF Matches, Handles, Bounds
  <2>3. UNCHANGED <<window, finished, chooser, rows, chooserHandles>>
    BY <1>3 DEF StartRestored, OpenChooser, contextVars
  <2>4. call'[s].phase = "starting" /\ call'[s].handle # None
    BY <1>0, <2>1, <2>2
  <2> QED BY <2>3, <2>4 DEF HandlesOf
<1>4. CASE ModelFinished(s)
  <2>1. /\ chooser[s] = "alive" /\ finished' = finished \cup {s}
        /\ rows' = [rows EXCEPT ![s] = {}]
        /\ chooserHandles' = [chooserHandles EXCEPT ![s] = @ \ rows[s]]
        /\ call' = [call EXCEPT ![s].info = @ /\ call[s].handle # None]
        /\ UNCHANGED chooser
    BY <1>4 DEF ModelFinished
  <2>2. rows'[s] = {} /\ chooserHandles'[s] = {} /\ call'[s].phase = call[s].phase
    BY <1>0, <1>1, <2>1 DEF HandlesOf, Call
  <2> QED BY <2>1, <2>2 DEF HandlesOf
<1>5. ASSUME NEW w \in Windows, RowAdded(s, w) PROVE HandlesOf(s)'
  <2>1. /\ chooser[s] = "alive" /\ s \notin finished
        /\ rows'[s] = rows[s] \cup {w}
        /\ chooserHandles'[s] = chooserHandles[s] \cup {w}
        /\ UNCHANGED <<window, finished, chooser, call>>
    BY <1>1, <1>5 DEF RowAdded, contextVars
  <2> QED BY <2>1 DEF HandlesOf
<1>6. ASSUME NEW w \in Windows, Accept(s, w) PROVE HandlesOf(s)'
  <2>1. /\ chooser[s] = "alive" /\ w \in rows[s]
        /\ call' = [call EXCEPT ![s] =
                       [phase |-> "starting", window |-> w, handle |-> None,
                        info |-> TRUE, running |-> TRUE]]
        /\ UNCHANGED <<window, finished, chooser, rows, chooserHandles>>
    BY <1>6 DEF Accept, contextVars
  <2>2. call'[s].phase = "starting" /\ call'[s].window = w
    BY <1>0, <2>1
  <2> QED BY <2>1, <2>2 DEF HandlesOf
<1>7. CASE DeleteChooser(s)
  <2>1. /\ chooser[s] = "alive" /\ chooser'[s] = "gone" /\ rows'[s] = {}
        /\ UNCHANGED <<window, finished, chooserHandles, call>>
    BY <1>1, <1>7 DEF DeleteChooser, contextVars
  <2> QED BY <2>1 DEF HandlesOf
<1>8. CASE \/ Reject(s) \/ Ready(s) \/ StartFails(s) \/ StopShare(s)
           \/ \E persist \in BOOLEAN : Return(s, persist)
  <2>1. /\ UNCHANGED <<window, finished, chooser, rows, chooserHandles>>
        /\ call[s].phase # "none"
    BY <1>8 DEF Reject, Ready, StartFails, StopShare, Return, contextVars
  <2>2. /\ call'[s].window = call[s].window /\ call'[s].handle = call[s].handle
        /\ call'[s].phase # "none"
    <3>1. CASE Reject(s) \/ \E persist \in BOOLEAN : Return(s, persist)
      BY <1>0, <3>1 DEF Reject, Return, Call
    <3>2. CASE Ready(s)
      BY <1>0, <3>2 DEF Ready, Call
    <3>3. CASE StartFails(s)
      BY <1>0, <3>3 DEF StartFails, Call
    <3>4. CASE StopShare(s)
      BY <1>0, <3>4 DEF StopShare, Call
    <3> QED BY <1>8, <3>1, <3>2, <3>3, <3>4
  <2> QED BY <2>1, <2>2 DEF HandlesOf
<1> QED BY <1>2, <1>3, <1>4, <1>5, <1>6, <1>7, <1>8

\* The handles stay in order in every step.
LEMMA HandlesStep ==
    ASSUME CallsAreInOrder, ListIsInOrder, PortalIsInOrder, HandlesAreOwned,
           SharesNext
    PROVE  HandlesAreOwned'
<1> SUFFICES ASSUME NEW t \in Starts PROVE HandlesOf(t)'
  BY DEF HandlesAreOwned
<1>0. HandlesOf(t) /\ call[t] \in Call /\ DOMAIN call = Starts
  BY CallFacts DEF HandlesAreOwned, CallsAreInOrder
<1>1. CASE Context
  <2>1. /\ UNCHANGED <<window, chooser, rows, chooserHandles>>
        /\ finished' \in {finished} \cup {finished \cup {b} : b \in Bounds}
    BY <1>1 DEF Context, ActiveChanged, ToplevelAdded, IdentifierChanged, ListFinished
  <2>2. NothingReturns /\ (t \in finished' <=> t \in finished)
    BY <2>1, WindowsAssumption DEF NothingReturns, CallsAreInOrder, Bounds
  <2>3. \/ call'[t] = call[t]
        \/ call'[t] = [call[t] EXCEPT !.info = FALSE]
    BY <1>1 DEF Context, ActiveChanged, ToplevelAdded, IdentifierChanged, ListFinished
  <2>4. /\ call'[t].phase = call[t].phase /\ call'[t].window = call[t].window
        /\ call'[t].handle = call[t].handle
    BY <1>0, <2>3 DEF Call
  <2> QED BY <1>0, <2>1, <2>2, <2>4, HandlesStay
<1>2. CASE Desktop
  <2>1. ASSUME NEW w \in Windows, WindowOpens(w) PROVE HandlesOf(t)'
    <3>1. /\ window[w] = "unborn" /\ window' = [window EXCEPT ![w] = "open"]
          /\ UNCHANGED <<finished, chooser, rows, chooserHandles, call>>
      BY <2>1 DEF WindowOpens, contextVars
    <3>2. NothingReturns
      BY <3>1 DEF NothingReturns, CallsAreInOrder
    <3> QED BY <1>0, <3>1, <3>2, HandlesStay
  <2> QED BY <1>0, <1>2, <2>1, HandlesAfterClose DEF Desktop
<1>3. CASE Portal
  <2>1. PICK s \in Starts :
           \/ StartChooser(s) \/ ModelFinished(s) \/ Reject(s) \/ DeleteChooser(s)
           \/ \E w \in Windows :
                 StartRestored(s, w) \/ RowAdded(s, w) \/ Accept(s, w)
           \/ Ready(s) \/ StartFails(s) \/ StopShare(s)
           \/ \E persist \in BOOLEAN : Return(s, persist)
    BY <1>3 DEF Portal
  <2>2. CASE t = s
    BY <1>0, <2>1, <2>2, HandlesOfStep
  <2>3. CASE t # s
    <3>1. /\ finished' \in {finished, finished \cup {s}} /\ UNCHANGED window
          /\ chooser'[t] = chooser[t] /\ rows'[t] = rows[t]
          /\ chooserHandles'[t] = chooserHandles[t] /\ call'[t] = call[t]
      BY <1>0, <2>1, <2>3
         DEF PortalIsInOrder, StartChooser, ModelFinished, Reject, DeleteChooser,
             StartRestored, OpenChooser, RowAdded, Accept, Ready, StartFails,
             StopShare, Return, contextVars
    <3>2. NothingReturns /\ (t \in finished' <=> t \in finished)
      BY <2>3, <3>1 DEF NothingReturns, CallsAreInOrder
    <3> QED BY <1>0, <3>1, <3>2, HandlesStay
  <2> QED BY <2>2, <2>3
<1> QED BY <1>1, <1>2, <1>3 DEF SharesNext

---------------------------------------------------------------------------
(* The portal, and what may go wrong *)

\* The invariant is about the list, the calls, the choosers' handles, the other
\* variables and the cause of a mishap, before a step and after it.
LEMMA SharesParts ==
    /\ SharesInv <=> /\ ListIsInOrder /\ CallsAreInOrder
                     /\ HandlesAreOwned /\ PortalIsInOrder /\ MisuseHasCause
    /\ SharesInv' <=> /\ ListIsInOrder' /\ CallsAreInOrder'
                      /\ HandlesAreOwned' /\ PortalIsInOrder' /\ MisuseHasCause'
<1>1. CallsAreInOrder
         <=> /\ window \in [Windows -> {"unborn", "open", "closed"}]
             /\ finished \in SUBSET (Bounds \cup Starts)
             /\ call \in [Starts -> Call] /\ CallsAreHeld
  BY Zenon DEF CallsAreInOrder, CallsAreHeld, Held, Ended, ListEnded
<1>2. CallsAreInOrder'
         <=> /\ window' \in [Windows -> {"unborn", "open", "closed"}]
             /\ finished' \in SUBSET (Bounds \cup Starts)
             /\ call' \in [Starts -> Call] /\ CallsAreHeld'
  BY Zenon DEF CallsAreInOrder, CallsAreHeld, Held, Ended, ListEnded
<1> QED BY <1>1, <1>2
        DEF SharesInv, WindowsAreTracked, SharesTypeOK, ListIsInOrder, PortalIsInOrder

\* The types of the other variables are kept in every step.
LEMMA PortalTypes ==
    ASSUME CallsAreInOrder, PortalIsInOrder, SharesNext
    PROVE  PortalIsInOrder'
<1>1. CASE Context
  <2>1. CASE ActiveChanged
    <3>1. active' \in BOOLEAN
      BY <2>1 DEF ActiveChanged
    <3>2. bound' \in 0..MaxBound
      BY <2>1, WindowsAssumption DEF ActiveChanged, PortalIsInOrder
    <3> QED BY <2>1, <3>1, <3>2 DEF ActiveChanged, PortalIsInOrder
  <2>2. ASSUME \/ \E h \in Handles : ToplevelAdded(h) \/ IdentifierChanged(h)
               \/ \E b \in Bounds : ListFinished(b)
        PROVE  PortalIsInOrder'
    <3>1. UNCHANGED <<active, bound, saved, chooser, rows, chooserHandles>>
      BY <2>2 DEF ToplevelAdded, IdentifierChanged, ListFinished
    <3>2. life' \in {"running", "double_free", "stale_info"}
      BY <2>2 DEF ToplevelAdded, IdentifierChanged, ListFinished, PortalIsInOrder
    <3> QED BY <3>1, <3>2 DEF PortalIsInOrder
  <2> QED BY <1>1, <2>1, <2>2 DEF Context
<1>2. CASE Desktop
  <2>1. UNCHANGED <<life, active, bound, saved, chooser>>
    BY <1>2 DEF Desktop, WindowOpens, WindowCloses, contextVars
  <2>2. /\ rows' \in [Starts -> SUBSET Windows]
        /\ chooserHandles' \in [Starts -> SUBSET Windows]
    BY <1>2 DEF Desktop, WindowOpens, WindowCloses, PortalIsInOrder
  <2> QED BY <2>1, <2>2 DEF PortalIsInOrder
<1>3. ASSUME NEW s \in Starts,
             StartChooser(s) \/ \E w \in Windows : StartRestored(s, w)
      PROVE  PortalIsInOrder'
  <2>1. UNCHANGED <<life, active, bound, saved, rows, chooserHandles>>
    BY <1>3 DEF StartChooser, StartRestored, contextVars
  <2>2. chooser' \in [Starts -> {"none", "alive", "gone"}]
    BY <1>3 DEF StartChooser, StartRestored, OpenChooser, PortalIsInOrder
  <2> QED BY <2>1, <2>2 DEF PortalIsInOrder
<1>4. ASSUME NEW s \in Starts, DeleteChooser(s) PROVE PortalIsInOrder'
  BY <1>4 DEF DeleteChooser, contextVars, PortalIsInOrder
<1>5. ASSUME NEW s \in Starts,
             ModelFinished(s) \/ \E w \in Windows : RowAdded(s, w)
      PROVE  PortalIsInOrder'
  <2>1. UNCHANGED <<life, active, bound, saved, chooser>>
    BY <1>5 DEF ModelFinished, RowAdded, contextVars
  <2>2. /\ rows' \in [Starts -> SUBSET Windows]
        /\ chooserHandles' \in [Starts -> SUBSET Windows]
    BY <1>5 DEF ModelFinished, RowAdded, PortalIsInOrder
  <2> QED BY <2>1, <2>2 DEF PortalIsInOrder
<1>6. ASSUME NEW s \in Starts,
             \/ Reject(s) \/ Ready(s) \/ StopShare(s)
             \/ \E w \in Windows : Accept(s, w)
      PROVE  PortalIsInOrder'
  BY <1>6 DEF Reject, Ready, StopShare, Accept, contextVars, PortalIsInOrder
<1>7. ASSUME NEW s \in Starts,
             StartFails(s) \/ \E persist \in BOOLEAN : Return(s, persist)
      PROVE  PortalIsInOrder'
  <2>1. UNCHANGED <<active, bound, chooser, rows, chooserHandles>>
    BY <1>7 DEF StartFails, Return, contextVars
  <2>2. life' \in {"running", "double_free", "stale_info"}
    BY <1>7 DEF StartFails, Return, PortalIsInOrder
  <2>3. saved' \in SUBSET Windows
    <3>1. call[s].phase = "ready" => call[s].window \in Windows
      BY CallFacts
    <3> QED BY <1>7, <3>1 DEF StartFails, Return, PortalIsInOrder
  <2> QED BY <2>1, <2>2, <2>3 DEF PortalIsInOrder
<1> QED BY <1>1, <1>2, <1>3, <1>4, <1>5, <1>6, <1>7 DEF SharesNext, Portal

\* A ToplevelInfo is deleted twice only if it is listed twice, or was deleted
\* before: the slots were connected more than once.
LEMMA ListFinishedMisuse ==
    ASSUME ListIsInOrder, NEW b \in Bounds, ListFinished(b)
    PROVE  MisuseHasCause'
<1>1. ASSUME connected <= 1, NEW i \in DOMAIN toplevels
      PROVE  /\ toplevels[i].handle \notin freed
             /\ ~(Cardinality(Entries(toplevels[i].handle)) > 1)
  <2>1. toplevels[i].handle \notin freed
    BY <1>1 DEF ListIsInOrder, ContextListIsRight
  <2>2. \A j \in DOMAIN toplevels : toplevels[j].handle = toplevels[i].handle => j = i
    BY <1>1, EntryFacts
  <2>3. Entries(toplevels[i].handle) = {i}
    BY <1>1, <2>2, Zenon DEF Entries
  <2>4. Cardinality(Entries(toplevels[i].handle)) = 1
    BY <2>3, FS_Singleton
  <2> QED BY <2>1, <2>4
<1>2. /\ life = "running" /\ connected' = connected
      /\ life' = IF \E i \in DOMAIN toplevels :
                       \/ toplevels[i].handle \in freed
                       \/ Cardinality(Entries(toplevels[i].handle)) > 1
                 THEN "double_free" ELSE life
  BY DEF ListFinished, Running
<1>3. connected \in Nat
  BY DEF ListIsInOrder
<1>4. life' = "double_free" => connected' > 1
  BY <1>1, <1>2, <1>3, Z3
<1> QED BY <1>2, <1>4 DEF MisuseHasCause

\* A call reads the ToplevelInfo it holds when it is over, whether or not that
\* still exists.
LEMMA CallOverMisuse ==
    ASSUME CallsAreInOrder, NEW s \in Starts,
           StartFails(s) \/ \E persist \in BOOLEAN : Return(s, persist)
    PROVE  MisuseHasCause'
<1>1. /\ life = "running" /\ UNCHANGED <<window, finished>>
      /\ call[s].phase \in {"starting", "ready"}
      /\ life' \in {"running", "stale_info"}
      /\ life' = "stale_info" => ~call[s].info
  BY DEF StartFails, Return, Running, contextVars
<1>2. /\ call[s].window # None
      /\ ~call[s].info => window[call[s].window] = "closed" \/ ListEnded(s)
  BY <1>1, CallFacts DEF Held, Ended, ListEnded
<1>3. /\ call'[s].phase = "over" /\ call'[s].window = call[s].window
      /\ call'[s].info = call[s].info /\ call'[s].handle = call[s].handle
  <2>1. call[s] \in Call /\ DOMAIN call = Starts
    BY CallFacts DEF CallsAreInOrder
  <2>2. CASE StartFails(s)
    BY <2>1, <2>2 DEF StartFails, Call
  <2>3. CASE \E persist \in BOOLEAN : Return(s, persist)
    BY <2>1, <2>3 DEF Return, Call
  <2> QED BY <2>2, <2>3
<1>4. ListEnded(s)' <=> ListEnded(s)
  BY <1>1, <1>3 DEF ListEnded
<1> QED BY <1>1, <1>2, <1>3, <1>4 DEF MisuseHasCause

\* No other step misuses memory.
LEMMA MisuseStep ==
    ASSUME ListIsInOrder, CallsAreInOrder, SharesNext
    PROVE  MisuseHasCause'
<1>1. ASSUME Running, life' = life PROVE MisuseHasCause'
  BY <1>1 DEF Running, MisuseHasCause
<1>2. ASSUME \/ ActiveChanged
             \/ \E h \in Handles : ToplevelAdded(h) \/ IdentifierChanged(h)
             \/ Desktop
      PROVE  MisuseHasCause'
  BY <1>1, <1>2 DEF ActiveChanged, ToplevelAdded, IdentifierChanged, Desktop,
                    WindowOpens, WindowCloses
<1>3. ASSUME NEW s \in Starts,
             \/ StartChooser(s) \/ ModelFinished(s) \/ Reject(s) \/ DeleteChooser(s)
             \/ \E w \in Windows : StartRestored(s, w) \/ RowAdded(s, w) \/ Accept(s, w)
             \/ Ready(s) \/ StopShare(s)
      PROVE  MisuseHasCause'
  BY <1>1, <1>3 DEF StartChooser, ModelFinished, Reject, DeleteChooser,
                    StartRestored, RowAdded, Accept, Ready, StopShare
<1> QED BY <1>2, <1>3, ListFinishedMisuse, CallOverMisuse
        DEF SharesNext, Context, Portal

---------------------------------------------------------------------------
(* Theorems about shared windows *)

\* For any number of windows, calls of Start() and announcements of the global,
\* the list, the calls and the portal stay in order.
THEOREM SharesInvariant == SharesSpec => []SharesInv
<1>1. SharesInit => SharesInv
  <2> SUFFICES ASSUME SharesInit PROVE SharesInv
    OBVIOUS
  <2>1. ListIsInOrder
    <3>1. toplevels \in Seq(Info) /\ DOMAIN toplevels = {} /\ connected \in Nat
      BY DEF SharesInit
    <3> QED BY <3>1 DEF SharesInit, ListIsInOrder, RestoreFindsLiveInfo, IsInjective,
                        ContextListIsRight, EntriesAreAnnounced, FirstIsNamed
  <2>2. CallsAreInOrder
    <3>1. NoCall \in Call /\ NoCall.phase = "none" /\ NoCall.window = None
      BY DEF NoCall, Call
    <3>2. \A s \in Starts : Held(s, NoCall, window, finished)
      BY <3>1 DEF Held
    <3> QED BY <3>2 DEF SharesInit, CallsAreInOrder
  <2>3. PortalIsInOrder
    <3>1. 0 \in 0..MaxBound
      BY WindowsAssumption
    <3> QED BY <3>1 DEF SharesInit, PortalIsInOrder
  <2>4. MisuseHasCause
    BY DEF SharesInit, MisuseHasCause
  <2>5. HandlesAreOwned
    <3>1. NoCall.window = None
      BY DEF NoCall
    <3> QED BY <3>1 DEF SharesInit, HandlesAreOwned, HandlesOf
  <2> QED BY <2>1, <2>2, <2>3, <2>4, <2>5, SharesParts
<1>2. SharesInv /\ [SharesNext]_sharesVars => SharesInv'
  <2> SUFFICES ASSUME SharesInv, [SharesNext]_sharesVars PROVE SharesInv'
    OBVIOUS
  <2>1. /\ ListIsInOrder /\ CallsAreInOrder /\ HandlesAreOwned
        /\ PortalIsInOrder /\ MisuseHasCause
    BY SharesParts
  <2>2. CASE SharesNext
    BY <2>1, <2>2, ListStep, CallsStep, HandlesStep, PortalTypes, MisuseStep, SharesParts
  <2>3. CASE UNCHANGED sharesVars
    <3>1. /\ UNCHANGED <<life, window, active, bound, connected, toplevels>>
          /\ UNCHANGED <<announced, freed, finished, saved, chooser, rows>>
          /\ UNCHANGED <<chooserHandles, call>>
      BY <2>3 DEF sharesVars, contextVars
    <3>2. ListIsInOrder'
      BY <2>1, <3>1, ListStays
    <3>3. CallsAreInOrder' /\ PortalIsInOrder'
      BY <2>1, <3>1 DEF CallsAreInOrder, PortalIsInOrder
    <3>4. HandlesAreOwned'
      BY <2>1, <3>1 DEF HandlesAreOwned, HandlesOf
    <3>5. MisuseHasCause'
      BY <2>1, <3>1 DEF MisuseHasCause, ListEnded
    <3> QED BY <3>2, <3>3, <3>4, <3>5, SharesParts
  <2> QED BY <2>2, <2>3
<1> QED BY <1>1, <1>2, PTL DEF SharesSpec

\* Restore data finds windows that exist, the list of the context is right while
\* its slots are connected once, and memory is misused only in the two ways that
\* the property names.
THEOREM WindowsStayTracked == SharesSpec => []WindowsAreTracked
<1>1. SharesInv => WindowsAreTracked
  BY DEF SharesInv
<1> QED BY <1>1, SharesInvariant, PTL

\* When a shared window is closed, its share ends if its window was chosen, the
\* chooser is gone and its list was not finished before, and goes on otherwise.
THEOREM ClosingWindowEndsShare == SharesSpec => ClosedWindowEndsShare
<1> DEFINE A == \A s \in Starts, w \in Windows :
                   /\ window[w] = "open" /\ window'[w] = "closed"
                   /\ call[s].window = w /\ call[s].running /\ call[s].phase # "starting"
                   => (call'[s].running <=>
                      call[s].handle # None \/ chooser[s] = "alive" \/ s \in finished)
<1>1. SharesInv /\ [SharesNext]_sharesVars => [A]_sharesVars
  <2> SUFFICES ASSUME SharesInv, SharesNext, NEW s \in Starts, NEW w \in Windows,
                      window[w] = "open", window'[w] = "closed",
                      call[s].window = w, call[s].running,
                      call[s].phase # "starting"
               PROVE  call'[s].running <=>
                      call[s].handle # None \/ chooser[s] = "alive" \/ s \in finished
    BY Zenon
  <2>1. CallsAreInOrder /\ HandlesOf(s) /\ w # None
    BY SharesParts, WindowsAssumption DEF HandlesAreOwned
  <2>2. window' # window
    OBVIOUS
  <2>3. PICK v \in Windows : WindowOpens(v) \/ WindowCloses(v)
    BY <2>2 DEF SharesNext, Context, Desktop, Portal, ActiveChanged, ToplevelAdded,
                IdentifierChanged, ListFinished, StartChooser, ModelFinished, Reject,
                DeleteChooser, StartRestored, RowAdded, Accept, Ready, StartFails,
                StopShare, Return, contextVars
  <2>4. WindowCloses(v) /\ v = w
    <3>1. window \in [Windows -> {"unborn", "open", "closed"}]
      BY <2>1 DEF CallsAreInOrder
    <3>2. ~WindowOpens(v)
      BY <3>1 DEF WindowOpens
    <3> QED BY <2>3, <3>1, <3>2 DEF WindowCloses
  <2>5. call'[s] = CallAfterClose(s, w)
    BY <2>4 DEF WindowCloses
  <2>6. call[s] \in Call
    BY <2>1, CallFacts
  <2>7. StreamHears(s, w) <=>
           ~(call[s].handle # None \/ chooser[s] = "alive" \/ s \in finished)
    BY <2>1 DEF StreamHears, HandlesOf
  <2>8. CASE StreamHears(s, w)
    BY <2>5, <2>6, <2>7, <2>8 DEF CallAfterClose, Call
  <2>9. CASE ~StreamHears(s, w)
    BY <2>5, <2>6, <2>7, <2>9 DEF CallAfterClose, Call
  <2> QED BY <2>8, <2>9
<1>2. SharesSpec => [][A]_sharesVars
  BY <1>1, SharesInvariant, PTL DEF SharesSpec
<1> QED BY <1>2 DEF A, ClosedWindowEndsShare
============================================================================
