---------------------------- MODULE FileFilters ----------------------------
(***************************************************************************)
(* The filters of the file chooser.  An application gives named lists of   *)
(* filters, glob patterns and MIME types, and the one to start with; the   *)
(* dialog takes either the texts of pattern lists or MIME types; what the  *)
(* user selected there is mapped back to one of the application's lists.   *)
(*                                                                         *)
(* OpenFile() and SaveFile() treat filters alike.                          *)
(***************************************************************************)
EXTENDS Naturals, Sequences, FiniteSets, SequencesExt, FiniteSetsExt, Lists

CONSTANTS
    Labels,     \* userVisibleName of a list
    Patterns,   \* glob patterns
    MimeTypes,  \* MIME types
    MaxLists,   \* lists in one call
    MaxFilters, \* filters in one list
    NoFilter

\* Filter: type 0 is a pattern, type 1 a MIME type.
Filter == [type : {0}, filterString : Patterns]
             \cup [type : {1}, filterString : MimeTypes]

\* FilterList
FilterList == [userVisibleName : Labels, filters : SeqOf(Filter, MaxFilters)]

ASSUME FilterAssumption ==
    /\ MaxLists \in Nat /\ MaxFilters \in Nat
    /\ NoFilter \notin Patterns \cup MimeTypes \cup FilterList
    /\ Patterns \cap MimeTypes = {}

VARIABLES
    call,     \* "asked", "shown", "accepted" or "rejected"
    filters,  \* options["filters"], empty if there is none
    current,  \* options["current_filter"], or NoFilter
    selected, \* what is selected in the dialog, or NoFilter
    reply     \* results["current_filter"], or NoFilter

filterVars == <<call, filters, current, selected, reply>>

FilterInit ==
    /\ call = "asked"
    /\ filters \in SeqOf(FilterList, MaxLists)
    /\ current \in FilterList \cup {NoFilter}
    /\ selected = NoFilter
    /\ reply = NoFilter

---------------------------------------------------------------------------
(* parseFilters() *)

OfType(list, type) ==
    {k \in DOMAIN list.filters : list.filters[k].type = type}
Strings(list, type) ==
    LET kept == Kept(list.filters, OfType(list, type))
    IN  [i \in DOMAIN kept |-> kept[i].filterString]

\* The text "name(patterns)" of a list
NameFilter(list) == <<list.userVisibleName, Strings(list, 0)>>

\* One entry for each list with a pattern, one for each MIME type
ListedNames ==
    LET lists == Kept(filters, {i \in DOMAIN filters : OfType(filters[i], 0) # {}})
    IN  [i \in DOMAIN lists |-> NameFilter(lists[i])]

\* MIME types stand list after list: <<i, k>> is the place in list i.
MimePlaces == UNION {{i} \X OfType(filters[i], 1) : i \in DOMAIN filters}
UpTo(p) == {q \in MimePlaces : q[1] < p[1] \/ (q[1] = p[1] /\ q[2] <= p[2])}
mimeTypeFilters ==
    [j \in 1..Cardinality(MimePlaces) |->
        LET p == CHOOSE p \in MimePlaces : Cardinality(UpTo(p)) = j
        IN  filters[p[1]].filters[p[2]].filterString]

\* A current filter counts only if it is a single one.
CurrentCounts(type) ==
    current # NoFilter /\ Len(current.filters) = 1 /\ current.filters[1].type = type

\* A pattern is moved, or added, to the front.
nameFilters ==
    IF CurrentCounts(0)
    THEN <<NameFilter(current)>>
            \o Kept(ListedNames, {i \in DOMAIN ListedNames :
                                    ListedNames[i] # NameFilter(current)})
    ELSE ListedNames
selectedMimeTypeFilter ==
    IF CurrentCounts(1) THEN current.filters[1].filterString ELSE NoFilter

\* The keys of allFilters that a list is stored under
Keys(list) ==
    ToSet(Strings(list, 1))
        \cup IF Strings(list, 0) # <<>> THEN {NameFilter(list)} ELSE {}

Stored(key) == {i \in DOMAIN filters : key \in Keys(filters[i])}

---------------------------------------------------------------------------
(* The dialog *)

\* bMimeFilters: any MIME type at all hides every pattern.
MimeFilters == mimeTypeFilters # <<>>
Entries == IF MimeFilters THEN mimeTypeFilters ELSE nameFilters

Show ==
    /\ call = "asked"
    /\ call' = "shown"
    /\ selected' = IF Entries = <<>> THEN NoFilter
                   ELSE IF MimeFilters
                           /\ selectedMimeTypeFilter \in ToSet(Entries)
                   THEN selectedMimeTypeFilter ELSE Head(Entries)
    /\ UNCHANGED <<filters, current, reply>>

Select(i) ==
    /\ call = "shown"
    /\ Entries[i] # selected
    /\ selected' = Entries[i]
    /\ UNCHANGED <<call, filters, current, reply>>

\* Mutant: the list at the place of the selected entry is returned.
ResultByPlace(key) ==
    LET places == {i \in DOMAIN Entries : Entries[i] = key} \cap DOMAIN filters
    IN  IF places = {} THEN NoFilter ELSE filters[Max(places)]

\* currentFilterResult(): a later list under the same key replaced the earlier.
CurrentFilterResult(key) ==
    IF Stored(key) = {} THEN NoFilter ELSE filters[Max(Stored(key))]

Accept ==
    /\ call = "shown"
    /\ call' = "accepted"
    /\ reply' = CurrentFilterResult(selected)
    /\ UNCHANGED <<filters, current, selected>>

Reject ==
    /\ call = "shown"
    /\ call' = "rejected"
    /\ UNCHANGED <<filters, current, selected, reply>>

FilterNext ==
    \/ Show
    \/ \E i \in DOMAIN Entries : Select(i)
    \/ Accept \/ Reject

FilterSpec == FilterInit /\ [][FilterNext]_filterVars

---------------------------------------------------------------------------
(* Properties *)

FilterTypeOK ==
    /\ call \in {"asked", "shown", "accepted", "rejected"}
    /\ selected \in {NoFilter} \cup ToSet(Entries)
    /\ reply \in {NoFilter} \cup ToSet(filters)

\* A list offers its patterns under its name, or one of its MIME types.
Offers(list, key) ==
    \/ \E f \in ToSet(list.filters) : f.type = 1 /\ f.filterString = key
    \/ /\ \E f \in ToSet(list.filters) : f.type = 0
       /\ key = NameFilter(list)

\* The current filter in the reply is a list of the application that offers what
\* the user selected.  There is none in the reply only when the lists are empty,
\* or the user left the selection at a current filter that is in none of them.
\* With no MIME type in any list, every list with a pattern can be selected, and
\* a current filter that counts is selected at first.
FiltersComeBack ==
    /\ FilterTypeOK
    /\ call = "accepted" =>
          IF reply # NoFilter THEN Offers(reply, selected)
          ELSE \/ \A i \in DOMAIN filters : filters[i].filters = <<>>
               \/ CurrentCounts(0) /\ selected = NameFilter(current)
    /\ call = "shown" /\ ~MimeFilters =>
          /\ \A i \in DOMAIN filters :
                filters[i].filters # <<>> =>
                    \E j \in DOMAIN Entries : Offers(filters[i], Entries[j])
          /\ CurrentCounts(0) => Entries[1] = NameFilter(current)
===========================================================================
