----------------------- MODULE PortalDialogsProofs -----------------------
(***************************************************************************)
(* Theorems about PortalDialogs, for every set of handles and every number *)
(* of calls.                                                               *)
(***************************************************************************)
EXTENDS PortalDialogs, SequenceTheorems, TLAPS

USE DialogsAssumption

\* The stack has each call at most once, and only calls that were made and not
\* yet answered.
StackIsOpen ==
    /\ \A i \in 1..Len(stack) : stack[i] \in Made
    /\ \A i, j \in 1..Len(stack) : stack[i] = stack[j] => i = j
    /\ \A c \in Calls : answer[c] # None => c \in Made /\ ~Open(c)

\* Calls are made in the order of their numbers; those not made have no result.
MadeInOrder ==
    /\ \A c \in Made, d \in Calls \ Made : c < d
    /\ \A c \in Made : handle[c] \in Handles
    /\ \A c \in Calls \ Made : result[c] = None

\* Of the calls with the same handle only the latest can be open.
OpenIsLatest ==
    \A c, d \in Made : Open(d) /\ handle[c] = handle[d] => c <= d

\* What is registered at a path is a Request with that handle.
RegisteredIsRequest ==
    /\ \A c \in requests : c \in Made /\ HasRequest(kind[c])
    /\ \A h \in Handles : registered[h] # None =>
           registered[h] \in requests /\ handle[registered[h]] = h

\* An earlier call whose Request may have outlived it had the same handle.
Excused(c) ==
    \E d \in Made : /\ d < c /\ handle[d] = handle[c]
                    /\ kind[d] \in {"app", "savefiles"}

\* A Request is doomed because it was closed, because its path was taken, or
\* because its dialog is over.
DoomedHasCause ==
    \A d \in doomed :
        /\ d.call \in Made /\ HasRequest(kind[d.call])
        /\ Open(d.call) => result[d.call] # None \/ Excused(d.call)
        /\ ~Open(d.call) => kind[d.call] \in {"app", "savefiles"}

\* Only the user's consent makes a result other than rejected.
ResultIsConsent ==
    \A c \in Made :
        kind[c] # "access" /\ result[c] \notin {None, 0} => by[c] = "accept"

IInv ==
    /\ TypeOK /\ StackIsOpen /\ MadeInOrder /\ OpenIsLatest
    /\ RegisteredIsRequest /\ DoomedHasCause /\ ResultIsConsent
    /\ AppDialogsAreOpen /\ CloseReachesDialog /\ PathsAreFreed
    /\ SuccessIsConsent
---------------------------------------------------------------------------
(* The stack *)

\* Opening a dialog adds it to those that are open.
LEMMA PushOpens ==
    ASSUME NEW s \in Seq(Calls), NEW c \in Calls
    PROVE  \A d : Contains(Append(s, c), d) <=> Contains(s, d) \/ d = c
<1>1. /\ Append(s, c) \in Seq(Calls) /\ Len(Append(s, c)) = Len(s) + 1
      /\ \A i \in 1..Len(s) : Append(s, c)[i] = s[i]
      /\ Append(s, c)[Len(s) + 1] = c
  OBVIOUS
<1>2. \A i \in 1..(Len(s) + 1) : i \in 1..Len(s) \/ i = Len(s) + 1
  OBVIOUS
<1>3. Len(s) + 1 \in 1..(Len(s) + 1) /\ 1..Len(s) \subseteq 1..(Len(s) + 1)
  OBVIOUS
<1> QED BY <1>1, <1>2, <1>3, Zenon DEF Contains

\* Popping the topmost dialog closes it and no other, if it is there once.
LEMMA PopCloses ==
    ASSUME NEW s \in Seq(Calls), s # <<>>,
           \A i, j \in 1..Len(s) : s[i] = s[j] => i = j
    PROVE  /\ Front(s) \in Seq(Calls) /\ Len(Front(s)) = Len(s) - 1
           /\ \A i \in 1..Len(Front(s)) : i \in 1..Len(s) /\ Front(s)[i] = s[i]
           /\ Contains(s, Last(s)) /\ Last(s) \in Calls
           /\ \A d : Contains(Front(s), d) <=> Contains(s, d) /\ d # Last(s)
<1>1. /\ Front(s) \in Seq(Calls) /\ Len(Front(s)) = Len(s) - 1
      /\ \A i \in 1..(Len(s) - 1) : Front(s)[i] = s[i]
  <2>1. Len(s) \in Nat /\ Len(s) >= 1 /\ \A i \in 1..Len(s) : s[i] \in Calls
    OBVIOUS
  <2>2. \A i \in 1..(Len(s) - 1) : s[i] \in Calls
    BY <2>1
  <2>3. /\ SubSeq(s, 1, Len(s) - 1) \in Seq(Calls)
        /\ Len(SubSeq(s, 1, Len(s) - 1)) = Len(s) - 1
        /\ \A i \in 1..(Len(s) - 1) : SubSeq(s, 1, Len(s) - 1)[i] = s[i]
    <3> DEFINE n == Len(s) - 1
    <3>1. n \in Nat /\ \A i \in 1..n : s[i] \in Calls
      BY <2>1, <2>2
    <3> HIDE DEF n
    <3>2. /\ SubSeq(s, 1, n) \in Seq(Calls)
          /\ Len(SubSeq(s, 1, n)) = IF 1 <= n THEN n - 1 + 1 ELSE 0
          /\ \A i \in 1..(n - 1 + 1) : SubSeq(s, 1, n)[i] = s[1 + i - 1]
      BY <3>1, SubSeqProperties
    <3>3. (IF 1 <= n THEN n - 1 + 1 ELSE 0) = n /\ n - 1 + 1 = n
      BY <3>1
    <3>4. \A i \in 1..n : 1 + i - 1 = i
      BY <3>1
    <3>5. /\ SubSeq(s, 1, n) \in Seq(Calls) /\ Len(SubSeq(s, 1, n)) = n
          /\ \A i \in 1..n : SubSeq(s, 1, n)[i] = s[i]
      BY <3>2, <3>3, <3>4
    <3> QED BY <3>5 DEF n
  <2> QED BY <2>3 DEF Front
<1>2. Len(s) \in 1..Len(s) /\ Last(s) = s[Len(s)] /\ Last(s) \in Calls
  BY DEF Last
<1>3. \A i \in 1..(Len(s) - 1) : i \in 1..Len(s) /\ i # Len(s)
  BY <1>2
<1>4. \A i \in 1..Len(s) : i = Len(s) \/ i \in 1..(Len(s) - 1)
  BY <1>2
<1>5. Contains(s, Last(s))
  BY <1>2 DEF Contains
<1>6. ASSUME NEW d PROVE Contains(Front(s), d) <=> Contains(s, d) /\ d # Last(s)
  <2>1. ASSUME Contains(Front(s), d) PROVE Contains(s, d) /\ d # Last(s)
    BY <2>1, <1>1, <1>2, <1>3, Zenon DEF Contains
  <2>2. ASSUME Contains(s, d), d # Last(s) PROVE Contains(Front(s), d)
    BY <2>2, <1>1, <1>2, <1>4, Zenon DEF Contains
  <2> QED BY <2>1, <2>2
<1> QED BY <1>1, <1>2, <1>3, <1>5, <1>6

\* What a call changes for itself and leaves alone for others.
LEMMA CallFacts ==
    ASSUME IInv, NEW c \in Calls, NEW k \in Kind, NEW h \in Handles, Call(c, k, h)
    PROVE  /\ c \notin Made /\ Made' = Made \cup {c} /\ ~Open(c)
           /\ kind'[c] = k /\ handle'[c] = h /\ result'[c] = None
           /\ \A d \in Made : /\ kind'[d] = kind[d] /\ handle'[d] = handle[d]
                              /\ d < c
           /\ \A d : Open(d)' <=> Open(d) \/ d = c
           /\ \A d \in Made : Open(d) => handle[d] # h
<1>1. c \notin Made /\ \A d \in Made : Open(d) => handle[d] # h
  BY DEF Call
<1>2. kind' = [kind EXCEPT ![c] = k] /\ handle' = [handle EXCEPT ![c] = h]
  BY DEF Call
<1>3. k # None
  BY DEF Kind
<1>4. Made' = Made \cup {c}
  BY <1>2, <1>3 DEF Made, IInv, TypeOK
<1>5. ~Open(c)
  BY <1>1 DEF IInv, StackIsOpen, Open, Contains
<1>6. \A d : Open(d)' <=> Open(d) \/ d = c
  <2>1. stack' = Append(stack, c) /\ stack \in Seq(Calls)
    BY DEF Call, IInv, TypeOK
  <2> QED BY <2>1, PushOpens DEF Open
<1>7. \A d \in Made : kind'[d] = kind[d] /\ handle'[d] = handle[d] /\ d < c
  BY <1>1, <1>2 DEF IInv, TypeOK, MadeInOrder, Made
<1>8. kind'[c] = k /\ handle'[c] = h
  BY <1>2 DEF IInv, TypeOK
<1>9. result'[c] = None
  BY <1>1 DEF Call, IInv, MadeInOrder
<1> QED BY <1>1, <1>4, <1>5, <1>6, <1>7, <1>8, <1>9

\* What a return changes.
LEMMA ReturnFacts ==
    ASSUME IInv, Return
    PROVE  /\ Last(stack) \in Made /\ Open(Last(stack))
           /\ result[Last(stack)] # None
           /\ \A d : Open(d)' <=> Open(d) /\ d # Last(stack)
           /\ stack' = Front(stack) /\ stack # <<>> /\ stack' \in Seq(Calls)
           /\ Made' = Made /\ EndDialog(Last(stack))
           /\ UNCHANGED <<kind, handle, result, by, remaining>>
           /\ \E r \in Responses(kind[Last(stack)], result[Last(stack)]) :
                  answer' = [answer EXCEPT ![Last(stack)] = r]
<1>1. stack # <<>> /\ stack \in Seq(Calls) /\ stack' = Front(stack)
  BY DEF Return, IInv, TypeOK
<1>2. \A i, j \in 1..Len(stack) : stack[i] = stack[j] => i = j
  BY DEF IInv, StackIsOpen
<1>3. /\ Open(Last(stack)) /\ stack' \in Seq(Calls)
      /\ \A d : Open(d)' <=> Open(d) /\ d # Last(stack)
  BY <1>1, <1>2, PopCloses DEF Open
<1>4. Last(stack) \in Made
  BY <1>1 DEF IInv, StackIsOpen, Last
<1>5. Made' = Made /\ UNCHANGED <<kind, handle, result, by, remaining>>
  BY DEF Return, Made
<1>6. result[Last(stack)] # None
  BY DEF Return, Dispatching
<1> QED BY <1>1, <1>3, <1>4, <1>5, <1>6 DEF Return

\* What is open was made.
LEMMA OpenIsMade == ASSUME IInv, NEW c, Open(c) PROVE c \in Made
BY DEF IInv, StackIsOpen, Open, Contains

\* Of two open calls with the same handle there is one.
LEMMA OneIsOpen ==
    ASSUME IInv, NEW c, NEW d, Open(c), Open(d), handle[c] = handle[d]
    PROVE  c = d
<1>1. c \in Made /\ d \in Made /\ c \in Int /\ d \in Int
  BY OpenIsMade DEF Made, Calls
<1> QED BY <1>1 DEF IInv, OpenIsLatest

Finishes == UserAnswers \/ (\E c \in Calls : Tick(c)) \/ (\E h \in Handles : RequestClose(h))

\* What buttons, countdowns and closes change: the result of a dialog that is
\* open, and that to something other than rejected only by the user's consent.
LEMMA FinishFacts ==
    ASSUME IInv, Finishes
    PROVE  /\ UNCHANGED <<kind, handle, stack, requests, registered, appDialogs, answer>>
           /\ Made' = Made /\ \A d : Open(d)' <=> Open(d)
           /\ \A d \in Calls :
                 \/ result'[d] = result[d] /\ by'[d] = by[d]
                 \/ /\ Open(d) /\ result'[d] \in Result
                    /\ kind[d] # "access" /\ result'[d] # 0 => by'[d] = "accept"
           /\ result' \in [Calls -> Result \cup {None}] /\ by' \in [Calls -> By]
<1> USE DEF Open, Made, Done, IInv, TypeOK, Result, By, dialogVars, requestVars
<1>1. CASE UserAnswers
  <2>1. Last(stack) \in Calls /\ Open(Last(stack))
    BY <1>1, PopCloses DEF UserAnswers, StackIsOpen
  <2> QED BY <1>1, <2>1 DEF UserAnswers
<1>2. ASSUME NEW c \in Calls, Tick(c)
      PROVE  /\ UNCHANGED <<kind, handle, stack, requests, registered, appDialogs, answer>>
             /\ Made' = Made /\ \A d : Open(d)' <=> Open(d)
             /\ \A d \in Calls :
                   \/ result'[d] = result[d] /\ by'[d] = by[d]
                   \/ /\ Open(d) /\ result'[d] \in Result
                      /\ kind[d] # "access" /\ result'[d] # 0 => by'[d] = "accept"
             /\ result' \in [Calls -> Result \cup {None}] /\ by' \in [Calls -> By]
  BY <1>2 DEF Tick
<1>3. ASSUME NEW h \in Handles, RequestClose(h)
      PROVE  /\ UNCHANGED <<kind, handle, stack, requests, registered, appDialogs, answer>>
             /\ Made' = Made /\ \A d : Open(d)' <=> Open(d)
             /\ \A d \in Calls :
                   \/ result'[d] = result[d] /\ by'[d] = by[d]
                   \/ /\ Open(d) /\ result'[d] \in Result
                      /\ kind[d] # "access" /\ result'[d] # 0 => by'[d] = "accept"
             /\ result' \in [Calls -> Result \cup {None}] /\ by' \in [Calls -> By]
  BY <1>3 DEF RequestClose
<1> QED BY <1>1, <1>2, <1>3 DEF Finishes

---------------------------------------------------------------------------
(* Type correctness *)

\* Every step keeps every variable in its range.
LEMMA TypeStep == IInv /\ [Next]_vars => TypeOK'
<1> SUFFICES ASSUME IInv, [Next]_vars PROVE TypeOK'
  OBVIOUS
<1> USE DEF TypeOK, dialogVars, requestVars
<1>0. Len(stack) \in Nat /\ stack \in Seq(Calls)
  BY DEF IInv
<1>1. ASSUME NEW c \in Calls, NEW k \in Kind, NEW h \in Handles, Call(c, k, h)
      PROVE  TypeOK'
  <2>1. /\ requests' \in SUBSET Calls
        /\ registered' \in [Handles -> Calls \cup {None}]
        /\ doomed' \in SUBSET [call : Calls, level : Nat]
    <3>1. CreateRequest(c, k, h)
      BY <1>1 DEF Call
    <3>2. CASE ~HasRequest(k)
      BY <3>1, <3>2 DEF CreateRequest, IInv
    <3>3. CASE HasRequest(k) /\ registered[h] = None
      BY <3>1, <3>3 DEF CreateRequest, IInv
    <3>4. CASE HasRequest(k) /\ registered[h] # None
      <4>1. [call |-> c, level |-> Len(stack)] \in [call : Calls, level : Nat]
        BY <1>0
      <4> QED BY <3>1, <3>4, <4>1 DEF CreateRequest, DeleteLater, IInv
    <3> QED BY <3>2, <3>3, <3>4
  <2>2. /\ kind' \in [Calls -> Kind \cup {None}]
        /\ handle' \in [Calls -> Handles \cup {None}]
        /\ stack' \in Seq(Calls)
        /\ appDialogs' \in [Handles -> Calls \cup {None}]
    BY <1>0, <1>1 DEF Call, IInv
  <2>3. remaining' \in [Calls -> 0..Seconds]
    BY <1>1 DEF Call, IInv
  <2> QED BY <1>1, <2>1, <2>2, <2>3 DEF Call, IInv
<1>2. CASE Finishes
  <2>1. remaining' \in [Calls -> 0..Seconds]
    BY <1>2 DEF Finishes, UserAnswers, Tick, RequestClose, IInv
  <2>2. doomed' \in SUBSET [call : Calls, level : Nat]
    BY <1>0, <1>2 DEF Finishes, UserAnswers, Tick, RequestClose, DeleteLater, IInv
  <2> QED BY <1>2, <2>1, <2>2, FinishFacts DEF IInv
<1>3. CASE Return
  <2>1. Last(stack) \in Calls /\ result[Last(stack)] \in Result
    BY <1>3, ReturnFacts DEF Made, IInv
  <2>2. answer' \in [Calls -> -1..2 \cup {None}]
    <3>1. PICK r \in Responses(kind[Last(stack)], result[Last(stack)]) :
              answer' = [answer EXCEPT ![Last(stack)] = r]
      BY <1>3, ReturnFacts
    <3>2. r \in -1..2
      BY <2>1, <3>1 DEF Responses, Result, Success, Cancelled, OtherError
    <3> QED BY <3>1, <3>2 DEF IInv
  <2>3. Len(stack) - 1 \in Nat
    BY <1>0, <1>3, ReturnFacts
  <2>4. /\ requests' \in SUBSET Calls
        /\ registered' \in [Handles -> Calls \cup {None}]
        /\ doomed' \in SUBSET [call : Calls, level : Nat]
        /\ appDialogs' \in [Handles -> Calls \cup {None}]
    <3>1. EndDialog(Last(stack)) /\ handle[Last(stack)] \in Handles
      BY <1>3, ReturnFacts DEF IInv, MadeInOrder
    <3>2. [call |-> Last(stack), level |-> Len(stack) - 1] \in [call : Calls, level : Nat]
      BY <2>1, <2>3
    <3>3. CASE kind[Last(stack)] = "app"
      BY <3>1, <3>2, <3>3 DEF EndDialog, DeleteLater, IInv
    <3>4. CASE kind[Last(stack)] \in {"open", "save"}
      BY <3>1, <3>4 DEF EndDialog, Destroy, IInv
    <3>5. CASE kind[Last(stack)] \in {"savefiles", "access"}
      BY <3>1, <3>5 DEF EndDialog, IInv
    <3> QED BY <3>1, <3>3, <3>4, <3>5 DEF EndDialog
  <2> QED BY <1>3, <2>2, <2>4, ReturnFacts DEF IInv
<1>4. CASE DeleteRequest
  BY <1>4 DEF DeleteRequest, Destroy, IInv
<1>5. CASE UNCHANGED vars
  BY <1>5 DEF vars, IInv
<1> QED BY <1>1, <1>2, <1>3, <1>4, <1>5 DEF Next, Finishes

---------------------------------------------------------------------------
(* The calls *)

\* The stack, the order of the calls and what users consented to.
LEMMA CallsStep ==
    ASSUME IInv, [Next]_vars
    PROVE  /\ StackIsOpen' /\ MadeInOrder' /\ OpenIsLatest'
           /\ ResultIsConsent' /\ SuccessIsConsent'
<1> DEFINE Goal == /\ StackIsOpen' /\ MadeInOrder' /\ OpenIsLatest'
                   /\ ResultIsConsent' /\ SuccessIsConsent'
<1>1. ASSUME NEW c \in Calls, NEW k \in Kind, NEW h \in Handles, Call(c, k, h)
      PROVE  Goal
  <2>1. /\ stack \in Seq(Calls) /\ stack' = Append(stack, c)
        /\ UNCHANGED <<result, by, answer>>
    BY <1>1 DEF Call, IInv, TypeOK
  <2>2. StackIsOpen'
    <3>1. \A i \in 1..Len(stack) : stack[i] \in Made /\ stack[i] # c
      BY <1>1, CallFacts DEF IInv, StackIsOpen
    <3>2. \A i, j \in 1..Len(stack) : stack[i] = stack[j] => i = j
      BY DEF IInv, StackIsOpen
    <3>3. /\ \A i \in 1..Len(stack') : stack'[i] \in Made \cup {c}
          /\ \A i, j \in 1..Len(stack') : stack'[i] = stack'[j] => i = j
      BY <2>1, <3>1, <3>2
    <3>4. \A d \in Calls : answer'[d] # None => d \in Made' /\ ~Open(d)'
      BY <1>1, <2>1, CallFacts DEF IInv, StackIsOpen
    <3> QED BY <1>1, <3>3, <3>4, CallFacts DEF StackIsOpen
  <2>3. MadeInOrder'
    <3>1. \A d \in Calls \ Made : c <= d
      BY <1>1 DEF Call
    <3>2. \A d \in Calls \ Made' : c < d
      BY <1>1, <3>1, CallFacts DEF Calls
    <3> QED BY <1>1, <2>1, <3>2, CallFacts DEF IInv, MadeInOrder
  <2>4. OpenIsLatest'
    <3>1. \A d \in Made : d \in Int
      BY DEF Made, Calls
    <3>2. c \in Int
      BY DEF Calls
    <3> QED BY <1>1, <3>1, <3>2, CallFacts DEF IInv, OpenIsLatest
  <2>5. ResultIsConsent' /\ SuccessIsConsent'
    BY <1>1, <2>1, CallFacts DEF IInv, ResultIsConsent, SuccessIsConsent, StackIsOpen, Success
  <2> QED BY <2>2, <2>3, <2>4, <2>5
<1>2. CASE Finishes
  <2>1. StackIsOpen' /\ OpenIsLatest'
    BY <1>2, FinishFacts DEF IInv, StackIsOpen, OpenIsLatest
  <2>2. MadeInOrder'
    BY <1>2, FinishFacts, OpenIsMade DEF IInv, MadeInOrder
  <2>3. ResultIsConsent'
    BY <1>2, FinishFacts DEF IInv, ResultIsConsent, Made
  <2>4. SuccessIsConsent'
    BY <1>2, FinishFacts DEF IInv, SuccessIsConsent, StackIsOpen, Made, Success
  <2> QED BY <2>1, <2>2, <2>3, <2>4
<1>3. CASE Return
  <2> DEFINE c == Last(stack)
  <2>1. /\ stack \in Seq(Calls) /\ stack # <<>> /\ stack' = Front(stack)
        /\ \A i, j \in 1..Len(stack) : stack[i] = stack[j] => i = j
    BY <1>3, ReturnFacts DEF IInv, TypeOK, StackIsOpen
  <2>2. \A d \in Calls : d # c => answer'[d] = answer[d]
    BY <1>3, ReturnFacts DEF IInv, TypeOK
  <2>3. StackIsOpen'
    <3>1. \A d \in Calls : answer'[d] # None => d \in Made' /\ ~Open(d)'
      BY <1>3, <2>2, ReturnFacts DEF IInv, StackIsOpen
    <3>2. \A i \in 1..Len(stack') : i \in 1..Len(stack) /\ stack'[i] = stack[i]
      BY <2>1, PopCloses
    <3> QED BY <1>3, <2>1, <3>1, <3>2, ReturnFacts DEF IInv, StackIsOpen
  <2>4. MadeInOrder' /\ OpenIsLatest' /\ ResultIsConsent'
    BY <1>3, ReturnFacts DEF IInv, MadeInOrder, OpenIsLatest, ResultIsConsent
  <2>5. SuccessIsConsent'
    <3>1. c \in Made /\ c \in Calls
      BY <1>3, ReturnFacts DEF Made
    <3>2. PICK r \in Responses(kind[c], result[c]) : answer' = [answer EXCEPT ![c] = r]
      BY <1>3, ReturnFacts
    <3>3. kind[c] # "access" /\ r = Success => result[c] \notin {None, 0}
      BY <1>3, <3>2, ReturnFacts DEF Responses, Success, Cancelled, OtherError
    <3>4. kind[c] # "access" /\ r = Success => by[c] = "accept"
      BY <3>1, <3>3 DEF IInv, ResultIsConsent
    <3>5. answer'[c] = r
      BY <3>1, <3>2 DEF IInv, TypeOK
    <3> QED BY <1>3, <2>2, <3>4, <3>5, ReturnFacts DEF IInv, SuccessIsConsent, Made
  <2> QED BY <2>3, <2>4, <2>5
<1>4. ASSUME UNCHANGED <<kind, handle, stack, result, by, answer>> PROVE Goal
  BY <1>4 DEF IInv, StackIsOpen, MadeInOrder, OpenIsLatest, ResultIsConsent,
     SuccessIsConsent, Made, Open
<1>5. CASE DeleteRequest
  BY <1>4, <1>5 DEF DeleteRequest, dialogVars
<1>6. CASE UNCHANGED vars
  BY <1>4, <1>6 DEF vars, dialogVars
<1> QED BY <1>1, <1>2, <1>3, <1>5, <1>6 DEF Next, Finishes
---------------------------------------------------------------------------
(* Dialogs and Requests *)

\* The map of m_appChooserDialogs follows the open application choosers.
LEMMA AppDialogsStep ==
    ASSUME IInv, [Next]_vars PROVE AppDialogsAreOpen'
<1> USE DEF AppDialogsAreOpen
<1>1. ASSUME NEW c \in Calls, NEW k \in Kind, NEW h \in Handles, Call(c, k, h)
      PROVE  AppDialogsAreOpen'
  <2>1. appDialogs' = IF k = "app" THEN [appDialogs EXCEPT ![h] = c] ELSE appDialogs
    BY <1>1 DEF Call
  <2>2. ASSUME NEW g \in Handles, NEW d \in Calls
        PROVE  appDialogs'[g] = d <=> Open(d)' /\ kind'[d] = "app" /\ handle'[d] = g
    <3>1. CASE d = c
      <4>1. appDialogs[g] # c
        BY <1>1, CallFacts DEF IInv
      <4> QED BY <1>1, <2>1, <3>1, <4>1, CallFacts DEF IInv, TypeOK
    <3>2. CASE d # c
      <4>1. Open(d)' <=> Open(d)
        BY <1>1, <3>2, CallFacts
      <4>2. Open(d) => /\ kind'[d] = kind[d] /\ handle'[d] = handle[d]
                       /\ handle[d] # h
        BY <1>1, CallFacts, OpenIsMade
      <4>3. g # h => appDialogs'[g] = appDialogs[g]
        BY <2>1 DEF IInv, TypeOK
      <4>4. appDialogs[h] # d
        BY <4>2 DEF IInv
      <4>5. appDialogs'[h] # d
        BY <2>1, <3>2, <4>4 DEF IInv, TypeOK
      <4> QED BY <4>1, <4>2, <4>3, <4>5 DEF IInv
    <3> QED BY <3>1, <3>2
  <2> QED BY <2>2
<1>2. CASE Finishes
  BY <1>2, FinishFacts DEF IInv
<1>3. CASE Return
  <2> DEFINE c == Last(stack)
  <2>1. /\ c \in Made /\ c \in Calls /\ Open(c) /\ c # None
        /\ \A d : Open(d)' <=> Open(d) /\ d # c
        /\ kind' = kind /\ handle' = handle /\ EndDialog(c)
    BY <1>3, ReturnFacts DEF Made, Calls
  <2>2. CASE kind[c] = "app"
    <3>1. appDialogs' = [appDialogs EXCEPT ![handle[c]] = None]
      BY <2>1, <2>2 DEF EndDialog
    <3>2. handle[c] \in Handles /\ appDialogs[handle[c]] = c
      BY <2>1, <2>2 DEF IInv, MadeInOrder
    <3>3. \A h \in Handles : appDialogs'[h] = IF h = handle[c] THEN None ELSE appDialogs[h]
      BY <3>1 DEF IInv, TypeOK
    <3>4. ASSUME NEW h \in Handles, NEW d \in Calls
          PROVE  appDialogs'[h] = d <=> Open(d)' /\ kind'[d] = "app" /\ handle'[d] = h
      <4>1. d # None
        BY DEF Calls
      <4>2. appDialogs[h] = d <=> Open(d) /\ kind[d] = "app" /\ handle[d] = h
        BY DEF IInv
      <4>3. appDialogs[h] = c <=> h = handle[c]
        BY <2>1, <2>2 DEF IInv
      <4> QED BY <2>1, <3>3, <4>1, <4>2, <4>3
    <3> QED BY <3>4
  <2>3. CASE kind[c] # "app"
    <3>1. appDialogs' = appDialogs
      BY <2>1, <2>3 DEF EndDialog
    <3> QED BY <2>1, <2>3, <3>1 DEF IInv
  <2> QED BY <2>2, <2>3
<1>4. CASE DeleteRequest
  BY <1>4 DEF DeleteRequest, dialogVars, IInv, Open
<1>5. CASE UNCHANGED vars
  BY <1>5 DEF vars, dialogVars, IInv, Open
<1> QED BY <1>1, <1>2, <1>3, <1>4, <1>5 DEF Next, Finishes

\* What is registered at a path whose calls are all over outlived its call.
LEMMA TakenByOthers ==
    ASSUME IInv, NEW h \in Handles, registered[h] # None, ~Open(registered[h])
    PROVE  /\ registered[h] \in Made
           /\ kind[registered[h]] \in {"app", "savefiles"}
<1>1. registered[h] \in Made
  BY DEF IInv, RegisteredIsRequest
<1>2. \/ kind[registered[h]] = "savefiles"
      \/ \E d \in doomed : d.call = registered[h]
  BY DEF IInv, PathsAreFreed
<1> QED BY <1>1, <1>2 DEF IInv, DoomedHasCause

RequestsOK == RegisteredIsRequest /\ DoomedHasCause /\ CloseReachesDialog /\ PathsAreFreed

\* A call registers its Request, or finds the path taken by one that outlived
\* its call.
LEMMA CallRequests ==
    ASSUME IInv, NEW c \in Calls, NEW k \in Kind, NEW h \in Handles, Call(c, k, h)
    PROVE  RequestsOK'
<1>0. CreateRequest(c, k, h) /\ c # None /\ result' = result
  BY DEF Call, Calls
<1>1. \A d \in Made : Excused(d) => Excused(d)'
  BY CallFacts DEF Excused
<1>2. ASSUME HasRequest(k), registered[h] # None PROVE Excused(c)'
  <2>1. registered[h] \in Made /\ handle[registered[h]] = h
    BY <1>2 DEF IInv, RegisteredIsRequest
  <2>2. ~Open(registered[h])
    BY <2>1, CallFacts
  <2> QED BY <1>2, <2>1, <2>2, TakenByOthers, CallFacts DEF Excused
<1>3. RegisteredIsRequest'
  <2>1. CASE ~HasRequest(k)
    BY <1>0, <2>1, CallFacts DEF CreateRequest, requestVars, IInv, RegisteredIsRequest
  <2>2. CASE HasRequest(k) /\ registered[h] = None
    <3>1. requests' = requests \cup {c} /\ registered' = [registered EXCEPT ![h] = c]
      BY <1>0, <2>2 DEF CreateRequest
    <3> QED BY <2>2, <3>1, CallFacts DEF IInv, RegisteredIsRequest, TypeOK
  <2>3. CASE HasRequest(k) /\ registered[h] # None
    <3>1. requests' = requests \cup {c} /\ registered' = registered
      BY <1>0, <2>3 DEF CreateRequest
    <3> QED BY <2>3, <3>1, CallFacts DEF IInv, RegisteredIsRequest
  <2> QED BY <2>1, <2>2, <2>3
<1>4. DoomedHasCause'
  <2>1. ASSUME NEW d \in doomed', d \notin doomed
        PROVE  d.call = c /\ HasRequest(k) /\ registered[h] # None
    BY <1>0, <2>1 DEF CreateRequest, requestVars, DeleteLater
  <2>2. ASSUME NEW d \in doomed
        PROVE  /\ d.call \in Made' /\ HasRequest(kind'[d.call])
               /\ Open(d.call)' => result'[d.call] # None \/ Excused(d.call)'
               /\ ~Open(d.call)' => kind'[d.call] \in {"app", "savefiles"}
    <3>1. /\ d.call \in Made /\ HasRequest(kind[d.call])
          /\ Open(d.call) => result[d.call] # None \/ Excused(d.call)
          /\ ~Open(d.call) => kind[d.call] \in {"app", "savefiles"}
      BY DEF IInv, DoomedHasCause
    <3> QED BY <3>1, <1>0, <1>1, CallFacts
  <2>3. ASSUME NEW d \in doomed', d \notin doomed
        PROVE  /\ d.call \in Made' /\ HasRequest(kind'[d.call])
               /\ Open(d.call)' /\ Excused(d.call)'
    BY <2>1, <2>3, <1>2, CallFacts
  <2> QED BY <2>2, <2>3 DEF DoomedHasCause
<1>5. CloseReachesDialog'
  <2>1. ASSUME NEW d \in Made, Open(d)
        PROVE  registered'[handle[d]] = registered[handle[d]]
    BY <1>0, <2>1, CallFacts DEF CreateRequest, requestVars, IInv, TypeOK, MadeInOrder
  <2>2. ASSUME NEW d \in Made, Open(d), result[d] = None, HasRequest(kind[d])
        PROVE  registered'[handle'[d]] = d \/ Excused(d)'
    BY <2>1, <2>2, <1>1, CallFacts DEF IInv, CloseReachesDialog, Excused
  <2>3. HasRequest(k) => registered'[h] = c \/ Excused(c)'
    BY <1>0, <1>2 DEF CreateRequest, IInv, TypeOK
  <2>4. \A d \in Made' : Open(d)' /\ result'[d] = None /\ HasRequest(kind'[d])
            => registered'[handle'[d]] = d \/ Excused(d)'
    BY <1>0, <2>2, <2>3, CallFacts
  <2> QED BY <2>4 DEF CloseReachesDialog, Excused
<1>6. PathsAreFreed'
  <2>1. ASSUME NEW g \in Handles, registered'[g] # None
        PROVE  registered'[g] = registered[g] \/ registered'[g] = c
    BY <1>0, <2>1 DEF CreateRequest, requestVars, IInv, TypeOK
  <2>2. doomed \subseteq doomed'
    BY <1>0 DEF CreateRequest, requestVars, DeleteLater
  <2>3. ASSUME NEW g \in Handles, registered[g] # None
        PROVE  /\ registered[g] \in Made
               /\ \/ Open(registered[g]) \/ kind[registered[g]] = "savefiles"
                  \/ \E d \in doomed : d.call = registered[g]
    BY <2>3 DEF IInv, PathsAreFreed, RegisteredIsRequest
  <2> QED BY <2>1, <2>2, <2>3, CallFacts DEF PathsAreFreed
<1> QED BY <1>3, <1>4, <1>5, <1>6 DEF RequestsOK

\* Finishing a dialog leaves its Request registered; a Close dooms it.
LEMMA FinishRequests ==
    ASSUME IInv, Finishes PROVE RequestsOK'
<1>1. doomed \subseteq doomed'
  BY DEF Finishes, UserAnswers, Tick, RequestClose, DeleteLater, requestVars
<1>2. \A d \in Made : Excused(d)' <=> Excused(d)
  BY FinishFacts DEF Excused
<1>3. \A d \in Calls : result[d] # None => result'[d] # None
  BY FinishFacts DEF Result
<1>4. RegisteredIsRequest' /\ PathsAreFreed'
  BY <1>1, FinishFacts DEF IInv, RegisteredIsRequest, PathsAreFreed
<1>5. CloseReachesDialog'
  <2>1. \A d \in Calls : result'[d] = None => result[d] = None
    BY <1>3
  <2> QED BY <2>1, <1>2, FinishFacts DEF IInv, CloseReachesDialog, Excused, Made
<1>6. DoomedHasCause'
  <2>1. ASSUME NEW d \in doomed', d \notin doomed
        PROVE  /\ d.call \in Made /\ HasRequest(kind[d.call])
               /\ Open(d.call) => result'[d.call] # None
               /\ ~Open(d.call) => kind[d.call] \in {"app", "savefiles"}
    <3>1. PICK h \in Handles : RequestClose(h)
      BY <2>1 DEF Finishes, UserAnswers, Tick, requestVars
    <3>2. registered[h] # None /\ d.call = registered[h]
      BY <2>1, <3>1 DEF RequestClose, DeleteLater
    <3>3. d.call \in Made /\ HasRequest(kind[d.call])
      BY <3>2 DEF IInv, RegisteredIsRequest
    <3>4. Open(d.call) => result'[d.call] = 0
      BY <3>1, <3>2, <3>3 DEF RequestClose, Done, IInv, TypeOK, Made
    <3> QED BY <3>2, <3>3, <3>4, TakenByOthers
  <2>2. ASSUME NEW d \in doomed
        PROVE  /\ d.call \in Made /\ HasRequest(kind[d.call])
               /\ Open(d.call) => result'[d.call] # None \/ Excused(d.call)
               /\ ~Open(d.call) => kind[d.call] \in {"app", "savefiles"}
    BY <1>3 DEF IInv, DoomedHasCause, Made
  <2> QED BY <2>1, <2>2, <1>2, FinishFacts DEF DoomedHasCause
<1> QED BY <1>4, <1>5, <1>6 DEF RequestsOK

\* Destroying a Request frees the path it was registered at.
LEMMA DestroyFacts ==
    ASSUME IInv, NEW c \in Made, Destroy(c)
    PROVE  /\ requests' = requests \ {c}
           /\ \A h \in Handles : registered'[h] \in {registered[h], None}
           /\ \A h \in Handles : registered'[h] # c
           /\ \A h \in Handles : h # handle[c] => registered'[h] = registered[h]
<1>1. handle[c] \in Handles /\ registered \in [Handles -> Calls \cup {None}] /\ c # None
  BY DEF IInv, MadeInOrder, TypeOK, Made, Calls
<1>2. CASE c \in requests
  <2>1. registered' = [registered EXCEPT ![handle[c]] = None]
    BY <1>2 DEF Destroy
  <2>2. \A h \in Handles : registered[h] = c => h = handle[c]
    BY <1>1 DEF IInv, RegisteredIsRequest
  <2> QED BY <1>1, <2>1, <2>2 DEF Destroy
<1>3. CASE c \notin requests
  BY <1>1, <1>3 DEF Destroy, IInv, RegisteredIsRequest
<1> QED BY <1>2, <1>3

\* A call that returns takes its Request along, dooms it, or leaves it behind
\* as SaveFiles() does.
LEMMA ReturnRequests ==
    ASSUME IInv, Return PROVE RequestsOK'
<1> DEFINE c == Last(stack)
<1>0. /\ c \in Made /\ c \in Calls /\ Open(c) /\ Made' = Made
      /\ UNCHANGED <<kind, handle, result>>
      /\ \A d : Open(d)' <=> Open(d) /\ d # c
      /\ EndDialog(c)
  BY ReturnFacts DEF Made
<1>1. \A d \in Made : Excused(d)' <=> Excused(d)
  BY <1>0 DEF Excused
<1>2. \A d \in Made : Open(d) /\ handle[d] = handle[c] => d = c
  BY <1>0, OneIsOpen
<1>3. CASE kind[c] \in {"open", "save"}
  <2>1. Destroy(c) /\ doomed' = {d \in doomed : d.call # c}
    BY <1>0, <1>3 DEF EndDialog
  <2>2. /\ requests' = requests \ {c}
        /\ \A h \in Handles : registered'[h] \in {registered[h], None}
        /\ \A h \in Handles : registered'[h] # c
        /\ \A h \in Handles : h # handle[c] => registered'[h] = registered[h]
    BY <1>0, <2>1, DestroyFacts
  <2>3. RegisteredIsRequest'
    BY <1>0, <2>2 DEF IInv, RegisteredIsRequest
  <2>4. DoomedHasCause'
    BY <1>0, <1>1, <2>1 DEF IInv, DoomedHasCause
  <2>5. CloseReachesDialog'
    <3>1. \A d \in Made : Open(d)' => registered'[handle[d]] = registered[handle[d]]
      BY <1>0, <1>2, <2>2 DEF IInv, MadeInOrder
    <3> QED BY <1>0, <3>1 DEF IInv, CloseReachesDialog
  <2>6. PathsAreFreed'
    BY <1>0, <2>1, <2>2 DEF IInv, PathsAreFreed
  <2> QED BY <2>3, <2>4, <2>5, <2>6 DEF RequestsOK
<1>4. CASE kind[c] \notin {"open", "save"}
  <2>1. UNCHANGED <<requests, registered>> /\ doomed \subseteq doomed'
    BY <1>0, <1>4 DEF EndDialog, requestVars, DeleteLater
  <2>2. ASSUME NEW d \in doomed', d \notin doomed
        PROVE  d.call = c /\ kind[c] = "app"
    BY <1>0, <1>4, <2>2 DEF EndDialog, requestVars, DeleteLater
  <2>3. kind[c] = "app" => \E d \in doomed' : d.call = c
    <3> DEFINE own == [call |-> c, level |-> Len(stack) - 1]
    <3>1. kind[c] = "app" => own \in doomed'
      BY <1>0 DEF EndDialog, DeleteLater
    <3>2. own.call = c
      OBVIOUS
    <3> QED BY <3>1, <3>2
  <2>4. kind[c] \in {"app", "savefiles", "access"}
    BY <1>0, <1>4 DEF EndDialog
  <2>5. RegisteredIsRequest' /\ CloseReachesDialog'
    BY <1>0, <2>1 DEF IInv, RegisteredIsRequest, CloseReachesDialog
  <2>6. DoomedHasCause'
    <3>1. ASSUME NEW d \in doomed
          PROVE  /\ d.call \in Made' /\ HasRequest(kind'[d.call])
                 /\ Open(d.call)' => result'[d.call] # None \/ Excused(d.call)'
                 /\ ~Open(d.call)' => kind'[d.call] \in {"app", "savefiles"}
      <4>1. /\ d.call \in Made /\ HasRequest(kind[d.call])
            /\ Open(d.call) => result[d.call] # None \/ Excused(d.call)
            /\ ~Open(d.call) => kind[d.call] \in {"app", "savefiles"}
        BY DEF IInv, DoomedHasCause
      <4> QED BY <4>1, <1>0, <1>1, <2>4 DEF HasRequest
    <3>2. ASSUME NEW d \in doomed', d \notin doomed
          PROVE  /\ d.call \in Made' /\ HasRequest(kind'[d.call])
                 /\ ~Open(d.call)' /\ kind'[d.call] = "app"
      BY <2>2, <3>2, <1>0 DEF HasRequest
    <3> QED BY <3>1, <3>2 DEF DoomedHasCause
  <2>7. PathsAreFreed'
    <3>1. ASSUME NEW h \in Handles, registered[h] = c
          PROVE  kind[c] = "savefiles" \/ \E d \in doomed' : d.call = c
      <4>1. HasRequest(kind[c])
        BY <1>0, <3>1 DEF IInv, RegisteredIsRequest, Calls
      <4> QED BY <2>3, <2>4, <4>1 DEF HasRequest
    <3> QED BY <1>0, <2>1, <3>1 DEF IInv, PathsAreFreed
  <2> QED BY <2>5, <2>6, <2>7 DEF RequestsOK
<1> QED BY <1>3, <1>4

\* A Request that is deleted late frees only a path that no open dialog needs,
\* unless that dialog had its own Request closed or refused.
LEMMA DeleteRequests ==
    ASSUME IInv, DeleteRequest PROVE RequestsOK'
<1>1. PICK e \in doomed : Destroy(e.call) /\ doomed' = doomed \ {e}
  BY DEF DeleteRequest
<1>2. e.call \in Made /\ UNCHANGED <<kind, handle, stack, result>>
  BY DEF DeleteRequest, dialogVars, IInv, DoomedHasCause
<1>3. Made' = Made /\ \A d : Open(d)' <=> Open(d)
  BY <1>2 DEF Made, Open
<1>4. \A d \in Made : Excused(d)' <=> Excused(d)
  BY <1>2, <1>3 DEF Excused
<1>5. /\ requests' = requests \ {e.call}
      /\ \A h \in Handles : registered'[h] \in {registered[h], None}
      /\ \A h \in Handles : registered'[h] # e.call
      /\ \A h \in Handles : h # handle[e.call] => registered'[h] = registered[h]
  BY <1>1, <1>2, DestroyFacts
<1>6. RegisteredIsRequest'
  BY <1>2, <1>3, <1>5 DEF IInv, RegisteredIsRequest
<1>7. DoomedHasCause'
  BY <1>1, <1>2, <1>3, <1>4 DEF IInv, DoomedHasCause
<1>8. CloseReachesDialog'
  <2>1. ASSUME NEW d \in Made, Open(d), handle[d] = handle[e.call], result[d] = None
        PROVE  Excused(d)
    <3>1. CASE d = e.call
      BY <2>1, <3>1 DEF IInv, DoomedHasCause
    <3>2. CASE d # e.call
      <4>1. ~Open(e.call)
        BY <2>1, <3>2, OneIsOpen
      <4>2. kind[e.call] \in {"app", "savefiles"}
        BY <4>1 DEF IInv, DoomedHasCause
      <4>3. e.call < d
        BY <1>2, <2>1, <3>2 DEF IInv, OpenIsLatest, Made, Calls
      <4> QED BY <1>2, <2>1, <4>2, <4>3 DEF Excused
    <3> QED BY <3>1, <3>2
  <2>2. ASSUME NEW d \in Made, Open(d), result[d] = None, HasRequest(kind[d])
        PROVE  registered[handle[d]] = d \/ Excused(d)
    BY <2>2 DEF IInv, CloseReachesDialog, Excused
  <2>3. \A d \in Made : handle[d] \in Handles
    BY DEF IInv, MadeInOrder
  <2>4. \A d \in Made : Open(d) /\ result[d] = None /\ HasRequest(kind[d])
            => registered'[handle[d]] = d \/ Excused(d)
    BY <1>5, <2>1, <2>2, <2>3
  <2> QED BY <1>2, <1>3, <2>4 DEF CloseReachesDialog, Excused
<1>9. PathsAreFreed'
  BY <1>1, <1>2, <1>3, <1>5 DEF IInv, PathsAreFreed
<1> QED BY <1>6, <1>7, <1>8, <1>9 DEF RequestsOK

---------------------------------------------------------------------------
(* The theorems *)

LEMMA InitInvariant == Init => IInv
<1> SUFFICES ASSUME Init PROVE IInv
  OBVIOUS
<1> USE DEF Init
<1>1. Made = {} /\ \A c : ~Open(c)
  BY DEF Made, Open, Contains
<1>2. TypeOK
  BY DEF TypeOK, By
<1>3. StackIsOpen /\ MadeInOrder /\ OpenIsLatest /\ ResultIsConsent
  BY <1>1 DEF StackIsOpen, MadeInOrder, OpenIsLatest, ResultIsConsent
<1>4. RegisteredIsRequest /\ DoomedHasCause
  BY DEF RegisteredIsRequest, DoomedHasCause
<1>5. AppDialogsAreOpen
  BY <1>1 DEF AppDialogsAreOpen, Calls
<1>6. CloseReachesDialog /\ PathsAreFreed /\ SuccessIsConsent
  BY <1>1 DEF CloseReachesDialog, PathsAreFreed, SuccessIsConsent
<1> QED BY <1>2, <1>3, <1>4, <1>5, <1>6 DEF IInv

\* The inductive invariant of the dialogs.
THEOREM Invariant == Spec => []IInv
<1>1. IInv /\ [Next]_vars => IInv'
  <2> SUFFICES ASSUME IInv, [Next]_vars PROVE IInv'
    OBVIOUS
  <2>1. RequestsOK'
    <3>1. CASE UNCHANGED vars
      BY <3>1 DEF IInv, RequestsOK, RegisteredIsRequest, DoomedHasCause, Excused,
         CloseReachesDialog, PathsAreFreed, Made, Open, vars, dialogVars, requestVars
    <3> QED BY <3>1, CallRequests, FinishRequests, ReturnRequests, DeleteRequests
            DEF Next, Finishes
  <2> QED BY <2>1, TypeStep, CallsStep, AppDialogsStep DEF IInv, RequestsOK
<1> QED BY InitInvariant, <1>1, PTL DEF Spec

\* The portals keep every variable in its range; in particular no countdown
\* goes on below zero.
THEOREM TypeCorrect == Spec => []TypeOK
BY Invariant, PTL DEF IInv

\* m_appChooserDialogs has exactly the open application choosers, each under
\* its own handle.
THEOREM MapFollowsDialogs == Spec => []AppDialogsAreOpen
BY Invariant, PTL DEF IInv

\* A Close reaches its dialog, unless an earlier call with the same handle left
\* its Request behind.
THEOREM ClosesReachDialogs == Spec => []CloseReachesDialog
BY Invariant, PTL DEF IInv

\* Only the Requests of SaveFiles() keep their paths when their calls are over.
THEOREM PathsComeBack == Spec => []PathsAreFreed
BY Invariant, PTL DEF IInv

\* Ranges, the map of application choosers and the registered paths, as one
\* invariant.
THEOREM DialogsStayConsistent == Spec => []DialogsAreConsistent
<1>1. IInv => DialogsAreConsistent
  BY DEF IInv, DialogsAreConsistent
<1> QED BY <1>1, Invariant, PTL

\* No chooser reports success without the user's consent.
THEOREM ConsentIsNeeded == Spec => []SuccessIsConsent
BY Invariant, PTL DEF IInv

---------------------------------------------------------------------------
(* PortalDialogs implements NestedCalls *)

Answered == {c \in Calls : answer[c] # None}

\* Every step of the portals is a call that arrives, an answer to the latest
\* call, or neither.
LEMMA NestedStep == IInv /\ [Next]_vars => [Nested!Next]_<<stack, Answered>>
<1> SUFFICES ASSUME IInv, [Next]_vars PROVE [Nested!Next]_<<stack, Answered>>
  OBVIOUS
<1>1. ASSUME NEW c \in Calls, NEW k \in Kind, NEW h \in Handles, Call(c, k, h)
      PROVE  Nested!Arrive(c)
  <2>1. stack' = Append(stack, c) /\ answer' = answer
    BY <1>1 DEF Call
  <2>2. c \notin Made
    BY <1>1, CallFacts
  <2> QED BY <2>1, <2>2 DEF Nested!Arrive, Answered, IInv, StackIsOpen
<1>2. CASE Finishes
  BY <1>2, FinishFacts DEF Answered
<1>3. CASE Return
  <2>1. PICK r \in Responses(kind[Last(stack)], result[Last(stack)]) :
            answer' = [answer EXCEPT ![Last(stack)] = r]
    BY <1>3, ReturnFacts
  <2>2. Last(stack) \in Calls /\ result[Last(stack)] \in Result
    BY <1>3, ReturnFacts DEF Made, IInv, TypeOK
  <2>3. r # None
    BY <2>1, <2>2 DEF Responses, Result, Success, Cancelled, OtherError
  <2>4. Answered' = Answered \cup {Last(stack)}
    BY <2>1, <2>2, <2>3 DEF Answered, IInv, TypeOK
  <2>5. stack # <<>> /\ stack' = Front(stack)
    BY <1>3, ReturnFacts
  <2>6. Nested!Answer
    BY <2>4, <2>5 DEF Nested!Answer, Answered, Front, Last
  <2> QED BY <2>6 DEF Nested!Next
<1>4. CASE DeleteRequest
  BY <1>4 DEF DeleteRequest, dialogVars, Answered
<1>5. CASE UNCHANGED vars
  BY <1>5 DEF vars, dialogVars, Answered
<1> QED BY <1>1, <1>2, <1>3, <1>4, <1>5 DEF Next, Finishes, Nested!Next

\* Towards DBus the portals are a stack of calls: each is answered at most
\* once, and never before a call that arrived later.
THEOREM ImplementsNestedCalls == Spec => NestedSpec
<1>1. Init => Nested!Init
  BY DEF Init, Nested!Init
<1>2. IInv /\ [Next]_vars =>
          [Nested!Next]_<<stack, {c \in Calls : answer[c] # None}>>
  BY NestedStep DEF Answered
<1> QED BY <1>1, <1>2, Invariant, PTL DEF Spec, NestedSpec, Nested!Spec
===========================================================================
