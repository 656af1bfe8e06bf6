--------------------- MODULE FormatNegotiationProofs ---------------------
(***************************************************************************)
(* Theorems about FormatNegotiation, for every set of formats, modifiers   *)
(* and devices.                                                            *)
(***************************************************************************)
EXTENDS FormatNegotiation, TLAPS

USE FormatsAssumption

\* Only formats with a known pixel size are ever recorded for shared memory.
ShmHasBpp == pending.shm \subseteq WithBpp /\ current.shm \subseteq WithBpp

\* PipeWire agrees with a stream that exists.
PickedFromStream == picked # None \/ negotiated # None => connected

IInv ==
    /\ TypeOK
    /\ OffersFollowConstraints
    /\ DevicesAccounted
    /\ AbortNeedsDmabufFormat
    /\ ShmHasBpp
    /\ PickedFromStream

---------------------------------------------------------------------------
(* The operators *)

\* queryDmabufModifiers() returns modifiers.
LEMMA UsableModifiersType ==
    ASSUME NEW c \in Constraints, NEW f
    PROVE  UsableModifiers(c, f) \subseteq Modifiers \cup {Invalid}
BY DEF UsableModifiers, Constraints, Pairs

\* The formats of buildFormats() one by one.
LEMMA BuildFormatsMembers ==
    ASSUME NEW c, NEW av, NEW o
    PROVE  o \in BuildFormats(c, av) <=>
               \/ \E f \in Fourccs : /\ ~av /\ UsableModifiers(c, f) # {}
                                     /\ o = [kind |-> "dmabuf", fourcc |-> f,
                                            mods |-> UsableModifiers(c, f)]
               \/ \E f \in c.shm : \E g \in Variants(f) :
                      o = [kind |-> "shm", fourcc |-> g, mods |-> {}]
<1>1. ASSUME NEW f, UsableModifiers(c, f) # {}
      PROVE  BuildFormat(f, UsableModifiers(c, f)) =
                 {[kind |-> "dmabuf", fourcc |-> f,
                   mods |-> UsableModifiers(c, f)]}
  BY <1>1 DEF BuildFormat
<1>2. ASSUME NEW f
      PROVE  BuildFormat(f, {}) =
                 {[kind |-> "shm", fourcc |-> g, mods |-> {}] : g \in Variants(f)}
  BY DEF BuildFormat
<1>3. o \in BuildFormats(c, av) <=>
          \/ \E f \in Fourccs : /\ ~av /\ UsableModifiers(c, f) # {}
                                /\ o \in BuildFormat(f, UsableModifiers(c, f))
          \/ \E f \in c.shm : o \in BuildFormat(f, {})
  <2> DEFINE fs == {g \in Fourccs : ~av /\ UsableModifiers(c, g) # {}}
             Dmabuf(f) == BuildFormat(f, UsableModifiers(c, f))
             Shm(f) == BuildFormat(f, {})
             left == UNION {Dmabuf(f) : f \in fs}
             right == UNION {Shm(f) : f \in c.shm}
  <2>1. BuildFormats(c, av) = left \cup right
    BY DEF BuildFormats
  <2>2. \A f : f \in fs <=> f \in Fourccs /\ ~av /\ UsableModifiers(c, f) # {}
    OBVIOUS
  <2> HIDE DEF fs, Dmabuf, Shm
  <2>3. o \in left <=> \E f \in fs : o \in Dmabuf(f)
    OBVIOUS
  <2>4. o \in right <=> \E f \in c.shm : o \in Shm(f)
    OBVIOUS
  <2> HIDE DEF left, right
  <2>5. \/ \E f \in fs : o \in Dmabuf(f)
        \/ \E f \in c.shm : o \in Shm(f)
        <=> o \in BuildFormats(c, av)
    BY <2>1, <2>3, <2>4
  <2> QED BY <2>2, <2>5 DEF Dmabuf, Shm
<1> QED BY <1>1, <1>2, <1>3

\* buildFormats() returns formats.
LEMMA BuildFormatsType ==
    ASSUME NEW c \in Constraints, NEW av \in BOOLEAN
    PROVE  BuildFormats(c, av) \subseteq Offers
<1> SUFFICES ASSUME NEW o \in BuildFormats(c, av) PROVE o \in Offers
  OBVIOUS
<1>1. c.shm \subseteq Fourccs
  BY DEF Constraints
<1>2. \A f \in Fourccs : f \in UNION {Variants(h) : h \in Fourccs}
  BY DEF Variants
<1>3. CASE \E f \in Fourccs : /\ ~av /\ UsableModifiers(c, f) # {}
                              /\ o = [kind |-> "dmabuf", fourcc |-> f,
                                     mods |-> UsableModifiers(c, f)]
  BY <1>2, <1>3, UsableModifiersType DEF Offers
<1>4. CASE \E f \in c.shm : \E g \in Variants(f) :
              o = [kind |-> "shm", fourcc |-> g, mods |-> {}]
  BY <1>1, <1>4 DEF Offers
<1> QED BY <1>3, <1>4, BuildFormatsMembers

\* Every format of buildFormats() has a fourcc of the constraints: one of the
\* modifier pairs unless they are avoided, or one of the shared-memory formats,
\* possibly without its alpha.
LEMMA BuildFormatsSound ==
    ASSUME NEW c, NEW av, NEW o \in BuildFormats(c, av)
    PROVE  \/ o.kind = "shm" /\ \E f \in c.shm : o.fourcc \in Variants(f)
           \/ /\ o.kind = "dmabuf" /\ ~av
              /\ \E p \in c.pairs : p[1] = o.fourcc
<1>1. CASE \E f \in c.shm : \E g \in Variants(f) :
              o = [kind |-> "shm", fourcc |-> g, mods |-> {}]
  BY <1>1
<1>2. CASE \E f \in Fourccs : /\ ~av /\ UsableModifiers(c, f) # {}
                              /\ o = [kind |-> "dmabuf", fourcc |-> f,
                                     mods |-> UsableModifiers(c, f)]
  BY <1>2 DEF UsableModifiers
<1> QED BY <1>1, <1>2, BuildFormatsMembers

\* buildFormats() leaves the fixation to others.
LEMMA NothingFixated ==
    ASSUME NEW c, NEW av
    PROVE  {o \in BuildFormats(c, av) : o.kind # "fixated"} = BuildFormats(c, av)
BY BuildFormatsSound

\* updateStreamParam() leaves its two variables well typed.
LEMMA UpdateParamsType ==
    ASSUME NEW c \in Constraints, NEW av \in BOOLEAN, NEW first \in SUBSET Offers,
           TypeOK, UpdateParams(c, av, first)
    PROVE  /\ life' \in {"running", "destroyed"} \cup Fault
           /\ offered' \in SUBSET Offers
BY BuildFormatsType DEF UpdateParams, BuildFaults, Fault, TypeOK

\* updateStreamParam() either sends new offers or goes wrong in one of the two
\* ways of buildFormats().
LEMMA UpdateParamsCases ==
    ASSUME NEW c, NEW av, NEW first, Running, UpdateParams(c, av, first)
    PROVE  \/ life' = "running" /\ offered' = first \cup BuildFormats(c, av)
           \/ life' = "null_device"
           \/ /\ life' = "abort"
              /\ c.shm \subseteq Convertible =>
                     \E p \in c.pairs : p[1] \notin Convertible
BY DEF UpdateParams, BuildFaults, Running

---------------------------------------------------------------------------
(* Type correctness *)

LEMMA NoConstraintsType == NoConstraints \in Constraints
BY DEF NoConstraints, Constraints

\* The constraints a handler of the capture session leaves pending are
\* constraints.
LEMMA PendingType ==
    ASSUME TypeOK, Session PROVE pending' \in Constraints
<1> USE DEF TypeOK
<1>1. CASE BufferSizeChanged
  BY <1>1 DEF BufferSizeChanged, Constraints
<1>2. ASSUME NEW f \in Fourccs, ShmFormatChanged(f)
      PROVE  pending' \in Constraints
  BY <1>2 DEF ShmFormatChanged, Constraints
<1>3. ASSUME NEW f \in Fourccs, NEW mods \in SUBSET (Modifiers \cup {Invalid}),
             DmabufFormatChanged(f, mods)
      PROVE  pending' \in Constraints
  <2>1. {f} \X mods \subseteq Pairs
    BY DEF Pairs
  <2> QED BY <1>3, <2>1 DEF DmabufFormatChanged, Constraints
<1>4. ASSUME NEW d \in Devices \cup {None}, DmabufDeviceChanged(d)
      PROVE  pending' \in Constraints
  BY <1>4 DEF DmabufDeviceChanged, Constraints
<1>5. CASE SessionDone
  BY <1>5, NoConstraintsType DEF SessionDone, MoveConstraints
<1> QED BY <1>1, <1>2, <1>3, <1>4, <1>5 DEF Session

\* The format a modifier is fixated in is an offer.
LEMMA FixatedType ==
    ASSUME NEW o \in Offers, NEW m \in Modifiers \cup {Invalid}
    PROVE  FixateFormat(o.fourcc, m) \in Offers
BY DEF Offers, FixateFormat

\* Every handler and every message keeps the state well typed.
LEMMA TypeStep == TypeOK /\ [Next]_vars => TypeOK'
<1> SUFFICES ASSUME TypeOK, [Next]_vars PROVE TypeOK'
  OBVIOUS
<1> USE DEF TypeOK, negotiationVars
<1>1. CASE BufferSizeChanged
  BY <1>1, PendingType DEF BufferSizeChanged, Session
<1>2. ASSUME NEW f \in Fourccs, ShmFormatChanged(f) PROVE TypeOK'
  BY <1>2, PendingType DEF ShmFormatChanged, Session
<1>3. ASSUME NEW f \in Fourccs, NEW mods \in SUBSET (Modifiers \cup {Invalid}),
             DmabufFormatChanged(f, mods)
      PROVE  TypeOK'
  BY <1>3, PendingType DEF DmabufFormatChanged, Session
<1>4. ASSUME NEW d \in Devices \cup {None}, DmabufDeviceChanged(d) PROVE TypeOK'
  <2>1. pending' \in Constraints
    BY <1>4, PendingType DEF Session
  <2>2. lost' \in SUBSET Devices
    BY <1>4 DEF DmabufDeviceChanged, Constraints
  <2> QED BY <1>4, <2>1, <2>2 DEF DmabufDeviceChanged
<1>5. CASE SessionDone
  <2>1. /\ pending' \in Constraints /\ current' \in Constraints
        /\ devices' \in SUBSET Devices
    BY <1>5, PendingType DEF SessionDone, MoveConstraints, Session
  <2>2. /\ life' \in {"running", "destroyed"} \cup Fault
        /\ offered' \in SUBSET Offers
    BY <1>5, UpdateParamsType DEF SessionDone
  <2> QED BY <1>5, <2>1, <2>2 DEF SessionDone
<1>6. CASE CreateStream
  <2>1. /\ life' \in {"running", "destroyed"} \cup Fault
        /\ offered' \in SUBSET Offers
    BY <1>6, UpdateParamsType DEF CreateStream
  <2> QED BY <1>6, <2>1 DEF CreateStream
<1>7. CASE ParamsArrive
  BY <1>7 DEF ParamsArrive
<1>8. CASE Pick
  BY <1>8 DEF Pick, PickFormat
<1>9. CASE ParamShm
  BY <1>9 DEF ParamShm
<1>10. CASE ParamFixated
  BY <1>10 DEF ParamFixated, Fault
<1>11. CASE ParamChoice
  <2>1. picked \in Offers
    BY <1>11 DEF ParamChoice, FixateFormat
  <2>2. /\ life' \in {"running", "destroyed"} \cup Fault
        /\ offered' \in SUBSET Offers /\ avoid' \in BOOLEAN
    <3>1. \/ life' = "assertion" /\ UNCHANGED <<avoid, offered>>
          \/ life' = "null_device" /\ UNCHANGED <<avoid, offered>>
          \/ /\ \E m \in Modifiers \cup {Invalid} :
                   UpdateParams(current, avoid,
                                {FixateFormat(picked.fourcc, m)})
             /\ UNCHANGED avoid
          \/ avoid' = TRUE /\ UpdateParams(current, TRUE, {})
      BY <1>11 DEF ParamChoice, FixateFormat
    <3>2. ASSUME NEW m \in Modifiers \cup {Invalid},
                 UpdateParams(current, avoid,
                              {FixateFormat(picked.fourcc, m)})
          PROVE  /\ life' \in {"running", "destroyed"} \cup Fault
                 /\ offered' \in SUBSET Offers
      BY <2>1, <3>2, UpdateParamsType, FixatedType
    <3>3. ASSUME UpdateParams(current, TRUE, {})
          PROVE  /\ life' \in {"running", "destroyed"} \cup Fault
                 /\ offered' \in SUBSET Offers
      BY <3>3, UpdateParamsType
    <3> QED BY <3>1, <3>2, <3>3 DEF Fault
  <2> QED BY <1>11, <2>1, <2>2 DEF ParamChoice, FixateFormat
<1>12. CASE AddBuffer
  BY <1>12 DEF AddBuffer, Fault
<1>13. CASE Destroy
  BY <1>13, NoConstraintsType DEF Destroy
<1>14. CASE UNCHANGED vars
  BY <1>14 DEF vars
<1> QED
  BY <1>1, <1>2, <1>3, <1>4, <1>5, <1>6, <1>7, <1>8, <1>9, <1>10, <1>11,
     <1>12, <1>13, <1>14
  DEF Next, Session, ParamChanged

\* Every variable keeps its range.
THEOREM TypeCorrect == Spec => []TypeOK
<1>1. Init => TypeOK
  BY NoConstraintsType DEF Init, TypeOK
<1> QED BY <1>1, TypeStep, PTL DEF Spec

---------------------------------------------------------------------------
(* The inductive invariant *)

\* A stream starts without constraints, devices and offers.
LEMMA InitInvariant == Init => IInv
<1> SUFFICES ASSUME Init PROVE IInv
  OBVIOUS
<1>1. TypeOK
  BY NoConstraintsType DEF Init, TypeOK
<1>2. OffersFollowConstraints
  BY DEF Init, OffersFollowConstraints
<1>3. DevicesAccounted /\ ShmHasBpp
  BY DEF Init, DevicesAccounted, ShmHasBpp, NoConstraints
<1>4. AbortNeedsDmabufFormat /\ PickedFromStream
  BY DEF Init, AbortNeedsDmabufFormat, PickedFromStream
<1> QED BY <1>1, <1>2, <1>3, <1>4 DEF IInv

\* New constraints, or a new decision on dma-bufs, come with the offers they
\* allow, unless buildFormats() does not return.
LEMMA OffersStep ==
    ASSUME IInv, [Next]_vars PROVE OffersFollowConstraints'
<1> USE DEF IInv, TypeOK, OffersFollowConstraints, Running, negotiationVars
<1>1. CASE BufferSizeChanged
  BY <1>1 DEF BufferSizeChanged
<1>2. ASSUME NEW f \in Fourccs, ShmFormatChanged(f)
      PROVE  OffersFollowConstraints'
  BY <1>2 DEF ShmFormatChanged
<1>3. ASSUME NEW f \in Fourccs, NEW mods \in SUBSET (Modifiers \cup {Invalid}),
             DmabufFormatChanged(f, mods)
      PROVE  OffersFollowConstraints'
  BY <1>3 DEF DmabufFormatChanged
<1>4. ASSUME NEW d \in Devices \cup {None}, DmabufDeviceChanged(d)
      PROVE  OffersFollowConstraints'
  BY <1>4 DEF DmabufDeviceChanged
<1>5. CASE SessionDone
  <2> SUFFICES ASSUME Running', connected' PROVE OffersFollowConstraints'
    OBVIOUS
  <2>1. current' = pending /\ connected /\ avoid' = avoid
    BY <1>5 DEF SessionDone, MoveConstraints
  <2>2. offered' = BuildFormats(pending, avoid)
    BY <1>5, <2>1 DEF SessionDone, UpdateParams, BuildFaults
  <2>3. BuildFormats(pending, avoid) = BuildFormats(current', avoid')
    BY <2>1
  <2> QED BY <2>2, <2>3, NothingFixated, BuildFormatsSound
<1>6. CASE CreateStream
  <2> SUFFICES ASSUME Running', connected' PROVE OffersFollowConstraints'
    OBVIOUS
  <2>1. current' = current /\ avoid' = avoid
    BY <1>6 DEF CreateStream
  <2>2. offered' = BuildFormats(current, avoid)
    BY <1>6, <2>1 DEF CreateStream, UpdateParams, BuildFaults
  <2>3. BuildFormats(current, avoid) = BuildFormats(current', avoid')
    BY <2>1
  <2> QED BY <2>2, <2>3, NothingFixated, BuildFormatsSound
<1>7. CASE ParamsArrive
  BY <1>7 DEF ParamsArrive
<1>8. CASE Pick
  BY <1>8 DEF Pick, PickFormat
<1>9. CASE ParamShm
  BY <1>9 DEF ParamShm
<1>10. CASE ParamFixated
  BY <1>10 DEF ParamFixated
<1>11. CASE ParamChoice
  <2> SUFFICES ASSUME Running' PROVE OffersFollowConstraints'
    OBVIOUS
  <2>1. current' = current
    BY <1>11 DEF ParamChoice, FixateFormat
  <2>2. ASSUME NEW m \in Modifiers \cup {Invalid}, HasDrmFourcc(picked.fourcc),
               UpdateParams(current, avoid,
                            {FixateFormat(picked.fourcc, m)}),
               UNCHANGED avoid
        PROVE  OffersFollowConstraints'
    <3> DEFINE fixated == FixateFormat(picked.fourcc, m)
    <3>1. fixated.kind = "fixated" /\ fixated.fourcc = picked.fourcc
      BY <1>11 DEF ParamChoice, FixateFormat, Offers
    <3>2. offered' = {fixated} \cup BuildFormats(current, avoid)
      BY <2>2 DEF UpdateParams, BuildFaults
    <3>3. BuildFormats(current, avoid) = BuildFormats(current', avoid')
      BY <2>1, <2>2
    <3>4. ~avoid' /\ \E p \in current'.pairs : p[1] = fixated.fourcc
      BY <2>1, <2>2, <3>1 DEF HasDrmFourcc
    <3> HIDE DEF fixated
    <3>5. {o \in offered' : o.kind # "fixated"} = BuildFormats(current', avoid')
      BY <3>1, <3>2, <3>3, BuildFormatsSound
    <3>6. \A o \in offered' : o.kind = "fixated" => o = fixated
      BY <3>2, BuildFormatsSound
    <3> QED BY <3>4, <3>5, <3>6
  <2>3. ASSUME avoid' = TRUE, UpdateParams(current, TRUE, {})
        PROVE  OffersFollowConstraints'
    <3>1. offered' = BuildFormats(current, TRUE)
      BY <2>3 DEF UpdateParams, BuildFaults
    <3>2. BuildFormats(current, TRUE) = BuildFormats(current', avoid')
      BY <2>1, <2>3
    <3> QED BY <3>1, <3>2, NothingFixated, BuildFormatsSound
  <2> QED BY <1>11, <2>2, <2>3 DEF ParamChoice, FixateFormat
<1>12. CASE AddBuffer
  BY <1>12 DEF AddBuffer
<1>13. CASE Destroy
  BY <1>13 DEF Destroy
<1>14. CASE UNCHANGED vars
  BY <1>14 DEF vars
<1> QED
  BY <1>1, <1>2, <1>3, <1>4, <1>5, <1>6, <1>7, <1>8, <1>9, <1>10, <1>11,
     <1>12, <1>13, <1>14
  DEF Next, Session, ParamChanged

\* Opening a device, moving the constraints and the destructor keep the gbm
\* devices of the two sets of constraints apart and accounted for.
LEMMA DevicesStep ==
    ASSUME IInv, [Next]_vars PROVE DevicesAccounted'
<1> USE DEF IInv, TypeOK, DevicesAccounted, negotiationVars
<1>1. CASE BufferSizeChanged
  BY <1>1 DEF BufferSizeChanged, Constraints
<1>2. ASSUME NEW f \in Fourccs, ShmFormatChanged(f)
      PROVE  DevicesAccounted'
  BY <1>2 DEF ShmFormatChanged, Constraints
<1>3. ASSUME NEW f \in Fourccs, NEW mods \in SUBSET (Modifiers \cup {Invalid}),
             DmabufFormatChanged(f, mods)
      PROVE  DevicesAccounted'
  BY <1>3 DEF DmabufFormatChanged, Constraints
<1>4. ASSUME NEW d \in Devices \cup {None}, DmabufDeviceChanged(d)
      PROVE  DevicesAccounted'
  BY <1>4 DEF DmabufDeviceChanged, Constraints
<1>5. CASE SessionDone
  BY <1>5 DEF SessionDone, MoveConstraints, NoConstraints, Constraints
<1>6. CASE CreateStream
  BY <1>6 DEF CreateStream
<1>7. CASE ParamsArrive
  BY <1>7 DEF ParamsArrive
<1>8. CASE Pick
  BY <1>8 DEF Pick, PickFormat
<1>9. CASE ParamShm
  BY <1>9 DEF ParamShm
<1>10. CASE ParamFixated
  BY <1>10 DEF ParamFixated
<1>11. CASE ParamChoice
  BY <1>11 DEF ParamChoice, FixateFormat
<1>12. CASE AddBuffer
  BY <1>12 DEF AddBuffer
<1>13. CASE Destroy
  BY <1>13 DEF Destroy, NoConstraints
<1>14. CASE UNCHANGED vars
  BY <1>14 DEF vars
<1> QED
  BY <1>1, <1>2, <1>3, <1>4, <1>5, <1>6, <1>7, <1>8, <1>9, <1>10, <1>11,
     <1>12, <1>13, <1>14
  DEF Next, Session, ParamChanged

\* handleCaptureSessionShmFormatChanged() is the only writer of the list.
LEMMA ShmStep ==
    ASSUME IInv, [Next]_vars PROVE ShmHasBpp'
<1> USE DEF IInv, TypeOK, ShmHasBpp, negotiationVars
<1>1. CASE BufferSizeChanged
  BY <1>1 DEF BufferSizeChanged, Constraints
<1>2. ASSUME NEW f \in Fourccs, ShmFormatChanged(f)
      PROVE  ShmHasBpp'
  BY <1>2 DEF ShmFormatChanged, Constraints
<1>3. ASSUME NEW f \in Fourccs, NEW mods \in SUBSET (Modifiers \cup {Invalid}),
             DmabufFormatChanged(f, mods)
      PROVE  ShmHasBpp'
  BY <1>3 DEF DmabufFormatChanged, Constraints
<1>4. ASSUME NEW d \in Devices \cup {None}, DmabufDeviceChanged(d)
      PROVE  ShmHasBpp'
  BY <1>4 DEF DmabufDeviceChanged, Constraints
<1>5. CASE SessionDone
  BY <1>5 DEF SessionDone, MoveConstraints, NoConstraints
<1>6. CASE CreateStream
  BY <1>6 DEF CreateStream
<1>7. CASE ParamsArrive
  BY <1>7 DEF ParamsArrive
<1>8. CASE Pick
  BY <1>8 DEF Pick, PickFormat
<1>9. CASE ParamShm
  BY <1>9 DEF ParamShm
<1>10. CASE ParamFixated
  BY <1>10 DEF ParamFixated
<1>11. CASE ParamChoice
  BY <1>11 DEF ParamChoice, FixateFormat
<1>12. CASE AddBuffer
  BY <1>12 DEF AddBuffer
<1>13. CASE Destroy
  BY <1>13 DEF Destroy, NoConstraints
<1>14. CASE UNCHANGED vars
  BY <1>14 DEF vars
<1> QED
  BY <1>1, <1>2, <1>3, <1>4, <1>5, <1>6, <1>7, <1>8, <1>9, <1>10, <1>11,
     <1>12, <1>13, <1>14
  DEF Next, Session, ParamChanged

\* A pick needs a stream, and the destructor drops both.
LEMMA PickedStep ==
    ASSUME IInv, [Next]_vars PROVE PickedFromStream'
<1> USE DEF IInv, TypeOK, PickedFromStream, negotiationVars
<1>1. CASE BufferSizeChanged
  BY <1>1 DEF BufferSizeChanged
<1>2. ASSUME NEW f \in Fourccs, ShmFormatChanged(f)
      PROVE  PickedFromStream'
  BY <1>2 DEF ShmFormatChanged
<1>3. ASSUME NEW f \in Fourccs, NEW mods \in SUBSET (Modifiers \cup {Invalid}),
             DmabufFormatChanged(f, mods)
      PROVE  PickedFromStream'
  BY <1>3 DEF DmabufFormatChanged
<1>4. ASSUME NEW d \in Devices \cup {None}, DmabufDeviceChanged(d)
      PROVE  PickedFromStream'
  BY <1>4 DEF DmabufDeviceChanged
<1>5. CASE SessionDone
  BY <1>5 DEF SessionDone
<1>6. CASE CreateStream
  BY <1>6 DEF CreateStream
<1>7. CASE ParamsArrive
  BY <1>7 DEF ParamsArrive
<1>8. CASE Pick
  BY <1>8 DEF Pick, PickFormat
<1>9. CASE ParamShm
  BY <1>9 DEF ParamShm
<1>10. CASE ParamFixated
  BY <1>10 DEF ParamFixated
<1>11. CASE ParamChoice
  BY <1>11 DEF ParamChoice, FixateFormat
<1>12. CASE AddBuffer
  BY <1>12 DEF AddBuffer
<1>13. CASE Destroy
  BY <1>13 DEF Destroy
<1>14. CASE UNCHANGED vars
  BY <1>14 DEF vars
<1> QED
  BY <1>1, <1>2, <1>3, <1>4, <1>5, <1>6, <1>7, <1>8, <1>9, <1>10, <1>11,
     <1>12, <1>13, <1>14
  DEF Next, Session, ParamChanged

\* Shared-memory formats have a counterpart in PipeWire, so that only the
\* modifier pairs can hold one that aborts.
LEMMA AbortStep ==
    ASSUME IInv, [Next]_vars PROVE AbortNeedsDmabufFormat'
<1> USE DEF IInv, TypeOK, AbortNeedsDmabufFormat, ShmHasBpp, Running, negotiationVars
<1>1. CASE BufferSizeChanged
  BY <1>1 DEF BufferSizeChanged
<1>2. ASSUME NEW f \in Fourccs, ShmFormatChanged(f)
      PROVE  AbortNeedsDmabufFormat'
  BY <1>2 DEF ShmFormatChanged
<1>3. ASSUME NEW f \in Fourccs, NEW mods \in SUBSET (Modifiers \cup {Invalid}),
             DmabufFormatChanged(f, mods)
      PROVE  AbortNeedsDmabufFormat'
  BY <1>3 DEF DmabufFormatChanged
<1>4. ASSUME NEW d \in Devices \cup {None}, DmabufDeviceChanged(d)
      PROVE  AbortNeedsDmabufFormat'
  BY <1>4 DEF DmabufDeviceChanged
<1>5. CASE SessionDone
  <2>1. current' = pending
    BY <1>5 DEF SessionDone, MoveConstraints
  <2>2. life' = life \/ UpdateParams(pending, avoid, {})
    BY <1>5 DEF SessionDone
  <2> QED BY <1>5, <2>1, <2>2, UpdateParamsCases DEF SessionDone
<1>6. CASE CreateStream
  <2>1. current' = current /\ UpdateParams(current, avoid, {})
    BY <1>6 DEF CreateStream
  <2> QED BY <1>6, <2>1, UpdateParamsCases DEF CreateStream
<1>7. CASE ParamsArrive
  BY <1>7 DEF ParamsArrive
<1>8. CASE Pick
  BY <1>8 DEF Pick, PickFormat
<1>9. CASE ParamShm
  BY <1>9 DEF ParamShm
<1>10. CASE ParamFixated
  BY <1>10 DEF ParamFixated
<1>11. CASE ParamChoice
  <2>1. current' = current
    BY <1>11 DEF ParamChoice, FixateFormat
  <2>2. ASSUME NEW av, NEW first, UpdateParams(current, av, first)
        PROVE  AbortNeedsDmabufFormat'
    BY <1>11, <2>1, <2>2, UpdateParamsCases DEF ParamChoice, FixateFormat
  <2> QED BY <1>11, <2>1, <2>2 DEF ParamChoice, FixateFormat
<1>12. CASE AddBuffer
  BY <1>12 DEF AddBuffer
<1>13. CASE Destroy
  BY <1>13 DEF Destroy
<1>14. CASE UNCHANGED vars
  BY <1>14 DEF vars
<1> QED
  BY <1>1, <1>2, <1>3, <1>4, <1>5, <1>6, <1>7, <1>8, <1>9, <1>10, <1>11,
     <1>12, <1>13, <1>14
  DEF Next, Session, ParamChanged

\* Init establishes the invariant and every step keeps it.
THEOREM Invariant == Spec => []IInv
<1>1. IInv /\ [Next]_vars => IInv'
  BY TypeStep, OffersStep, DevicesStep, AbortStep, ShmStep, PickedStep DEF IInv
<1> QED BY InitInvariant, <1>1, PTL DEF Spec

---------------------------------------------------------------------------
(* What the invariant gives *)

\* What the stream offers is what the last batch and the fallback allow.
THEOREM OffersAreCurrent == Spec => []OffersFollowConstraints
BY Invariant, PTL DEF IInv

\* No gbm device leaks, and none is shared by the two sets of constraints.
THEOREM DevicesAreAccounted == Spec => []DevicesAccounted
BY Invariant, PTL DEF IInv

\* Only a dma-buf format makes buildFormats() abort.
THEOREM AbortsHaveCause == Spec => []AbortNeedsDmabufFormat
BY Invariant, PTL DEF IInv

\* Ranges, offers and the cause of an abort, as one invariant.
THEOREM NegotiationStaysSound == Spec => []NegotiationIsSound
<1>1. IInv => NegotiationIsSound
  BY DEF IInv, NegotiationIsSound
<1> QED BY <1>1, Invariant, PTL

\* A format that is still offered trips no assertion and no clean-up of a
\* half-made shared-memory buffer.
THEOREM OffersAreSafe == Spec => CurrentOffersAreSafe
<1> DEFINE Safe == /\ life' = "assertion" => picked \notin offered
                   /\ life' = "bad_close" /\ negotiated.kind = "shm"
                      /\ negotiated \in offered
                          => \E f \in current.shm \ {negotiated.fourcc} :
                                negotiated.fourcc = Opaque[f]
<1>1. ASSUME IInv, Next, vars' # vars PROVE Safe
  <2> USE DEF IInv, OffersFollowConstraints, Running
  <2>1. ASSUME picked \in offered, Running, connected, picked.kind # "shm"
        PROVE  HasDrmFourcc(picked.fourcc)
    BY <1>1, <2>1, BuildFormatsSound DEF HasDrmFourcc
  <2>2. ASSUME negotiated \in offered, Running, connected, negotiated.kind = "shm"
        PROVE  \E f \in current.shm : negotiated.fourcc \in Variants(f)
    <3>1. negotiated \in BuildFormats(current, avoid)
      BY <1>1, <2>2
    <3> QED BY <2>2, <3>1, BuildFormatsSound
  <2>3. CASE ParamFixated
    BY <1>1, <2>1, <2>3 DEF ParamFixated, PickedFromStream
  <2>4. CASE ParamChoice
    <3>1. life' # "bad_close"
      BY <2>4, UpdateParamsCases DEF ParamChoice, FixateFormat
    <3>2. life' = "assertion" => ~HasDrmFourcc(picked.fourcc)
      BY <2>4, UpdateParamsCases DEF ParamChoice, FixateFormat
    <3> QED BY <1>1, <2>1, <2>4, <3>1, <3>2 DEF ParamChoice, FixateFormat, PickedFromStream
  <2>5. CASE AddBuffer
    <3>1. life' # "assertion"
      BY <2>5 DEF AddBuffer
    <3>2. ASSUME life' = "bad_close", negotiated.kind = "shm",
                 negotiated \in offered
          PROVE  \E f \in current.shm \ {negotiated.fourcc} :
                    negotiated.fourcc = Opaque[f]
      <4>1. negotiated.fourcc \notin current.shm
        BY <2>5, <3>2 DEF AddBuffer
      <4>2. PICK f \in current.shm : negotiated.fourcc \in Variants(f)
        BY <1>1, <2>2, <2>5, <3>2 DEF AddBuffer, PickedFromStream
      <4> QED BY <4>1, <4>2 DEF Variants
    <3> QED BY <3>1, <3>2
  <2>6. CASE CreateStream \/ SessionDone
    BY <2>6, UpdateParamsCases DEF CreateStream, SessionDone
  <2>7. CASE UNCHANGED life
    BY <2>7, <1>1 DEF Next, ParamChanged, Session, Pick, PickFormat,
        BufferSizeChanged, ShmFormatChanged, DmabufFormatChanged,
        DmabufDeviceChanged, ParamsArrive, ParamShm, SessionDone, CreateStream,
        Destroy, AddBuffer, ParamFixated, ParamChoice, FixateFormat
  <2>8. CASE Destroy
    BY <2>8 DEF Destroy
  <2> QED
    BY <1>1, <2>3, <2>4, <2>5, <2>6, <2>7, <2>8
    DEF Next, Session, ParamChanged, Pick, PickFormat, BufferSizeChanged,
        ShmFormatChanged, DmabufFormatChanged, DmabufDeviceChanged,
        ParamsArrive, ParamShm
<1>2. IInv /\ [Next]_vars => [Safe]_vars
  BY <1>1
<1> QED BY Invariant, <1>2, PTL DEF Spec, CurrentOffersAreSafe

\* A modifier among those on offer has planes on the device in use when its
\* format is negotiated: new offers come with every new device.
THEOREM OfferedFormatsStayPlanar == Spec => OfferedFormatsHavePlanes
<1> DEFINE Withdrawn == \/ picked \notin offered
                        \/ \A o \in offered :
                              o.kind = "dmabuf" /\ o.fourcc = picked.fourcc
                                  => picked.mods \cap o.mods = {}
           Counted == Planeless(picked)
                      /\ (life' = "no_planes" \/ negotiated' = picked)
                          => Withdrawn
<1>1. ASSUME IInv, Running, Planeless(picked) PROVE Withdrawn
  <2> SUFFICES ASSUME NEW o \in offered, o.kind = "dmabuf",
                      o.fourcc = picked.fourcc,
                      NEW m \in picked.mods, m \in o.mods
               PROVE  FALSE
    OBVIOUS
  <2>1. connected
    BY <1>1 DEF IInv, PickedFromStream, Planeless
  <2>2. o \in BuildFormats(current, avoid)
    BY <1>1, <2>1 DEF IInv, OffersFollowConstraints
  <2>3. PICK f \in Fourccs :
           o = [kind |-> "dmabuf", fourcc |-> f,
                mods |-> UsableModifiers(current, f)]
    BY <2>2, BuildFormatsMembers
  <2>4. Planar(current.gbm, picked.fourcc, m)
    BY <2>3 DEF UsableModifiers
  <2> QED BY <1>1, <2>4 DEF Planeless
<1>2. ASSUME Next PROVE Running
  BY <1>2
  DEF Next, Session, ParamChanged, Pick, PickFormat, BufferSizeChanged,
      ShmFormatChanged, DmabufFormatChanged, DmabufDeviceChanged, SessionDone,
      CreateStream, ParamsArrive, ParamShm, ParamFixated, ParamChoice, AddBuffer,
      Destroy
<1>3. IInv /\ [Next]_vars => [Counted]_vars
  BY <1>1, <1>2
<1> QED BY Invariant, <1>3, PTL DEF Spec, OfferedFormatsHavePlanes
===========================================================================
