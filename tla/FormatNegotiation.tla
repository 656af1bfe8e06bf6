------------------------ MODULE FormatNegotiation ------------------------
(***************************************************************************)
(* How one screencast stream and PipeWire agree on a format.               *)
(*                                                                         *)
(* The compositor's capture session announces its buffer constraints in    *)
(* batches that end with done; AbstractPipeWireStream collects a batch in  *)
(* m_pendingConstraints, moves it to m_currentConstraints and offers the   *)
(* formats it allows.  PipeWire picks one, possibly with a choice of       *)
(* modifiers; then the stream test-allocates a dma-buf and either fixates  *)
(* a modifier or falls back to shared memory for good.                     *)
(*                                                                         *)
(* PipeWire learns of new offers, and the stream of PipeWire's pick, with  *)
(* a delay.  Buffer sizes and frame rates are left out.                    *)
(***************************************************************************)
CONSTANTS
    Fourccs,      \* the DRM formats a compositor may name
    Convertible,  \* those pipewireFormatFromDRMFormat() knows
    WithBpp,      \* those pipewireBPPFromDrmFourcc() knows
    Opaque,       \* pipewireFormatStripAlpha(): the format without alpha, or None
    Modifiers,    \* explicit modifiers
    Invalid,      \* DRM_FORMAT_MOD_INVALID
    Announced,    \* the (fourcc, modifier) pairs the compositor may name
    Devices,      \* names for the opened gbm devices
    Renderable,   \* the <<device, fourcc, modifier>> with planes
    Accepted,     \* what the consumer accepts: "shm", "dmabuf"
    None          \* nullptr

ASSUME FormatsAssumption ==
    /\ WithBpp \subseteq Convertible
    /\ Convertible \subseteq Fourccs
    /\ DOMAIN Opaque = Fourccs
    /\ Invalid \notin Modifiers
    /\ None \notin Devices
    /\ Accepted \subseteq {"shm", "dmabuf"}

Pairs == Fourccs \X (Modifiers \cup {Invalid})

\* The formats offered for f in shared memory: f, and f without its alpha.
Variants(f) == {f} \cup ({Opaque[f]} \ {None})

\* An offer of buildFormats() ("dmabuf" leaves the modifier open), or of
\* fixateFormat().
Offers == [kind : {"dmabuf", "fixated", "shm"},
           fourcc : UNION {Variants(f) : f \in Fourccs},
           mods : SUBSET (Modifiers \cup {Invalid})]

VARIABLES
    life,        \* "running", "destroyed", or how the process went wrong
    pending,     \* m_pendingConstraints
    current,     \* m_currentConstraints
    devices,     \* the gbm devices that are open
    lost,        \* those another device of the same batch has overwritten
    avoid,       \* m_avoidDMAbufs
    connected,   \* m_stream exists
    offered,     \* the formats of the last pw_stream_update_params()
    known,       \* the formats PipeWire knows of
    picked,      \* the format PipeWire has picked and not yet told
    negotiated   \* the format the buffers are made for

vars == <<life, pending, current, devices, lost, avoid, connected, offered,
          known, picked, negotiated>>

Fault == {"abort", "null_device", "assertion", "no_planes", "bad_close"}
Constraints == [dirty : BOOLEAN, pairs : SUBSET Pairs, shm : SUBSET Fourccs,
                gbm : Devices \cup {None}]
NoConstraints == [dirty |-> FALSE, pairs |-> {}, shm |-> {}, gbm |-> None]

Running == life = "running"

---------------------------------------------------------------------------
(* The constraints as offers *)

\* An explicit modifier needs a device with planes for it:
\* gbm_device_get_format_modifier_plane_count() is positive.
Planar(gbm, f, m) == m = Invalid \/ <<gbm, f, m>> \in Renderable

\* Mutant: the planes of a modifier are not asked for.
AnnouncedModifiers(c, f) == {p[2] : p \in {q \in c.pairs : q[1] = f}}

\* queryDmabufModifiers()
UsableModifiers(c, f) ==
    {p[2] : p \in {q \in c.pairs : q[1] = f /\ Planar(c.gbm, f, q[2])}}

\* buildFormat(): without modifiers PipeWire may drop the alpha.
BuildFormat(f, mods) ==
    IF mods # {} THEN {[kind |-> "dmabuf", fourcc |-> f, mods |-> mods]}
    ELSE {[kind |-> "shm", fourcc |-> g, mods |-> {}] : g \in Variants(f)}

\* fixateFormat(), which always gets a modifier
FixateFormat(f, m) == [kind |-> "fixated", fourcc |-> f, mods |-> {m}]

\* buildFormats() with m_currentConstraints = c and m_avoidDMAbufs = av.
BuildFormats(c, av) ==
    LET dmabuf == {f \in Fourccs : ~av /\ UsableModifiers(c, f) # {}}
    IN  (UNION {BuildFormat(f, UsableModifiers(c, f)) : f \in dmabuf})
            \cup (UNION {BuildFormat(f, {}) : f \in c.shm})

\* What buildFormats() does instead of returning: pipewireFormatFromDRMFormat()
\* aborts on a format it does not know, and gbm is asked about an explicit
\* modifier without a device.
BuildFaults(c, av) ==
    {fault \in {"abort", "null_device"} :
        \/ /\ fault = "abort"
           /\ \/ ~(c.shm \subseteq Convertible)
              \/ ~av /\ \E p \in c.pairs : p[1] \notin Convertible
        \/ /\ fault = "null_device"
           /\ ~av /\ c.gbm = None
           /\ \E p \in c.pairs : p[2] # Invalid}

\* hasDrmFourcc()
HasDrmFourcc(f) == ~avoid /\ \E p \in current.pairs : p[1] = f

\* buildFormats() and pw_stream_update_params(), after the offers of first
UpdateParams(c, av, first) ==
    LET faults == BuildFaults(c, av)
    IN  IF faults = {}
        THEN offered' = first \cup BuildFormats(c, av) /\ UNCHANGED life
        ELSE life' \in faults /\ UNCHANGED offered

---------------------------------------------------------------------------
Init ==
    /\ life = "running"
    /\ pending = NoConstraints
    /\ current = NoConstraints
    /\ devices = {}
    /\ lost = {}
    /\ avoid = FALSE
    /\ connected = FALSE
    /\ offered = {}
    /\ known = {}
    /\ picked = None
    /\ negotiated = None

(* The events of the capture session *)

negotiationVars == <<avoid, connected, offered, known, picked, negotiated>>

\* handleCaptureSessionBufferSizeChanged()
BufferSizeChanged ==
    /\ Running
    /\ pending' = [pending EXCEPT !.dirty = TRUE]
    /\ UNCHANGED <<life, current, devices, lost, negotiationVars>>

\* handleCaptureSessionShmFormatChanged(): a format that is listed already, or
\* whose pixel size is not known, is skipped.
ShmFormatChanged(f) ==
    /\ Running
    /\ f \in WithBpp \ pending.shm
    /\ pending' = [pending EXCEPT !.dirty = TRUE, !.shm = @ \cup {f}]
    /\ UNCHANGED <<life, current, devices, lost, negotiationVars>>

\* handleCaptureSessionDmabufDeviceChanged().  A device that cannot be
\* resolved is not recorded, one without a usable render node is recorded as
\* nullptr.  The device of an earlier event of the batch is overwritten.
DmabufDeviceChanged(d) ==
    /\ Running
    /\ d = None \/ d \notin devices
    /\ pending' = [pending EXCEPT !.dirty = TRUE, !.gbm = d]
    /\ devices' = devices \cup ({d} \ {None})
    /\ lost' = lost \cup ({pending.gbm} \ {None})
    /\ UNCHANGED <<life, current, negotiationVars>>

\* handleCaptureSessionDmabufFormatChanged()
DmabufFormatChanged(f, mods) ==
    /\ Running
    /\ {f} \X mods \subseteq Announced
    /\ pending' = [pending EXCEPT !.dirty = TRUE, !.pairs = @ \cup ({f} \X mods)]
    /\ UNCHANGED <<life, current, devices, lost, negotiationVars>>

\* Mutant: the device of the old constraints stays open.
MoveLeaksDevice ==
    /\ current' = pending
    /\ pending' = NoConstraints
    /\ UNCHANGED devices

\* pipewireBufferConstraintsMove(), which releases the old constraints first.
MoveConstraints ==
    /\ current' = pending
    /\ pending' = NoConstraints
    /\ devices' = devices \ {current.gbm}

\* Mutant: the offers are not updated.
SessionDoneSilently ==
    /\ Running /\ pending.dirty
    /\ MoveConstraints
    /\ UNCHANGED <<life, lost, avoid, connected, offered, known, picked,
                   negotiated>>

\* handleCaptureSessionDone(); updateStreamParam() returns early without a
\* stream.
SessionDone ==
    /\ Running /\ pending.dirty
    /\ MoveConstraints
    /\ IF connected THEN UpdateParams(pending, avoid, {})
                    ELSE UNCHANGED <<life, offered>>
    /\ UNCHANGED <<lost, avoid, connected, known, picked, negotiated>>

---------------------------------------------------------------------------
(* The stream *)

\* createStream()
CreateStream ==
    /\ Running /\ ~connected
    /\ connected' = TRUE
    /\ UpdateParams(current, avoid, {})
    /\ UNCHANGED <<pending, current, devices, lost, avoid, known, picked,
                   negotiated>>

\* PipeWire receives the offers.
ParamsArrive ==
    /\ Running /\ connected
    /\ known' = offered
    /\ UNCHANGED <<life, pending, current, devices, lost, avoid, connected,
                   offered, picked, negotiated>>

KindAccepted(o) ==
    (IF o.kind = "shm" THEN "shm" ELSE "dmabuf") \in Accepted

\* PipeWire picks the first offer the consumer accepts, unless the one agreed
\* on is still offered; the fixated one is the first of the list.
PickFormat(o) ==
    /\ Running /\ connected
    /\ picked = None
    /\ negotiated \notin known
    /\ o \in known /\ KindAccepted(o)
    /\ (\E first \in known : first.kind = "fixated" /\ KindAccepted(first))
           => o.kind = "fixated"
    /\ picked' = o
    /\ UNCHANGED <<life, pending, current, devices, lost, avoid, connected,
                   offered, known, negotiated>>

\* onStreamParamChanged() for a format in shared memory: the buffers are asked
\* for.
ParamShm ==
    /\ Running /\ picked # None /\ picked.kind = "shm"
    /\ negotiated' = picked
    /\ picked' = None
    /\ UNCHANGED <<life, pending, current, devices, lost, avoid, connected,
                   offered, known>>

\* The device in use has no planes for the modifier of o.
Planeless(o) == /\ o # None /\ o.kind = "fixated"
                /\ \A m \in o.mods : ~Planar(current.gbm, o.fourcc, m)

\* onStreamParamChanged() for a fixated dma-buf format: its fourcc is looked up,
\* and the blocks of a buffer are the planes gbm has for an explicit modifier.
\* For one without planes that is 0, which buildBuffer() refuses by an
\* assertion, or -1, which it does not notice.
ParamFixated ==
    /\ Running /\ picked # None /\ picked.kind = "fixated"
    /\ picked' = None
    /\ \/ /\ ~HasDrmFourcc(picked.fourcc)
          /\ life' = "assertion"
          /\ UNCHANGED negotiated
       \/ /\ HasDrmFourcc(picked.fourcc)
          /\ current.gbm = None /\ picked.mods # {Invalid}
          /\ life' = "null_device"
          /\ UNCHANGED negotiated
       \/ /\ HasDrmFourcc(picked.fourcc) /\ current.gbm # None
          /\ Planeless(picked)
          /\ life' = "no_planes"
          /\ UNCHANGED negotiated
       \/ /\ HasDrmFourcc(picked.fourcc)
          /\ current.gbm # None \/ picked.mods = {Invalid}
          /\ negotiated' = picked
          /\ UNCHANGED life
    /\ UNCHANGED <<pending, current, devices, lost, avoid, connected, offered,
                   known>>

\* Mutant: a failed allocation does not turn the fallback on.
ParamChoiceKeepsDmabuf ==
    /\ Running /\ picked # None /\ picked.kind = "dmabuf"
    /\ picked' = None
    /\ negotiated' = None
    /\ \/ /\ ~HasDrmFourcc(picked.fourcc)
          /\ life' = "assertion"
          /\ UNCHANGED <<avoid, offered>>
       \/ /\ HasDrmFourcc(picked.fourcc) /\ current.gbm = None
          /\ life' = "null_device"
          /\ UNCHANGED <<avoid, offered>>
       \/ /\ HasDrmFourcc(picked.fourcc) /\ current.gbm # None
          /\ \E m \in Modifiers \cup {Invalid} :
                UpdateParams(current, avoid,
                             {FixateFormat(picked.fourcc, m)})
          /\ UNCHANGED avoid
       \/ /\ HasDrmFourcc(picked.fourcc) /\ current.gbm # None
          /\ UpdateParams(current, avoid, {})
          /\ UNCHANGED avoid
    /\ UNCHANGED <<pending, current, devices, lost, connected, known>>

\* onStreamParamChanged() for a dma-buf format whose modifier is open: a
\* test allocation, of which the driver reports what modifier it got, or its
\* failure, which turns dma-bufs off.
ParamChoice ==
    /\ Running /\ picked # None /\ picked.kind = "dmabuf"
    /\ picked' = None
    /\ negotiated' = None
    /\ \/ /\ ~HasDrmFourcc(picked.fourcc)
          /\ life' = "assertion"
          /\ UNCHANGED <<avoid, offered>>
       \/ /\ HasDrmFourcc(picked.fourcc) /\ current.gbm = None
          /\ life' = "null_device"
          /\ UNCHANGED <<avoid, offered>>
       \/ /\ HasDrmFourcc(picked.fourcc) /\ current.gbm # None
          /\ \E m \in Modifiers \cup {Invalid} :
                UpdateParams(current, avoid,
                             {FixateFormat(picked.fourcc, m)})
          /\ UNCHANGED avoid
       \/ /\ HasDrmFourcc(picked.fourcc) /\ current.gbm # None
          /\ avoid' = TRUE
          /\ UpdateParams(current, TRUE, {})
    /\ UNCHANGED <<pending, current, devices, lost, connected, known>>

\* Mutant: a shared-memory format is not looked up in the constraints.
AddBufferUnchecked ==
    /\ Running /\ negotiated # None
    /\ \/ /\ negotiated.kind = "shm"
          /\ life' = "bad_close"
       \/ /\ negotiated.kind = "fixated" /\ current.gbm = None
          /\ life' = "null_device"
       \/ /\ negotiated.kind = "fixated" /\ current.gbm # None
          /\ life' = "bad_close"
    /\ UNCHANGED <<pending, current, devices, lost, negotiationVars>>

\* createPipeWireSourceBuffer() going wrong for a buffer of the negotiated
\* format: when the shared-memory format is no longer among the constraints, or
\* gbm cannot allocate, the plane count destroyPipeWireSourceBuffer() loops over
\* is whatever the allocation left there.  (When it happens to be zero, or the
\* buffer is created, nothing here changes.)
AddBuffer ==
    /\ Running /\ negotiated # None
    /\ \/ /\ negotiated.kind = "shm"
          /\ negotiated.fourcc \notin current.shm
          /\ life' = "bad_close"
       \/ /\ negotiated.kind = "fixated" /\ current.gbm = None
          /\ life' = "null_device"
       \/ /\ negotiated.kind = "fixated" /\ current.gbm # None
          /\ life' = "bad_close"
    /\ UNCHANGED <<pending, current, devices, lost, negotiationVars>>

\* ~AbstractPipeWireStream()
Destroy ==
    /\ Running
    /\ life' = "destroyed"
    /\ pending' = NoConstraints
    /\ current' = NoConstraints
    /\ devices' = devices \ {pending.gbm, current.gbm}
    /\ connected' = FALSE
    /\ offered' = {} /\ known' = {} /\ picked' = None /\ negotiated' = None
    /\ UNCHANGED <<lost, avoid>>

---------------------------------------------------------------------------
ParamChanged == ParamShm \/ ParamFixated \/ ParamChoice

Session ==
    \/ BufferSizeChanged
    \/ \E f \in Fourccs :
          \/ ShmFormatChanged(f)
          \/ \E mods \in SUBSET (Modifiers \cup {Invalid}) :
                DmabufFormatChanged(f, mods)
    \/ \E d \in Devices \cup {None} : DmabufDeviceChanged(d)
    \/ SessionDone

Pick == \E o \in known : PickFormat(o)

Next == \/ Session \/ CreateStream \/ ParamsArrive \/ Pick
        \/ ParamChanged \/ AddBuffer \/ Destroy

Spec == Init /\ [][Next]_vars

\* PipeWire's messages arrive, in both directions, and it goes on negotiating.
FairSpec == /\ Spec
            /\ WF_vars(ParamsArrive)
            /\ WF_vars(Pick)
            /\ WF_vars(ParamChanged)

---------------------------------------------------------------------------
(* Properties *)

TypeOK ==
    /\ life \in {"running", "destroyed"} \cup Fault
    /\ pending \in Constraints
    /\ current \in Constraints
    /\ devices \in SUBSET Devices
    /\ lost \in SUBSET Devices
    /\ avoid \in BOOLEAN
    /\ connected \in BOOLEAN
    /\ offered \in SUBSET Offers
    /\ known \in SUBSET Offers
    /\ picked \in Offers \cup {None}
    /\ negotiated \in Offers \cup {None}

\* What the stream offers PipeWire is what the constraints of the last batch
\* allow, under the current fallback decision, and a fixated format has a
\* fourcc of theirs: no handler changes m_currentConstraints or m_avoidDMAbufs
\* without pw_stream_update_params().  (Its modifier may be one of an earlier
\* batch, when PipeWire's pick crossed with the new offers.)
OffersFollowConstraints ==
    Running /\ connected =>
        /\ {o \in offered : o.kind # "fixated"} = BuildFormats(current, avoid)
        /\ \A o \in offered :
              o.kind = "fixated" =>
                  ~avoid /\ \E p \in current.pairs : p[1] = o.fourcc

\* The gbm devices that are open are those of the two sets of constraints,
\* each of which has one of its own, and those that were overwritten because a
\* batch named more than one: nothing else leaks, and none is used or closed
\* after it was closed.
DevicesAccounted ==
    /\ devices = ({pending.gbm, current.gbm} \ {None}) \cup lost
    /\ {pending.gbm, current.gbm} \cap lost = {}
    /\ pending.gbm # None => pending.gbm # current.gbm

\* The checks of handleCaptureSessionShmFormatChanged() protect buildFormats():
\* only a dma-buf format can make it abort.
AbortNeedsDmabufFormat ==
    life = "abort" => \E p \in current.pairs : p[1] \notin Convertible

\* The negotiation in one: every variable is in its range, the offers follow the
\* constraints, and buildFormats() aborts only on a dma-buf format.
NegotiationIsSound == /\ TypeOK
                      /\ OffersFollowConstraints
                      /\ AbortNeedsDmabufFormat

\* A format that is still offered when it is negotiated, or when buffers are
\* made for it, trips no assertion and no clean-up of a half-made shared-memory
\* buffer: those need the constraints to change in between, or the consumer to
\* take a format without the alpha the compositor announced it with, which
\* createPipeWireSourceBuffer() looks for in vain.
CurrentOffersAreSafe ==
    [][/\ life' = "assertion" => picked \notin offered
       /\ life' = "bad_close" /\ negotiated.kind = "shm" /\ negotiated \in offered
              => \E f \in current.shm \ {negotiated.fourcc} :
                     negotiated.fourcc = Opaque[f]]_vars

\* Buffers are made with as many blocks as the device in use has planes, however
\* a fixation, the switch to another device and PipeWire's pick cross: a format
\* without planes was withdrawn before it was picked up, or has a modifier that
\* the driver reported and nobody had offered.
OfferedFormatsHavePlanes ==
    [][Planeless(picked) /\ (life' = "no_planes" \/ negotiated' = picked)
           => \/ picked \notin offered
              \/ \A o \in offered :
                    o.kind = "dmabuf" /\ o.fourcc = picked.fourcc
                        => picked.mods \cap o.mods = {}]_vars

\* When the constraints come to rest, PipeWire and the stream agree on a format
\* the stream offers, through fixation or through the fallback, if there is
\* one the consumer accepts.
Agreed == negotiated # None /\ negotiated \in offered

AtRest == /\ Running /\ connected /\ ~pending.dirty
          /\ \E o \in offered : KindAccepted(o)

Settles == <>[]AtRest => <>[]Agreed

\* The assertion of onStreamParamChanged(): a dma-buf format PipeWire comes
\* back with has a fourcc of the current constraints.
FourccIsKnown == life # "assertion"
===========================================================================
