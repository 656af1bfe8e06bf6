------------------------- MODULE ScreenCastProofs -------------------------
(***************************************************************************)
(* Theorems about ScreenCast, for every set of sessions and every number   *)
(* of streams.                                                             *)
(***************************************************************************)
EXTENDS ScreenCast, SequenceFacts, TLAPS

USE BoundsAssumption

\* Only sessions that were created, and that streaming was available for, are
\* watched and started.
SessionsAreBooked ==
    \A s \in Sessions : /\ sess[s] = "none" => s \notin watched \cup action
                        /\ s \in started => s \in watched

\* A Start call that was not made has left no trace, one that waits for its
\* chooser has no answer yet, and a call shares at most one stream, which was
\* started for its session and was ready.
CallsAreOrdered ==
    \A s \in Sessions :
        /\ s \notin started =>
              replies[s] = <<>> /\ chooser[s] = "none" /\ shared[s] = <<>>
        /\ chooser[s] = "alive" => replies[s] = <<>>
        /\ \/ shared[s] = <<>>
           \/ \E n \in Nodes : /\ shared[s] = <<n>> /\ owner[n] = s
                               /\ node[n] \in {"live", "gone"}

\* What an activation of startStreaming() knows of its stream.
FrameIsTrue(f) ==
    /\ f.session \in started
    /\ owner[f.node] = f.session
    /\ node[f.node] # "unused"
    /\ f.valid => node[f.node] \in {"live", "gone"}
    /\ node[f.node] = "live" => f.valid
    /\ ~f.dialog => chooser[f.session] = "none" /\ replies[f.session] = <<>>

\* Activations have streams of their own, and that of a Start call without a
\* chooser is the only one of its session.
FramesAreTrue ==
    /\ \A i \in DOMAIN stack : FrameIsTrue(stack[i])
    /\ \A i, j \in DOMAIN stack :
          i # j => /\ stack[i].node # stack[j].node
                   /\ ~stack[i].dialog => stack[i].session # stack[j].session

\* A stream that runs, and that its Start call or its session knows, is in the
\* list of streams, unless stopStreaming() has taken the wrong one.
LiveIsListed ==
    "wrong_stream" \notin slips =>
        \A n \in Nodes :
            node[n] = "live" /\ (Starting(n) \/ \E s \in Sessions : Contains(shared[s], n))
                => Contains(listed, n)

\* As long as nothing has gone wrong, every stream that runs is in reach.
LiveIsInReach == slips = {} => \A n \in Nodes : node[n] = "live" => InReach(n)

IInv ==
    /\ TrayIsTruthful /\ ListIsLive
    /\ SessionsAreBooked /\ CallsAreOrdered /\ FramesAreTrue
    /\ LiveIsListed /\ LiveIsInReach
---------------------------------------------------------------------------
(* The list of streams, and what stopping does to it *)

\* A session with no stream stops none.
LEMMA FoldNone ==
    ASSUME NEW reg
    PROVE FoldLeft(StopStreaming, reg, <<>>) = reg
<1>1. DOMAIN <<>> = {}
  OBVIOUS
<1> QED BY <1>1 DEF FoldLeft, MapThenFoldSet

\* A session with one stream stops that one.
LEMMA FoldOne ==
    ASSUME NEW reg, NEW n
    PROVE  FoldLeft(StopStreaming, reg, <<n>>) = StopStreaming(reg, n)
<1> DEFINE Rec(f) == [s \in SUBSET DOMAIN <<n>> |->
                         IF s = {} THEN reg
                         ELSE StopStreaming(f[s \ {Max(s)}], <<n>>[Max(s)])]
           iter == CHOOSE f : f = Rec(f)
           g == [s \in SUBSET {1} |->
                    IF s = {} THEN reg ELSE StopStreaming(reg, n)]
<1>1. DOMAIN <<n>> = {1} /\ <<n>>[1] = n
  OBVIOUS
<1>2. FoldLeft(StopStreaming, reg, <<n>>) = iter[DOMAIN <<n>>]
  BY DEF FoldLeft, MapThenFoldSet
<1>3. \A s \in SUBSET {1} : s = {} \/ (s = {1} /\ Max(s) = 1 /\ s \ {Max(s)} = {})
  <2>1. \E x \in {1} : \A y \in {1} : x >= y
    OBVIOUS
  <2>2. Max({1}) \in {1}
    BY <2>1, Zenon DEF Max
  <2> QED BY <2>2
<1>4. g = Rec(g)
  <2>1. \A s \in SUBSET {1} : g[s] = Rec(g)[s]
    BY <1>1, <1>3, Zenon
  <2> QED BY <1>1, <2>1
<1>5. iter = Rec(iter)
  BY <1>4
<1>6. iter[{1}] = StopStreaming(iter[{}], n) /\ iter[{}] = reg
  <2>1. iter[{1}] = Rec(iter)[{1}] /\ iter[{}] = Rec(iter)[{}]
    BY <1>5
  <2> HIDE DEF iter
  <2>2. Rec(iter)[{}] = reg
    BY <1>1
  <2>3. Max({1}) = 1 /\ {1} \ {1} = {} /\ {1} # {}
    BY <1>3
  <2>4. Rec(iter)[{1}] = StopStreaming(iter[{1} \ {Max({1})}], <<n>>[Max({1})])
    BY <1>1, <2>3
  <2> QED BY <1>1, <2>1, <2>2, <2>3, <2>4, Zenon
<1> QED BY <1>1, <1>2, <1>6

\* Where a stream stands in a list without duplicates.
LEMMA PositionFacts ==
    ASSUME NEW list \in Seq(Nodes), IsInjective(list), NEW n
    PROVE  \/ ~Contains(list, n) /\ Position(list, n) = 0
           \/ /\ Contains(list, n) /\ Position(list, n) \in 1..Len(list)
              /\ list[Position(list, n)] = n
<1> DEFINE I == {i \in 1..Len(list) : list[i] = n}
<1>1. Position(list, n) = IF I # {} THEN Min(I) ELSE 0
  BY DEF Position, SelectInSeq
<1>2. Contains(list, n) <=> I # {}
  BY DEF Contains
<1>3. ASSUME I # {} PROVE Min(I) \in I
  <2>1. I \in SUBSET Nat
    OBVIOUS
  <2> HIDE DEF I
  <2>2. \E i \in I : \A j \in I : i <= j
    BY <1>3, <2>1, Least
  <2> QED BY <2>2, Zenon DEF Min
<1> QED BY <1>1, <1>2, <1>3

---------------------------------------------------------------------------
(* stopStreaming() *)

Reg == [list : Seq(Nodes), node : [Nodes -> Node]]

\* The list of streams has streams that run, each once.
Sound(reg) == /\ IsInjective(reg.list)
              /\ \A i \in DOMAIN reg.list : reg.node[reg.list[i]] = "live"

\* What becomes of the list and the streams when stream n is stopped: others
\* stay in the list or are gone, and none is gone that was not in the list.
Stops(reg, n, new) ==
    /\ new \in Reg /\ Sound(new)
    /\ ~Contains(new.list, n)
    /\ \A m \in Nodes :
          /\ Contains(new.list, m) => Contains(reg.list, m)
          /\ Contains(reg.list, m) /\ m # n =>
                Contains(new.list, m) \/ new.node[m] = "gone"
          /\ \/ new.node[m] = reg.node[m]
             \/ new.node[m] = "gone" /\ (Contains(reg.list, m) \/ m = n)

\* stopStreaming() keeps the list sound, whichever stream it hits: it may leave
\* the one it was asked for running, and may take others down with it.
LEMMA StopStreamingStops ==
    ASSUME NEW reg \in Reg, Sound(reg), NEW n \in Nodes
    PROVE  /\ Stops(reg, n, StopStreaming(reg, n))
           /\ ~Contains(reg.list, n) => StopStreaming(reg, n) = reg
<1> DEFINE list == reg.list
           i == Position(list, n)
           len == Len(list)
           after == {list[j] : j \in (i + 1)..len}
           new == StopStreaming(reg, n)
<1>1. /\ list \in Seq(Nodes) /\ IsInjective(list) /\ reg.node \in [Nodes -> Node]
      /\ reg = [list |-> list, node |-> reg.node]
      /\ \A j \in 1..len : list[j] \in Nodes /\ reg.node[list[j]] = "live"
      /\ len \in Nat /\ DOMAIN list = 1..len
  <2>1. list \in Seq(Nodes) /\ reg.node \in [Nodes -> Node] /\ reg = [list |-> list, node |-> reg.node]
    BY DEF Reg
  <2>2. len \in Nat /\ DOMAIN list = 1..len
    BY <2>1, LenProperties
  <2> QED BY <2>1, <2>2 DEF Sound
<1>2. new = IF i = 0 THEN reg
            ELSE IF i \in {1, len}
            THEN [list |-> RemoveAt(list, i),
                  node |-> [reg.node EXCEPT ![n] = "gone"]]
            ELSE [list |-> SubSeq(list, 1, i - 1),
                  node |-> [m \in Nodes |->
                               IF m \in after THEN "gone" ELSE reg.node[m]]]
  BY DEF StopStreaming
<1>3. \/ ~Contains(list, n) /\ i = 0
      \/ Contains(list, n) /\ i \in 1..len /\ list[i] = n
  BY <1>1, PositionFacts
<1> HIDE DEF list, i, len, new
<1>4. CASE ~Contains(list, n)
  <2>1. new = reg
    BY <1>2, <1>3, <1>4
  <2> QED BY <1>4, <2>1 DEF Stops, list, new
<1>5. CASE Contains(list, n) /\ i \in {1, len}
  <2>1. i \in 1..len /\ list[i] = n /\ i # 0
    BY <1>1, <1>3, <1>5
  <2>2. new = [list |-> RemoveAt(list, i), node |-> [reg.node EXCEPT ![n] = "gone"]]
    BY <1>2, <1>5, <2>1
  <2>3. /\ RemoveAt(list, i) \in Seq(Nodes) /\ IsInjective(RemoveAt(list, i))
        /\ Len(RemoveAt(list, i)) = len - 1
        /\ \A j \in 1..(len - 1) :
              RemoveAt(list, i)[j] = IF j < i THEN list[j] ELSE list[j + 1]
        /\ \A m : Contains(RemoveAt(list, i), m) <=> Contains(list, m) /\ m # n
    <3>1. i \in 1..Len(list) /\ list \in Seq(Nodes) /\ IsInjective(list)
      BY <1>1, <2>1 DEF len
    <3>2. /\ RemoveAt(list, i) \in Seq(Nodes) /\ IsInjective(RemoveAt(list, i))
          /\ Len(RemoveAt(list, i)) = Len(list) - 1
          /\ \A j \in 1..(Len(list) - 1) :
                RemoveAt(list, i)[j] = IF j < i THEN list[j] ELSE list[j + 1]
          /\ \A m : Contains(RemoveAt(list, i), m) <=> Contains(list, m) /\ m # list[i]
      BY <3>1, RemovedFacts
    <3> QED BY <2>1, <3>2 DEF len
  <2>4. /\ new.list = RemoveAt(list, i)
        /\ \A m \in Nodes : new.node[m] = IF m = n THEN "gone" ELSE reg.node[m]
    BY <1>1, <2>2
  <2>5. new \in Reg
    BY <1>1, <2>2, <2>3 DEF Reg, Node
  <2>6. Sound(new)
    <3> SUFFICES ASSUME NEW j \in DOMAIN new.list PROVE new.node[new.list[j]] = "live"
      BY <2>3, <2>4 DEF Sound
    <3>1. Contains(new.list, new.list[j]) /\ new.list[j] \in Nodes
      <4>1. new.list \in Seq(Nodes)
        BY <2>3, <2>4
      <4>2. j \in 1..Len(new.list) /\ new.list[j] \in Nodes
        BY <4>1
      <4> QED BY <4>2 DEF Contains
    <3>2. Contains(list, new.list[j]) /\ new.list[j] # n
      BY <2>3, <2>4, <3>1
    <3>3. reg.node[new.list[j]] = "live"
      BY <1>1, <3>2 DEF Contains, len
    <3> QED BY <2>4, <3>1, <3>2, <3>3
  <2> QED BY <1>5, <2>3, <2>4, <2>5, <2>6 DEF Stops, list, new
<1>6. CASE Contains(list, n) /\ i \notin {1, len}
  <2>1. i \in 1..len /\ list[i] = n /\ i # 0
    BY <1>1, <1>3, <1>6
  <2>2. new = [list |-> SubSeq(list, 1, i - 1),
               node |-> [m \in Nodes |->
                            IF m \in after THEN "gone" ELSE reg.node[m]]]
    BY <1>2, <1>6, <2>1
  <2>3. /\ SubSeq(list, 1, i - 1) \in Seq(Nodes)
        /\ IsInjective(SubSeq(list, 1, i - 1))
        /\ Len(SubSeq(list, 1, i - 1)) = i - 1
        /\ \A j \in 1..(i - 1) : SubSeq(list, 1, i - 1)[j] = list[j]
    BY <1>1, <2>1, PrefixFacts DEF len
  <2>4. /\ new.list = SubSeq(list, 1, i - 1)
        /\ \A m \in Nodes : new.node[m] = IF m \in after THEN "gone" ELSE reg.node[m]
    BY <2>2
  <2>5. new \in Reg
    BY <1>1, <2>2, <2>3 DEF Reg, Node
  <2>6. \A j \in 1..(i - 1) : list[j] \notin after /\ list[j] # n /\ j \in 1..len
    BY <1>1, <2>1 DEF IsInjective
  <2>7. Sound(new)
    <3>1. DOMAIN new.list = 1..(i - 1)
      BY <2>3, <2>4, LenProperties
    <3>2. ASSUME NEW j \in 1..(i - 1) PROVE new.node[new.list[j]] = "live"
      <4>1. new.list[j] = list[j] /\ j \in 1..len /\ list[j] \notin after
        BY <2>3, <2>4, <2>6
      <4>2. list[j] \in Nodes /\ reg.node[list[j]] = "live"
        BY <1>1, <4>1
      <4> QED BY <2>4, <4>1, <4>2, Zenon
    <3> QED BY <2>3, <2>4, <3>1, <3>2, Zenon DEF Sound
  <2>8. \A m : Contains(new.list, m) <=> \E j \in 1..(i - 1) : list[j] = m
    BY <2>3, <2>4 DEF Contains
  <2>9. ASSUME NEW m \in Nodes
        PROVE  /\ Contains(new.list, m) => Contains(list, m) /\ m # n
               /\ Contains(list, m) /\ m # n => Contains(new.list, m) \/ m \in after
               /\ m \in after => Contains(list, m)
    <3>1. Contains(new.list, m) => Contains(list, m) /\ m # n
      BY <2>6, <2>8 DEF Contains, len
    <3>2. ASSUME Contains(list, m), m # n PROVE Contains(new.list, m) \/ m \in after
      <4>1. PICK j \in 1..len : list[j] = m /\ j # i
        BY <2>1, <3>2 DEF Contains, len
      <4>2. j \in 1..(i - 1) \/ j \in (i + 1)..len
        BY <1>1, <2>1, <4>1
      <4> QED BY <2>8, <4>1, <4>2
    <3>3. ASSUME m \in after PROVE Contains(list, m)
      <4>1. PICK j \in (i + 1)..len : list[j] = m
        BY <3>3
      <4>2. j \in 1..len
        BY <1>1, <2>1
      <4> QED BY <4>1, <4>2 DEF Contains, len
    <3> QED BY <3>1, <3>2, <3>3
  <2>10. ~Contains(new.list, n)
    BY <2>6, <2>8
  <2> HIDE DEF after
  <2> QED BY <1>6, <2>4, <2>5, <2>7, <2>9, <2>10 DEF Stops, list, new
<1> QED BY <1>4, <1>5, <1>6

\* So does the deletion of a stream, and that stream is gone.
LEMMA DeletedStops ==
    ASSUME NEW reg \in Reg, Sound(reg), NEW n \in Nodes
    PROVE  /\ Stops(reg, n, Deleted(reg, n))
           /\ Deleted(reg, n).node[n] = "gone"
<1> DEFINE new == StopStreaming(reg, n)
<1>1. Stops(reg, n, new)
  BY StopStreamingStops
<1>2. Deleted(reg, n) = [new EXCEPT !.node[n] = "gone"]
  BY DEF Deleted
<1> HIDE DEF new
<1>3. /\ new \in Reg /\ Deleted(reg, n) \in Reg
      /\ Deleted(reg, n).list = new.list
      /\ \A m \in Nodes : Deleted(reg, n).node[m] = IF m = n THEN "gone" ELSE new.node[m]
  <2>1. new \in Reg /\ new = [list |-> new.list, node |-> new.node]
    BY <1>1 DEF Stops, Reg
  <2>2. Deleted(reg, n) = [list |-> new.list, node |-> [new.node EXCEPT ![n] = "gone"]]
    BY <1>2, <2>1, Zenon
  <2>3. new.list \in Seq(Nodes) /\ new.node \in [Nodes -> Node]
    BY <2>1 DEF Reg
  <2> QED BY <2>1, <2>2, <2>3 DEF Reg, Node
<1>4. Sound(Deleted(reg, n))
  <2> SUFFICES ASSUME NEW j \in DOMAIN new.list
               PROVE  Deleted(reg, n).node[new.list[j]] = "live"
    BY <1>1, <1>3 DEF Stops, Sound
  <2>1. new.list \in Seq(Nodes)
    BY <1>3 DEF Reg
  <2>2. j \in 1..Len(new.list) /\ new.list[j] \in Nodes
    BY <2>1
  <2>3. new.list[j] # n
    BY <1>1, <2>2 DEF Stops, Contains
  <2> QED BY <1>1, <1>3, <2>2, <2>3 DEF Stops, Sound
<1> QED BY <1>1, <1>3, <1>4 DEF Stops

---------------------------------------------------------------------------
(* What the steps do *)

\* m_streams and the streams are what stopStreaming() may be applied to.
LEMMA RegistryFacts ==
    ASSUME IInv
    PROVE  /\ Registry \in Reg /\ Sound(Registry)
           /\ Registry.list = listed /\ Registry.node = node
BY DEF IInv, TrayIsTruthful, TypeOK, ListIsLive, Registry, Reg, Sound

\* The streams of M are stopped: others stay in the list or are gone, and none
\* is gone that was not started.
Stopped(M) ==
    /\ listed' \in Seq(Nodes) /\ node' \in [Nodes -> Node]
    /\ ListIsLive'
    /\ \A m \in Nodes :
          /\ Contains(listed', m) => Contains(listed, m) /\ m \notin M
          /\ Contains(listed, m) /\ m \notin M =>
                Contains(listed', m) \/ node'[m] = "gone"
          /\ node'[m] = node[m] \/ (node'[m] = "gone" /\ node[m] # "unused")

\* A step that runs stopStreaming() for one stream.
LEMMA StopsIsStopped ==
    ASSUME IInv, NEW n \in Nodes, node[n] # "unused", NEW reg,
           Stops(Registry, n, reg), SetRegistry(reg)
    PROVE  Stopped({n})
<1>1. /\ listed' = reg.list /\ node' = reg.node
      /\ reg \in Reg /\ Sound(reg)
  BY DEF SetRegistry, Stops
<1>2. listed' \in Seq(Nodes) /\ node' \in [Nodes -> Node] /\ ListIsLive'
  BY <1>1 DEF Reg, Sound, ListIsLive
<1>3. \A m \in Nodes : Contains(listed, m) => node[m] = "live"
  BY DEF IInv, ListIsLive, Contains, TrayIsTruthful, TypeOK
<1>4. \A m \in Nodes :
          /\ Contains(listed', m) => Contains(listed, m) /\ m # n
          /\ Contains(listed, m) /\ m # n => Contains(listed', m) \/ node'[m] = "gone"
          /\ \/ node'[m] = node[m]
             \/ node'[m] = "gone" /\ (Contains(listed, m) \/ m = n)
  BY <1>1, RegistryFacts DEF Stops
<1> QED BY <1>2, <1>3, <1>4 DEF Stopped

\* A step that leaves the streams alone.
LEMMA NothingStopped ==
    ASSUME IInv, UNCHANGED <<listed, node>>
    PROVE  Stopped({})
BY DEF IInv, TrayIsTruthful, TypeOK, ListIsLive, Stopped

\* A session that is closed has its stream stopped, if it has one and the portal
\* watches it.
LEMMA CloseFacts ==
    ASSUME IInv, NEW s \in Sessions, Close(s)
    PROVE  /\ Stopped({m \in Nodes : Contains(shared[s], m)})
           /\ action' = IF s \in watched THEN action \ {s} ELSE action
           /\ tray' = IF s \in watched THEN tray /\ action' # {} ELSE tray
<1> DEFINE M == {m \in Nodes : Contains(shared[s], m)}
<1>1. /\ action' = IF s \in watched THEN action \ {s} ELSE action
      /\ tray' = IF s \in watched THEN tray /\ action' # {} ELSE tray
  BY DEF Close, HandleClosed
<1>2. CASE s \notin watched
  <2>1. shared[s] = <<>>
    BY <1>2 DEF IInv, SessionsAreBooked, CallsAreOrdered
  <2>2. M = {} /\ UNCHANGED <<listed, node>>
    BY <1>2, <2>1 DEF Close, HandleClosed, Contains
  <2> QED BY <1>1, <2>2, NothingStopped
<1>3. CASE s \in watched /\ shared[s] = <<>>
  <2>1. SetRegistry(Registry)
    BY <1>3, FoldNone DEF Close, HandleClosed
  <2>2. M = {} /\ UNCHANGED <<listed, node>>
    BY <1>3, <2>1, RegistryFacts DEF SetRegistry, Contains
  <2> QED BY <1>1, <2>2, NothingStopped
<1>4. CASE s \in watched /\ shared[s] # <<>>
  <2>1. PICK n \in Nodes : shared[s] = <<n>> /\ node[n] \in {"live", "gone"}
    BY <1>4 DEF IInv, CallsAreOrdered
  <2>2. SetRegistry(StopStreaming(Registry, n))
    BY <1>4, <2>1, FoldOne DEF Close, HandleClosed
  <2>3. Stops(Registry, n, StopStreaming(Registry, n))
    BY RegistryFacts, StopStreamingStops
  <2>4. M = {n}
    BY <2>1 DEF Contains
  <2> HIDE DEF M
  <2>5. Stopped(M)
    BY <2>1, <2>2, <2>3, <2>4, StopsIsStopped
  <2> QED BY <1>1, <2>5 DEF M
<1> QED BY <1>2, <1>3, <1>4

\* startStreaming() begins with a stream that was not there before.
LEMMA UnusedFacts ==
    ASSUME Unused # {} PROVE NextNode \in Nodes /\ node[NextNode] = "unused"
<1>1. Unused \in SUBSET Nat
  BY DEF Unused, Nodes
<1>2. \E n \in Unused : \A k \in Unused : n <= k
  BY <1>1, Least
<1>3. NextNode \in Unused
  BY <1>2, Zenon DEF NextNode
<1> QED BY <1>3 DEF Unused

\* What startStreaming() begins.
NewFrame(s, dialog, n) ==
    [session |-> s, dialog |-> dialog, node |-> n,
     valid |-> FALSE, quit |-> FALSE, late |-> FALSE]

\* startStreaming() up to its event loop.
LEMMA PushStep ==
    ASSUME IInv, NEW s \in Sessions, NEW dialog \in BOOLEAN, Push(s, dialog)
    PROVE  \E n \in Nodes :
              /\ node[n] = "unused"
              /\ NewFrame(s, dialog, n) \in Frame
              /\ stack' = Append(stack, NewFrame(s, dialog, n))
              /\ node' = [node EXCEPT ![n] = "connecting"]
              /\ owner' = [owner EXCEPT ![n] = s]
              /\ UNCHANGED listed
<1>1. NextNode \in Nodes /\ node[NextNode] = "unused"
  BY UnusedFacts DEF Push
<1>2. NewFrame(s, dialog, NextNode) \in Frame
  BY <1>1 DEF NewFrame, Frame
<1> QED BY <1>1, <1>2 DEF Push, NewFrame

\* An activation that notes something about itself stays what it is.
Marked(i) ==
    /\ stack' \in Seq(Frame) /\ DOMAIN stack' = DOMAIN stack
    /\ \A j \in DOMAIN stack :
          /\ stack'[j].session = stack[j].session
          /\ stack'[j].dialog = stack[j].dialog
          /\ stack'[j].node = stack[j].node
          /\ j # i => stack'[j] = stack[j]

\* ready(), failed() and the timer only note something in an activation.
LEMMA MarkFacts ==
    ASSUME IInv, NEW i \in DOMAIN stack, NEW f \in Frame,
           stack' = [stack EXCEPT ![i] = f],
           f.session = stack[i].session, f.dialog = stack[i].dialog,
           f.node = stack[i].node
    PROVE  Marked(i) /\ stack'[i] = f
<1>1. stack \in Seq(Frame) /\ DOMAIN stack = 1..Len(stack)
  BY DEF IInv, TrayIsTruthful, TypeOK
<1>2. stack' \in Seq(Frame) /\ Len(stack') = Len(stack)
  BY <1>1, ExceptSeq
<1>3. DOMAIN stack' = DOMAIN stack
  BY <1>1, <1>2, LenProperties
<1>4. \A j \in DOMAIN stack : stack'[j] = IF j = i THEN f ELSE stack[j]
  BY <1>1
<1> QED BY <1>2, <1>3, <1>4 DEF Marked

\* The types of an activation.
LEMMA FrameFacts ==
    ASSUME IInv, NEW i \in DOMAIN stack
    PROVE  /\ stack[i] \in Frame
           /\ stack[i].session \in Sessions /\ stack[i].node \in Nodes
           /\ stack[i].dialog \in BOOLEAN /\ stack[i].valid \in BOOLEAN
<1>1. stack[i] \in Frame
  BY DEF IInv, TrayIsTruthful, TypeOK
<1> QED BY <1>1 DEF Frame

\* An answer is a new one, the last, and of one session.
LEMMA AnswerFacts ==
    ASSUME IInv, NEW s \in Sessions, NEW r \in Reply, Answer(s, r)
    PROVE  /\ replies' \in [Sessions -> Seq(Reply)]
           /\ replies'[s] # <<>> /\ replies'[s] # replies[s] /\ Last(replies'[s]) = r
           /\ \A t \in Sessions : t # s => replies'[t] = replies[t]
<1>1. replies \in [Sessions -> Seq(Reply)] /\ replies[s] \in Seq(Reply)
  BY DEF IInv, TrayIsTruthful, TypeOK
<1>2. replies' = [replies EXCEPT ![s] = Append(@, r)]
  BY DEF Answer
<1>3. /\ Append(replies[s], r) \in Seq(Reply) /\ Append(replies[s], r) # <<>>
      /\ Last(Append(replies[s], r)) = r
      /\ Len(Append(replies[s], r)) = Len(replies[s]) + 1
  BY <1>1, PushFacts, AppendProperties
<1>4. Append(replies[s], r) # replies[s]
  BY <1>1, <1>3, LenProperties
<1> QED BY <1>1, <1>2, <1>3, <1>4

\* What deleteLater() of a chooser leaves.
LEMMA DoomFacts ==
    ASSUME IInv, NEW s \in Sessions, NEW level \in Levels, Doom(s, level)
    PROVE  /\ chooser' \in [Sessions -> Chooser] /\ doomedAt' \in [Sessions -> Levels]
           /\ chooser'[s] = "doomed"
           /\ \A t \in Sessions : t # s => chooser'[t] = chooser[t]
<1>1. chooser \in [Sessions -> Chooser] /\ doomedAt \in [Sessions -> Levels]
  BY DEF IInv, TrayIsTruthful, TypeOK
<1>2. \/ doomedAt' = doomedAt
      \/ doomedAt' = [doomedAt EXCEPT ![s] = level]
  BY DEF Doom
<1>3. chooser' = [chooser EXCEPT ![s] = "doomed"]
  BY DEF Doom
<1> QED BY <1>1, <1>2, <1>3 DEF Chooser

\* The level of the current loop, and of the one below it.
LEMMA LevelFacts ==
    ASSUME IInv
    PROVE  Len(stack) \in Levels /\ (stack # <<>> => Len(stack) - 1 \in Levels)
<1>1. stack \in Seq(Frame)
  BY DEF IInv, TrayIsTruthful, TypeOK
<1> QED BY <1>1 DEF Levels

\* A chooser that is rejected has had no answer before, unless it is to go.
LEMMA RejectFacts ==
    ASSUME IInv, NEW s \in Sessions, RejectChooser(s)
    PROVE  /\ replies' \in [Sessions -> Seq(Reply)]
           /\ chooser' \in [Sessions -> Chooser] /\ doomedAt' \in [Sessions -> Levels]
           /\ \A t \in Sessions : t # s => replies'[t] = replies[t] /\ chooser'[t] = chooser[t]
           /\ \/ UNCHANGED <<replies, chooser>>
              \/ /\ Present(s) /\ chooser'[s] = "doomed"
                 /\ replies[s] = <<>> \/ chooser[s] = "doomed"
                 /\ Last(replies'[s]) = "failure"
<1>1. /\ chooser \in [Sessions -> Chooser] /\ replies \in [Sessions -> Seq(Reply)]
      /\ doomedAt \in [Sessions -> Levels]
  BY DEF IInv, TrayIsTruthful, TypeOK
<1>2. CASE Present(s)
  <2>1. Doom(s, Len(stack)) /\ Answer(s, "failure")
    BY <1>2 DEF RejectChooser
  <2>2. "failure" \in Reply
    BY DEF Reply
  <2>3. replies[s] = <<>> \/ chooser[s] = "doomed"
    BY <1>2 DEF IInv, CallsAreOrdered, Present
  <2>4. /\ chooser' \in [Sessions -> Chooser] /\ doomedAt' \in [Sessions -> Levels]
        /\ chooser'[s] = "doomed"
        /\ \A t \in Sessions : t # s => chooser'[t] = chooser[t]
    BY <2>1, LevelFacts, DoomFacts
  <2>5. /\ replies' \in [Sessions -> Seq(Reply)] /\ Last(replies'[s]) = "failure"
        /\ \A t \in Sessions : t # s => replies'[t] = replies[t]
    BY <2>1, <2>2, AnswerFacts
  <2> QED BY <1>2, <2>3, <2>4, <2>5
<1>3. CASE ~Present(s)
  BY <1>1, <1>3 DEF RejectChooser
<1> QED BY <1>2, <1>3

\* What is left when the topmost activation returns.
LEMMA ReturnFacts ==
    ASSUME IInv, stack # <<>>, NEW r \in Reply, Return(Top, r)
    PROVE  /\ Len(stack) \in DOMAIN stack /\ Top = stack[Len(stack)]
           /\ Top \in Frame /\ Top.session \in Sessions /\ Top.node \in Nodes
           /\ Top.dialog \in BOOLEAN
           /\ stack' \in Seq(Frame) /\ DOMAIN stack' = DOMAIN stack \ {Len(stack)}
           /\ \A i \in DOMAIN stack' : stack'[i] = stack[i]
           /\ Answer(Top.session, r)
           /\ life' \in Life /\ chooser' \in [Sessions -> Chooser]
           /\ doomedAt' \in [Sessions -> Levels]
           /\ \A t \in Sessions :
                 \/ chooser'[t] = chooser[t] /\ chooser[t] # "alive"
                 \/ t = Top.session /\ Top.dialog /\ chooser'[t] = "doomed"
                 \/ t = Top.session /\ ~Top.dialog /\ chooser'[t] = chooser[t]
                 \/ t # Top.session /\ chooser'[t] = chooser[t]
<1>1. /\ stack \in Seq(Frame) /\ chooser \in [Sessions -> Chooser] /\ life \in Life
      /\ doomedAt \in [Sessions -> Levels]
  BY DEF IInv, TrayIsTruthful, TypeOK
<1>2. /\ Front(stack) \in Seq(Frame)
      /\ Len(stack) \in DOMAIN stack /\ stack[Len(stack)] \in Frame
      /\ DOMAIN Front(stack) = DOMAIN stack \ {Len(stack)}
      /\ \A i \in DOMAIN Front(stack) : Front(stack)[i] = stack[i]
  BY <1>1, PopFacts
<1>3. Top = stack[Len(stack)] /\ Top \in Frame
  BY <1>2 DEF Top
<1>4. Top.session \in Sessions /\ Top.node \in Nodes /\ Top.dialog \in BOOLEAN
  BY <1>3 DEF Frame
<1>5. Answer(Top.session, r) /\ stack' = Front(stack)
  BY DEF Return
<1> HIDE DEF Top
<1>6. CASE Top.dialog /\ chooser[Top.session] = "deleted"
  <2>1. life' = "dead_dialog" /\ chooser' = chooser /\ doomedAt' = doomedAt
    BY <1>6 DEF Return
  <2> QED BY <1>1, <1>2, <1>3, <1>4, <1>5, <1>6, <2>1 DEF Life
<1>7. CASE Top.dialog /\ chooser[Top.session] # "deleted"
  <2>1. life' = life /\ Doom(Top.session, Len(stack) - 1)
    BY <1>7 DEF Return
  <2>2. /\ chooser' \in [Sessions -> Chooser] /\ doomedAt' \in [Sessions -> Levels]
        /\ chooser'[Top.session] = "doomed"
        /\ \A t \in Sessions : t # Top.session => chooser'[t] = chooser[t]
    BY <1>4, <2>1, LevelFacts, DoomFacts
  <2> QED BY <1>1, <1>2, <1>3, <1>4, <1>5, <1>7, <2>1, <2>2
<1>8. CASE ~Top.dialog
  <2>1. life' = life /\ chooser' = chooser /\ doomedAt' = doomedAt
    BY <1>8 DEF Return
  <2> QED BY <1>1, <1>2, <1>3, <1>4, <1>5, <1>8, <2>1
<1> QED BY <1>4, <1>6, <1>7, <1>8

\* A stream gets ready.
LEMMA ReadyFacts ==
    ASSUME IInv, NEW i \in Nodes, Ready(i)
    PROVE  /\ i \in DOMAIN stack /\ stack[i].node \in Nodes
           /\ node[stack[i].node] = "connecting"
           /\ node' = [node EXCEPT ![stack[i].node] = "live"]
           /\ node' \in [Nodes -> Node]
           /\ listed' \in Seq(Nodes) /\ ListIsLive'
           /\ \A m : Contains(listed', m) <=> Contains(listed, m) \/ m = stack[i].node
           /\ Marked(i) /\ stack'[i].valid
<1> DEFINE n == stack[i].node
<1>1. /\ i \in DOMAIN stack /\ n \in Nodes /\ node[n] = "connecting"
      /\ node' = [node EXCEPT ![n] = "live"] /\ listed' = Append(listed, n)
  BY FrameFacts DEF Ready, SetRegistry
<1>2. /\ listed \in Seq(Nodes) /\ node \in [Nodes -> Node] /\ ListIsLive
      /\ DOMAIN listed = 1..Len(listed)
  BY DEF IInv, TrayIsTruthful, TypeOK
<1>3. node' \in [Nodes -> Node]
  BY <1>1, <1>2 DEF Node
<1>4. /\ listed' \in Seq(Nodes)
      /\ DOMAIN listed' = DOMAIN listed \cup {Len(listed) + 1}
      /\ \A j \in DOMAIN listed : listed'[j] = listed[j] /\ j # Len(listed) + 1
      /\ listed'[Len(listed) + 1] = n
      /\ \A m : Contains(listed', m) <=> Contains(listed, m) \/ m = n
  BY <1>1, <1>2, PushFacts
<1>5. ListIsLive'
  <2>1. \A j \in DOMAIN listed : /\ node[listed[j]] = "live" /\ listed[j] # n
                                 /\ listed[j] \in Nodes
    BY <1>1, <1>2 DEF ListIsLive
  <2>2. \A j \in DOMAIN listed' : node'[listed'[j]] = "live"
    BY <1>1, <1>2, <1>4, <2>1
  <2>3. IsInjective(listed')
    BY <1>2, <1>4, <2>1 DEF IsInjective, ListIsLive
  <2> QED BY <2>2, <2>3 DEF ListIsLive
<1>6. Marked(i) /\ stack'[i].valid
  <2> DEFINE f == [stack[i] EXCEPT !.valid = TRUE, !.quit = TRUE]
  <2>1. stack[i] \in Frame
    BY <1>1, FrameFacts
  <2>2. /\ f \in Frame /\ f.valid /\ f.session = stack[i].session
        /\ f.dialog = stack[i].dialog /\ f.node = stack[i].node
    BY <2>1 DEF Frame
  <2>3. stack' = [stack EXCEPT ![i] = f]
    BY <1>1, <2>1 DEF Ready, IInv, TrayIsTruthful, TypeOK
  <2> HIDE DEF f
  <2> QED BY <1>1, <2>2, <2>3, MarkFacts
<1> QED BY <1>1, <1>3, <1>4, <1>5, <1>6

\* A stream fails.
LEMMA FailedFacts ==
    ASSUME IInv, NEW i \in Nodes, Failed(i)
    PROVE  Marked(i) /\ stack'[i].valid = stack[i].valid /\ i \in DOMAIN stack
<1> DEFINE f == [stack[i] EXCEPT !.quit = TRUE]
<1>1. i \in DOMAIN stack /\ stack[i] \in Frame
  BY FrameFacts DEF Failed
<1>2. /\ f \in Frame /\ f.valid = stack[i].valid /\ f.session = stack[i].session
      /\ f.dialog = stack[i].dialog /\ f.node = stack[i].node
  BY <1>1 DEF Frame
<1>3. stack' = [stack EXCEPT ![i] = f]
  BY <1>1 DEF Failed, IInv, TrayIsTruthful, TypeOK
<1> HIDE DEF f
<1> QED BY <1>1, <1>2, <1>3, MarkFacts

\* The limit runs out: the stream is gone, whatever it takes with it.
LEMMA TimeoutFacts ==
    ASSUME IInv, NEW i \in Nodes, Timeout(i)
    PROVE  /\ Marked(i) /\ stack'[i].valid = stack[i].valid /\ i \in DOMAIN stack
           /\ life' \in Life
           /\ stack[i].node \in Nodes
           /\ Stopped({stack[i].node}) \/ Stopped({})
           /\ node'[stack[i].node] = "gone"
<1> DEFINE f == [stack[i] EXCEPT !.late = TRUE, !.quit = TRUE]
           n == stack[i].node
<1>1. i \in DOMAIN stack /\ stack[i] \in Frame /\ n \in Nodes
  BY FrameFacts DEF Timeout
<1>2. /\ f \in Frame /\ f.valid = stack[i].valid /\ f.session = stack[i].session
      /\ f.dialog = stack[i].dialog /\ f.node = stack[i].node
  BY <1>1 DEF Frame
<1>3. stack' = [stack EXCEPT ![i] = f]
  BY <1>1 DEF Timeout, IInv, TrayIsTruthful, TypeOK
<1>4. Marked(i) /\ stack'[i].valid = stack[i].valid
  <2> HIDE DEF f
  <2> QED BY <1>1, <1>2, <1>3, MarkFacts
<1>5. CASE node[n] = "gone"
  <2>1. life' = "dead_stream" /\ UNCHANGED <<listed, node>>
    BY <1>5 DEF Timeout
  <2> QED BY <1>1, <1>4, <1>5, <2>1, NothingStopped DEF Life
<1>6. CASE node[n] # "gone"
  <2>1. SetRegistry(Deleted(Registry, n)) /\ life' = life
    BY <1>6 DEF Timeout
  <2>2. Stops(Registry, n, Deleted(Registry, n)) /\ Deleted(Registry, n).node[n] = "gone"
    BY <1>1, RegistryFacts, DeletedStops
  <2>3. node[n] # "unused"
    BY <1>1 DEF IInv, FramesAreTrue, FrameIsTrue
  <2>4. Stopped({n})
    BY <1>1, <2>1, <2>2, <2>3, StopsIsStopped
  <2>5. life \in Life
    BY DEF IInv, TrayIsTruthful, TypeOK
  <2> QED BY <1>1, <1>4, <2>1, <2>2, <2>4, <2>5 DEF SetRegistry
<1> QED BY <1>5, <1>6

\* A stream closes.
LEMMA StreamClosedFacts ==
    ASSUME IInv, NEW n \in Nodes, StreamClosed(n)
    PROVE  Stopped({n})
<1>1. node[n] # "unused"
  BY DEF StreamClosed, IInv, ListIsLive, Contains, TrayIsTruthful, TypeOK
<1>2. Stops(Registry, n, StopStreaming(Registry, n))
  BY RegistryFacts, StopStreamingStops
<1> QED BY <1>1, <1>2, StopsIsStopped DEF StreamClosed

---------------------------------------------------------------------------
(* The parts of the invariant, step by step *)

\* Types.
LEMMA TypeStep == ASSUME IInv, Next PROVE TypeOK'
<1>0. TypeOK
  BY DEF IInv, TrayIsTruthful
<1>1. ASSUME NEW s \in Sessions, CreateSession(s) PROVE TypeOK'
  BY <1>0, <1>1 DEF TypeOK, CreateSession, callVars, dialogVars, streamVars, Session
<1>2. ASSUME NEW s \in Sessions, Close(s), life' \in Life PROVE TypeOK'
  <2>1. Stopped({m \in Nodes : Contains(shared[s], m)}) /\ RejectChooser(s)
    BY <1>2, CloseFacts DEF Close
  <2>2. listed' \in Seq(Nodes) /\ node' \in [Nodes -> Node]
    BY <2>1 DEF Stopped
  <2>3. /\ chooser' \in [Sessions -> Chooser] /\ replies' \in [Sessions -> Seq(Reply)]
        /\ doomedAt' \in [Sessions -> Levels]
    BY <2>1, RejectFacts
  <2>4. action' \in SUBSET Sessions /\ tray' \in BOOLEAN
    BY <1>0, <1>2, CloseFacts DEF TypeOK
  <2>5. slips' \in SUBSET Slip
    BY <1>0, <1>2 DEF Close, TypeOK, Slip
  <2>6. sess' \in [Sessions -> Session] /\ closedAt' \in [Sessions -> Levels]
    <3>1. \/ closedAt' = closedAt
          \/ closedAt' = [closedAt EXCEPT ![s] = Len(stack)]
      BY <1>2 DEF Close
    <3>2. Len(stack) \in Levels
      BY LevelFacts
    <3> QED BY <1>0, <1>2, <3>1, <3>2 DEF Close, TypeOK, Session
  <2> QED BY <1>0, <1>2, <2>2, <2>3, <2>4, <2>5, <2>6 DEF Close, TypeOK
<1>3. ASSUME NEW s \in Sessions, SessionClose(s) \/ TriggerAction(s) PROVE TypeOK'
  <2>1. CASE life' = "dead_action" /\ UNCHANGED <<sessionVars, callVars, stack, streamVars, slips>>
    BY <1>0, <2>1 DEF TypeOK, Life, sessionVars, callVars, dialogVars, streamVars
  <2>2. CASE Close(s) /\ UNCHANGED life
    BY <1>0, <1>2, <2>2 DEF TypeOK
  <2> QED BY <1>3, <2>1, <2>2 DEF SessionClose, TriggerAction
<1>4. ASSUME NEW s \in Sessions, StartRefused(s) PROVE TypeOK'
  <2>1. replies' \in [Sessions -> Seq(Reply)]
    BY <1>4, AnswerFacts DEF StartRefused, Reply
  <2> QED BY <1>0, <1>4, <2>1
          DEF TypeOK, StartRefused, sessionVars, dialogVars, streamVars
<1>5. ASSUME NEW s \in Sessions, NEW d \in BOOLEAN, Push(s, d)
      PROVE  /\ stack' \in Seq(Frame) /\ node' \in [Nodes -> Node]
             /\ owner' \in [Nodes -> Sessions \cup {None}] /\ listed' \in Seq(Nodes)
  <2>1. PICK n \in Nodes :
              /\ NewFrame(s, d, n) \in Frame
              /\ stack' = Append(stack, NewFrame(s, d, n))
              /\ node' = [node EXCEPT ![n] = "connecting"]
              /\ owner' = [owner EXCEPT ![n] = s]
              /\ UNCHANGED listed
    BY <1>5, PushStep
  <2>2. stack' \in Seq(Frame)
    BY <1>0, <2>1, PushFacts DEF TypeOK
  <2> QED BY <1>0, <2>1, <2>2 DEF TypeOK, Node
<1>6. ASSUME NEW s \in Sessions, StartRestored(s) PROVE TypeOK'
  <2>1. /\ stack' \in Seq(Frame) /\ node' \in [Nodes -> Node]
        /\ owner' \in [Nodes -> Sessions \cup {None}] /\ listed' \in Seq(Nodes)
    BY <1>5, <1>6 DEF StartRestored
  <2> QED BY <1>0, <1>6, <2>1 DEF TypeOK, StartRestored, sessionVars, dialogVars
<1>7. ASSUME NEW s \in Sessions, Accept(s) PROVE TypeOK'
  <2>1. CASE Push(s, TRUE) /\ UNCHANGED life
    <3>1. /\ stack' \in Seq(Frame) /\ node' \in [Nodes -> Node]
          /\ owner' \in [Nodes -> Sessions \cup {None}] /\ listed' \in Seq(Nodes)
      BY <1>5, <2>1
    <3> QED BY <1>0, <1>7, <2>1, <3>1
            DEF TypeOK, Accept, sessionVars, callVars, dialogVars
  <2>2. CASE life' = "dead_session" /\ UNCHANGED <<stack, streamVars>>
    BY <1>0, <1>7, <2>2
    DEF TypeOK, Accept, Life, sessionVars, callVars, dialogVars, streamVars
  <2> QED BY <1>7, <2>1, <2>2 DEF Accept
<1>8. ASSUME NEW s \in Sessions, StartChooser(s) \/ DeleteSession(s) PROVE TypeOK'
  <2>1. CASE StartChooser(s)
    BY <1>0, <2>1 DEF TypeOK, StartChooser, sessionVars, streamVars, Chooser
  <2>2. CASE DeleteSession(s)
    <3>1. <<>> \in Seq(Nodes) /\ 0 \in Levels
      BY DEF Levels
    <3>2. /\ sess' \in [Sessions -> Session] /\ closedAt' \in [Sessions -> Levels]
          /\ shared' \in [Sessions -> Seq(Nodes)]
      BY <1>0, <2>2, <3>1 DEF TypeOK, DeleteSession, Session
    <3> QED BY <1>0, <2>2, <3>2 DEF TypeOK, DeleteSession, dialogVars, streamVars
  <2> QED BY <1>8, <2>1, <2>2
<1>9. ASSUME NEW s \in Sessions, AcceptNothing(s) \/ Reject(s) \/ RequestClose(s)
      PROVE  TypeOK'
  <2>1. /\ chooser' \in [Sessions -> Chooser] /\ replies' \in [Sessions -> Seq(Reply)]
        /\ doomedAt' \in [Sessions -> Levels]
    <3>1. CASE AcceptNothing(s)
      BY <3>1, AnswerFacts, LevelFacts, DoomFacts DEF AcceptNothing, Reply
    <3>2. CASE Reject(s) \/ RequestClose(s)
      BY <3>2, RejectFacts DEF Reject, RequestClose
    <3> QED BY <1>9, <3>1, <3>2
  <2> QED BY <1>0, <1>9, <2>1
          DEF TypeOK, AcceptNothing, Reject, RequestClose, sessionVars, streamVars
<1>10. ASSUME NEW s \in Sessions, CloseWindow(s) PROVE TypeOK'
  BY <1>0, <1>10 DEF TypeOK, CloseWindow, sessionVars, streamVars
<1>11. ASSUME NEW s \in Sessions, DeleteChooser(s) PROVE TypeOK'
  <2>1. /\ life' \in Life /\ chooser' \in [Sessions -> Chooser]
        /\ doomedAt' \in [Sessions -> Levels]
        /\ windows' \in SUBSET Sessions /\ requests' \in SUBSET Sessions
    <3>1. 0 \in Levels
      BY DEF Levels
    <3>2. CASE s \in windows
      <4>1. /\ life' = life /\ chooser' = [chooser EXCEPT ![s] = "deleted"]
            /\ doomedAt' = [doomedAt EXCEPT ![s] = 0]
            /\ windows' = windows \ {s} /\ requests' = requests \ {s}
        BY <1>11, <3>2 DEF DeleteChooser
      <4> QED BY <1>0, <3>1, <4>1 DEF TypeOK, Chooser
    <3>3. CASE s \notin windows
      BY <1>0, <1>11, <3>3 DEF TypeOK, DeleteChooser, dialogVars, Life
    <3> QED BY <3>2, <3>3
  <2> QED BY <1>0, <1>11, <2>1 DEF TypeOK, DeleteChooser, sessionVars, streamVars
<1>12. ASSUME NEW i \in Nodes, Ready(i) PROVE TypeOK'
  <2>1. /\ stack' \in Seq(Frame) /\ node' \in [Nodes -> Node] /\ listed' \in Seq(Nodes)
    BY <1>12, ReadyFacts DEF Marked
  <2> QED BY <1>0, <1>12, <2>1
          DEF TypeOK, Ready, sessionVars, callVars, dialogVars
<1>13. ASSUME NEW i \in Nodes, Failed(i) PROVE TypeOK'
  <2>1. stack' \in Seq(Frame)
    BY <1>13, FailedFacts DEF Marked
  <2> QED BY <1>0, <1>13, <2>1
          DEF TypeOK, Failed, sessionVars, callVars, dialogVars, streamVars
<1>14. ASSUME NEW i \in Nodes, Timeout(i) PROVE TypeOK'
  <2>1. /\ stack' \in Seq(Frame) /\ node' \in [Nodes -> Node] /\ listed' \in Seq(Nodes)
        /\ life' \in Life
    BY <1>14, TimeoutFacts DEF Marked, Stopped
  <2> QED BY <1>0, <1>14, <2>1
          DEF TypeOK, Timeout, sessionVars, callVars, dialogVars
<1>15. ASSUME NEW n \in Nodes, ReadyUnheard(n) PROVE TypeOK'
  <2>1. slips' \in SUBSET Slip /\ node' \in [Nodes -> Node]
    BY <1>0, <1>15 DEF TypeOK, ReadyUnheard, Slip, Node
  <2> QED BY <1>0, <1>15, <2>1
          DEF TypeOK, ReadyUnheard, sessionVars, callVars, dialogVars
<1>16. ASSUME NEW n \in Nodes, StreamClosed(n) PROVE TypeOK'
  <2>1. node' \in [Nodes -> Node] /\ listed' \in Seq(Nodes)
    BY <1>16, StreamClosedFacts DEF Stopped
  <2>2. slips' \in SUBSET Slip
    BY <1>0, <1>16 DEF TypeOK, StreamClosed, Slip
  <2> QED BY <1>0, <1>16, <2>1, <2>2
          DEF TypeOK, StreamClosed, sessionVars, callVars, dialogVars
<1>17. ASSUME Started PROVE TypeOK'
  <2>1. PICK r \in {"success", "failure"} : Return(Top, r)
    BY <1>17 DEF Started
  <2>2. r \in Reply /\ stack # <<>>
    BY <1>17 DEF Reply, Started
  <2>3. /\ stack' \in Seq(Frame) /\ life' \in Life /\ chooser' \in [Sessions -> Chooser]
        /\ doomedAt' \in [Sessions -> Levels]
        /\ Top.session \in Sessions /\ Top.node \in Nodes /\ Answer(Top.session, r)
    BY <2>1, <2>2, ReturnFacts
  <2>4. replies' \in [Sessions -> Seq(Reply)]
    BY <2>2, <2>3, AnswerFacts
  <2>5. slips' \in SUBSET Slip
    BY <1>0, <1>17 DEF TypeOK, Started, Slip
  <2>6. shared' \in [Sessions -> Seq(Nodes)]
    <3>1. shared' = shared \/ shared' = [shared EXCEPT ![Top.session] = <<Top.node>>]
      BY <1>17 DEF Started
    <3>2. <<Top.node>> \in Seq(Nodes)
      BY <2>3
    <3> HIDE DEF Top
    <3> QED BY <1>0, <2>3, <3>1, <3>2 DEF TypeOK
  <2> QED BY <1>0, <1>17, <2>3, <2>4, <2>5, <2>6
          DEF TypeOK, Started, sessionVars, streamVars
<1>18. ASSUME NotStarted PROVE TypeOK'
  <2>1. Return(Top, "failure") /\ stack # <<>> /\ "failure" \in Reply
    BY <1>18 DEF NotStarted, Reply
  <2>2. /\ stack' \in Seq(Frame) /\ life' \in Life /\ chooser' \in [Sessions -> Chooser]
        /\ doomedAt' \in [Sessions -> Levels]
        /\ Top.session \in Sessions /\ Answer(Top.session, "failure")
    BY <2>1, ReturnFacts
  <2>3. replies' \in [Sessions -> Seq(Reply)]
    BY <2>1, <2>2, AnswerFacts
  <2> QED BY <1>0, <1>18, <2>2, <2>3 DEF TypeOK, NotStarted, sessionVars, streamVars
<1> QED
  BY <1>1, <1>3, <1>4, <1>6, <1>7, <1>8, <1>9, <1>10, <1>11, <1>12, <1>13,
     <1>14, <1>15, <1>16, <1>17, <1>18
  DEF Next, Portal, Dialogs, Streaming, LoopReturns

\* The tray and its menu.
LEMMA BookingStep ==
    ASSUME IInv, Next
    PROVE  TrayOffersStop' /\ StaleActionIsRefused' /\ SessionsAreBooked'
<1> DEFINE Booked == TrayOffersStop /\ StaleActionIsRefused /\ SessionsAreBooked
<1>0. /\ Booked
      /\ sess \in [Sessions -> Session]
      /\ action \in SUBSET Sessions /\ watched \in SUBSET Sessions
  BY DEF IInv, TrayIsTruthful, TypeOK
<1>1. ASSUME NEW s \in Sessions, CreateSession(s) PROVE Booked'
  <2>1. watched' = watched \/ watched' = watched \cup {s}
    BY <1>1 DEF CreateSession
  <2>2. /\ sess[s] = "none" /\ sess' = [sess EXCEPT ![s] = "open"]
        /\ action' = action \cup {s} /\ tray' = TRUE /\ started' = started
    BY <1>1 DEF CreateSession, callVars
  <2>3. TrayOffersStop'
    BY <1>0, <2>2 DEF TrayOffersStop
  <2>4. StaleActionIsRefused'
    BY <1>0, <2>1, <2>2 DEF StaleActionIsRefused
  <2>5. SessionsAreBooked'
    BY <1>0, <2>1, <2>2 DEF SessionsAreBooked
  <2> QED BY <2>3, <2>4, <2>5
<1>2. ASSUME NEW s \in Sessions, Close(s), sess[s] # "none" PROVE Booked'
  <2>1. /\ sess' = [sess EXCEPT ![s] = "closed"]
        /\ watched' = watched /\ started' = started
        /\ action' = IF s \in watched THEN action \ {s} ELSE action
        /\ tray' = IF s \in watched THEN tray /\ action' # {} ELSE tray
    BY <1>2, CloseFacts DEF Close
  <2>2. TrayOffersStop'
    <3>1. \A t \in Sessions : sess'[t] = "open" => t \in action'
      BY <1>0, <2>1 DEF TrayOffersStop
    <3>2. tray' <=> action' # {}
      <4>1. CASE s \in watched
        <5>1. tray' <=> (tray /\ action' # {})
          BY <2>1, <4>1
        <5>2. action' # {} => action # {}
          BY <2>1, <4>1
        <5>3. tray <=> action # {}
          BY <1>0 DEF TrayOffersStop
        <5> QED BY <5>1, <5>2, <5>3, Zenon
      <4>2. CASE s \notin watched
        BY <1>0, <2>1, <4>2 DEF TrayOffersStop
      <4> QED BY <4>1, <4>2
    <3> QED BY <3>1, <3>2 DEF TrayOffersStop
  <2>3. StaleActionIsRefused'
    BY <1>0, <2>1 DEF StaleActionIsRefused
  <2>4. SessionsAreBooked'
    BY <1>0, <1>2, <2>1 DEF SessionsAreBooked
  <2> QED BY <2>2, <2>3, <2>4
<1>3. ASSUME UNCHANGED sessionVars,
             started' = started \/ \E s \in watched : started' = started \cup {s}
      PROVE  Booked'
  <2>1. UNCHANGED <<sess, watched, action, tray>>
    BY <1>3 DEF sessionVars
  <2>2. TrayOffersStop' /\ StaleActionIsRefused'
    BY <1>0, <2>1 DEF TrayOffersStop, StaleActionIsRefused
  <2>3. SessionsAreBooked'
    BY <1>0, <1>3, <2>1 DEF SessionsAreBooked
  <2> QED BY <2>2, <2>3
<1>4. ASSUME NEW s \in Sessions, SessionClose(s) \/ TriggerAction(s) PROVE Booked'
  <2>1. CASE UNCHANGED <<sessionVars, callVars>>
    BY <1>3, <2>1 DEF callVars
  <2>2. CASE Close(s)
    <3>1. sess[s] # "none"
      BY <1>0, <1>4 DEF SessionClose, TriggerAction, SessionsAreBooked
    <3> QED BY <1>2, <2>2, <3>1
  <2> QED BY <1>4, <2>1, <2>2 DEF SessionClose, TriggerAction
<1>5. ASSUME NEW s \in Sessions,
             StartRefused(s) \/ StartRestored(s) \/ StartChooser(s)
      PROVE  Booked'
  <2>1. UNCHANGED sessionVars /\ started' = started \cup {s} /\ s \in watched
    BY <1>5 DEF StartRefused, StartRestored, StartChooser, Startable
  <2> QED BY <1>3, <2>1
<1>6. ASSUME Dialogs \/ Streaming PROVE Booked'
  <2>1. UNCHANGED sessionVars /\ started' = started
    BY <1>6 DEF Dialogs, Accept, AcceptNothing, Reject, CloseWindow, RequestClose,
                DeleteChooser, Streaming, Ready, Failed, Timeout, ReadyUnheard,
                StreamClosed, LoopReturns, Started, NotStarted, callVars
  <2> QED BY <1>3, <2>1
<1>7. ASSUME NEW s \in Sessions, DeleteSession(s) PROVE Booked'
  <2>1. /\ sess[s] = "closed" /\ sess' = [sess EXCEPT ![s] = "deleted"]
        /\ UNCHANGED <<watched, action, tray, started>>
    BY <1>7 DEF DeleteSession
  <2> QED BY <1>0, <2>1 DEF TrayOffersStop, StaleActionIsRefused, SessionsAreBooked
<1> QED BY <1>1, <1>4, <1>5, <1>6, <1>7 DEF Next, Portal

\* The streams a step leaves alone, and those it does not.
NodesStep ==
    /\ ListIsLive'
    /\ \A m \in Nodes :
          /\ node[m] # "unused" => node'[m] # "unused" /\ owner'[m] = owner[m]
          /\ node[m] \in {"live", "gone"} => node'[m] \in {"live", "gone"}

\* The list of streams, and what a stream may become.
LEMMA StreamsStep == ASSUME IInv, Next PROVE NodesStep
<1>0. /\ ListIsLive /\ listed \in Seq(Nodes) /\ node \in [Nodes -> Node]
      /\ owner \in [Nodes -> Sessions \cup {None}]
  BY DEF IInv, TrayIsTruthful, TypeOK
<1>1. ASSUME NEW M, Stopped(M), UNCHANGED owner PROVE NodesStep
  BY <1>1 DEF Stopped, NodesStep
<1>2. ASSUME UNCHANGED streamVars PROVE NodesStep
  BY <1>0, <1>2 DEF streamVars, NodesStep, ListIsLive
<1>3. ASSUME NEW s \in Sessions, SessionClose(s) \/ TriggerAction(s) PROVE NodesStep
  <2>1. CASE UNCHANGED streamVars
    BY <1>2, <2>1
  <2>2. CASE Close(s)
    BY <1>1, <2>2, CloseFacts DEF Close
  <2> QED BY <1>3, <2>1, <2>2 DEF SessionClose, TriggerAction
<1>4. ASSUME NEW s \in Sessions, NEW d \in BOOLEAN, Push(s, d) PROVE NodesStep
  <2>1. PICK n \in Nodes :
              /\ node[n] = "unused"
              /\ node' = [node EXCEPT ![n] = "connecting"]
              /\ owner' = [owner EXCEPT ![n] = s]
              /\ UNCHANGED listed
    BY <1>4, PushStep
  <2>2. \A j \in DOMAIN listed : listed[j] \in Nodes /\ node[listed[j]] = "live"
    BY <1>0 DEF ListIsLive
  <2>3. ListIsLive'
    BY <1>0, <2>1, <2>2 DEF ListIsLive
  <2> QED BY <1>0, <2>1, <2>3 DEF NodesStep
<1>5. ASSUME NEW i \in Nodes, Ready(i) PROVE NodesStep
  <2>1. /\ stack[i].node \in Nodes
        /\ node[stack[i].node] = "connecting"
        /\ node' = [node EXCEPT ![stack[i].node] = "live"]
        /\ ListIsLive' /\ owner' = owner
    BY <1>5, ReadyFacts DEF Ready
  <2> QED BY <1>0, <2>1 DEF NodesStep
<1>6. ASSUME NEW n \in Nodes, ReadyUnheard(n) PROVE NodesStep
  <2>1. /\ node[n] = "connecting" /\ node' = [node EXCEPT ![n] = "live"]
        /\ UNCHANGED <<listed, owner>>
    BY <1>6 DEF ReadyUnheard
  <2>2. \A j \in DOMAIN listed : listed[j] \in Nodes
    BY <1>0
  <2> QED BY <1>0, <2>1, <2>2 DEF NodesStep, ListIsLive
<1>7. ASSUME NEW i \in Nodes, Timeout(i) PROVE NodesStep
  BY <1>1, <1>7, TimeoutFacts DEF Timeout
<1>8. ASSUME NEW n \in Nodes, StreamClosed(n) PROVE NodesStep
  BY <1>1, <1>8, StreamClosedFacts DEF StreamClosed
<1>9. ASSUME NEW s \in Sessions,
             \/ CreateSession(s) \/ StartRefused(s) \/ StartChooser(s)
             \/ AcceptNothing(s) \/ Reject(s) \/ CloseWindow(s)
             \/ RequestClose(s) \/ DeleteChooser(s) \/ DeleteSession(s)
      PROVE  NodesStep
  BY <1>2, <1>9 DEF CreateSession, StartRefused, StartChooser, AcceptNothing, Reject,
                    CloseWindow, RequestClose, DeleteChooser, DeleteSession
<1>10. ASSUME NEW i \in Nodes, Failed(i) PROVE NodesStep
  BY <1>2, <1>10 DEF Failed
<1>11. ASSUME LoopReturns PROVE NodesStep
  BY <1>2, <1>11 DEF LoopReturns, Started, NotStarted
<1>12. ASSUME NEW s \in Sessions, StartRestored(s) \/ Accept(s) PROVE NodesStep
  BY <1>2, <1>4, <1>12 DEF StartRestored, Accept
<1> QED
  BY <1>3, <1>5, <1>6, <1>7, <1>8, <1>9, <1>10, <1>11, <1>12
  DEF Next, Portal, Dialogs, Streaming

\* A session's Start call, and what it shares
LEMMA SharedStep ==
    ASSUME IInv, Next, NEW s \in Sessions
    PROVE  /\ \/ shared'[s] = <<>>
              \/ \E n \in Nodes : /\ shared'[s] = <<n>> /\ owner'[n] = s
                                  /\ node'[n] \in {"live", "gone"}
           /\ \/ shared'[s] = shared[s]
              \/ /\ Started /\ s = Top.session /\ shared'[s] = <<Top.node>>
                 /\ sess[s] # "deleted"
              \/ DeleteSession(s) /\ shared'[s] = <<>>
<1>1. /\ CallsAreOrdered /\ shared \in [Sessions -> Seq(Nodes)]
      /\ owner \in [Nodes -> Sessions \cup {None}]
  BY DEF IInv, TrayIsTruthful, TypeOK
<1>2. CASE shared' = shared
  <2>1. NodesStep
    BY StreamsStep
  <2>2. \A n \in Nodes : node[n] \in {"live", "gone"} =>
           node'[n] \in {"live", "gone"} /\ owner'[n] = owner[n]
    BY <2>1 DEF NodesStep
  <2> QED BY <1>1, <1>2, <2>2 DEF CallsAreOrdered
<1>3. CASE Started /\ shared' # shared
  <2>1. PICK r \in {"success", "failure"} : Return(Top, r)
    BY <1>3 DEF Started
  <2>2. stack # <<>> /\ r \in Reply /\ Top.valid
    BY <1>3 DEF Started, Reply
  <2>3. /\ Len(stack) \in DOMAIN stack /\ Top = stack[Len(stack)]
        /\ Top.session \in Sessions /\ Top.node \in Nodes
    BY <2>1, <2>2, ReturnFacts
  <2>4. owner[Top.node] = Top.session /\ node[Top.node] \in {"live", "gone"}
    BY <2>2, <2>3 DEF IInv, FramesAreTrue, FrameIsTrue
  <2>5. /\ shared' = [shared EXCEPT ![Top.session] = <<Top.node>>]
        /\ sess[Top.session] # "deleted" /\ UNCHANGED <<node, owner>>
    BY <1>3 DEF Started, streamVars
  <2> HIDE DEF Top
  <2> QED BY <1>1, <1>3, <2>3, <2>4, <2>5 DEF CallsAreOrdered
<1>4. ASSUME NEW t \in Sessions, DeleteSession(t)
      PROVE  /\ \/ shared'[s] = <<>>
                \/ \E n \in Nodes : /\ shared'[s] = <<n>> /\ owner'[n] = s
                                    /\ node'[n] \in {"live", "gone"}
             /\ shared'[s] = shared[s] \/ (s = t /\ shared'[s] = <<>>)
  <2>1. shared' = [shared EXCEPT ![t] = <<>>] /\ UNCHANGED <<node, owner>>
    BY <1>4 DEF DeleteSession, streamVars
  <2> QED BY <1>1, <2>1 DEF CallsAreOrdered
<1>5. shared' = shared \/ Started \/ \E t \in Sessions : DeleteSession(t)
  BY DEF Next, Portal, CreateSession, SessionClose, TriggerAction, Close,
         StartRefused, StartRestored, StartChooser, Dialogs, Accept, AcceptNothing,
         Reject, CloseWindow, RequestClose, DeleteChooser, Streaming, Ready, Failed,
         Timeout, ReadyUnheard, StreamClosed, LoopReturns, NotStarted, callVars
<1> QED BY <1>2, <1>3, <1>4, <1>5

\* The Start calls.
LEMMA CallsStep == ASSUME IInv, Next PROVE CallsAreOrdered'
<1> DEFINE Ordered(s) == /\ s \notin started =>
                               replies[s] = <<>> /\ chooser[s] = "none" /\ shared[s] = <<>>
                         /\ chooser[s] = "alive" => replies[s] = <<>>
<1>0. /\ \A s \in Sessions : Ordered(s)
      /\ started \in SUBSET Sessions
      /\ chooser \in [Sessions -> Chooser] /\ replies \in [Sessions -> Seq(Reply)]
      /\ shared \in [Sessions -> Seq(Nodes)]
  BY DEF IInv, CallsAreOrdered, TrayIsTruthful, TypeOK
<1> SUFFICES \A s \in Sessions : Ordered(s)'
  BY SharedStep DEF CallsAreOrdered
<1>1. ASSUME NEW s \in Sessions, RejectChooser(s), UNCHANGED <<started, shared>>
      PROVE  \A t \in Sessions : Ordered(t)'
  <2>1. /\ \A t \in Sessions : t # s => replies'[t] = replies[t] /\ chooser'[t] = chooser[t]
        /\ \/ UNCHANGED <<replies, chooser>>
           \/ Present(s) /\ chooser'[s] = "doomed"
    BY <1>1, RejectFacts
  <2> QED BY <1>0, <1>1, <2>1 DEF Present
<1>2. ASSUME UNCHANGED <<started, replies, chooser, shared>>
      PROVE  \A t \in Sessions : Ordered(t)'
  BY <1>0, <1>2
<1>3. ASSUME NEW s \in Sessions, SessionClose(s) \/ TriggerAction(s)
      PROVE  \A t \in Sessions : Ordered(t)'
  <2>1. CASE UNCHANGED callVars
    BY <1>2, <2>1 DEF callVars, dialogVars
  <2>2. CASE Close(s)
    BY <1>1, <2>2 DEF Close
  <2> QED BY <1>3, <2>1, <2>2 DEF SessionClose, TriggerAction
<1>4. ASSUME NEW s \in Sessions, StartRefused(s) PROVE \A t \in Sessions : Ordered(t)'
  <2>1. Answer(s, "failure") /\ "failure" \in Reply
    BY <1>4 DEF StartRefused, Reply
  <2>2. \A t \in Sessions : t # s => replies'[t] = replies[t]
    BY <2>1, AnswerFacts
  <2>3. /\ started' = started \cup {s} /\ s \notin started
        /\ UNCHANGED <<chooser, shared>>
    BY <1>4 DEF StartRefused, dialogVars
  <2> QED BY <1>0, <2>2, <2>3
<1>5. ASSUME NEW s \in Sessions, StartRestored(s) PROVE \A t \in Sessions : Ordered(t)'
  <2>1. started' = started \cup {s} /\ UNCHANGED <<chooser, replies, shared>>
    BY <1>5 DEF StartRestored, dialogVars
  <2> QED BY <1>0, <2>1
<1>6. ASSUME NEW s \in Sessions, StartChooser(s) PROVE \A t \in Sessions : Ordered(t)'
  <2>1. /\ started' = started \cup {s} /\ s \notin started
        /\ chooser' = [chooser EXCEPT ![s] = "alive"] /\ UNCHANGED <<replies, shared>>
    BY <1>6 DEF StartChooser, Startable
  <2> QED BY <1>0, <2>1
<1>7. ASSUME NEW s \in Sessions, AcceptNothing(s) PROVE \A t \in Sessions : Ordered(t)'
  <2>1. Answer(s, "failure") /\ "failure" \in Reply
    BY <1>7 DEF AcceptNothing, Reply
  <2>2. \A t \in Sessions : t # s => replies'[t] = replies[t]
    BY <2>1, AnswerFacts
  <2>3. /\ chooser[s] # "none" /\ chooser' = [chooser EXCEPT ![s] = "doomed"]
        /\ UNCHANGED <<started, shared>>
    BY <1>7 DEF AcceptNothing, Usable, Present, Doom
  <2> QED BY <1>0, <2>2, <2>3
<1>8. ASSUME NEW s \in Sessions, Reject(s) \/ RequestClose(s)
      PROVE  \A t \in Sessions : Ordered(t)'
  BY <1>1, <1>8 DEF Reject, RequestClose
<1>9. ASSUME NEW s \in Sessions, DeleteChooser(s) PROVE \A t \in Sessions : Ordered(t)'
  <2>1. /\ chooser[s] = "doomed"
        /\ chooser' = chooser \/ chooser' = [chooser EXCEPT ![s] = "deleted"]
        /\ UNCHANGED <<started, replies, shared>>
    BY <1>9 DEF DeleteChooser, dialogVars
  <2> QED BY <1>0, <2>1
<1>10. ASSUME NEW r \in Reply, Return(Top, r), stack # <<>>, started' = started,
              \A t \in Sessions : shared'[t] = shared[t] \/ t = Top.session
       PROVE  \A t \in Sessions : Ordered(t)'
  <2>1. /\ Len(stack) \in DOMAIN stack /\ Top = stack[Len(stack)]
        /\ Top.session \in Sessions /\ Answer(Top.session, r)
        /\ \A t \in Sessions :
              \/ chooser'[t] = chooser[t] /\ chooser[t] # "alive"
              \/ t = Top.session /\ Top.dialog /\ chooser'[t] = "doomed"
              \/ t = Top.session /\ ~Top.dialog /\ chooser'[t] = chooser[t]
              \/ t # Top.session /\ chooser'[t] = chooser[t]
    BY <1>10, ReturnFacts
  <2>2. Top.session \in started /\ (~Top.dialog => chooser[Top.session] = "none")
    BY <2>1 DEF IInv, FramesAreTrue, FrameIsTrue
  <2>3. \A t \in Sessions : t # Top.session => replies'[t] = replies[t]
    BY <2>1, AnswerFacts
  <2> HIDE DEF Top
  <2> QED BY <1>0, <1>10, <2>1, <2>2, <2>3
<1>11. ASSUME LoopReturns PROVE \A t \in Sessions : Ordered(t)'
  <2>1. PICK r \in Reply : Return(Top, r)
    BY <1>11 DEF LoopReturns, Started, NotStarted, Reply
  <2>2. stack # <<>> /\ started' = started
    BY <1>11 DEF LoopReturns, Started, NotStarted
  <2>3. \A t \in Sessions : shared'[t] = shared[t] \/ t = Top.session
    <3>1. stack' # stack
      BY <2>1, <2>2, ReturnFacts
    <3>2. \A t \in Sessions : ~DeleteSession(t)
      BY <3>1 DEF DeleteSession
    <3> QED BY <3>2, SharedStep
  <2> QED BY <1>10, <2>1, <2>2, <2>3
<1>12. ASSUME NEW s \in Sessions, CreateSession(s) \/ Accept(s) \/ CloseWindow(s)
       PROVE  \A t \in Sessions : Ordered(t)'
  BY <1>2, <1>12 DEF CreateSession, Accept, CloseWindow, callVars, dialogVars
<1>13. ASSUME NEW i \in Nodes,
              Ready(i) \/ Failed(i) \/ Timeout(i) \/ ReadyUnheard(i) \/ StreamClosed(i)
       PROVE  \A t \in Sessions : Ordered(t)'
  BY <1>2, <1>13 DEF Ready, Failed, Timeout, ReadyUnheard, StreamClosed, callVars,
                     dialogVars
<1>14. ASSUME NEW s \in Sessions, DeleteSession(s) PROVE \A t \in Sessions : Ordered(t)'
  <2>1. /\ shared' = [shared EXCEPT ![s] = <<>>]
        /\ UNCHANGED <<started, replies, chooser>>
    BY <1>14 DEF DeleteSession, dialogVars
  <2> QED BY <1>0, <2>1
<1> HIDE DEF Ordered
<1> QED
  BY <1>3, <1>4, <1>5, <1>6, <1>7, <1>8, <1>9, <1>11, <1>12, <1>13, <1>14
  DEF Next, Portal, Dialogs, Streaming

\* A Start call without a chooser stays unanswered until it returns.
LEMMA QuietStep ==
    ASSUME IInv, Next, NEW s \in started, chooser[s] = "none", replies[s] = <<>>,
           LoopReturns => s # Top.session
    PROVE  chooser'[s] = "none" /\ replies'[s] = <<>>
<1>0. /\ started \in SUBSET Sessions
      /\ chooser \in [Sessions -> Chooser] /\ replies \in [Sessions -> Seq(Reply)]
  BY DEF IInv, TrayIsTruthful, TypeOK
<1> DEFINE Quiet == chooser'[s] = "none" /\ replies'[s] = <<>>
<1>1. ASSUME UNCHANGED <<replies, chooser>> PROVE Quiet
  BY <1>1
<1>2. ASSUME NEW t \in Sessions, RejectChooser(t) PROVE Quiet
  BY <1>0, <1>2, RejectFacts DEF Present
<1>3. ASSUME NEW t \in Sessions, SessionClose(t) \/ TriggerAction(t) PROVE Quiet
  <2>1. CASE UNCHANGED callVars
    BY <1>1, <2>1 DEF callVars, dialogVars
  <2>2. CASE Close(t)
    BY <1>2, <2>2 DEF Close
  <2> QED BY <1>3, <2>1, <2>2 DEF SessionClose, TriggerAction
<1>4. ASSUME NEW t \in Sessions, StartRefused(t) PROVE Quiet
  <2>1. Answer(t, "failure") /\ "failure" \in Reply /\ t # s /\ UNCHANGED chooser
    BY <1>4 DEF StartRefused, Reply, dialogVars
  <2> QED BY <1>0, <2>1, AnswerFacts
<1>5. ASSUME NEW t \in Sessions, StartChooser(t) PROVE Quiet
  BY <1>0, <1>5 DEF StartChooser, Startable
<1>6. ASSUME NEW t \in Sessions, AcceptNothing(t) PROVE Quiet
  <2>1. /\ Answer(t, "failure") /\ "failure" \in Reply /\ t # s
        /\ chooser' = [chooser EXCEPT ![t] = "doomed"]
    BY <1>6 DEF AcceptNothing, Usable, Present, Doom, Reply
  <2>2. replies'[s] = replies[s]
    BY <1>0, <2>1, AnswerFacts
  <2> QED BY <1>0, <2>1, <2>2
<1>7. ASSUME NEW t \in Sessions, Reject(t) \/ RequestClose(t) PROVE Quiet
  BY <1>2, <1>7 DEF Reject, RequestClose
<1>8. ASSUME NEW t \in Sessions, DeleteChooser(t) PROVE Quiet
  BY <1>0, <1>8 DEF DeleteChooser, dialogVars
<1>9. ASSUME LoopReturns PROVE Quiet
  <2>1. PICK r \in Reply : Return(Top, r)
    BY <1>9 DEF LoopReturns, Started, NotStarted, Reply
  <2>2. stack # <<>>
    BY <1>9 DEF LoopReturns, Started, NotStarted
  <2>3. /\ Top.session \in Sessions /\ Answer(Top.session, r)
        /\ \A t \in Sessions :
              \/ chooser'[t] = chooser[t] /\ chooser[t] # "alive"
              \/ t = Top.session /\ Top.dialog /\ chooser'[t] = "doomed"
              \/ t = Top.session /\ ~Top.dialog /\ chooser'[t] = chooser[t]
              \/ t # Top.session /\ chooser'[t] = chooser[t]
    BY <2>1, <2>2, ReturnFacts
  <2>4. replies'[s] = replies[s]
    BY <1>0, <1>9, <2>3, AnswerFacts
  <2> HIDE DEF Top
  <2> QED BY <1>0, <1>9, <2>3, <2>4
<1>10. ASSUME NEW t \in Sessions,
              \/ CreateSession(t) \/ DeleteSession(t) \/ StartRestored(t)
              \/ Accept(t) \/ CloseWindow(t)
       PROVE  Quiet
  BY <1>1, <1>10 DEF CreateSession, DeleteSession, StartRestored, Accept, CloseWindow,
                     callVars, dialogVars
<1>11. ASSUME NEW i \in Nodes,
              Ready(i) \/ Failed(i) \/ Timeout(i) \/ ReadyUnheard(i) \/ StreamClosed(i)
       PROVE  Quiet
  BY <1>1, <1>11 DEF Ready, Failed, Timeout, ReadyUnheard, StreamClosed, callVars,
                     dialogVars
<1> HIDE DEF Quiet
<1>12. Quiet
  BY <1>3, <1>4, <1>5, <1>6, <1>7, <1>8, <1>9, <1>10, <1>11
  DEF Next, Portal, Dialogs, Streaming
<1> QED BY <1>12 DEF Quiet

\* The four ways in which a step treats the stack.
StackKept ==
    /\ stack' = stack
    /\ \A i \in DOMAIN stack :
          node'[stack[i].node] = "live" => node[stack[i].node] = "live"

StackMarked(i) ==
    /\ Marked(i)
    /\ stack[i].valid => stack'[i].valid
    /\ stack'[i].valid => stack[i].valid \/ node'[stack[i].node] = "live"
    /\ \A j \in DOMAIN stack :
          node'[stack[j].node] = "live" =>
              node[stack[j].node] = "live" \/ (j = i /\ stack'[i].valid)

StackPushed(s, d, n) ==
    /\ Push(s, d)
    /\ node[n] = "unused"
    /\ NewFrame(s, d, n) \in Frame
    /\ stack' = Append(stack, NewFrame(s, d, n))
    /\ node' = [node EXCEPT ![n] = "connecting"]
    /\ owner' = [owner EXCEPT ![n] = s]
    /\ UNCHANGED listed
    /\ UNCHANGED <<chooser, replies>>
    /\ s \in started'
    /\ \/ d /\ Present(s)
       \/ ~d /\ s \notin started

StackPopped == LoopReturns /\ UNCHANGED <<node, owner>>

\* Every step treats the stack in one of the four ways.
LEMMA StackStep ==
    ASSUME IInv, Next
    PROVE  \/ StackKept
           \/ \E i \in DOMAIN stack : StackMarked(i)
           \/ \E s \in Sessions, d \in BOOLEAN, n \in Nodes : StackPushed(s, d, n)
           \/ StackPopped
<1> DEFINE Goal == \/ StackKept
                   \/ \E i \in DOMAIN stack : StackMarked(i)
                   \/ \E s \in Sessions, d \in BOOLEAN, n \in Nodes : StackPushed(s, d, n)
                   \/ StackPopped
<1>0. /\ \A i \in DOMAIN stack : stack[i].node \in Nodes /\ stack[i].valid \in BOOLEAN
      /\ FramesAreTrue /\ node \in [Nodes -> Node] /\ started \in SUBSET Sessions
  BY FrameFacts DEF IInv, TrayIsTruthful, TypeOK
<1>1. ASSUME UNCHANGED <<stack, node>> PROVE Goal
  BY <1>1 DEF StackKept
<1>2. ASSUME NEW M, Stopped(M), UNCHANGED stack PROVE Goal
  BY <1>0, <1>2 DEF StackKept, Stopped
<1>3. ASSUME NEW s \in Sessions, SessionClose(s) \/ TriggerAction(s) PROVE Goal
  <2>1. CASE UNCHANGED <<stack, streamVars>>
    BY <1>1, <2>1 DEF streamVars
  <2>2. CASE Close(s)
    BY <1>2, <2>2, CloseFacts DEF Close
  <2> QED BY <1>3, <2>1, <2>2 DEF SessionClose, TriggerAction
<1>4. ASSUME NEW s \in Sessions,
             \/ CreateSession(s) \/ StartRefused(s) \/ StartChooser(s)
             \/ AcceptNothing(s) \/ Reject(s) \/ CloseWindow(s)
             \/ RequestClose(s) \/ DeleteChooser(s) \/ DeleteSession(s)
      PROVE  Goal
  BY <1>1, <1>4 DEF CreateSession, StartRefused, StartChooser, AcceptNothing, Reject,
                    CloseWindow, RequestClose, DeleteChooser, DeleteSession, streamVars
<1>5. ASSUME NEW s \in Sessions, StartRestored(s) PROVE Goal
  <2>1. PICK n \in Nodes : /\ node[n] = "unused"
                           /\ NewFrame(s, FALSE, n) \in Frame
                           /\ stack' = Append(stack, NewFrame(s, FALSE, n))
                           /\ node' = [node EXCEPT ![n] = "connecting"]
                           /\ owner' = [owner EXCEPT ![n] = s]
                           /\ UNCHANGED listed
    BY <1>5, PushStep DEF StartRestored
  <2>2. /\ Push(s, FALSE) /\ s \notin started /\ s \in started'
        /\ UNCHANGED <<chooser, replies>>
    BY <1>5 DEF StartRestored, Startable, dialogVars
  <2>3. StackPushed(s, FALSE, n)
    BY <2>1, <2>2 DEF StackPushed
  <2> QED BY <2>3
<1>6. ASSUME NEW s \in Sessions, Accept(s), Push(s, TRUE) PROVE Goal
  <2>1. PICK n \in Nodes : /\ node[n] = "unused"
                           /\ NewFrame(s, TRUE, n) \in Frame
                           /\ stack' = Append(stack, NewFrame(s, TRUE, n))
                           /\ node' = [node EXCEPT ![n] = "connecting"]
                           /\ owner' = [owner EXCEPT ![n] = s]
                           /\ UNCHANGED listed
    BY <1>6, PushStep
  <2>2. Present(s) /\ UNCHANGED <<started, chooser, replies>>
    BY <1>6 DEF Accept, Usable, callVars, dialogVars
  <2>3. s \in started'
    BY <2>2 DEF Present, IInv, CallsAreOrdered
  <2>4. StackPushed(s, TRUE, n)
    BY <1>6, <2>1, <2>2, <2>3 DEF StackPushed
  <2> QED BY <2>4
<1>7. ASSUME NEW i \in Nodes, Ready(i) PROVE Goal
  <2>1. /\ i \in DOMAIN stack /\ stack[i].node \in Nodes
        /\ node' = [node EXCEPT ![stack[i].node] = "live"]
        /\ Marked(i) /\ stack'[i].valid
    BY <1>7, ReadyFacts
  <2>2. \A j \in DOMAIN stack : j # i => stack[j].node # stack[i].node
    BY <1>0, <2>1 DEF FramesAreTrue
  <2>3. StackMarked(i)
    BY <1>0, <2>1, <2>2 DEF StackMarked
  <2> QED BY <2>1, <2>3
<1>8. ASSUME NEW i \in Nodes, Failed(i) PROVE Goal
  <2>1. /\ i \in DOMAIN stack /\ Marked(i) /\ stack'[i].valid = stack[i].valid
        /\ node' = node
    BY <1>8, FailedFacts DEF Failed, streamVars
  <2> QED BY <2>1 DEF StackMarked
<1>9. ASSUME NEW i \in Nodes, Timeout(i) PROVE Goal
  <2>1. /\ i \in DOMAIN stack /\ Marked(i) /\ stack'[i].valid = stack[i].valid
        /\ \E M : Stopped(M)
    BY <1>9, TimeoutFacts
  <2>2. \A j \in DOMAIN stack :
           node'[stack[j].node] = "live" => node[stack[j].node] = "live"
    BY <1>0, <2>1 DEF Stopped
  <2> QED BY <2>1, <2>2 DEF StackMarked
<1>10. ASSUME NEW n \in Nodes, ReadyUnheard(n) PROVE Goal
  BY <1>0, <1>10 DEF ReadyUnheard, StackKept
<1>11. ASSUME NEW n \in Nodes, StreamClosed(n) PROVE Goal
  BY <1>2, <1>11, StreamClosedFacts DEF StreamClosed
<1>12. ASSUME LoopReturns PROVE Goal
  BY <1>12 DEF StackPopped, LoopReturns, Started, NotStarted, streamVars
<1>13. ASSUME NEW s \in Sessions, Accept(s) PROVE Goal
  BY <1>1, <1>6, <1>13 DEF Accept, streamVars
<1> HIDE DEF Goal
<1>14. Goal
  BY <1>3, <1>4, <1>5, <1>7, <1>8, <1>9, <1>10, <1>11, <1>12, <1>13
  DEF Next, Portal, Dialogs, Streaming
<1> QED BY <1>14 DEF Goal

\* What an activation of startStreaming() knows after a step
FrameStaysTrue(f) ==
    /\ f.session \in started'
    /\ owner'[f.node] = f.session
    /\ node'[f.node] # "unused"
    /\ f.valid => node'[f.node] \in {"live", "gone"}
    /\ node'[f.node] = "live" => f.valid
    /\ ~f.dialog => chooser'[f.session] = "none" /\ replies'[f.session] = <<>>

\* The activations of startStreaming().
LEMMA FramesStep == ASSUME IInv, Next PROVE FramesAreTrue'
<1>0. /\ stack \in Seq(Frame) /\ started \in SUBSET Sessions /\ started \subseteq started'
      /\ owner \in [Nodes -> Sessions \cup {None}] /\ node \in [Nodes -> Node]
      /\ \A i \in DOMAIN stack : FrameIsTrue(stack[i])
      /\ \A i, j \in DOMAIN stack :
            i # j => /\ stack[i].node # stack[j].node
                     /\ ~stack[i].dialog => stack[i].session # stack[j].session
  <2>1. started \subseteq started'
    BY DEF Next, Portal, CreateSession, SessionClose, DeleteSession, TriggerAction, Close,
           StartRefused, StartRestored, StartChooser, Dialogs, Accept, AcceptNothing,
           Reject, CloseWindow, RequestClose, DeleteChooser, Streaming, Ready, Failed,
           Timeout, ReadyUnheard, StreamClosed, LoopReturns, Started, NotStarted,
           callVars
  <2> QED BY <2>1 DEF IInv, TrayIsTruthful, TypeOK, FramesAreTrue
<1>1. \A m \in Nodes :
         /\ node[m] # "unused" => node'[m] # "unused" /\ owner'[m] = owner[m]
         /\ node[m] \in {"live", "gone"} => node'[m] \in {"live", "gone"}
  BY StreamsStep DEF NodesStep
<1>2. ASSUME NEW i \in DOMAIN stack, NEW f, LoopReturns => i # Len(stack),
             f.session = stack[i].session, f.dialog = stack[i].dialog,
             f.node = stack[i].node,
             f.valid => stack[i].valid \/ node'[stack[i].node] = "live",
             stack[i].valid => f.valid,
             node'[stack[i].node] = "live" => node[stack[i].node] = "live" \/ f.valid
      PROVE  FrameStaysTrue(f)
  <2>1. FrameIsTrue(stack[i]) /\ stack[i].node \in Nodes
    BY <1>0, FrameFacts
  <2>2. f.session \in started' /\ owner'[f.node] = f.session /\ node'[f.node] # "unused"
    BY <1>0, <1>1, <1>2, <2>1 DEF FrameIsTrue
  <2>3. /\ f.valid => node'[f.node] \in {"live", "gone"}
        /\ node'[f.node] = "live" => f.valid
    BY <1>1, <1>2, <2>1 DEF FrameIsTrue
  <2>4. ASSUME ~f.dialog PROVE chooser'[f.session] = "none" /\ replies'[f.session] = <<>>
    <3>1. /\ f.session \in started
          /\ chooser[f.session] = "none" /\ replies[f.session] = <<>>
      BY <1>2, <2>1, <2>4 DEF FrameIsTrue
    <3>2. LoopReturns => f.session # Top.session
      <4>1. LoopReturns => stack # <<>>
        BY DEF LoopReturns, Started, NotStarted
      <4>2. stack # <<>> => Len(stack) \in DOMAIN stack
        BY <1>0, PopFacts
      <4> QED BY <1>0, <1>2, <2>4, <4>1, <4>2 DEF Top
    <3> QED BY <3>1, <3>2, QuietStep
  <2> QED BY <2>2, <2>3, <2>4 DEF FrameStaysTrue
<1>3. ASSUME \A i \in DOMAIN stack' : FrameStaysTrue(stack'[i]),
             \A i, j \in DOMAIN stack' :
                i # j => /\ stack'[i].node # stack'[j].node
                         /\ ~stack'[i].dialog => stack'[i].session # stack'[j].session
      PROVE  FramesAreTrue'
  BY <1>3 DEF FramesAreTrue, FrameIsTrue, FrameStaysTrue
<1>4. CASE StackKept /\ ~LoopReturns
  <2>1. \A i \in DOMAIN stack : FrameStaysTrue(stack[i])
    BY <1>2, <1>4 DEF StackKept
  <2> QED BY <1>0, <1>4, <2>1, <1>3 DEF StackKept
<1>5. ASSUME NEW i \in DOMAIN stack, StackMarked(i), ~LoopReturns PROVE FramesAreTrue'
  <2>1. ASSUME NEW j \in DOMAIN stack PROVE FrameStaysTrue(stack'[j])
    <3>1. /\ stack'[j].session = stack[j].session
          /\ stack'[j].dialog = stack[j].dialog
          /\ stack'[j].node = stack[j].node
          /\ stack'[j].valid => stack[j].valid \/ node'[stack[j].node] = "live"
          /\ stack[j].valid => stack'[j].valid
          /\ node'[stack[j].node] = "live" => node[stack[j].node] = "live" \/ stack'[j].valid
      BY <1>5 DEF StackMarked, Marked
    <3> QED BY <1>2, <1>5, <3>1
  <2> QED BY <1>0, <1>5, <1>3, <2>1 DEF StackMarked, Marked
<1>6. ASSUME NEW s \in Sessions, NEW d \in BOOLEAN, NEW n \in Nodes,
             StackPushed(s, d, n), ~LoopReturns
      PROVE  FramesAreTrue'
  <2> DEFINE f == NewFrame(s, d, n)
             k == Len(stack) + 1
  <2>1. /\ DOMAIN stack' = DOMAIN stack \cup {k}
        /\ \A i \in DOMAIN stack : stack'[i] = stack[i] /\ i # k
        /\ stack'[k] = f
    BY <1>0, <1>6, PushFacts DEF StackPushed
  <2>2. /\ f.session = s /\ f.dialog = d /\ f.node = n /\ ~f.valid
    BY DEF NewFrame
  <2> HIDE DEF f, k
  <2>3. \A i \in DOMAIN stack : /\ stack[i].node # n /\ stack[i].node \in Nodes
                                /\ stack[i].session \in started
    BY <1>0, <1>6, FrameFacts DEF FrameIsTrue, StackPushed
  <2>4. ASSUME NEW i \in DOMAIN stack PROVE FrameStaysTrue(stack[i])
    <3>1. node'[stack[i].node] = node[stack[i].node]
      BY <1>0, <1>6, <2>3 DEF StackPushed
    <3> QED BY <1>2, <1>6, <3>1
  <2>5. FrameStaysTrue(f)
    <3>1. node'[n] = "connecting" /\ owner'[n] = s
      BY <1>0, <1>6 DEF StackPushed
    <3>2. ~d => chooser'[s] = "none" /\ replies'[s] = <<>>
      BY <1>6 DEF StackPushed, IInv, CallsAreOrdered
    <3> QED BY <1>6, <2>2, <3>1, <3>2 DEF FrameStaysTrue, StackPushed
  <2>6. ASSUME NEW i \in DOMAIN stack
        PROVE  /\ ~d => s # stack[i].session
               /\ ~stack[i].dialog => stack[i].session # s
    <3>1. ~d => s # stack[i].session
      BY <1>6, <2>3 DEF StackPushed
    <3>2. ASSUME ~stack[i].dialog PROVE stack[i].session # s
      <4>1. chooser[stack[i].session] = "none"
        BY <1>0, <3>2 DEF FrameIsTrue
      <4> QED BY <1>6, <2>3, <4>1 DEF StackPushed, Present
    <3> QED BY <3>1, <3>2
  <2>7. \A i \in DOMAIN stack' : FrameStaysTrue(stack'[i])
    BY <2>1, <2>4, <2>5
  <2>8. ASSUME NEW i \in DOMAIN stack', NEW j \in DOMAIN stack', i # j
        PROVE  /\ stack'[i].node # stack'[j].node
               /\ ~stack'[i].dialog => stack'[i].session # stack'[j].session
    <3>1. CASE i \in DOMAIN stack /\ j \in DOMAIN stack
      BY <1>0, <2>1, <2>8, <3>1
    <3>2. CASE i = k /\ j \in DOMAIN stack
      BY <2>1, <2>2, <2>3, <2>6, <3>2
    <3>3. CASE i \in DOMAIN stack /\ j = k
      BY <2>1, <2>2, <2>3, <2>6, <3>3
    <3> QED BY <2>1, <2>8, <3>1, <3>2, <3>3
  <2> QED BY <1>3, <2>7, <2>8
<1>7. CASE LoopReturns
  <2>1. PICK r \in Reply : Return(Top, r)
    BY <1>7 DEF LoopReturns, Started, NotStarted, Reply
  <2>2. stack # <<>> /\ node' = node
    BY <1>7 DEF LoopReturns, Started, NotStarted, streamVars
  <2>3. /\ DOMAIN stack' = DOMAIN stack \ {Len(stack)}
        /\ \A i \in DOMAIN stack' : stack'[i] = stack[i]
    BY <2>1, <2>2, ReturnFacts
  <2>4. \A i \in DOMAIN stack' : FrameStaysTrue(stack'[i])
    BY <1>2, <2>2, <2>3
  <2> QED BY <1>0, <1>3, <2>3, <2>4
<1> QED BY <1>4, <1>5, <1>6, <1>7, StackStep DEF StackPopped

\* A step takes no slip back; a listed stream that goes on running stays listed,
\* and the sessions that share it stay open, unless the wrong one is stopped; and
\* a stream starts to run in the list, or after its Start call has given up.
LEMMA ListStep ==
    ASSUME IInv, Next, NEW m \in Nodes
    PROVE  /\ slips \subseteq slips'
           /\ "wrong_stream" \notin slips' /\ Contains(listed, m) /\ node'[m] = "live" =>
                 /\ Contains(listed', m)
                 /\ \A s \in Sessions :
                       sess[s] = "open" /\ Contains(shared[s], m) => sess'[s] = "open"
           /\ node'[m] = "live" /\ node[m] # "live" =>
                 \/ Contains(listed', m) /\ Starting(m)
                 \/ slips' # {} /\ ~Starting(m) /\ node[m] = "connecting"
<1> DEFINE Stays == "wrong_stream" \notin slips' /\ Contains(listed, m) /\ node'[m] = "live" =>
                       /\ Contains(listed', m)
                       /\ \A s \in Sessions :
                             sess[s] = "open" /\ Contains(shared[s], m) => sess'[s] = "open"
           Starts == node'[m] = "live" /\ node[m] # "live" =>
                       \/ Contains(listed', m) /\ Starting(m)
                       \/ slips' # {} /\ ~Starting(m) /\ node[m] = "connecting"
           Goal == slips \subseteq slips' /\ Stays /\ Starts
<1>0. /\ node \in [Nodes -> Node] /\ sess \in [Sessions -> Session]
      /\ \A i \in DOMAIN stack : stack[i].node \in Nodes
  BY FrameFacts DEF IInv, TrayIsTruthful, TypeOK
<1>1. ASSUME UNCHANGED <<streamVars, sess>>, slips \subseteq slips' PROVE Goal
  BY <1>1 DEF streamVars
<1>2. ASSUME NEW s \in Sessions, Close(s) PROVE Goal
  <2>1. /\ Stopped({k \in Nodes : Contains(shared[s], k)})
        /\ sess' = [sess EXCEPT ![s] = "closed"]
    BY <1>2, CloseFacts DEF Close
  <2>2. /\ slips \subseteq slips'
        /\ Contains(shared[s], m) /\ Contains(listed, m) /\ node'[m] = "live"
              /\ ~Contains(listed', m)
              => "wrong_stream" \in slips'
    BY <1>2 DEF Close
  <2>3. /\ Contains(shared[s], m) => ~Contains(listed', m)
        /\ Contains(listed, m) /\ ~Contains(shared[s], m) =>
              Contains(listed', m) \/ node'[m] = "gone"
        /\ node'[m] = node[m] \/ node'[m] = "gone"
    BY <2>1 DEF Stopped
  <2>4. \A t \in Sessions : t # s => sess'[t] = sess[t]
    BY <1>0, <2>1
  <2> QED BY <2>2, <2>3, <2>4
<1>3. ASSUME NEW s \in Sessions, SessionClose(s) \/ TriggerAction(s) PROVE Goal
  <2>1. CASE UNCHANGED <<sessionVars, streamVars, slips>>
    BY <1>1, <2>1 DEF sessionVars
  <2>2. CASE Close(s)
    BY <1>2, <2>2
  <2> QED BY <1>3, <2>1, <2>2 DEF SessionClose, TriggerAction
<1>4. ASSUME NEW s \in Sessions, CreateSession(s) PROVE Goal
  BY <1>0, <1>4 DEF CreateSession, streamVars
<1>5. ASSUME NEW s \in Sessions,
             \/ StartRefused(s) \/ StartChooser(s)
             \/ AcceptNothing(s) \/ Reject(s) \/ CloseWindow(s)
             \/ RequestClose(s) \/ DeleteChooser(s)
      PROVE  Goal
  BY <1>1, <1>5 DEF StartRefused, StartChooser, AcceptNothing, Reject, CloseWindow,
                    RequestClose, DeleteChooser, sessionVars
<1>6. ASSUME NEW s \in Sessions, StartRestored(s) \/ Accept(s), NEW d \in BOOLEAN,
             Push(s, d)
      PROVE  Goal
  <2>1. Push(s, d)
    BY <1>6
  <2>2. PICK n \in Nodes : /\ node' = [node EXCEPT ![n] = "connecting"]
                           /\ UNCHANGED listed
    BY <2>1, PushStep
  <2>3. UNCHANGED <<sess, slips>>
    BY <1>6 DEF StartRestored, Accept, sessionVars
  <2> QED BY <1>0, <2>2, <2>3
<1>7. ASSUME NEW i \in Nodes, Ready(i) PROVE Goal
  <2>1. /\ i \in DOMAIN stack
        /\ node' = [node EXCEPT ![stack[i].node] = "live"]
        /\ Contains(listed', m) <=> Contains(listed, m) \/ m = stack[i].node
    BY <1>7, ReadyFacts
  <2>2. UNCHANGED <<sess, slips>>
    BY <1>7 DEF Ready, sessionVars
  <2> QED BY <1>0, <2>1, <2>2 DEF Starting
<1>8. ASSUME NEW i \in Nodes, Failed(i) PROVE Goal
  BY <1>1, <1>8 DEF Failed, sessionVars
<1>9. ASSUME NEW i \in Nodes, Timeout(i) PROVE Goal
  <2>1. /\ Stopped({stack[i].node}) \/ Stopped({})
        /\ node'[stack[i].node] = "gone"
    BY <1>9, TimeoutFacts
  <2>2. UNCHANGED <<sess, slips>>
    BY <1>9 DEF Timeout, sessionVars
  <2>3. /\ Contains(listed, m) => Contains(listed', m) \/ node'[m] = "gone"
        /\ node'[m] = node[m] \/ node'[m] = "gone"
    BY <2>1 DEF Stopped
  <2> QED BY <2>2, <2>3
<1>10. ASSUME NEW n \in Nodes, ReadyUnheard(n) PROVE Goal
  <2>1. /\ node[n] = "connecting" /\ node' = [node EXCEPT ![n] = "live"]
        /\ slips' = slips \cup {"failed_early"}
        /\ ~Starting(n) /\ UNCHANGED <<sess, listed>>
    BY <1>10 DEF ReadyUnheard, Starting, sessionVars
  <2> QED BY <1>0, <2>1
<1>11. ASSUME NEW n \in Nodes, StreamClosed(n) PROVE Goal
  <2>1. Stopped({n})
    BY <1>11, StreamClosedFacts
  <2>2. /\ slips' = IF node'[n] = "live" THEN slips \cup {"wrong_stream"} ELSE slips
        /\ UNCHANGED sess
    BY <1>11 DEF StreamClosed, sessionVars
  <2>3. /\ Contains(listed, m) /\ m # n => Contains(listed', m) \/ node'[m] = "gone"
        /\ node'[m] = node[m] \/ node'[m] = "gone"
    BY <2>1 DEF Stopped
  <2> QED BY <2>2, <2>3
<1>12. ASSUME LoopReturns PROVE Goal
  <2>1. slips \subseteq slips'
    BY <1>12 DEF LoopReturns, Started, NotStarted
  <2> QED BY <1>1, <1>12, <2>1 DEF LoopReturns, Started, NotStarted, sessionVars
<1>13. ASSUME NEW s \in Sessions, StartRestored(s) \/ Accept(s) PROVE Goal
  BY <1>1, <1>6, <1>13 DEF StartRestored, Accept, sessionVars
<1>14. ASSUME NEW s \in Sessions, DeleteSession(s) PROVE Goal
  <2>1. /\ sess[s] = "closed" /\ sess' = [sess EXCEPT ![s] = "deleted"]
        /\ UNCHANGED <<streamVars, slips>>
    BY <1>14 DEF DeleteSession
  <2> QED BY <1>0, <2>1 DEF streamVars
<1> HIDE DEF Goal
<1>15. Goal
  BY <1>3, <1>4, <1>5, <1>7, <1>8, <1>9, <1>10, <1>11, <1>12, <1>13, <1>14
  DEF Next, Portal, Dialogs, Streaming
<1> QED BY <1>15 DEF Goal

\* A stream that its Start call or its session knows and that runs was known
\* before, and a Start call forgets its stream only when it returns.
LEMMA KnownStep ==
    ASSUME IInv, Next, NEW m \in Nodes
    PROVE  /\ Starting(m)' /\ node'[m] = "live" => Starting(m)
           /\ \A s \in Sessions :
                 Contains(shared'[s], m) => Contains(shared[s], m) \/ Starting(m)
           /\ Starting(m) => Starting(m)' \/ (LoopReturns /\ m = Top.node)
<1>0. /\ node \in [Nodes -> Node] /\ stack \in Seq(Frame)
  BY DEF IInv, TrayIsTruthful, TypeOK
<1>1. ASSUME NEW s \in Sessions, Contains(shared'[s], m)
      PROVE  Contains(shared[s], m) \/ Starting(m)
  <2>1. CASE shared'[s] = shared[s]
    BY <1>1, <2>1
  <2>2. CASE Started /\ shared'[s] = <<Top.node>>
    <3>1. m = Top.node
      BY <1>1, <2>2 DEF Contains
    <3>2. Len(stack) \in DOMAIN stack
      BY <1>0, <2>2, PopFacts DEF Started
    <3> QED BY <3>1, <3>2 DEF Starting, Top
  <2>3. CASE shared'[s] = <<>>
    BY <1>1, <2>3 DEF Contains
  <2> QED BY <2>1, <2>2, <2>3, SharedStep
<1>2. CASE StackKept
  BY <1>1, <1>2 DEF StackKept, Starting
<1>3. ASSUME NEW i \in DOMAIN stack, StackMarked(i)
      PROVE  Starting(m)' <=> Starting(m)
  BY <1>3 DEF StackMarked, Marked, Starting
<1>4. ASSUME NEW s \in Sessions, NEW d \in BOOLEAN, NEW n \in Nodes,
             StackPushed(s, d, n)
      PROVE  /\ Starting(m)' => Starting(m) \/ node'[m] = "connecting"
             /\ Starting(m) => Starting(m)'
  <2>1. /\ DOMAIN stack' = DOMAIN stack \cup {Len(stack) + 1}
        /\ \A i \in DOMAIN stack : stack'[i] = stack[i]
        /\ stack'[Len(stack) + 1] = NewFrame(s, d, n)
    BY <1>0, <1>4, PushFacts DEF StackPushed
  <2>2. node'[n] = "connecting" /\ NewFrame(s, d, n).node = n
    BY <1>0, <1>4 DEF StackPushed, NewFrame
  <2> HIDE DEF NewFrame
  <2> QED BY <2>1, <2>2 DEF Starting
<1>5. ASSUME LoopReturns
      PROVE  /\ Starting(m)' => Starting(m)
             /\ Starting(m) => Starting(m)' \/ m = Top.node
  <2>1. PICK r \in Reply : Return(Top, r)
    BY <1>5 DEF LoopReturns, Started, NotStarted, Reply
  <2>2. stack # <<>>
    BY <1>5 DEF LoopReturns, Started, NotStarted
  <2>3. /\ DOMAIN stack' = DOMAIN stack \ {Len(stack)}
        /\ \A i \in DOMAIN stack' : stack'[i] = stack[i]
        /\ Top = stack[Len(stack)]
    BY <2>1, <2>2, ReturnFacts
  <2> HIDE DEF Top
  <2> QED BY <2>3 DEF Starting
<1> QED BY <1>1, <1>2, <1>3, <1>4, <1>5, StackStep DEF StackPopped

\* A known stream that runs is listed.
LEMMA ListedStep == ASSUME IInv, Next PROVE LiveIsListed'
<1> DEFINE Known(n) == Starting(n) \/ \E s \in Sessions : Contains(shared[s], n)
<1>1. SUFFICES ASSUME "wrong_stream" \notin slips', NEW m \in Nodes,
                      node'[m] = "live", Known(m)'
               PROVE  Contains(listed', m)
  BY DEF LiveIsListed
<1>2. Known(m)
  BY <1>1, KnownStep
<1>3. CASE node[m] = "live"
  <2>1. "wrong_stream" \notin slips
    BY <1>1, ListStep
  <2>2. Contains(listed, m)
    BY <1>2, <1>3, <2>1 DEF IInv, LiveIsListed
  <2> QED BY <1>1, <2>2, ListStep
<1>4. CASE node[m] # "live"
  <2>1. Contains(listed', m) \/ (~Starting(m) /\ node[m] = "connecting")
    BY <1>1, <1>4, ListStep
  <2>2. ASSUME NEW s \in Sessions, Contains(shared[s], m) PROVE node[m] # "connecting"
    <3>1. PICK n \in Nodes : shared[s] = <<n>> /\ node[n] \in {"live", "gone"}
      BY <2>2 DEF IInv, CallsAreOrdered, Contains
    <3>2. n = m
      BY <2>2, <3>1 DEF Contains
    <3> QED BY <3>1, <3>2
  <2> QED BY <1>2, <2>1, <2>2
<1> QED BY <1>3, <1>4

\* As long as nothing has gone wrong, every stream that runs is in reach.
LEMMA ReachStep == ASSUME IInv, Next PROVE LiveIsInReach'
<1>1. SUFFICES ASSUME slips' = {}, NEW m \in Nodes, node'[m] = "live"
               PROVE  InReach(m)'
  BY DEF LiveIsInReach
<1>2. slips = {}
  BY <1>1, ListStep
<1>3. \A s \in Sessions : Contains(shared'[s], m) => Contains(listed', m)
  BY <1>1, ListedStep DEF LiveIsListed
<1>4. ASSUME Starting(m), node[m] = "live" PROVE InReach(m)'
  <2>1. CASE Starting(m)'
    BY <2>1 DEF InReach
  <2>2. CASE LoopReturns /\ m = Top.node
    <3>1. stack # <<>> /\ stack \in Seq(Frame)
      BY <2>2 DEF LoopReturns, Started, NotStarted, IInv, TrayIsTruthful, TypeOK
    <3>2. /\ Len(stack) \in DOMAIN stack /\ Top = stack[Len(stack)]
          /\ Top.session \in Sessions
      BY <3>1, PopFacts, FrameFacts DEF Top
    <3>3. Top.valid
      BY <1>4, <2>2, <3>2 DEF IInv, FramesAreTrue, FrameIsTrue
    <3> HIDE DEF Top
    <3>4. Started
      BY <2>2, <3>3 DEF LoopReturns, NotStarted
    <3>5. /\ sess[Top.session] = "open"
          /\ shared' = [shared EXCEPT ![Top.session] = <<Top.node>>]
          /\ sess' = sess
      BY <1>1, <3>4 DEF Started, sessionVars
    <3>6. shared \in [Sessions -> Seq(Nodes)]
      BY DEF IInv, TrayIsTruthful, TypeOK
    <3>7. Contains(shared'[Top.session], m)
      BY <2>2, <3>2, <3>5, <3>6 DEF Contains
    <3> QED BY <1>3, <3>2, <3>5, <3>7 DEF InReach
  <2> QED BY <1>4, <2>1, <2>2, KnownStep
<1>5. ASSUME NEW s \in Sessions, sess[s] = "open", Contains(shared[s], m),
             Contains(listed, m)
      PROVE  InReach(m)'
  <2>1. sess'[s] = "open" /\ Contains(listed', m)
    BY <1>1, <1>5, ListStep
  <2>2. shared'[s] = shared[s]
    <3>1. CASE Started /\ s = Top.session
      <4>1. shared[s] # <<>>
        BY <1>5 DEF Contains
      <4>2. shared' = shared \/ "accepted_twice" \in slips'
        BY <1>5, <3>1, <4>1 DEF Started
      <4> QED BY <1>1, <4>2
    <3>2. ~DeleteSession(s)
      BY <1>5 DEF DeleteSession
    <3> QED BY <3>1, <3>2, SharedStep
  <2> QED BY <1>5, <2>1, <2>2 DEF InReach
<1>6. CASE node[m] = "live"
  <2>1. InReach(m)
    BY <1>2, <1>6 DEF IInv, LiveIsInReach
  <2> QED BY <1>4, <1>5, <1>6, <2>1 DEF InReach
<1>7. CASE node[m] # "live"
  <2>1. Starting(m) /\ node'[m] = "live"
    BY <1>1, <1>7, ListStep
  <2>2. Starting(m)'
    <3>1. ~(LoopReturns /\ m = Top.node)
      BY <1>1, <1>7 DEF LoopReturns, Started, NotStarted, streamVars
    <3> QED BY <2>1, <3>1, KnownStep
  <2> QED BY <2>2 DEF InReach
<1> QED BY <1>6, <1>7

---------------------------------------------------------------------------
(* The theorems *)

\* Every step keeps the invariant.
LEMMA StepKeepsInvariant == IInv /\ [Next]_vars => IInv'
<1> SUFFICES ASSUME IInv, [Next]_vars PROVE IInv'
  OBVIOUS
<1>1. CASE Next
  <2>1. TrayIsTruthful' /\ SessionsAreBooked'
    BY <1>1, TypeStep, BookingStep DEF TrayIsTruthful
  <2>2. ListIsLive'
    BY <1>1, StreamsStep DEF NodesStep
  <2>3. CallsAreOrdered' /\ FramesAreTrue' /\ LiveIsListed' /\ LiveIsInReach'
    BY <1>1, CallsStep, FramesStep, ListedStep, ReachStep
  <2> QED BY <2>1, <2>2, <2>3 DEF IInv
<1>2. CASE UNCHANGED vars
  <2>1. /\ UNCHANGED <<life, stack, slips, sess, closedAt, watched, action, tray>>
        /\ UNCHANGED <<started, chooser, doomedAt, windows, requests, replies, shared>>
        /\ UNCHANGED <<node, owner, listed>>
    BY <1>2 DEF vars, sessionVars, callVars, dialogVars, streamVars
  <2>2. TrayIsTruthful' /\ SessionsAreBooked'
    BY <2>1 DEF IInv, TrayIsTruthful, TypeOK, TrayOffersStop, StaleActionIsRefused,
                SessionsAreBooked
  <2>3. ListIsLive' /\ CallsAreOrdered' /\ FramesAreTrue'
    BY <2>1 DEF IInv, ListIsLive, CallsAreOrdered, FramesAreTrue, FrameIsTrue
  <2>4. LiveIsListed' /\ LiveIsInReach'
    BY <2>1 DEF IInv, LiveIsListed, LiveIsInReach, InReach, Starting
  <2> QED BY <2>2, <2>3, <2>4 DEF IInv
<1> QED BY <1>1, <1>2

\* For every set of sessions and number of streams, the invariant holds: the
\* tray, the list of streams, the Start calls and the activations agree, and a
\* running stream is in the list and in reach until a named mishap.
THEOREM ScreenCastInvariant == Spec => []IInv
<1>1. Init => IInv
  <2> SUFFICES ASSUME Init PROVE IInv
    OBVIOUS
  <2>1. /\ life = "running" /\ watched = {} /\ action = {} /\ tray = FALSE
        /\ started = {} /\ windows = {} /\ requests = {} /\ stack = <<>> /\ listed = <<>> /\ slips = {}
        /\ \A s \in Sessions : /\ sess[s] = "none" /\ chooser[s] = "none"
                               /\ replies[s] = <<>> /\ shared[s] = <<>>
        /\ \A n \in Nodes : node[n] = "unused" /\ owner[n] = None
    BY DEF Init
  <2>2. TypeOK
    <3>1. /\ life \in Life /\ sess \in [Sessions -> Session]
          /\ chooser \in [Sessions -> Chooser] /\ node \in [Nodes -> Node]
          /\ owner \in [Nodes -> Sessions \cup {None}]
          /\ closedAt \in [Sessions -> Levels] /\ doomedAt \in [Sessions -> Levels]
      BY DEF Init, Life, Session, Levels, Chooser, Node
    <3>2. replies \in [Sessions -> Seq(Reply)] /\ shared \in [Sessions -> Seq(Nodes)]
      <4>1. <<>> \in Seq(Reply) /\ <<>> \in Seq(Nodes)
        OBVIOUS
      <4> QED BY <4>1 DEF Init
    <3>3. stack \in Seq(Frame) /\ listed \in Seq(Nodes)
      BY <2>1
    <3> QED BY <2>1, <3>1, <3>2, <3>3 DEF TypeOK
  <2>3. TrayIsTruthful /\ SessionsAreBooked /\ CallsAreOrdered
    BY <2>1, <2>2
    DEF TrayIsTruthful, TrayOffersStop, StaleActionIsRefused, SessionsAreBooked,
        CallsAreOrdered
  <2>4. DOMAIN listed = {} /\ DOMAIN stack = {}
    BY <2>1
  <2>5. ListIsLive /\ FramesAreTrue
    BY <2>4 DEF ListIsLive, FramesAreTrue, IsInjective
  <2>6. LiveIsListed /\ LiveIsInReach
    BY <2>1 DEF LiveIsListed, LiveIsInReach
  <2> QED BY <2>3, <2>5, <2>6 DEF IInv
<1> QED BY <1>1, StepKeepsInvariant, PTL DEF Spec

\* The tray has an entry for every open session and none for a closed one the
\* portal watched, and its icon is shown exactly while it has entries.
THEOREM TrayStaysTruthful == Spec => []TrayIsTruthful
<1>1. IInv => TrayIsTruthful
  BY DEF IInv
<1> QED BY <1>1, ScreenCastInvariant, PTL

\* However stops, timeouts and destructors nest, the list of streams never has
\* one that was deleted, nor one twice.
THEOREM StreamListIsLive == Spec => []ListIsLive
<1>1. IInv => ListIsLive
  BY DEF IInv
<1> QED BY <1>1, ScreenCastInvariant, PTL

\* A stream is captured out of reach of its session and its Start call only
\* after one of the four mishaps.
THEOREM StrayStreamsHaveCause == Spec => []OutOfReachHasCause
<1>1. IInv => OutOfReachHasCause
  BY DEF IInv, LiveIsInReach, OutOfReachHasCause
<1> QED BY <1>1, ScreenCastInvariant, PTL

\* Who answers a Start call: a chooser or a refusal, when there is no answer yet or
\* the chooser is to be deleted, or the activation on top of the stack, which has
\* one before it only if a chooser called it, and which says success only when a
\* session that is not deleted got the stream.
LEMMA ReplyStep ==
    ASSUME IInv, Next, NEW s \in Sessions, replies'[s] # replies[s]
    PROVE  \/ /\ replies[s] = <<>> \/ chooser[s] = "doomed"
              /\ Last(replies'[s]) # "success"
           \/ /\ LoopReturns /\ Len(stack) \in DOMAIN stack /\ s = Top.session
              /\ Top.dialog \/ replies[s] = <<>>
              /\ Last(replies'[s]) = "success" =>
                    /\ sess[s] # "deleted" /\ shared'[s] = <<Top.node>>
                    /\ owner[Top.node] = s
<1> DEFINE Goal == \/ /\ replies[s] = <<>> \/ chooser[s] = "doomed"
                      /\ Last(replies'[s]) # "success"
                   \/ /\ LoopReturns /\ Len(stack) \in DOMAIN stack /\ s = Top.session
                      /\ Top.dialog \/ replies[s] = <<>>
                      /\ Last(replies'[s]) = "success" =>
                            /\ sess[s] # "deleted" /\ shared'[s] = <<Top.node>>
                            /\ owner[Top.node] = s
<1>0. /\ CallsAreOrdered /\ shared \in [Sessions -> Seq(Nodes)]
  BY DEF IInv, TrayIsTruthful, TypeOK
<1>1. ASSUME NEW t \in Sessions, RejectChooser(t) PROVE Goal
  <2>1. /\ replies[s] = <<>> \/ chooser[s] = "doomed"
        /\ Last(replies'[s]) = "failure"
    BY <1>1, RejectFacts
  <2> QED BY <2>1
<1>2. ASSUME NEW t \in Sessions, Answer(t, "failure"),
             replies[t] = <<>> \/ chooser[t] = "doomed"
      PROVE  Goal
  <2>1. "failure" \in Reply
    BY DEF Reply
  <2>2. s = t /\ Last(replies'[s]) = "failure"
    BY <1>2, <2>1, AnswerFacts
  <2> QED BY <1>2, <2>2
<1>3. ASSUME NEW t \in Sessions, SessionClose(t) \/ TriggerAction(t) PROVE Goal
  BY <1>1, <1>3 DEF SessionClose, TriggerAction, Close, callVars
<1>4. ASSUME NEW t \in Sessions, StartRefused(t) \/ AcceptNothing(t) PROVE Goal
  BY <1>0, <1>2, <1>4 DEF StartRefused, AcceptNothing, Usable, Present, CallsAreOrdered
<1>5. ASSUME NEW t \in Sessions, Reject(t) \/ RequestClose(t) PROVE Goal
  BY <1>1, <1>5 DEF Reject, RequestClose
<1>6. ASSUME LoopReturns PROVE Goal
  <2>1. PICK r \in {"success", "failure"} : Return(Top, r) /\ (Started \/ r = "failure")
    BY <1>6 DEF LoopReturns, Started, NotStarted
  <2>2. stack # <<>> /\ r \in Reply
    BY <1>6, <2>1 DEF LoopReturns, Started, NotStarted, Reply
  <2>3. /\ Len(stack) \in DOMAIN stack /\ Top = stack[Len(stack)]
        /\ Top.session \in Sessions /\ Top.dialog \in BOOLEAN
        /\ Answer(Top.session, r)
    BY <2>1, <2>2, ReturnFacts
  <2>4. FrameIsTrue(Top)
    BY <2>3 DEF IInv, FramesAreTrue
  <2> HIDE DEF Top
  <2>5. s = Top.session /\ Last(replies'[s]) = r
    BY <2>2, <2>3, AnswerFacts
  <2>6. Top.dialog \/ replies[s] = <<>>
    BY <2>4, <2>5 DEF FrameIsTrue
  <2>7. ASSUME r = "success"
        PROVE  sess[s] # "deleted" /\ shared'[s] = <<Top.node>> /\ owner[Top.node] = s
    <3>1. CASE Return(Top, "failure")
      <4>1. "failure" \in Reply /\ Answer(Top.session, "failure")
        BY <3>1 DEF Reply, Return
      <4>2. Last(replies'[s]) = "failure"
        BY <2>3, <2>5, <4>1, AnswerFacts
      <4> QED BY <2>5, <2>7, <4>2
    <3>2. CASE ~Return(Top, "failure")
      <4>1. sess[s] # "deleted" /\ shared' = [shared EXCEPT ![s] = <<Top.node>>]
        BY <2>1, <2>5, <2>7, <3>2 DEF Started
      <4> QED BY <1>0, <2>4, <2>5, <4>1 DEF FrameIsTrue
    <3> QED BY <3>1, <3>2
  <2> QED BY <1>6, <2>3, <2>5, <2>6, <2>7
<1>7. ASSUME NEW t \in Sessions,
             \/ CreateSession(t) \/ StartRestored(t) \/ StartChooser(t)
             \/ Accept(t) \/ CloseWindow(t) \/ DeleteChooser(t) \/ DeleteSession(t)
      PROVE  Goal
  BY <1>7 DEF CreateSession, StartRestored, StartChooser, Accept, CloseWindow,
              DeleteChooser, DeleteSession, callVars
<1>8. ASSUME NEW i \in Nodes,
             Ready(i) \/ Failed(i) \/ Timeout(i) \/ ReadyUnheard(i) \/ StreamClosed(i)
      PROVE  Goal
  BY <1>8 DEF Ready, Failed, Timeout, ReadyUnheard, StreamClosed, callVars
<1> HIDE DEF Goal
<1>9. Goal
  BY <1>3, <1>4, <1>5, <1>6, <1>7, <1>8 DEF Next, Portal, Dialogs, Streaming
<1> QED BY <1>9 DEF Goal

\* A Start call gets a second answer only from a dialog that is starting a stream
\* for it, or that was answered and is not yet deleted.
THEOREM SecondAnswersComeFromDialogs == Spec => SecondAnswerNeedsDialog
<1> DEFINE A == \A s \in Sessions :
                   replies[s] # <<>> /\ replies'[s] # replies[s]
                      => \/ chooser[s] = "doomed"
                         \/ \E i \in DOMAIN stack : stack[i].session = s /\ stack[i].dialog
<1>1. IInv /\ [Next]_vars => [A]_vars
  <2> SUFFICES ASSUME IInv, Next PROVE A
    OBVIOUS
  <2> SUFFICES ASSUME NEW s \in Sessions, replies[s] # <<>>, replies'[s] # replies[s],
                      chooser[s] # "doomed"
               PROVE  \E i \in DOMAIN stack : stack[i].session = s /\ stack[i].dialog
    OBVIOUS
  <2>1. Len(stack) \in DOMAIN stack /\ s = Top.session /\ Top.dialog
    BY ReplyStep
  <2> QED BY <2>1 DEF Top
<1> HIDE DEF A
<1>2. []IInv /\ [][Next]_vars => [][A]_vars
  BY <1>1, PTL
<1>3. Spec => [][A]_vars
  BY <1>2, ScreenCastInvariant, PTL DEF Spec
<1> QED BY <1>3 DEF A, SecondAnswerNeedsDialog

\* A Start call is answered with success only for a session that is not deleted
\* and now knows the stream, which was started for it and is in the list or gone,
\* unless stopStreaming() has missed one; the tray can end an open one.
THEOREM SuccessStaysStoppable == Spec => SuccessIsStoppable
<1> DEFINE Listed(n) == \/ node'[n] = "gone" \/ Contains(listed', n)
                        \/ "wrong_stream" \in slips'
           A == \A s \in Sessions :
                   replies'[s] # replies[s] /\ Last(replies'[s]) = "success"
                      => /\ sess[s] # "deleted"
                         /\ sess[s] = "open" => s \in action /\ tray
                         /\ shared'[s] # <<>>
                         /\ \A i \in DOMAIN shared'[s] :
                               LET n == shared'[s][i]
                               IN  /\ owner[n] = s
                                   /\ \/ node'[n] = "gone" \/ Contains(listed', n)
                                      \/ "wrong_stream" \in slips'
<1>1. IInv /\ [Next]_vars => [A]_vars
  <2> SUFFICES ASSUME IInv, Next PROVE A
    OBVIOUS
  <2> SUFFICES ASSUME NEW s \in Sessions, replies'[s] # replies[s],
                      Last(replies'[s]) = "success"
               PROVE  /\ sess[s] # "deleted"
                      /\ sess[s] = "open" => s \in action /\ tray
                      /\ shared'[s] # <<>>
                      /\ \A i \in DOMAIN shared'[s] :
                            owner[shared'[s][i]] = s /\ Listed(shared'[s][i])
    OBVIOUS
  <2>1. sess[s] # "deleted" /\ shared'[s] = <<Top.node>> /\ owner[Top.node] = s
    BY ReplyStep
  <2>2. sess[s] = "open" => s \in action /\ tray
    BY DEF IInv, TrayIsTruthful, TrayOffersStop
  <2> HIDE DEF Top
  <2>3. Top.node \in Nodes /\ node'[Top.node] \in {"live", "gone"}
    <3>1. PICK n \in Nodes : shared'[s] = <<n>> /\ node'[n] \in {"live", "gone"}
      BY <2>1, SharedStep
    <3>2. n = Top.node
      BY <2>1, <3>1
    <3> QED BY <3>1, <3>2
  <2>4. Contains(shared'[s], Top.node)
    BY <2>1 DEF Contains
  <2>5. Listed(Top.node)
    BY <2>3, <2>4, ListedStep DEF LiveIsListed
  <2> HIDE DEF Listed
  <2> QED BY <2>1, <2>2, <2>5
<1> HIDE DEF A
<1>2. []IInv /\ [][Next]_vars => [][A]_vars
  BY <1>1, PTL
<1>3. Spec => [][A]_vars
  BY <1>2, ScreenCastInvariant, PTL DEF Spec
<1> QED BY <1>3 DEF A, SuccessIsStoppable

\* A watched session that is closed takes the stream it shares with it, unless
\* stopStreaming() missed one.
THEOREM ClosingStopsStreams == Spec => CloseStopsStreams
<1> DEFINE A == \A s \in watched :
                   sess[s] = "open" /\ sess'[s] = "closed" /\ "wrong_stream" \notin slips'
                      => \A i \in DOMAIN shared[s] : node'[shared[s][i]] # "live"
<1>1. IInv /\ [Next]_vars => [A]_vars
  <2> SUFFICES ASSUME IInv, Next PROVE A
    OBVIOUS
  <2>0. /\ watched \in SUBSET Sessions /\ sess \in [Sessions -> Session]
        /\ shared \in [Sessions -> Seq(Nodes)]
    BY DEF IInv, TrayIsTruthful, TypeOK
  <2> SUFFICES ASSUME NEW s \in watched, sess[s] = "open", sess'[s] = "closed",
                      "wrong_stream" \notin slips', NEW i \in DOMAIN shared[s],
                      node'[shared[s][i]] = "live"
               PROVE  FALSE
    OBVIOUS
  <2> DEFINE n == shared[s][i]
  <2>1. n \in Nodes /\ Contains(shared[s], n) /\ s \in Sessions
    BY <2>0 DEF Contains
  <2>2. ~Contains(listed, n)
    BY <2>1, ListStep
  <2>3. "wrong_stream" \notin slips
    BY <2>1, ListStep
  <2>4. node[n] # "live"
    BY <2>1, <2>2, <2>3 DEF IInv, LiveIsListed
  <2>5. sess' # sess /\ node' # node
    BY <2>4
  <2>6. PICK t \in Sessions : Close(t)
    BY <2>5 DEF Next, Portal, SessionClose, DeleteSession, TriggerAction, CreateSession,
         StartRefused,
         StartRestored, StartChooser, Dialogs, Accept, AcceptNothing, Reject,
         CloseWindow, RequestClose, DeleteChooser, Streaming, Ready, Failed, Timeout,
         ReadyUnheard, StreamClosed, LoopReturns, Started, NotStarted,
         sessionVars, callVars, streamVars
  <2> QED BY <2>1, <2>4, <2>6, CloseFacts DEF Stopped
<1> HIDE DEF A
<1>2. []IInv /\ [][Next]_vars => [][A]_vars
  BY <1>1, PTL
<1>3. Spec => [][A]_vars
  BY <1>2, ScreenCastInvariant, PTL DEF Spec
<1> QED BY <1>3 DEF A, CloseStopsStreams
============================================================================
