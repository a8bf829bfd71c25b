---------------------------- MODULE RoutingProofs ----------------------------
(***************************************************************************)
(* How far a packet travels, for any network, routes and logics: without   *)
(* bridges it is forwarded out of a gateway once, at its first hop, and    *)
(* every later hop takes a hop off its route.                              *)
(***************************************************************************)
EXTENDS Routing, FoldProofs

Events == [kind: {"ping", "pong", "flood"}, about: NodeIds]

Packets ==
    [sender: NodeIds, via: LinkIds, from: PacketRoutes, to: PacketRoutes, event: Events,
     ttl: Nat, trace: Seq(NodeIds), span: Nat]

(* Nobody's hop has been counted yet.                                      *)
Fresh == {p \in Packets : p.trace = <<>> /\ p.span = Len(p.to)}

Bridgeless(kinds) == \A n \in NodeIds : kinds[n] # "bridge"

(* A packet that was passed on is for a node on the link it is on, so no   *)
(* gateway forwards it out of there.                                       *)
Directed(s, p) ==
    p.trace # <<>> =>
        OnThisLink(s, p.via, Head(p.to).link) /\ Len(p.trace) <= 1 + p.span - Len(p.to)

Travelling(s, kinds) ==
    {p \in Packets : Bridgeless(kinds) => p \in Fresh \/ (p.trace # <<>> /\ Directed(s, p))}

FiniteSubsets(V) == {S \in SUBSET V : IsFiniteSet(S)}

RInv ==
    /\ net \in NetworkType
    /\ \A ask \in asks : ask.node \in NodeIds /\ ask.via \in LinkIds
                       /\ {ask.from, ask.to} \subseteq PacketRoutes
    /\ stuck \in [NodeIds -> FiniteSubsets(Fresh)]
    /\ air \in Seq(Travelling(net, logic))

-----------------------------------------------------------------------------
(* Finite sets of packets *)

LEMMA FewOf ==
    ASSUME NEW V, NEW x \in V
    PROVE  {x} \in FiniteSubsets(V) /\ {} \in FiniteSubsets(V)
BY FS_Singleton, FS_EmptySet DEF FiniteSubsets

(* What finitely many send is finite if what each sends is.                *)
LEMMA AllOf ==
    ASSUME NEW V, NEW I, IsFiniteSet(I), NEW f \in [I -> FiniteSubsets(V)]
    PROVE  UNION {f[i] : i \in I} \in FiniteSubsets(V)
<1> DEFINE T == {f[i] : i \in I}
<1>1. IsFiniteSet(T)
  <2>1. f \in Surjection(I, T)
    BY DEF Surjection
  <2> QED
    BY <2>1, FS_Surjection
<1>2. \A S \in T : S \in SUBSET V /\ IsFiniteSet(S)
  BY DEF FiniteSubsets
<1> HIDE DEF T
<1>3. IsFiniteSet(UNION T) /\ UNION T \in SUBSET V
  BY <1>1, <1>2, FS_UNION
<1> QED
  BY <1>3 DEF T, FiniteSubsets

LEMMA HandlesFew ==
    /\ \A S \in SUBSET NodeIds : IsFiniteSet(S)
    /\ \A S \in SUBSET LinkIds : IsFiniteSet(S)
BY RoutingAssumption, FS_Subset

LEMMA QueuedKeeps ==
    ASSUME NEW V, NEW q \in Seq(V), NEW packets \in FiniteSubsets(V)
    PROVE  Queued(q, packets) \in Seq(V)
<1> DEFINE S == packets \ ToSet(q)
           Q == Seq(V)
           pick == [s \in SUBSET S |-> CHOOSE x \in s : TRUE]
           step == [c \in S \X Q |-> Append(c[2], c[1])]
           Fold(g) == [s \in SUBSET S |-> IF s = {} THEN q ELSE Append(g[s \ {CHOOSE x \in s : TRUE}], CHOOSE x \in s : TRUE)]
           fold == CHOOSE g : g = Fold(g)
<1>1. Queued(q, packets) = fold[S]
  BY DEF Queued, FoldSet, MapThenFoldSet
<1>2. Steps(S, Q, q, pick, step)
  <2>1. IsFiniteSet(S)
    BY FS_Subset DEF FiniteSubsets
  <2>2. \A x \in S, v \in Q : step[<<x, v>>] \in Q
    <3> TAKE x \in S, v \in Q
    <3>1. x \in V
      BY DEF FiniteSubsets
    <3>2. step[<<x, v>>] = Append(v, x)
      OBVIOUS
    <3> QED
      BY <3>1, <3>2
  <2>3. q \in Q /\ \A s \in SUBSET S : s # {} => pick[s] \in s
    OBVIOUS
  <2> HIDE DEF Q, S, pick, step
  <2> QED
    BY <2>1, <2>2, <2>3 DEF Steps
<1>3. \A x \in S, v \in Q : step[<<x, v>>] = Append(v, x)
  OBVIOUS
<1> HIDE DEF Q, S
<1>4. \A s \in SUBSET S : s # {} => pick[s] = (CHOOSE x \in s : TRUE) /\ pick[s] \in S
  OBVIOUS
<1> HIDE DEF step, pick
<1>5. PICK g \in [SUBSET S -> Q] : IsFold(S, q, pick, step, g)
  BY <1>2, FoldExists
<1>6. g = Fold(g)
  <2>1. \A s \in SUBSET S : g[s] = Fold(g)[s]
    <3> TAKE s \in SUBSET S
    <3>1. CASE s = {}
      BY <1>5, <3>1 DEF IsFold
    <3>2. CASE s # {}
      <4>1. g[s \ {pick[s]}] \in Q
        BY <1>5
      <4>2. g[s] = Append(g[s \ {pick[s]}], pick[s])
        BY <1>3, <1>4, <1>5, <3>2, <4>1 DEF IsFold
      <4> QED
        BY <1>4, <3>2, <4>2
    <3> QED
      BY <3>1, <3>2
  <2> QED
    BY <1>5, <2>1
<1>7. fold = Fold(fold)
  BY <1>6
<1> HIDE DEF fold
<1>8. IsFoldWithin(S, Q, q, pick, step, fold)
  <2>1. fold[{}] = q
    BY <1>7
  <2>2. \A s \in SUBSET S : s # {} /\ fold[s \ {pick[s]}] \in Q =>
           fold[s] = step[<<pick[s], fold[s \ {pick[s]}]>>]
    <3> TAKE s \in SUBSET S
    <3> SUFFICES ASSUME s # {}, fold[s \ {pick[s]}] \in Q
                 PROVE  fold[s] = step[<<pick[s], fold[s \ {pick[s]}]>>]
      OBVIOUS
    <3>1. fold[s] = Append(fold[s \ {pick[s]}], pick[s])
      BY <1>4, <1>7
    <3> QED
      BY <1>3, <1>4, <3>1
  <2> QED
    BY <2>1, <2>2 DEF IsFoldWithin
<1>9. fold[S] \in Q
  BY <1>2, <1>8, FoldStays
<1> QED
  BY <1>1, <1>9 DEF Q

-----------------------------------------------------------------------------
(* What a logic sends *)

LEMMA NamesAreLabels ==
    ASSUME net \in NetworkType, NEW n \in NodeIds, NEW l \in LinkIds
    PROVE  /\ net.name[n] \in Names \cup Reserved \cup {Nil}
           /\ net.name[l] \in Names \cup Reserved \cup {Nil}
BY NetworkAssumption DEF NetworkType

LEMMA OneHop ==
    ASSUME net \in NetworkType, NEW n \in NodeIds, NEW l \in LinkIds
    PROVE  OwnRoute(n, l) \in PacketRoutes /\ <<Hop(Everyone, net.name[l])>> \in PacketRoutes
<1>1. \A h \in Hops : <<h>> \in PacketRoutes
  <2> TAKE h \in Hops
  <2>1. <<h>> \in Seq(Hops) /\ Len(<<h>>) = 1
    OBVIOUS
  <2> QED
    BY <2>1, RoutesAssumption DEF PacketRoutes, IsRoute
<1>2. Hop(net.name[n], net.name[l]) \in Hops /\ Hop(Everyone, net.name[l]) \in Hops
  BY NamesAreLabels, RoutesAssumption DEF Hop, Hops
<1> QED
  BY <1>1, <1>2 DEF OwnRoute

LEMMA RouteIs ==
    ASSUME NEW r \in PacketRoutes
    PROVE  r \in Seq(Hops) /\ Len(r) \in 1..MaxDepth /\ r # <<>> /\ MaxDepth \in Nat
<1>1. r \in Seq(Hops) /\ Len(r) \in 1..MaxDepth /\ MaxDepth \in Nat
  BY RoutesAssumption DEF PacketRoutes, IsRoute
<1>2. Len(<<>>) = 0 /\ 0 \notin 1..MaxDepth
  OBVIOUS
<1> QED
  BY <1>1, <1>2

LEMMA NewPacket ==
    ASSUME NEW n \in NodeIds, NEW l \in LinkIds, NEW from \in PacketRoutes, NEW to \in PacketRoutes,
           NEW event \in Events
    PROVE  Packet(n, l, from, to, event) \in Fresh
<1>1. Len(to) \in Nat /\ <<>> \in Seq(NodeIds) /\ DefaultTtl \in Nat
  BY RouteIs, RoutingAssumption
<1> QED
  BY <1>1 DEF Packet, Fresh, Packets

LEMMA RepliesFresh ==
    ASSUME net \in NetworkType, NEW n \in NodeIds, NEW l \in LinkIds, NEW p \in Packets, NEW event \in Events
    PROVE  Reply(n, l, p, event) \in FiniteSubsets(Fresh)
<1>1. p.from \in PacketRoutes
  BY DEF Packets
<1>2. Packet(n, l, OwnRoute(n, l), p.from, event) \in Fresh
  BY <1>1, OneHop, NewPacket
<1> QED
  BY <1>2, FewOf DEF Reply

LEMMA SentToAllFresh ==
    ASSUME net \in NetworkType, NEW n \in NodeIds, NEW l \in LinkIds, NEW event \in Events
    PROVE  SendAll(n, l, event) \in FiniteSubsets(Fresh)
<1>1. Packet(n, l, OwnRoute(n, l), <<Hop(Everyone, net.name[l])>>, event) \in Fresh
  BY OneHop, NewPacket
<1> QED
  BY <1>1, FewOf DEF SendAll

LEMMA TickSends ==
    ASSUME RInv, NEW n \in NodeIds
    PROVE  OnTick(n) \in FiniteSubsets(Fresh)
<1>1. net \in NetworkType /\ stuck[n] \in FiniteSubsets(Fresh)
  BY DEF RInv
<1>2. /\ net.subscriptions[n] \in SUBSET LinkIds /\ UsableLinks(net, n) \in SUBSET LinkIds
      /\ net.parent[n] \in NodeIds \cup {Nil}
  BY <1>1 DEF NetworkType, UsableLinks
<1>3. Ping(n) \in Events /\ Flood \in Events
  BY NetworkAssumption DEF Ping, Flood, Events
<1>4. BeaconTick(n) \in FiniteSubsets(Fresh)
  <2> DEFINE f == [l \in net.subscriptions[n] |-> SendAll(n, l, Ping(n))]
  <2>1. f \in [net.subscriptions[n] -> FiniteSubsets(Fresh)]
    BY <1>1, <1>2, <1>3, SentToAllFresh
  <2>2. BeaconTick(n) = UNION {f[l] : l \in net.subscriptions[n]}
    BY DEF BeaconTick
  <2> HIDE DEF f
  <2> QED
    BY <1>2, <2>1, <2>2, HandlesFew, AllOf
<1>5. UNION {SendAll(n, l, Flood) : l \in UsableLinks(net, n)} \in FiniteSubsets(Fresh)
  <2> DEFINE f == [l \in UsableLinks(net, n) |-> SendAll(n, l, Flood)]
  <2>1. f \in [UsableLinks(net, n) -> FiniteSubsets(Fresh)]
    BY <1>1, <1>2, <1>3, SentToAllFresh
  <2>2. UNION {SendAll(n, l, Flood) : l \in UsableLinks(net, n)} = UNION {f[l] : l \in UsableLinks(net, n)}
    OBVIOUS
  <2> HIDE DEF f
  <2> QED
    BY <1>2, <2>1, <2>2, HandlesFew, AllOf
<1>6. ScannerTick(n) \in FiniteSubsets(Fresh)
  <2> DEFINE parent == net.parent[n]
             buses == {l \in net.subscriptions[n] : net.owner[l] = parent}
             bus == CHOOSE l \in buses : TRUE
             asked == {Packet(n, bus, OwnRoute(n, bus), <<Hop(Everyone, net.name[l])>>, Ping(n)) :
                         l \in net.subscriptions[parent]}
  <2>1. CASE parent = Nil \/ buses = {}
    <3>1. ScannerTick(n) = {}
      BY <2>1 DEF ScannerTick
    <3> QED
      BY <3>1, FS_EmptySet DEF FiniteSubsets
  <2>2. CASE parent # Nil /\ buses # {}
    <3>1. bus \in LinkIds /\ parent \in NodeIds
      BY <1>2, <2>2
    <3>2. ScannerTick(n) = asked
      BY <2>2 DEF ScannerTick
    <3>3. net.subscriptions[parent] \in SUBSET LinkIds
      BY <1>1, <3>1 DEF NetworkType
    <3> HIDE DEF bus, parent
    <3> DEFINE f == [l \in net.subscriptions[parent] |->
                       {Packet(n, bus, OwnRoute(n, bus), <<Hop(Everyone, net.name[l])>>, Ping(n))}]
    <3>4. f \in [net.subscriptions[parent] -> FiniteSubsets(Fresh)]
      <4>1. \A l \in net.subscriptions[parent] :
               Packet(n, bus, OwnRoute(n, bus), <<Hop(Everyone, net.name[l])>>, Ping(n)) \in Fresh
        BY <1>1, <1>3, <3>1, <3>3, OneHop, NewPacket
      <4> QED
        BY <4>1, FewOf
    <3>5. asked = UNION {f[l] : l \in net.subscriptions[parent]}
      OBVIOUS
    <3> HIDE DEF f, asked
    <3> QED
      BY <3>2, <3>3, <3>4, <3>5, HandlesFew, AllOf, SMTT(30)
  <2> QED
    BY <2>1, <2>2
<1>7. {} \in FiniteSubsets(Fresh)
  BY FS_EmptySet DEF FiniteSubsets
<1> QED
  BY <1>1, <1>4, <1>5, <1>6, <1>7 DEF OnTick

-----------------------------------------------------------------------------
(* What a logic passes on *)

LEMMA FreshTravels ==
    Fresh \subseteq Travelling(net, logic)
    /\ FiniteSubsets(Fresh) \subseteq FiniteSubsets(Travelling(net, logic))
BY DEF Fresh, Travelling, FiniteSubsets

(* The packet a listener is handed.                                        *)
LEMMA CopyIs ==
    ASSUME NEW p \in Packets, NEW n \in NodeIds
    PROVE  LET c == CopyFor(n, p)
           IN  /\ c \in Packets /\ c.trace # <<>> /\ Len(c.trace) = Len(p.trace) + 1
               /\ c.to = p.to /\ c.from = p.from /\ c.span = p.span /\ c.via = p.via
               /\ c.event = p.event
<1> DEFINE ttl == IF p.ttl = 0 THEN 0 ELSE p.ttl - 1
           trace == Append(p.trace, n)
           c == [p EXCEPT !.ttl = ttl, !.trace = trace]
<1>1. CopyFor(n, p) = c
  BY DEF CopyFor, Packets
<1>2. p.ttl \in Nat /\ p.trace \in Seq(NodeIds)
  BY DEF Packets
<1>3. ttl \in Nat
  BY <1>2
<1>4. trace \in Seq(NodeIds) /\ trace # <<>> /\ Len(trace) = Len(p.trace) + 1
  <2>1. \A t \in Seq(NodeIds) : /\ Append(t, n) \in Seq(NodeIds)
                               /\ Len(Append(t, n)) = Len(t) + 1 /\ Len(t) \in Nat
    OBVIOUS
  <2>2. trace \in Seq(NodeIds) /\ Len(trace) = Len(p.trace) + 1 /\ Len(p.trace) \in Nat
    BY <1>2, <2>1
  <2>3. Len(<<>>) = 0
    OBVIOUS
  <2> HIDE DEF trace
  <2> QED
    BY <2>2, <2>3
<1> HIDE DEF ttl, trace
<1>5. c \in Packets
  BY <1>3, <1>4 DEF Packets
<1>6. /\ c.trace = trace /\ c.to = p.to /\ c.from = p.from /\ c.span = p.span /\ c.via = p.via
      /\ c.event = p.event
  BY DEF Packets
<1> HIDE DEF c
<1> QED
  BY <1>1, <1>4, <1>5, <1>6

LEMMA ForwardIs ==
    ASSUME NEW c \in Packets, NEW n \in NodeIds, NEW l \in LinkIds,
           NEW from \in PacketRoutes, NEW to \in PacketRoutes
    PROVE  \E f \in Packets : /\ Forward(n, c, l, from, to) = {f}
                              /\ f.via = l /\ f.to = to /\ f.trace = c.trace /\ f.span = c.span
<1> DEFINE f == [c EXCEPT !.sender = n, !.via = l, !.from = from, !.to = to]
<1>1. Forward(n, c, l, from, to) = {f}
  BY DEF Forward
<1>2. f \in Packets
  BY DEF Packets
<1>3. f.via = l /\ f.to = to /\ f.trace = c.trace /\ f.span = c.span
  BY DEF Packets
<1> HIDE DEF f
<1> QED
  BY <1>1, <1>2, <1>3

(* Passed on to a link its next hop is on, with a hop counted for every    *)
(* one taken off its route and one more.                                   *)
LEMMA ForwardTravels ==
    ASSUME NEW c \in Packets, NEW n \in NodeIds, NEW l \in LinkIds,
           NEW from \in PacketRoutes, NEW to \in PacketRoutes, c.trace # <<>>,
           Bridgeless(logic) =>
              OnThisLink(net, l, Head(to).link) /\ Len(c.trace) <= 1 + c.span - Len(to)
    PROVE  Forward(n, c, l, from, to) \in FiniteSubsets(Travelling(net, logic))
<1>1. PICK f \in Packets : /\ Forward(n, c, l, from, to) = {f}
                           /\ f.via = l /\ f.to = to /\ f.trace = c.trace /\ f.span = c.span
  BY ForwardIs
<1>2. Bridgeless(logic) => Directed(net, f)
  BY <1>1 DEF Directed
<1>3. f \in Travelling(net, logic)
  BY <1>1, <1>2 DEF Travelling
<1> QED
  BY <1>1, <1>3, FewOf

LEMMA GatewayPassesOut ==
    ASSUME net \in NetworkType, NEW c \in Packets, NEW n \in NodeIds, c.trace # <<>>,
           Bridgeless(logic) => Len(c.trace) <= 1 + c.span - Len(c.to)
    PROVE  ForwardOut(n, c) \in FiniteSubsets(Travelling(net, logic))
<1> DEFINE V == Travelling(net, logic)
           outs == ExternalLinkNamed(n, Head(c.to).link)
           sent(l) == UNION {Forward(n, c, l, from, c.to) : from \in ViaMe(n, l, c.from)}
           f == [l \in outs |-> sent(l)]
<1>1. c.to \in PacketRoutes /\ c.from \in PacketRoutes
  BY DEF Packets
<1>2. outs \in SUBSET LinkIds /\ \A l \in outs : OnThisLink(net, l, Head(c.to).link)
  <2>1. net.subscriptions[n] \in SUBSET LinkIds
    BY DEF NetworkType
  <2> QED
    BY <2>1 DEF ExternalLinkNamed, OnThisLink
<1>3. ASSUME NEW l \in outs PROVE sent(l) \in FiniteSubsets(V)
  <2>1. l \in LinkIds
    BY <1>2
  <2>2. CASE Len(c.from) = MaxDepth
    <3>1. sent(l) = {}
      BY <2>2 DEF ViaMe, Prepended
    <3> QED
      BY <3>1, FS_EmptySet DEF FiniteSubsets
  <2>3. CASE Len(c.from) # MaxDepth
    <3> DEFINE from == <<Hop(net.name[n], net.name[l])>> \o c.from
    <3>1. ViaMe(n, l, c.from) = {from}
      BY <2>3 DEF ViaMe, Prepended
    <3>2. from \in PacketRoutes
      <4>1. Hop(net.name[n], net.name[l]) \in Hops
        BY <2>1, NamesAreLabels DEF Hop, Hops
      <4>2. c.from \in Seq(Hops) /\ Len(c.from) \in 1..MaxDepth /\ MaxDepth \in Nat
        BY <1>1, RouteIs
      <4>3. \A h \in Hops, r \in Seq(Hops) : /\ <<h>> \o r \in Seq(Hops) /\ Len(<<h>> \o r) = 1 + Len(r)
                                             /\ Len(r) \in Nat
        OBVIOUS
      <4>4. from \in Seq(Hops) /\ Len(from) = 1 + Len(c.from)
        BY <4>1, <4>2, <4>3
      <4> HIDE DEF from
      <4> QED
        BY <2>3, <4>2, <4>4 DEF PacketRoutes, IsRoute
    <3> HIDE DEF from
    <3>3. sent(l) = Forward(n, c, l, from, c.to)
      BY <3>1
    <3>4. Forward(n, c, l, from, c.to) \in FiniteSubsets(V)
      BY <1>1, <1>2, <2>1, <3>2, ForwardTravels
    <3> QED
      BY <3>3, <3>4
  <2> QED
    BY <2>2, <2>3
<1> HIDE DEF V, outs, sent
<1>4. f \in [outs -> FiniteSubsets(V)] /\ IsFiniteSet(outs)
  BY <1>2, <1>3, HandlesFew
<1>5. ForwardOut(n, c) = UNION {f[l] : l \in outs}
  BY DEF ForwardOut, outs, sent
<1> HIDE DEF f
<1>6. UNION {f[l] : l \in outs} \in FiniteSubsets(V)
  BY <1>4, AllOf
<1> QED
  BY <1>5, <1>6 DEF V

LEMMA GatewayPassesIn ==
    ASSUME net \in NetworkType, NEW c \in Packets, NEW n \in NodeIds, c.trace # <<>>,
           NEW next \in Popped(c.to),
           Bridgeless(logic) => Len(c.trace) <= 2 + c.span - Len(c.to)
    PROVE  ForwardIn(n, c, next) \in FiniteSubsets(Travelling(net, logic))
<1> DEFINE V == Travelling(net, logic)
           ins == InternalLinkNamed(n, Head(next).link)
           f == [l \in ins |-> Forward(n, c, l, c.from, next)]
<1>1. c.to \in PacketRoutes /\ c.from \in PacketRoutes /\ c.span \in Nat /\ c.trace \in Seq(NodeIds)
  BY DEF Packets
<1>2. ins \in SUBSET LinkIds /\ \A l \in ins : OnThisLink(net, l, Head(next).link)
  <2>1. net.internal[n] \in SUBSET LinkIds
    BY DEF NetworkType
  <2> QED
    BY <2>1 DEF InternalLinkNamed, OnThisLink
<1>3. next \in PacketRoutes /\ Len(next) = Len(c.to) - 1 /\ Len(next) \in Nat /\ Len(c.to) \in Nat
  <2>1. Len(c.to) > 1 /\ next = Tail(c.to)
    BY DEF Popped
  <2>2. c.to \in Seq(Hops) /\ Len(c.to) \in 1..MaxDepth /\ MaxDepth \in Nat /\ c.to # <<>>
    BY <1>1, RouteIs
  <2>3. Tail(c.to) \in Seq(Hops) /\ Len(Tail(c.to)) = Len(c.to) - 1
    BY <2>2
  <2> QED
    BY <2>1, <2>2, <2>3 DEF PacketRoutes, IsRoute
<1>4. Bridgeless(logic) => Len(c.trace) <= 1 + c.span - Len(next)
  BY <1>1, <1>3
<1>5. f \in [ins -> FiniteSubsets(V)]
  <2>1. \A l \in ins : Forward(n, c, l, c.from, next) \in FiniteSubsets(V)
    BY <1>1, <1>2, <1>3, <1>4, ForwardTravels
  <2> QED
    BY <2>1
<1>6. ForwardIn(n, c, next) = UNION {f[l] : l \in ins}
  BY DEF ForwardIn
<1> HIDE DEF f, V, ins
<1>7. UNION {f[l] : l \in ins} \in FiniteSubsets(V)
  BY <1>2, <1>5, HandlesFew, AllOf
<1> QED
  BY <1>6, <1>7 DEF V

LEMMA BridgePasses ==
    ASSUME net \in NetworkType, NEW c \in Packets, NEW n \in NodeIds, c.trace # <<>>,
           ~Bridgeless(logic), NEW l
    PROVE  UNION {Forward(n, c, other, c.from, c.to) : other \in UsableLinks(net, n) \ {l}}
              \in FiniteSubsets(Travelling(net, logic))
<1> DEFINE V == Travelling(net, logic)
           others == UsableLinks(net, n) \ {l}
           f == [k \in others |-> Forward(n, c, k, c.from, c.to)]
<1>1. c.to \in PacketRoutes /\ c.from \in PacketRoutes
  BY DEF Packets
<1>2. others \in SUBSET LinkIds
  BY DEF NetworkType, UsableLinks
<1>3. f \in [others -> FiniteSubsets(V)]
  <2>1. \A k \in others : Forward(n, c, k, c.from, c.to) \in FiniteSubsets(V)
    BY <1>1, <1>2, ForwardTravels
  <2> QED
    BY <2>1
<1>4. UNION {Forward(n, c, k, c.from, c.to) : k \in others} = UNION {f[k] : k \in others}
  OBVIOUS
<1> HIDE DEF f, V
<1>5. UNION {f[k] : k \in others} \in FiniteSubsets(V)
  BY <1>2, <1>3, HandlesFew, AllOf
<1> QED
  BY <1>4, <1>5 DEF V

(* On the link its next hop is on, a packet is nobody's to forward out.    *)
LEMMA OutFirst ==
    ASSUME NEW p \in Travelling(net, logic), NEW n \in NodeIds, Bridgeless(logic)
    PROVE  LET c == CopyFor(n, p)
           IN  /\ Len(c.trace) <= 2 + c.span - Len(c.to)
               /\ Nil # RuleFor(n, p) /\ RuleFor(n, p) = "gateway" =>
                     Len(c.trace) <= 1 + c.span - Len(c.to)
<1> DEFINE c == CopyFor(n, p)
<1>1. p \in Packets
  BY DEF Travelling
<1>2. Len(c.trace) = Len(p.trace) + 1 /\ c.span = p.span /\ c.to = p.to
  BY <1>1, CopyIs
<1>3. Len(p.trace) \in Nat /\ p.span \in Nat /\ Len(p.to) \in Nat
  BY <1>1, RouteIs DEF Packets
<1>4. Len(<<>>) = 0
  OBVIOUS
<1> HIDE DEF c
<1>5. CASE p \in Fresh
  <2>1. Len(p.trace) = 0 /\ p.span = Len(p.to)
    BY <1>4, <1>5 DEF Fresh
  <2> QED
    BY <1>2, <1>3, <2>1 DEF c
<1>6. CASE p.trace # <<>> /\ Directed(net, p)
  <2>1. OnThisLink(net, p.via, Head(p.to).link) /\ Len(p.trace) <= 1 + p.span - Len(p.to)
    BY <1>6 DEF Directed
  <2>2. Nil # RuleFor(n, p) => RuleFor(n, p) # "gateway"
    BY <2>1 DEF RuleFor, Accepts, Bridgeless
  <2> QED
    BY <1>2, <1>3, <2>1, <2>2 DEF c
<1> QED
  BY <1>5, <1>6 DEF Travelling

LEMMA ReceivedTravels ==
    ASSUME net \in NetworkType, NEW p \in Travelling(net, logic), NEW n \in NodeIds, RuleFor(n, p) # Nil
    PROVE  OnReceived(n, p.via, RuleFor(n, p), CopyFor(n, p)) \in FiniteSubsets(Travelling(net, logic))
<1> DEFINE V == FiniteSubsets(Travelling(net, logic))
           c == CopyFor(n, p)
           rule == RuleFor(n, p)
           l == p.via
<1>1. p \in Packets /\ l \in LinkIds
  BY DEF Travelling, Packets
<1>2. c \in Packets /\ c.trace # <<>> /\ c.event \in Events
  BY <1>1, CopyIs DEF Packets
<1>3. /\ Bridgeless(logic) => Len(c.trace) <= 2 + c.span - Len(c.to)
      /\ Bridgeless(logic) /\ rule = "gateway" => Len(c.trace) <= 1 + c.span - Len(c.to)
  BY OutFirst
<1> HIDE DEF c, rule, l
<1>4. {} \in V /\ FiniteSubsets(Fresh) \subseteq V
  BY FreshTravels, FS_EmptySet DEF FiniteSubsets
<1> HIDE DEF V
<1>5. AnswerPing(n, l, c) \in V
  <2>1. [c.event EXCEPT !.kind = "pong"] \in Events
    BY <1>2 DEF Events
  <2>2. Reply(n, l, c, [c.event EXCEPT !.kind = "pong"]) \in V
    BY <1>1, <1>2, <1>4, <2>1, RepliesFresh
  <2> QED
    BY <1>4, <2>2 DEF AnswerPing
<1>6. GatewayReceives(n, l, rule, c) \in V
  <2>1. CASE rule = "gateway"
    <3>1. ForwardOut(n, c) \in V
      BY <1>2, <1>3, <2>1, GatewayPassesOut DEF V
    <3> QED
      BY <2>1, <3>1 DEF GatewayReceives
  <2>2. CASE rule = "addressed" /\ Popped(c.to) # {}
    <3>1. PICK next : Popped(c.to) = {next}
      BY <2>2 DEF Popped
    <3>2. ForwardIn(n, c, next) \in V
      BY <1>2, <1>3, <3>1, GatewayPassesIn DEF V
    <3>3. GatewayReceives(n, l, rule, c) = UNION {ForwardIn(n, c, x) : x \in {next}}
      BY <2>2, <3>1 DEF GatewayReceives
    <3> QED
      BY <3>2, <3>3
  <2>3. CASE rule # "gateway" /\ ~(rule = "addressed" /\ Popped(c.to) # {})
    BY <1>5, <2>3 DEF GatewayReceives
  <2> QED
    BY <2>1, <2>2, <2>3
<1>7. ASSUME logic[n] = "bridge" PROVE BridgeReceives(n, l, rule, c) \in V
  <2>1. ~Bridgeless(logic)
    BY <1>7 DEF Bridgeless
  <2>2. UNION {Forward(n, c, other, c.from, c.to) : other \in UsableLinks(net, n) \ {l}} \in V
    BY <1>2, <2>1, BridgePasses DEF V
  <2> QED
    BY <1>5, <2>2 DEF BridgeReceives
<1>8. Reply(n, l, c, c.event) \in V /\ SendAll(n, l, c.event) \in V
  BY <1>1, <1>2, <1>4, RepliesFresh, SentToAllFresh
<1>9. OnReceived(n, l, rule, c) \in V
  BY <1>4, <1>5, <1>6, <1>7, <1>8 DEF OnReceived
<1> QED
  BY <1>9 DEF V, c, rule, l

-----------------------------------------------------------------------------
(* The invariant *)

LEMMA TravelStarts == Init => RInv
<1> SUFFICES ASSUME Init PROVE RInv
  OBVIOUS
<1>1. PICK scene \in Scenes : net = scene.net /\ logic = scene.logic /\ asks = scene.asks
  BY DEF Init
<1>2. net \in NetworkType
  BY <1>1, RoutingAssumption DEF InOrder
<1>3. ASSUME NEW ask \in asks
      PROVE  ask.node \in NodeIds /\ ask.via \in LinkIds /\ {ask.from, ask.to} \subseteq PacketRoutes
  <2>1. /\ {ask.from, ask.to} \subseteq PacketRoutes
        /\ CanUseLink(net, ask.node, ask.via)
    BY <1>1, <1>3, RoutingAssumption
  <2> QED
    BY <1>2, <2>1 DEF CanUseLink, NetworkType
<1>5. stuck \in [NodeIds -> FiniteSubsets(Fresh)]
  <2>1. {} \in FiniteSubsets(Fresh)
    BY FS_EmptySet DEF FiniteSubsets
  <2> QED
    BY <2>1 DEF Init
<1>6. air \in Seq(Travelling(net, logic))
  BY DEF Init
<1> QED
  BY <1>2, <1>3, <1>5, <1>6 DEF RInv

LEMMA SendingTravels ==
    ASSUME RInv, NEW packets \in FiniteSubsets(Travelling(net, logic)),
           UNCHANGED <<net, logic, stuck>>, asks' \subseteq asks, air' = Queued(air, packets)
    PROVE  RInv'
<1>1. Queued(air, packets) \in Seq(Travelling(net, logic))
  <2> DEFINE V == Travelling(net, logic)
  <2>1. air \in Seq(V)
    BY DEF RInv
  <2> HIDE DEF V
  <2>2. Queued(air, packets) \in Seq(V)
    BY <2>1, QueuedKeeps DEF V
  <2> QED
    BY <2>2 DEF V
<1> QED
  BY <1>1 DEF RInv

LEMMA TravelKeeps == RInv /\ [Next]_vars => RInv'
<1> SUFFICES ASSUME RInv, [Next]_vars PROVE RInv'
  OBVIOUS
<1>1. ASSUME NEW ask \in asks, Ask(ask) PROVE RInv'
  <2> DEFINE p == Packet(ask.node, ask.via, ask.from, ask.to, Ping(ask.node))
  <2>1. ask.node \in NodeIds /\ ask.via \in LinkIds /\ ask.from \in PacketRoutes /\ ask.to \in PacketRoutes
    BY <1>1 DEF RInv
  <2>2. Ping(ask.node) \in Events
    BY <2>1 DEF Ping, Events
  <2>3. p \in Fresh
    BY <2>1, <2>2, NewPacket
  <2>4. air' = Queued(air, {p}) /\ UNCHANGED <<net, logic, stuck>> /\ asks' \subseteq asks
    BY <1>1 DEF Ask
  <2> HIDE DEF p
  <2>5. {p} \in FiniteSubsets(Travelling(net, logic))
    BY <2>3, FewOf, FreshTravels
  <2> QED
    BY <2>4, <2>5, SendingTravels
<1>2. ASSUME NEW due \in SUBSET NodeIds, TickLogics(due) PROVE RInv'
  <2> DEFINE f == [n \in due |-> OnTick(n)]
  <2>1. f \in [due -> FiniteSubsets(Fresh)]
    BY TickSends
  <2>2. UNION {OnTick(n) : n \in due} = UNION {f[n] : n \in due}
    OBVIOUS
  <2> HIDE DEF f
  <2>3. UNION {OnTick(n) : n \in due} \in FiniteSubsets(Travelling(net, logic))
    BY <2>1, <2>2, HandlesFew, AllOf, FreshTravels
  <2>4. /\ air' = Queued(air, UNION {OnTick(n) : n \in due})
        /\ UNCHANGED <<net, logic, stuck>> /\ asks' \subseteq asks
    BY <1>2 DEF TickLogics
  <2> QED
    BY <2>3, <2>4, SendingTravels
<1>3. ASSUME Transmit PROVE RInv'
  <2> DEFINE V == Travelling(net, logic)
             p == Head(air)
             receivers == {n \in Takers(p) : CopyFor(n, p).ttl > 0}
             f == [n \in receivers |-> OnReceived(n, p.via, RuleFor(n, p), CopyFor(n, p))]
             sent == UNION {OnReceived(n, p.via, RuleFor(n, p), CopyFor(n, p)) : n \in receivers}
  <2>1. /\ net \in NetworkType /\ air \in Seq(V) /\ air # <<>> /\ net' = net /\ asks' = asks
        /\ air' = Queued(Tail(air), sent)
        /\ stuck' = [n \in NodeIds |->
              IF n \in receivers /\ logic[n] = "replayer" /\ stuck[n] = {}
              THEN Reply(n, p.via, p, p.event) ELSE stuck[n]]
        /\ logic' = [n \in NodeIds |->
              IF n \in receivers /\ logic[n] = "crasher" THEN NoLogic ELSE logic[n]]
    BY <1>3 DEF Transmit, RInv
  <2>2. p \in V /\ Tail(air) \in Seq(V)
    <3> HIDE DEF V
    <3> QED
      BY <2>1
  <2>3. p \in Packets /\ p.via \in LinkIds /\ p.event \in Events
    BY <2>2 DEF Travelling, Packets
  <2>4. receivers \subseteq NodeIds /\ \A n \in receivers : RuleFor(n, p) # Nil
    <3>1. Audience(net, p.via) \subseteq NodeIds
      BY <2>1, <2>3 DEF Audience, NetworkType
    <3> HIDE DEF p
    <3> QED
      BY <3>1 DEF Takers
  <2> HIDE DEF p, receivers
  <2>5. f \in [receivers -> FiniteSubsets(V)]
    <3>1. \A n \in receivers : OnReceived(n, p.via, RuleFor(n, p), CopyFor(n, p)) \in FiniteSubsets(V)
      BY <2>1, <2>2, <2>4, ReceivedTravels
    <3> HIDE DEF V
    <3> QED
      BY <3>1
  <2>6. sent = UNION {f[n] : n \in receivers}
    OBVIOUS
  <2>7. sent \in FiniteSubsets(V)
    <3> HIDE DEF V, f, sent
    <3> QED
      BY <2>4, <2>5, <2>6, HandlesFew, AllOf
  <2>8. air' \in Seq(V)
    <3> HIDE DEF V, f, sent
    <3> QED
      BY <2>1, <2>2, <2>7, QueuedKeeps
  <2>9. stuck' \in [NodeIds -> FiniteSubsets(Fresh)]
    <3>1. \A n \in NodeIds : Reply(n, p.via, p, p.event) \in FiniteSubsets(Fresh)
      BY <2>1, <2>3, RepliesFresh
    <3>2. stuck \in [NodeIds -> FiniteSubsets(Fresh)]
      BY DEF RInv
    <3> QED
      BY <2>1, <3>1, <3>2
  <2>10. Bridgeless(logic') => Bridgeless(logic)
    BY <2>1 DEF Bridgeless
  <2>11. Travelling(net, logic) \subseteq Travelling(net, logic')
    BY <2>10 DEF Travelling
  <2>12. air' \in Seq(Travelling(net', logic'))
    <3> DEFINE W == Travelling(net, logic')
    <3>1. V \subseteq W
      BY <2>11
    <3> HIDE DEF V, W
    <3>2. air' \in Seq(W)
      BY <2>8, <3>1
    <3> QED
      BY <2>1, <3>2 DEF W
  <2>13. net' \in NetworkType /\ \A ask \in asks' : /\ ask.node \in NodeIds /\ ask.via \in LinkIds
                                                   /\ {ask.from, ask.to} \subseteq PacketRoutes
    BY <2>1 DEF RInv
  <2> QED
    BY <2>9, <2>12, <2>13 DEF RInv
<1>4. CASE UNCHANGED vars
  BY <1>4 DEF RInv, vars
<1> QED
  BY <1>1, <1>2, <1>3, <1>4 DEF Next

-----------------------------------------------------------------------------
(* Theorems *)

(* Whatever is asked, sent on a tick, passed on or recorded, what is on    *)
(* its way is new, or is where its next hop is.                            *)
THEOREM RoutingInvariant == Spec => []RInv
BY TravelStarts, TravelKeeps, PTL DEF Spec

(* "Route depth bounds this, so routed nodes alone cannot make an endless  *)
(* loop": for any network, any depth of routes and any other logics, if no *)
(* node is a bridge.                                                       *)
THEOREM TravelIsBounded == Spec => []RoutesBoundTravel
<1>1. RInv => RoutesBoundTravel
  <2> SUFFICES ASSUME RInv, \A n \in NodeIds : logic[n] # "bridge", NEW p \in ToSet(air)
               PROVE  Len(p.trace) <= 1 + p.span - Len(p.to)
    BY DEF RoutesBoundTravel
  <2>1. p \in Travelling(net, logic)
    <3> DEFINE V == Travelling(net, logic)
    <3>1. air \in Seq(V)
      BY DEF RInv
    <3> HIDE DEF V
    <3>2. p \in V
      BY <3>1 DEF ToSet
    <3> QED
      BY <3>2 DEF V
  <2>2. CASE p \in Fresh
    <3>1. p.trace = <<>> /\ p.span = Len(p.to) /\ p.to \in PacketRoutes
      BY <2>2 DEF Fresh, Packets
    <3>2. Len(<<>>) = 0 /\ Len(p.to) \in Nat
      BY <3>1, RouteIs
    <3> QED
      BY <3>1, <3>2
  <2>3. CASE p.trace # <<>> /\ Directed(net, p)
    BY <2>3 DEF Directed
  <2> QED
    BY <2>1, <2>2, <2>3 DEF Travelling, Bridgeless
<1> QED
  BY <1>1, RoutingInvariant, PTL
=============================================================================
